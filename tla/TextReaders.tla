----------------------------- MODULE TextReaders ----------------------------
(* Reading examples from lines, and the feature groups they are read into. *)
(* The two parts share nothing.                                            *)
EXTENDS Integers, Sequences, SequencesExt, FiniteSets, FiniteSetsExt

(* Reading one example into an object that has been used before: the text  *)
(* parser (parse_example_text.cc), the CSV parser (parse_example_csv.cc)   *)
(* and the label of a cache record, with the label parsers they call, then *)
(* setup_example and, when the example is finished, empty_example.         *)
(*                                                                         *)
(* A word of a label is the sequence of its tokens between colons (or      *)
(* commas); a token is a number, and keywords and NaN are numbers of their *)
(* own.  A namespace is named by a pair whose first part is the byte that  *)
(* selects its feature group.                                              *)

CONSTANTS
  LabelTexts,     \* kind of label -> the label words a line may have
  LineRests,      \* what may follow the label of a text line: a tag and namespaces
  CsvInputs,      \* --csv_header (<< >> when not given), --csv_no_file_header, and
                  \* the files read one after the other, each a sequence of lines
  Redefine,       \* --redefine, as a function of the byte
  AffixNs,        \* namespaces with --affix
  SpellingNs,     \* namespaces with --spelling
  IgnoredNs,      \* namespaces of --ignore
  MaxReadLines    \* bound on the number of examples

ASSUME LineReadersAssumption ==
  /\ MaxReadLines \in Nat
  /\ \A k \in DOMAIN LabelTexts : \A words \in LabelTexts[k] : Len(words) > 0

VARIABLES
  lkind,       \* label_type of the label parser
  lex,        \* the example object
  lread,      \* what was read into it last: a source and its line
  lpc,        \* "idle" (in the pool), "read", "set" or "threw"
  lcache,     \* the cached labels, each with the line it was parsed from
  csv,        \* csv_parser: options, header and position
  lcount

lineVars == <<lkind, lex, lread, lpc, lcache, csv, lcount>>

FLT_MAX == 99
UNLABELLED == 98
NaN == 97
SHARED_TYPE == 101
ACTION_TYPE == 102
SLOT_TYPE == 103
GRAPH_FEEDBACK_TYPE == 104
LABEL_WORD == 105
CCB_LABEL == 106
SLATES_LABEL == 107
CA_LABEL == 108
PDF == 109
CHOSEN_ACTION == 110

-----------------------------------------------------------------------------
(* Labels: a label holds the fields of every kind that its parser uses.    *)
CbDefault == [costs |-> << >>, weight |-> 1]
DefaultLabel(k) ==
  CASE k = "simple" -> [label |-> FLT_MAX]
    [] k = "multiclass" -> [label |-> UNLABELLED, weight |-> 1]
    [] k = "multilabel" -> [label_v |-> << >>]
    [] k = "cs" -> [costs |-> << >>]
    [] k = "cb" -> CbDefault
    [] k = "cb_eval" -> [action |-> 0, event |-> CbDefault]
    [] k = "ccb" -> [type |-> 0, outcome |-> << >>, included |-> << >>, weight |-> 1]
    [] k = "slates" -> [type |-> 0, weight |-> 1, labeled |-> FALSE, cost |-> 0, slot_id |-> 0,
                        probabilities |-> << >>]
    [] k = "continuous" -> [costs |-> << >>]
(* reset_to_default, called on the label of a used example.                *)
(* Slip: the probabilities of a slates slot are not cleared.               *)
ResetToDefault_Slip(k, ld) ==
  IF k = "slates" THEN [DefaultLabel(k) EXCEPT !.probabilities = ld.probabilities] ELSE DefaultLabel(k)
ResetToDefault(k, ld) == DefaultLabel(k)

(* Reduction features that a label brings; clear() runs in empty_example.  *)
NoReductionFeatures == [weight |-> 1, initial |-> 0, pdf |-> << >>, chosen |-> FLT_MAX, graph |-> << >>]

(* The outcome of parse_label: the label and reduction features as far as  *)
(* they were filled, and whether it threw.                                 *)
Parsed(ld, red) == [l |-> ld, red |-> red, threw |-> FALSE]
Threw(ld, red) == [l |-> ld, red |-> red, threw |-> TRUE]

Clamped(p) == IF p > 1 THEN 1 ELSE IF p < 0 THEN 0 ELSE p

ParseSimple(ld, red, words) ==
  LET n == Len(words)
  IN  IF n > 3 THEN Parsed(ld, red)
      ELSE Parsed([label |-> words[1][1]],
                  [red EXCEPT !.weight = IF n > 1 THEN words[2][1] ELSE @,
                              !.initial = IF n > 2 THEN words[3][1] ELSE @])

ParseMulticlass(ld, red, words) ==
  IF Len(words) > 2 THEN Threw(ld, red)
  ELSE Parsed([label |-> words[1][1], weight |-> IF Len(words) = 2 THEN words[2][1] ELSE 1], red)

(* One word with the numbers between commas; more words are logged only.   *)
ParseMultilabel(ld, red, words) ==
  IF Len(words) > 1 THEN Parsed(ld, red) ELSE Parsed([label_v |-> ld.label_v \o words[1]], red)

CsClass(x, index) == [x |-> x, class_index |-> index]
CsOfWord(word) ==
  CsClass(IF Len(word) = 1 THEN FLT_MAX ELSE IF Len(word) = 2 THEN word[2] ELSE 0, word[1])
BadCsWord(word) == (Len(word) = 2 /\ word[2] = NaN) \/ Len(word) > 3
(* It begins with reset_to_default; "shared" and "label" stand alone.      *)
ParseCs(ld, red, words) ==
  LET w == words[1]
      alone == Len(words) = 1 /\ w[1] \in {SHARED_TYPE, LABEL_WORD}
      bad == {j \in 1..Len(words) : BadCsWord(words[j])}
      good == IF bad = {} THEN Len(words) ELSE (CHOOSE j \in bad : \A k \in bad : j <= k) - 1
      costs == [j \in 1..good |-> CsOfWord(words[j])]
  IN  IF alone /\ ~BadCsWord(w)
      THEN Parsed([costs |-> CASE w[1] = SHARED_TYPE /\ Len(w) = 1 -> <<CsClass(-FLT_MAX, 0)>>
                               [] w[1] = LABEL_WORD /\ Len(w) = 2 -> <<CsClass(w[2], 0)>>
                               [] OTHER -> << >>], red)
      ELSE IF bad = {} THEN Parsed([costs |-> costs], red) ELSE Threw([costs |-> costs], red)

CbClass(word) ==
  [action |-> word[1],
   cost |-> IF Len(word) > 1 THEN word[2] ELSE FLT_MAX,
   probability |-> IF word = <<SHARED_TYPE>> THEN -1 ELSE IF Len(word) > 2 THEN Clamped(word[3]) ELSE 0]
BadCbWord(word) == Len(word) \notin 1..3 \/ \E j \in 2..Len(word) : word[j] = NaN
(* Costs are appended; "graph" after "shared" takes the rest of the words. *)
ParseCb(ld0, red, words) ==
  LET step(acc, word) ==
        IF acc.done THEN acc
        ELSE IF acc.graph THEN IF Len(word) = 3 THEN [acc EXCEPT !.red.graph = Append(@, word)]
                               ELSE [acc EXCEPT !.done = TRUE, !.threw = TRUE]
        ELSE IF BadCbWord(word) THEN [acc EXCEPT !.done = TRUE, !.threw = TRUE]
        ELSE IF word[1] # GRAPH_FEEDBACK_TYPE THEN [acc EXCEPT !.l.costs = Append(@, CbClass(word))]
        ELSE IF acc.l.costs # << >> /\ Last(acc.l.costs).probability = -1
        THEN [acc EXCEPT !.graph = TRUE] ELSE [acc EXCEPT !.done = TRUE, !.threw = TRUE]
      out == FoldLeft(step, [l |-> [ld0 EXCEPT !.weight = 1], red |-> red, threw |-> FALSE,
                             done |-> FALSE, graph |-> FALSE], words)
  IN  [l |-> out.l, red |-> out.red, threw |-> out.threw]

ParseCbEval(ld, red, words) ==
  IF Len(words) < 2 THEN Threw(ld, red)
  ELSE LET out == ParseCb(ld.event, red, Tail(words))
       IN  [out EXCEPT !.l = [action |-> words[1][1], event |-> out.l]]

(* A slot: one word is an outcome <<action, cost, probability>> followed   *)
(* by <<action, probability>> pairs flattened, a word of one token is an   *)
(* action included.                                                        *)
SumsToOne(probabilities) == FoldLeft(LAMBDA s, p : s + p[2], 0, probabilities) = 1
Pairs(tokens) == [j \in 1..(Len(tokens) \div 2) |-> <<tokens[2 * j - 1], Clamped(tokens[2 * j])>>]
CcbOutcome(word) ==
  [cost |-> word[2],
   probabilities |-> <<<<word[1], Clamped(word[3])>>>> \o Pairs(SubSeq(word, 4, Len(word)))]
ParseCcb(ld0, red, words) ==
  LET ld == [ld0 EXCEPT !.weight = 1]
      type == words[2][1]
      rest == SubSeq(words, 3, Len(words))
      slot(acc, word) ==
        IF acc.threw THEN acc
        ELSE IF Len(word) = 1 THEN [acc EXCEPT !.l.included = Append(@, word[1])]
        ELSE IF acc.l.outcome # << >> \/ Len(word) % 2 = 0 \/ word[2] = NaN
        THEN [acc EXCEPT !.threw = TRUE]
        ELSE [acc EXCEPT !.l.outcome = <<CcbOutcome(word)>>]
      filled == FoldLeft(slot, Parsed([ld EXCEPT !.type = SLOT_TYPE], red), rest)
      given == filled.l.outcome # << >> /\ Len(filled.l.outcome[1].probabilities) > 1
  IN  IF Len(words) < 2 \/ words[1] # <<CCB_LABEL>> THEN Threw(ld, red)
      ELSE IF type \in {SHARED_TYPE, ACTION_TYPE}
      THEN IF Len(words) > 2 THEN Threw(ld, red) ELSE Parsed([ld EXCEPT !.type = type], red)
      ELSE IF type # SLOT_TYPE \/ Len(words) > 4 THEN Threw(ld, red)
      ELSE IF filled.threw THEN filled
      ELSE IF given /\ ~SumsToOne(filled.l.outcome[1].probabilities) THEN Threw(filled.l, red)
      ELSE filled

ParseSlates(ld0, red, words) ==
  LET ld == [ld0 EXCEPT !.weight = 1]
      n == Len(words)
      type == words[2][1]
      slot == [ld EXCEPT !.labeled = TRUE, !.probabilities = @ \o Pairs(words[3])]
  IN  IF words[1] # <<SLATES_LABEL>> \/ n = 1 THEN Threw(ld, red)
      ELSE IF type = SHARED_TYPE THEN
        IF n > 3 THEN Threw(ld, red)
        ELSE IF n = 3 THEN Parsed([ld EXCEPT !.cost = words[3][1], !.labeled = TRUE, !.type = SHARED_TYPE], red)
        ELSE Parsed([ld EXCEPT !.type = SHARED_TYPE], red)
      ELSE IF type = ACTION_TYPE THEN
        IF n # 3 THEN Threw(ld, red) ELSE Parsed([ld EXCEPT !.slot_id = words[3][1], !.type = ACTION_TYPE], red)
      ELSE IF type # SLOT_TYPE \/ n > 3 THEN Threw(ld, red)
      ELSE IF n = 2 THEN Parsed([ld EXCEPT !.type = SLOT_TYPE], red)
      ELSE IF Len(slot.probabilities) > 1 /\ ~SumsToOne(slot.probabilities) THEN Threw(slot, red)
      ELSE Parsed([slot EXCEPT !.type = SLOT_TYPE], red)

(* Words after "pdf" fill the density, a pdf that is not valid (here: does *)
(* not sum to one) is dropped; the word after "chosen_action" is the       *)
(* action; the word after "ca" is the cost.                                *)
ParseContinuous(ld, red, words) ==
  LET at(w) == {j \in 2..Len(words) : words[j] = <<w>>}
      stop(j) == IF \E k \in at(CHOSEN_ACTION) : k > j
                 THEN (CHOOSE k \in at(CHOSEN_ACTION) : k > j) - 1 ELSE Len(words)
      segments(j) == SelectSeq(SubSeq(words, j + 1, stop(j)), LAMBDA w : Len(w) >= 3)
      pdf == IF at(PDF) = {} THEN red.pdf ELSE red.pdf \o segments(CHOOSE j \in at(PDF) : TRUE)
      filled == [red EXCEPT
        !.pdf = IF at(PDF) # {} /\ FoldLeft(LAMBDA s, w : s + w[3], 0, pdf) # 1 THEN << >> ELSE pdf,
        !.chosen = IF \E k \in at(CHOSEN_ACTION) : k < Len(words)
                   THEN words[(CHOOSE k \in at(CHOSEN_ACTION) : k < Len(words)) + 1][1] ELSE @]
      cost == IF Len(words) > 1 /\ words[2][1] \notin {PDF, CHOSEN_ACTION} THEN <<words[2]>> ELSE << >>
      bad == cost # << >> /\ (Len(words[2]) > 4 \/ \E j \in 2..Len(words[2]) : words[2][j] = NaN)
      elm(w) == [action |-> w[1], cost |-> IF Len(w) > 1 THEN w[2] ELSE FLT_MAX,
                 pdf_value |-> IF Len(w) < 3 \/ w[3] < 0 THEN 0 ELSE w[3]]
  IN  IF words[1] # <<CA_LABEL>> \/ bad THEN Threw([costs |-> << >>], red)
      ELSE Parsed([costs |-> [j \in 1..Len(cost) |-> elm(cost[j])]], filled)

ParseLabel(k, ld, red, words) ==
  CASE k = "simple" -> ParseSimple(ld, red, words)
    [] k = "multiclass" -> ParseMulticlass(ld, red, words)
    [] k = "multilabel" -> ParseMultilabel(ld, red, words)
    [] k = "cs" -> ParseCs(ld, red, words)
    [] k = "cb" -> ParseCb(ld, red, words)
    [] k = "cb_eval" -> ParseCbEval(ld, red, words)
    [] k = "ccb" -> ParseCcb(ld, red, words)
    [] k = "slates" -> ParseSlates(ld, red, words)
    [] k = "continuous" -> ParseContinuous(ld, red, words)

(* test_label and get_weight of the label parsers.                         *)
CbTest(ld) == \A j \in 1..Len(ld.costs) : ld.costs[j].cost = FLT_MAX \/ ld.costs[j].probability <= 0
TestLabel(k, ld) ==
  CASE k = "simple" -> ld.label = FLT_MAX
    [] k = "multiclass" -> ld.label = UNLABELLED
    [] k = "multilabel" -> ld.label_v = << >>
    [] k = "cs" -> \A j \in 1..Len(ld.costs) : ld.costs[j].x = FLT_MAX
    [] k = "cb" -> CbTest(ld)
    [] k = "cb_eval" -> CbTest(ld.event)
    [] k = "ccb" -> ld.outcome = << >>
    [] k = "slates" -> ~ld.labeled
    [] k = "continuous" -> \A j \in 1..Len(ld.costs) : ld.costs[j].cost = FLT_MAX \/ ld.costs[j].pdf_value <= 0
GetWeight(k, ld, red) ==
  CASE k = "simple" -> red.weight
    [] k = "multiclass" -> IF ld.weight > 0 THEN ld.weight ELSE 0
    [] k \in {"cb", "ccb", "slates"} -> ld.weight
    [] k = "cb_eval" -> ld.event.weight
    [] OTHER -> 1

-----------------------------------------------------------------------------
(* cache_label writes the fields of the label, and the reduction features  *)
(* of a simple and of a continuous label; read_cached_label appends to     *)
(* sequences, and creates an outcome only when one was written.            *)
CachedLabel(k, ex) == [l |-> ex.l, red |-> ex.red]
ReadCosts(ld, rec) == [costs |-> ld.costs \o rec.costs]
ReadCb(ld, rec) == [costs |-> ld.costs \o rec.costs, weight |-> rec.weight]
ReadCbEval(ld, rec) == [action |-> rec.action, event |-> ReadCb(ld.event, rec.event)]
ReadMultilabel(ld, rec) == [label_v |-> ld.label_v \o rec.label_v]
ReadSlates(ld, rec) == [rec EXCEPT !.probabilities = ld.probabilities \o @]
ReadCcb(ld, rec) == [rec EXCEPT !.outcome = IF @ = << >> THEN ld.outcome ELSE @]
ReadMulticlass(ld, rec) == [label |-> rec.label, weight |-> rec.weight]
ReadSimple(ld, rec) == [label |-> rec.label]
ReadLabelFields(k, ld, rec) ==
  CASE k \in {"cs", "continuous"} -> ReadCosts(ld, rec)
    [] k = "cb" -> ReadCb(ld, rec)
    [] k = "cb_eval" -> ReadCbEval(ld, rec)
    [] k = "multilabel" -> ReadMultilabel(ld, rec)
    [] k = "slates" -> ReadSlates(ld, rec)
    [] k = "ccb" -> ReadCcb(ld, rec)
    [] k = "multiclass" -> ReadMulticlass(ld, rec)
    [] k = "simple" -> ReadSimple(ld, rec)
ReadRedFields(k, red, rec) ==
  CASE k = "simple" -> [red EXCEPT !.weight = rec.weight, !.initial = rec.initial]
    [] k = "continuous" -> [red EXCEPT !.pdf = @ \o rec.pdf, !.chosen = rec.chosen]
    [] OTHER -> red
(* Slip: the label of the used example is not set to its default first.    *)
ReadCachedLabel_Slip(k, ex, rec) ==
  [ex EXCEPT !.l = ReadLabelFields(k, ex.l, rec.l), !.red = ReadRedFields(k, @, rec.red)]
ReadCachedLabel(k, ex, rec) ==
  [ex EXCEPT !.l = ReadLabelFields(k, ResetToDefault(k, ex.l), rec.l), !.red = ReadRedFields(k, @, rec.red)]

-----------------------------------------------------------------------------
(* The text parser.  A feature of a line has a name ("" when it has none)  *)
(* and a value, a number or a string (str).                                *)
NsIndex == {" ", "a", "b", "c", "affix", "spelling", "constant"}
Feature(hash, v) == [hash |-> hash, v |-> v]
UnusedExample(k) ==
  [l |-> DefaultLabel(k), red |-> NoReductionFeatures, tag |-> << >>, newline |-> FALSE, indices |-> << >>,
   fs |-> [i \in NsIndex |-> << >>], test_only |-> FALSE, weight |-> 1]

(* A feature goes to namespace i; the first one brings i into indices.     *)
AddTo(ex, i, f) ==
  [ex EXCEPT !.indices = IF ex.fs[i] = << >> THEN Append(@, i) ELSE @, !.fs[i] = Append(@, f)]
(* maybe_feature: anon counts the features without a name, dropped zeroes  *)
(* too; i enters indices at the end of its namespace.                      *)
MaybeFeature(acc, name, i, scale, f) ==
  LET v == IF f.str THEN 1 ELSE scale * f.v
      hash == IF f.str THEN <<name, f.name, f.v>>
              ELSE IF f.name # "" THEN <<name, f.name, 0>> ELSE <<name, "", acc.anon>>
  IN  [ex |-> IF v = 0 THEN acc.ex ELSE [acc.ex EXCEPT !.fs[i] = Append(@, Feature(hash, v))],
       anon |-> IF ~f.str /\ f.name = "" THEN acc.anon + 1 ELSE acc.anon]
(* --affix and --spelling: features made of the name of a feature.         *)
NameFeatures(ex, name, i, scale, f) ==
  LET v == IF f.str THEN 1 ELSE scale * f.v
      affixed == IF i \in AffixNs /\ f.name # "" THEN AddTo(ex, "affix", Feature(<<name, f.name, 0>>, v)) ELSE ex
  IN  IF v = 0 THEN ex
      ELSE IF i \in SpellingNs THEN AddTo(affixed, "spelling", Feature(<<name, f.name, 0>>, v)) ELSE affixed
SpaceFeatures(ex, space, i) ==
  FoldLeft(LAMBDA acc, f : MaybeFeature(acc, space.name, i, space.scale, f), [ex |-> ex, anon |-> 0], space.feats).ex
(* Slip: a namespace without features enters indices as well.              *)
EnterIndex_Slip(before, after, i) ==
  IF before.fs[i] = << >> THEN [after EXCEPT !.indices = Append(@, i)] ELSE after
EnterIndex(before, after, i) ==
  IF before.fs[i] = << >> /\ after.fs[i] # << >> THEN [after EXCEPT !.indices = Append(@, i)] ELSE after
NameSpace(ex, space) ==
  LET i == IF space.name[1] = " " THEN " " ELSE Redefine[space.name[1]]
      own == SpaceFeatures(ex, space, i)
      made == FoldLeft(LAMBDA x, f : NameFeatures(x, space.name, i, space.scale, f), own, space.feats)
  IN  EnterIndex(ex, made, i)
ListNameSpace(ex, spaces) == FoldLeft(NameSpace, ex, spaces)

(* The words of the label are parsed when there are any; an exception ends *)
(* the line before its namespaces are read.                                *)
WithLabel(ex, out) == [ex |-> [ex EXCEPT !.l = out.l, !.red = out.red], threw |-> out.threw]
Labelled(k, ex, words) ==
  WithLabel(ex, IF words = << >> THEN Parsed(ex.l, ex.red) ELSE ParseLabel(k, ex.l, ex.red, words))
ThenSpaces(out, spaces) ==
  IF out.threw THEN out ELSE [ex |-> ListNameSpace(out.ex, spaces), threw |-> FALSE]

(* substring_to_example: the label is set to its default, words are parsed *)
(* when there are any, the tag is appended.  An exception leaves what was  *)
(* filled until then.                                                      *)
SubstringToExample(k, ex0, line) ==
  LET ex == [ex0 EXCEPT !.newline = @ \/ (line.words = << >> /\ line.tag = << >> /\ line.spaces = << >>),
                        !.l = ResetToDefault(k, @), !.tag = @ \o line.tag]
  IN  ThenSpaces(Labelled(k, ex, line.words), line.spaces)

-----------------------------------------------------------------------------
(* The CSV parser.  A column is [what, name, feat]; a cell is empty or     *)
(* holds one value, the label cell holds words and the tag cell the tag.   *)
(* Slip: the number of the line is not reset.                              *)
CsvReset_Slip(c) == [c EXCEPT !.header = IF c.given = << >> THEN << >> ELSE @]
CsvReset(c) == [c EXCEPT !.header = IF c.given = << >> THEN << >> ELSE @, !.line_num = 0]
CsvSpaces(columns) ==
  LET names == [j \in 1..Len(columns) |-> columns[j].name]
  IN  SelectSeq(<<<<" ", 0>>, <<"a", 1>>, <<"a", 2>>, <<"b", 1>>>>,
                LAMBDA n : \E j \in 1..Len(columns) : columns[j].what = "feature" /\ names[j] = n)
CellFeatures(columns, cells, name) ==
  FlattenSeq([j \in 1..Len(columns) |->
    IF columns[j].what = "feature" /\ columns[j].name = name /\ cells[j] # << >>
    THEN <<[name |-> columns[j].feat, str |-> cells[j][1].str, v |-> cells[j][1].v]>> ELSE << >>])
(* parse_namespaces; empty_line makes the example a separator.             *)
CsvNamespaces(ex, columns, cells) ==
  LET space(n) == [name |-> n, scale |-> 1, feats |-> CellFeatures(columns, cells, n)]
      named(x, n) == EnterIndex(x, SpaceFeatures(x, space(n), n[1]), n[1])
      out == FoldLeft(named, ex, CsvSpaces(columns))
  IN  [out EXCEPT !.newline = \A j \in 1..Len(columns) : columns[j].what = "feature" => cells[j] = << >>]
ColumnOf(columns, what) == {j \in 1..Len(columns) : columns[j].what = what}
CellIn(columns, cells, what) ==
  IF ColumnOf(columns, what) = {} THEN << >> ELSE cells[CHOOSE j \in ColumnOf(columns, what) : TRUE]
ThenCells(out, tag, columns, cells) ==
  IF out.threw THEN out
  ELSE [ex |-> CsvNamespaces([out.ex EXCEPT !.tag = @ \o tag], columns, cells), threw |-> FALSE]
CsvParseExample(k, ex0, columns, cells) ==
  ThenCells(Labelled(k, [ex0 EXCEPT !.l = ResetToDefault(k, @)], CellIn(columns, cells, "label")),
            CellIn(columns, cells, "tag"), columns, cells)
HeaderAsCells(columns) ==
  [j \in 1..Len(columns) |-> CASE columns[j].what = "label" -> << <<0>> >>
                               [] columns[j].what = "tag" -> <<"t">>
                               [] OTHER -> <<[str |-> TRUE, v |-> 0]>>]
(* parse_line: the first line of a file is its header unless               *)
(* --csv_no_file_header says otherwise or a header is known already; a     *)
(* line whose number of cells differs throws.                              *)
CsvLineDone(c, bytes, out) == [csv |-> c, ex |-> out.ex, threw |-> out.threw, bytes |-> bytes]
CsvParseLine(k, acc, line) ==
  LET c == acc.csv
      known == c.header # << >>
      header == IF known THEN c.header ELSE IF c.given # << >> THEN c.given ELSE line.columns
      isHeader == ~known /\ ~c.no_file_header
      cells == IF line.columns # << >> THEN HeaderAsCells(line.columns) ELSE line.cells
      next == [c EXCEPT !.header = header, !.line_num = @ + 1, !.at = @ + 1]
  IN  IF Len(cells) # Len(header) THEN [acc EXCEPT !.csv = next, !.threw = TRUE, !.bytes = @ + 1]
      ELSE IF isHeader THEN [acc EXCEPT !.csv = next, !.bytes = @ + 1]
      ELSE CsvLineDone(next, acc.bytes + 1, CsvParseExample(k, acc.ex, header, cells))
CsvReadLine(k, acc) ==
  IF acc.csv.at > Len(acc.csv.files[acc.csv.n]) THEN [acc EXCEPT !.csv = CsvReset(@)]
  ELSE CsvParseLine(k, acc, acc.csv.files[acc.csv.n][acc.csv.at])
(* parse_csv: a second line is read after the header.                      *)
AfterHeader(k, one) ==
  IF ~one.threw /\ one.csv.line_num = 1 /\ ~one.csv.no_file_header THEN CsvReadLine(k, one) ELSE one
ParseCsv(k, ex, c) == AfterHeader(k, CsvReadLine(k, [csv |-> c, ex |-> ex, threw |-> FALSE, bytes |-> 0]))

-----------------------------------------------------------------------------
(* setup_example: test_only and weight from the label, --ignore, constant. *)
SetupExample(k, ex) ==
  LET kept == [ex EXCEPT !.test_only = TestLabel(k, ex.l), !.weight = GetWeight(k, ex.l, ex.red),
                         !.indices = SelectSeq(@, LAMBDA i : i \notin IgnoredNs),
                         !.fs = [i \in NsIndex |-> IF i \in IgnoredNs /\ Contains(ex.indices, i) THEN << >> ELSE @[i]]]
  IN  [kept EXCEPT !.indices = Append(@, "constant"), !.fs["constant"] = <<Feature(<<<<"constant", 0>>, "", 0>>, 1)>>]
(* empty_example leaves the label as it is.                                *)
(* Slip: the reduction features are kept as well.                          *)
EmptyExample_Slip(k, ex) == [UnusedExample(k) EXCEPT !.l = ex.l, !.red = ex.red]
EmptyExample(k, ex) == [UnusedExample(k) EXCEPT !.l = ex.l]

-----------------------------------------------------------------------------
NothingRead == [source |-> "none"]

LinesInit ==
  /\ lkind \in DOMAIN LabelTexts
  /\ \E c \in CsvInputs :
       csv = [given |-> c.given, no_file_header |-> c.no_file_header, header |-> << >>, line_num |-> 0,
              files |-> c.files, n |-> 1, at |-> 1]
  /\ lex = UnusedExample(lkind)
  /\ lread = NothingRead
  /\ lpc = "idle"
  /\ lcache = << >>
  /\ lcount = 0

(* read_features_string and read_line.                                     *)
ReadText ==
  /\ lpc = "idle" /\ lcount < MaxReadLines
  /\ \E words \in LabelTexts[lkind] \cup {<< >>}, rest \in LineRests :
       \E line \in {[words |-> words, tag |-> rest.tag, spaces |-> rest.spaces]} :
       \E out \in {SubstringToExample(lkind, lex, line)} :
         /\ lex' = out.ex
         /\ lpc' = IF out.threw THEN "threw" ELSE "read"
         /\ lread' = [source |-> "text", line |-> line]
  /\ lcount' = lcount + 1
  /\ UNCHANGED <<lkind, lcache, csv>>

(* write_example_to_cache, for an example that was parsed.                 *)
WriteCache ==
  /\ lpc = "read" /\ lread.source = "text" /\ lcache = << >>
  /\ lcache' = <<[rec |-> CachedLabel(lkind, lex), line |-> lread.line]>>
  /\ UNCHANGED <<lkind, lex, lread, lpc, csv, lcount>>

(* The label part of read_example_from_cache.                              *)
ReadCached ==
  /\ lpc = "idle" /\ lcache # << >> /\ lcount < MaxReadLines
  /\ lex' = ReadCachedLabel(lkind, lex, lcache[1].rec)
  /\ lpc' = "read"
  /\ lread' = [source |-> "cache", line |-> lcache[1].line]
  /\ lcount' = lcount + 1
  /\ UNCHANGED <<lkind, lcache, csv>>

(* csv_parser::next; at the end of the file no example is delivered and    *)
(* another file may follow.                                                *)
ReadCsv ==
  /\ lpc = "idle" /\ lcount < MaxReadLines
  /\ \E out \in {ParseCsv(lkind, lex, csv)} :
         \/ /\ out.bytes > 0
            /\ lex' = out.ex /\ csv' = out.csv
            /\ lpc' = IF out.threw THEN "threw" ELSE "read"
            /\ lread' = [source |-> "csv", at |-> out.csv.at - 1, before |-> csv]
            /\ lcount' = lcount + 1
         \/ /\ out.bytes = 0 /\ csv.n < Len(csv.files)
            /\ csv' = [out.csv EXCEPT !.n = @ + 1, !.at = 1]
            /\ UNCHANGED <<lex, lpc, lread, lcount>>
  /\ UNCHANGED <<lkind, lcache>>

Setup ==
  /\ lpc = "read"
  /\ lex' = SetupExample(lkind, lex)
  /\ lpc' = "set"
  /\ UNCHANGED <<lkind, lread, lcache, csv, lcount>>

(* finish_example, or the exception handler, returns the object.           *)
Finish ==
  /\ lpc \in {"set", "threw"}
  /\ lex' = EmptyExample(lkind, lex)
  /\ lpc' = "idle"
  /\ UNCHANGED <<lkind, lread, lcache, csv, lcount>>

LinesNext == ReadText \/ WriteCache \/ ReadCached \/ ReadCsv \/ Setup \/ Finish

LinesSpec == LinesInit /\ [][LinesNext]_lineVars

-----------------------------------------------------------------------------
(* What a used example object is given by a text line is what a new object *)
(* would be given: nothing of an earlier label, of its reduction features, *)
(* tag or features remains (default_label, empty_example).                 *)
LineAlone ==
  lpc = "read" /\ lread.source = "text" => lex = SubstringToExample(lkind, UnusedExample(lkind), lread.line).ex

(* A label read back from the cache is the label that was parsed, with its *)
(* weight and reduction features, whatever the object held before          *)
(* (read_cached_label); the graph of a "shared graph" label is not cached. *)
CachedAsParsed ==
  lpc = "read" /\ lread.source = "cache" =>
    LET parsed == SubstringToExample(lkind, UnusedExample(lkind), lread.line).ex
    IN  /\ lex.l = parsed.l
        /\ lex.red = [parsed.red EXCEPT !.graph = << >>]

(* indices names every namespace that has features, once, however often a  *)
(* line names it and through --affix, --spelling, --redefine and --ignore. *)
IndicesExact ==
  lpc \in {"read", "set"} =>
    /\ \A i \in NsIndex : Contains(lex.indices, i) <=> lex.fs[i] # << >>
    /\ \A j, k \in 1..Len(lex.indices) : lex.indices[j] = lex.indices[k] => j = k

(* The data line an example was made of: the line that was reached.        *)
CsvDataLine == csv.files[csv.n][lread.at]
(* A file that ends after its header, and a header given on the command    *)
(* line that is still known when the next file brings its own.             *)
HeaderOnly == Len(csv.files[csv.n]) = 1
HeaderKnownAlready == lread.before.given # << >> /\ csv.n > 1 /\ ~lread.before.no_file_header

(* An example read from CSV is made of one data line and of the header of  *)
(* its file: the header is never an example, and nothing of it or of the   *)
(* line before remains (csv_parser::parse_csv, reset).                     *)
CsvLineAlone ==
  lpc = "read" /\ lread.source = "csv" /\ ~HeaderOnly /\ ~HeaderKnownAlready =>
    /\ CsvDataLine.columns = << >>
    /\ lex = CsvParseExample(lkind, UnusedExample(lkind),
               IF lread.before.given # << >> THEN lread.before.given ELSE csv.files[csv.n][1].columns, CsvDataLine.cells).ex

(* These do not hold: a file of a header alone delivers an example with    *)
(* the label of the object's last use, and with --csv_header the header    *)
(* line of a second file is read as data into the same example as the line *)
(* after it; the graph of a label is lost in the cache.                    *)
CsvEveryLineAlone ==
  lpc = "read" /\ lread.source = "csv" =>
    /\ ~HeaderOnly
    /\ lex = CsvParseExample(lkind, UnusedExample(lkind),
               IF lread.before.given # << >> THEN lread.before.given ELSE csv.files[csv.n][1].columns, CsvDataLine.cells).ex
GraphCached ==
  lpc = "read" /\ lread.source = "cache" =>
    lex.red = SubstringToExample(lkind, UnusedExample(lkind), lread.line).ex.red

-----------------------------------------------------------------------------
(* VW::features, the group of features of one namespace character, and the *)
(* v_arrays it is made of.  Extents say which stretch of the group came    *)
(* from which namespace; fgown is what they should say: the namespace hash *)
(* every feature was added under, 0 for none.                              *)

CONSTANTS
  FgValues,        \* feature values, small integers
  FgHashes,        \* hashes of namespaces with the same first character
  MaxFeatures,     \* bound on the size of a group
  EraseLimit,      \* a v_array shrinks after so many calls of clear (1 << 10)
  MaxFgSteps       \* bound on the number of operations

ASSUME FgAssumption ==
  /\ FgValues \subseteq Int /\ FgHashes \subseteq (Nat \ {0})
  /\ MaxFeatures \in Nat /\ EraseLimit \in Nat \ {0} /\ MaxFgSteps \in Nat

VARIABLES
  fg,        \* values, indices, namespace_extents and sum_feat_sq
  fgown,     \* per feature, the hash it belongs to
  fgclean,   \* nothing was done that the extents cannot follow, see below
  fgcap,     \* capacity of the array of values
  fgerased,  \* its _erase_count
  fgsteps

fgVars == <<fg, fgown, fgclean, fgcap, fgerased, fgsteps>>

Extent(b, e, h) == [b |-> b, e |-> e, h |-> h]
EmptyGroup == [values |-> << >>, indices |-> << >>, extents |-> << >>, sq |-> 0]
FgSize(g) == Len(g.values)
SumSq(vs) == FoldSeq(LAMBDA v, s : s + v * v, 0, vs)
HasOpen(g) == g.extents # << >> /\ Last(g.extents).e = 0

-----------------------------------------------------------------------------
(* v_array: room for one more element, twice the room and three more.      *)
(* Slip: twice the room, also of an array that has none.                   *)
GrownArray_Slip(cap, n) == IF n + 1 > cap THEN 2 * cap ELSE cap
GrownArray(cap, n) == IF n + 1 > cap THEN 2 * cap + 3 ELSE cap
(* resize and copies get exactly the room they need.                       *)
Reserved(cap, n) == IF cap < n THEN n ELSE cap
ShrinkToFit(cap, n) == IF n < cap THEN IF n = 0 THEN 1 ELSE n ELSE cap

-----------------------------------------------------------------------------
PushBack(g, v, i) ==
  [g EXCEPT !.values = Append(@, v), !.indices = Append(@, i), !.sq = @ + v * v]

StartExtent(g, h) == [g EXCEPT !.extents = Append(@, Extent(FgSize(g), 0, h))]

(* An extent without features goes, and one that continues its predecessor *)
(* is merged with it.                                                      *)
EndExtent(g) ==
  LET n == Len(g.indices)
      closed == [g.extents EXCEPT ![Len(g.extents)].e = n]
      kept == IF Last(closed).b = n THEN Front(closed) ELSE closed
      same == Len(kept) > 1 /\ kept[Len(kept) - 1].h = Last(kept).h
  IN  [g EXCEPT !.extents = IF same THEN [Front(kept) EXCEPT ![Len(kept) - 1].e = n] ELSE kept]

PushBackHashed(g, v, i, h) ==
  LET c == IF HasOpen(g) /\ Last(g.extents).h # h THEN EndExtent(g) ELSE g
      fresh == c.extents = << >> \/ Last(c.extents).h # h
  IN  PushBack(IF fresh THEN [c EXCEPT !.extents = Append(@, Extent(FgSize(g), FgSize(g) + 1, h))]
               ELSE IF Last(c.extents).e # 0 THEN [c EXCEPT !.extents[Len(c.extents)].e = @ + 1] ELSE c,
               v, i)

(* Extents from i on go, one that i cuts ends there.                       *)
(* Slip: an extent keeps its end.                                          *)
CutExtents_Slip(es, i) == SelectSeq(es, LAMBDA x : x.b < i)
CutExtents(es, i) ==
  LET kept == SelectSeq(es, LAMBDA x : x.b < i)
  IN  IF kept = << >> THEN kept
      ELSE [kept EXCEPT ![Len(kept)].e = IF @ > i THEN i ELSE @]
(* The squares of the removed section are values[idx] * values[i].         *)
RemovedSq(g, i) == LET rest == SubSeq(g.values, i + 1, FgSize(g))
                   IN  IF rest = << >> THEN 0 ELSE FoldSeq(LAMBDA v, s : s + v * rest[1], 0, rest)
TruncateGroup(g, i) ==
  IF i = FgSize(g) THEN g
  ELSE [values |-> SubSeq(g.values, 1, i), indices |-> SubSeq(g.indices, 1, i),
        extents |-> CutExtents(g.extents, i), sq |-> g.sq - RemovedSq(g, i)]

(* The last extent of g and the first of o become one when they have the   *)
(* same hash; of the others the last is then left out.                     *)
Merges(g, o) == g.extents # << >> /\ o.extents # << >> /\ Last(g.extents).h = o.extents[1].h
Concat(g, o) ==
  LET offset == IF Merges(g, o) THEN 1 ELSE 0
      longer == IF Merges(g, o) THEN [g.extents EXCEPT ![Len(g.extents)].e = @ + (o.extents[1].e - o.extents[1].b)]
                ELSE g.extents
      taken == SubSeq(o.extents, offset + 1, Len(o.extents) - offset)
  IN  [values |-> g.values \o o.values, indices |-> g.indices \o o.indices, sq |-> g.sq + o.sq,
       extents |-> longer \o [k \in 1..Len(taken) |->
                      Extent(taken[k].b + FgSize(g), taken[k].e + FgSize(g), taken[k].h)]]

(* The hash of every place, 0 between extents, and back to extents.        *)
Flatten(es, n) ==
  [p \in 1..n |-> IF \E k \in 1..Len(es) : es[k].b < p /\ p <= es[k].e
                  THEN es[CHOOSE k \in 1..Len(es) : es[k].b < p /\ p <= es[k].e].h ELSE 0]
Unflatten(hs) ==
  LET starts == {p \in 1..Len(hs) : hs[p] # 0 /\ (p = 1 \/ hs[p - 1] # hs[p])}
      endOf(p) == Max({q \in p..Len(hs) : \A r \in p..q : hs[r] = hs[p]})
      order == SetToSortSeq(starts, <)
  IN  [k \in 1..Len(order) |-> Extent(order[k] - 1, endOf(order[k]), hs[order[k]])]

(* The permutation that sorts by index and then by value; places that are  *)
(* equal in both may come in any order.                                    *)
SortPermutations(g) ==
  {f \in Permutations(1..FgSize(g)) :
     \A p \in 1..(FgSize(g) - 1) :
       \/ g.indices[f[p]] < g.indices[f[p + 1]]
       \/ g.indices[f[p]] = g.indices[f[p + 1]] /\ g.values[f[p]] <= g.values[f[p + 1]]}
Permuted(s, f) == [p \in 1..Len(s) |-> s[f[p]]]
(* Slip: the extents are left where they were.                             *)
SortGroup_Slip(g, f) == [g EXCEPT !.values = Permuted(@, f), !.indices = Permuted(@, f)]
SortGroup(g, f) ==
  [g EXCEPT !.values = Permuted(@, f), !.indices = Permuted(@, f),
            !.extents = Unflatten(Permuted(Flatten(g.extents, FgSize(g)), f))]

-----------------------------------------------------------------------------
FgInit ==
  /\ fg = EmptyGroup
  /\ fgown = << >>
  /\ fgclean = TRUE
  /\ fgcap = 0
  /\ fgerased = 0
  /\ fgsteps = 0

(* A feature of hash h would be joined to the last extent over others.     *)
JoinsOver(g, h) ==
  g.extents # << >> /\ ~HasOpen(g) /\ Last(g.extents).h = h /\ Last(g.extents).e < FgSize(g)

(* Closing the last extent, which is empty, joins the two before it.       *)
ClosesOver(g) ==
  LET n == Len(g.extents) - 1
  IN  Last(g.extents).b = FgSize(g) /\ n > 1 /\ g.extents[n - 1].h = g.extents[n].h

FgStep == fgsteps < MaxFgSteps /\ fgsteps' = fgsteps + 1

FgPush ==
  /\ FgStep /\ FgSize(fg) < MaxFeatures
  /\ \E v \in FgValues :
       /\ fg' = PushBack(fg, v, (Len(fg.indices) * 2) % 3)
       /\ fgown' = Append(fgown, IF HasOpen(fg) THEN Last(fg.extents).h ELSE 0)
  /\ fgcap' = GrownArray(fgcap, FgSize(fg))
  /\ UNCHANGED <<fgclean, fgerased>>

FgPushHashed ==
  /\ FgStep /\ FgSize(fg) < MaxFeatures
  /\ \E v \in FgValues, h \in FgHashes :
       /\ fg' = PushBackHashed(fg, v, (Len(fg.indices) * 2) % 3, h)
       /\ fgown' = Append(fgown, h)
       /\ LET closes == HasOpen(fg) /\ Last(fg.extents).h # h
          IN  fgclean' = (/\ fgclean
                          /\ ~(closes /\ ClosesOver(fg))
                          /\ ~JoinsOver(IF closes THEN EndExtent(fg) ELSE fg, h))
  /\ fgcap' = GrownArray(fgcap, FgSize(fg))
  /\ UNCHANGED fgerased

FgStartExtent ==
  /\ FgStep /\ ~HasOpen(fg)
  /\ \E h \in FgHashes :
       /\ fg' = StartExtent(fg, h)
       /\ fgclean' = (fgclean /\ ~JoinsOver(fg, h))
  /\ UNCHANGED <<fgown, fgcap, fgerased>>

FgEndExtent ==
  /\ FgStep /\ HasOpen(fg)
  /\ fg' = EndExtent(fg)
  /\ fgclean' = (fgclean /\ ~ClosesOver(fg))
  /\ UNCHANGED <<fgown, fgcap, fgerased>>

FgTruncate ==
  /\ FgStep /\ ~HasOpen(fg)
  /\ \E i \in 0..FgSize(fg) :
       /\ fg' = TruncateGroup(fg, i)
       /\ fgown' = SubSeq(fgown, 1, i)
  /\ UNCHANGED <<fgclean, fgcap, fgerased>>

(* Another finished group of the same character is appended, as shared     *)
(* features are to those of an action.                                     *)
FgOthers == {[g |-> PushBackHashed(PushBack(EmptyGroup, 1, 0), 1, 1, h), own |-> <<0, h>>] : h \in FgHashes}
  \cup {[g |-> PushBackHashed(PushBackHashed(EmptyGroup, 1, 0, h), 1, 1, k), own |-> <<h, k>>] :
          h \in FgHashes, k \in FgHashes}
FgConcat ==
  /\ FgStep /\ ~HasOpen(fg)
  /\ \E o \in FgOthers :
       /\ FgSize(fg) + FgSize(o.g) <= MaxFeatures
       /\ fg' = Concat(fg, o.g)
       /\ fgown' = fgown \o o.own
       /\ fgclean' = (fgclean /\ (Merges(fg, o.g) =>
                        /\ ~JoinsOver(fg, o.g.extents[1].h)
                        /\ o.g.extents[1].b = 0
                        /\ Len(o.g.extents) = 1))
       /\ fgcap' = GrownArray(GrownArray(fgcap, FgSize(fg)), FgSize(fg) + 1)
  /\ UNCHANGED fgerased

FgSort ==
  /\ FgStep /\ ~HasOpen(fg) /\ fg.indices # << >>
  /\ \E f \in SortPermutations(fg) :
       /\ fg' = SortGroup(fg, f)
       /\ fgown' = Permuted(fgown, f)
  /\ UNCHANGED <<fgclean, fgcap, fgerased>>

FgClear ==
  /\ FgStep
  /\ fg' = EmptyGroup
  /\ fgown' = << >>
  /\ fgclean' = TRUE
  /\ fgerased' = (fgerased + 1) % EraseLimit
  /\ fgcap' = IF fgerased + 1 = EraseLimit THEN ShrinkToFit(fgcap, FgSize(fg)) ELSE fgcap

(* Copy assignment: clear, then exactly the room the source needs.         *)
FgAssign ==
  /\ FgStep
  /\ \E o \in FgOthers :
       /\ fg' = o.g
       /\ fgown' = o.own
       /\ fgclean' = TRUE
       /\ fgcap' = Reserved(IF fgerased + 1 = EraseLimit THEN ShrinkToFit(fgcap, FgSize(fg)) ELSE fgcap, FgSize(o.g))
  /\ fgerased' = (fgerased + 1) % EraseLimit

FgNext ==
  \/ FgPush \/ FgPushHashed \/ FgStartExtent \/ FgEndExtent \/ FgTruncate
  \/ FgConcat \/ FgSort \/ FgClear \/ FgAssign

FgSpec == FgInit /\ [][FgNext]_fgVars

-----------------------------------------------------------------------------
(* The extents of a finished group say of every feature which namespace it *)
(* was added under, through appending, cutting, sorting and concatenation; *)
(* stated until an extent is joined to another over features that are not  *)
(* theirs, or a list of several extents to one that ends with the          *)
(* namespace it begins with.                                               *)
ExtentsRight == (fgclean /\ ~HasOpen(fg)) => Flatten(fg.extents, FgSize(fg)) = fgown

(* The same without the exceptions, which does not hold: end_ns_extent and *)
(* push_back join extents of one hash over what lies between them, and     *)
(* concat leaves out the last extent when it merges the first.             *)
ExtentsAlwaysRight == ~HasOpen(fg) => Flatten(fg.extents, FgSize(fg)) = fgown

(* Extents are in order, not empty, apart and inside the group, which      *)
(* extent interactions rely on, whatever was added.                        *)
ExtentsApart ==
  /\ \A k \in 1..Len(fg.extents) :
       LET x == fg.extents[k]
       IN  IF k = Len(fg.extents) /\ x.e = 0 THEN x.b <= FgSize(fg) ELSE x.b < x.e /\ x.e <= FgSize(fg)
  /\ \A k \in 1..(Len(fg.extents) - 1) : fg.extents[k].e <= fg.extents[k + 1].b

(* sum_feat_sq is the sum of the squares, which truncate_to breaks when it *)
(* removes features of different values.                                   *)
SumKept == fg.sq = SumSq(fg.values)

(* The elements of a v_array lie inside its buffer.                        *)
FitsBuffer == FgSize(fg) <= fgcap
=============================================================================
