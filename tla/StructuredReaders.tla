-------------------------- MODULE StructuredReaders -------------------------
(* Reading examples from structured input: JSON documents and flatbuffers. *)
(* The two parts share nothing.                                            *)
EXTENDS Integers, Sequences, FiniteSets, SequencesExt, TLC

(***************************************************************************)
(* The JSON and DSJSON reader (json_parser/src/parse_example_json.cc): a   *)
(* tokenizer calls the handler of the current state for every token, and   *)
(* the handler changes the context and names the next state.  A line is    *)
(* read once, front to back, into the examples of the caller: the context  *)
(* object gives the first one, every object of "_multi" and "_slots" a new *)
(* one.                                                                    *)
(*                                                                         *)
(* The line is not a string here but the tokens of a document in the       *)
(* documented format, chosen one by one (Emit); `frames` is where a reader *)
(* of the document is: the objects and arrays it is inside of, each with   *)
(* the example and the namespace its members belong to.  Features, names   *)
(* and label values are left out, but for where they are put.              *)
(***************************************************************************)

CONSTANTS
  LabelTypes,     \* label types the parser is used with: "CB", "CCB", "CBO" (cb with observations)
  MaxLines,       \* bound: examples of one line
  MaxDepth,       \* bound: open objects and arrays
  Quirks          \* documents beyond the format: "null_element", "p_in_context"

ASSUME JsonAssumption ==
  /\ LabelTypes \subseteq {"CB", "CCB", "CBO"} /\ {MaxLines, MaxDepth} \subseteq Nat
  /\ Quirks \subseteq {"null_element", "p_in_context"}

VARIABLES
  label_type, dsjson,   \* what the reader is set up for
  frames, awaiting,     \* the document: open frames, and the key whose value is due ("" when none is)
  doc,                  \* the document: examples opened, which of them are slots, _labelIndex, keys given
  ctx,                  \* Context and the fields of its states
  placed,               \* the last feature or label: where it was put and where it belongs
  lineEnd               \* "reading", "ok" or "rejected"

jsonVars == <<label_type, dsjson, frames, awaiting, doc, ctx, placed, lineEnd>>

Nowhere == [got |-> << >>, want |-> << >>]

Context(start) ==
  [current |-> start, previous |-> "none", root |-> start, key |-> " ",
   path |-> << >>,        \* namespace_path: [ns, ex, used]
   ret |-> << >>,         \* return_path
   ex |-> 1, examples |-> <<1>>, created |-> 1, obs |-> 0,
   types |-> <<"context">>,      \* what each example is, by its label
   lret |-> "none", vret |-> "none", seen_start |-> FALSE,
   saved |-> "none", saved_root |-> "none", old_root |-> "none", slot_index |-> 0,
   label_index |-> -1, found_cb |-> FALSE,
   cb |-> {}, actions |-> << >>, probs |-> << >>, inc |-> {},   \* label parts, by the example they were given for
   labels |-> {},         \* <<example, example the part was given for>>
   lost |-> FALSE,        \* a namespace with features was closed on another example
   error |-> "none"]

JsonInit ==
  /\ label_type \in LabelTypes /\ dsjson \in BOOLEAN /\ (label_type = "CBO" => dsjson)
  /\ frames = << >> /\ awaiting = "line" /\ placed = Nowhere /\ lineEnd = "reading"
  /\ doc = [opened |-> 1, slots |-> << >>, index |-> -1, given |-> {}]
  /\ ctx = Context(IF dsjson THEN "DecisionService" ELSE "Default")

-----------------------------------------------------------------------------
Fails(c, why) == [c EXCEPT !.error = why]

(* Context::TransitionState: c is the context before the token.            *)
Transition(c, after, next) == [after EXCEPT !.previous = c.current, !.current = next]

(* PushNamespace and PopNamespace.  push_ns takes the features of ctx.ex,  *)
(* pop_ns adds the namespace to the indices of the ctx.ex of then.         *)
Push(c, ns, return_state) ==
  [c EXCEPT !.path = Append(@, [ns |-> ns, ex |-> c.ex, used |-> FALSE]), !.ret = Append(@, return_state)]

PopState(c) ==
  [c EXCEPT !.path = Front(@), !.ret = Front(@),
            !.lost = @ \/ (Last(c.path).used /\ Last(c.path).ex # c.ex)]

AddFeature(c) == [c EXCEPT !.path[Len(c.path)].used = TRUE]

NewExample(c, type) ==
  [c EXCEPT !.created = @ + 1, !.ex = c.created + 1, !.examples = Append(@, c.created + 1),
            !.types = Append(@, type)]

(* BaseState::Null: "ignore Null by default and stay in the current state".*)
BaseNull(c) == Transition(c, c, IF c.previous = "none" THEN c.current ELSE c.previous)

-----------------------------------------------------------------------------
(* The label states.  A part that is not in an object of its own is kept   *)
(* in label_object_state until the end of the example.                     *)
LabelPart(c, owner) == [c EXCEPT !.cb = {owner}, !.found_cb = TRUE]

LabelObjectEnd(c) ==
  CASE label_type = "CCB" /\ c.actions # << >> /\ c.probs # << >> /\ Len(c.actions) # Len(c.probs) ->
         Fails(c, "length")
    [] label_type = "CCB" /\ c.actions # << >> /\ c.probs # << >> ->
         [c EXCEPT !.labels = @ \cup ({c.ex} \X (c.cb \cup c.inc \cup Range(c.actions) \cup Range(c.probs))),
                   !.actions = << >>, !.probs = << >>, !.inc = {}, !.cb = {}]
    [] label_type = "CCB" -> [c EXCEPT !.labels = @ \cup ({c.ex} \X c.inc), !.inc = {}]
    [] label_type # "CCB" /\ c.found_cb ->
         [c EXCEPT !.labels = @ \cup ({c.ex} \X c.cb), !.cb = {}, !.found_cb = (label_type = "CBO")]
    [] OTHER -> c

LabelObjectState(c, tok, owner) ==
  CASE tok = "{" -> Transition(c, [c EXCEPT !.lret = c.previous], "LabelObject")
    [] tok = "key" -> Transition(c, c, "LabelObject")
    [] tok = "num" -> Transition(c, LabelPart(c, owner), "LabelObject")
    [] tok = "null" -> BaseNull(c)
    [] tok = "}" -> LET d == LabelObjectEnd(c) IN Transition(c, d, c.lret)
    [] OTHER -> Fails(c, "token")

LabelSingleProperty(c, tok, owner) ==
  CASE tok = "num" -> Transition(c, LabelPart(c, owner), c.previous)
    [] tok = "null" -> BaseNull(c)
    [] OTHER -> Fails(c, "token")

LabelState(c, tok, owner) ==
  IF tok = "{" THEN LabelObjectState(c, tok, owner) ELSE IF tok = "null" THEN BaseNull(c) ELSE Fails(c, "token")

LabelIndexState(c, tok, value) ==
  CASE tok = "num" -> Transition(c, [c EXCEPT !.label_index = value], c.previous)
    [] tok = "null" -> BaseNull(c)
    [] OTHER -> Fails(c, "token")

(* TextState and TagState: one string.                                     *)
StringState(c, tok) ==
  CASE tok = "str" /\ c.current = "Text" -> Transition(c, AddFeature(c), c.previous)
    [] tok = "str" -> Transition(c, c, c.previous)
    [] tok = "null" -> BaseNull(c)
    [] OTHER -> Fails(c, "token")

(* ArrayToVectorState: an array, or a single value.                        *)
Collected(c, owner) ==
  CASE c.key = "_a" -> [c EXCEPT !.actions = Append(@, owner)]
    [] c.key = "_p" -> [c EXCEPT !.probs = Append(@, owner)]
    [] c.key = "_inc" -> [c EXCEPT !.inc = {owner}]
    [] OTHER -> c

VectorState(c, tok, owner) ==
  CASE tok = "[" -> IF c.previous = "Vector" THEN Fails(c, "nested") ELSE Transition(c, [c EXCEPT !.seen_start = TRUE], "Vector")
    [] tok = "num" -> Transition(c, Collected(c, owner), IF c.seen_start THEN "Vector" ELSE c.vret)
    [] tok = "null" -> Transition(c, c, IF c.seen_start THEN "Vector" ELSE c.vret)
    [] tok = "]" -> Transition(c, [c EXCEPT !.seen_start = FALSE], c.vret)
    [] OTHER -> Fails(c, "token")

(* StringToString, FloatToFloat, UIntToUInt and BoolToBool states.         *)
ScalarState(c, tok) ==
  IF tok \in {"num", "str", "bool", "null"} THEN Transition(c, c, c.vret) ELSE Fails(c, "token")

(* IgnoreState reads the 0 that DefaultState::Ignore has put in the line   *)
(* in place of the value.                                                  *)
IgnoreState(c, tok) == IF tok = "num" THEN Transition(c, c, c.previous) ELSE Fails(c, "token")

-----------------------------------------------------------------------------
(* MultiState: "_multi".                                                   *)
ReturnToShared_Slip(c) == c
ReturnToShared(c) == [c EXCEPT !.ex = c.examples[1]]

MultiState(c, tok) ==
  CASE tok = "[" -> Transition(c, [c EXCEPT !.types[c.ex] = "shared"], "Multi")
    [] tok = "{" -> LET d == NewExample(c, "action") IN Transition(c, Push(d, " ", "Multi"), "Default")
    [] tok = "]" -> Transition(c, ReturnToShared(c), "Default")
    [] tok = "null" -> BaseNull(c)
    [] OTHER -> Fails(c, "token")

(* ObservationState: "o".                                                  *)
ObservationState(c, tok) ==
  CASE tok = "[" -> Transition(c, c, "Observation")
    [] tok = "{" -> Transition(c, Push(c, " ", "Observation"), "Default")
    [] tok = "]" -> Transition(c, ReturnToShared(c), "DecisionService")
    [] tok = "null" -> BaseNull(c)
    [] OTHER -> Fails(c, "token")

(* SlotsState: "_slots".  The namespace of the context is closed while the *)
(* slots are read, so that each slot ends as an example of its own.        *)
SlotLabelIndex_Slip(c) == Len(c.examples) - 1
SlotLabelIndex(c) == Len(c.examples) - 2

SlotsState(c, tok) ==
  CASE tok = "[" ->
         Transition(c, [PopState(c) EXCEPT !.saved = Last(c.ret), !.saved_root = c.root, !.root = "Slots"], "Slots")
    [] tok = "{" ->
         LET d == NewExample(c, "slot") IN
         Transition(c, Push([d EXCEPT !.label_index = SlotLabelIndex(d)], " ", "Slots"), "Default")
    [] tok = "]" ->
         Transition(c, [Push(ReturnToShared(c), " ", c.saved) EXCEPT !.root = c.saved_root], "Default")
    [] tok = "null" -> BaseNull(c)
    [] OTHER -> Fails(c, "token")

(* SlotOutcomeList: "_outcomes", one object for each slot in order.        *)
OutcomesState(c, tok) ==
  CASE tok = "[" ->
         LET before == Cardinality({i \in DOMAIN c.examples : c.types[c.examples[i]] # "slot"}) IN
         Transition(c, [c EXCEPT !.slot_index = before, !.old_root = c.root, !.root = "Outcomes"], "Outcomes")
    [] tok = "{" ->
         Transition(c, Push([c EXCEPT !.ex = c.examples[c.slot_index + 1], !.label_index = c.slot_index - 1,
                                      !.slot_index = @ + 1], " ", "Outcomes"), "Default")
    [] tok = "]" -> Transition(c, [c EXCEPT !.root = c.old_root], "DecisionService")
    [] tok = "null" -> BaseNull(c)
    [] OTHER -> Fails(c, "token")

(* ArrayState: numbers, or objects that share the array's namespace.       *)
ArrayState(c, tok) ==
  CASE tok = "[" -> IF c.previous = "Array" THEN Fails(c, "nested") ELSE Transition(c, Push(c, c.key, c.previous), "Array")
    [] tok = "num" -> Transition(c, AddFeature(c), "Array")
    [] tok = "null" -> Transition(c, c, "Array")
    [] tok = "{" -> Transition(c, Push(c, Last(c.path).ns, "Array"), "Default")
    [] tok = "]" -> Transition(c, PopState(c), Last(c.ret))
    [] OTHER -> Fails(c, "token")

-----------------------------------------------------------------------------
(* DefaultState: the members of a context, action, slot or namespace.      *)
DefaultKey(c, key) ==
  LET d == [c EXCEPT !.key = key] IN
  CASE key = "_label_" -> Transition(c, d, "LabelSingleProperty")
    [] key = "_label" -> Transition(c, d, "Label")
    [] key = "_labelIndex" -> Transition(c, d, "LabelIndex")
    [] key = "_text" -> Transition(c, d, "Text")
    [] key = "_tag" -> Transition(c, d, "Tag")
    [] key = "_multi" -> IF Len(c.examples) > 1 THEN Fails(c, "nested") ELSE Transition(c, d, "Multi")
    [] key = "_slots" -> Transition(c, d, "Slots")
    [] key \in {"_inc", "_a", "_p"} -> Transition(c, [d EXCEPT !.vret = "Default"], "Vector")
    [] key = "_original_label_cost" -> Transition(c, [d EXCEPT !.vret = "Default"], "Scalar")
    [] key = "_other" -> Transition(c, d, "Ignore")
    [] OTHER -> Transition(c, d, "Default")

(* The end of an object.  At the end of an example the label is put on it, *)
(* or on the one that _labelIndex names, the observation is added, and a   *)
(* ccb example without slots gets one.                                     *)
IndexAfter_Slip(c) == c.label_index
IndexAfter(c) == -1

LabelledExample(c) ==
  CASE c.label_index < 0 -> LabelObjectEnd(c)
    [] c.label_index >= 0 /\ c.label_index + 1 >= Len(c.examples) -> Fails(c, "labelIndex")
    [] OTHER -> LabelObjectEnd([c EXCEPT !.ex = c.examples[c.label_index + 2], !.label_index = IndexAfter(c)])

WithObservation(c) == IF c.obs # 0 THEN [c EXCEPT !.examples = Append(@, c.obs)] ELSE c

WithSlot(c) ==
  IF label_type = "CCB" /\ c.found_cb /\ \A i \in DOMAIN c.examples : c.types[c.examples[i]] # "slot"
  THEN LET d == NewExample(c, "slot") IN [d EXCEPT !.labels = @ \cup ({d.ex} \X c.cb)]
  ELSE c

DefaultEnd(c) ==
  LET d == PopState(c)  r == Last(c.ret)  e == LabelledExample(d) IN
  CASE r = "Observation" -> Transition(c, d, r)
    [] r # "Observation" /\ d.path # << >> -> Transition(c, d, r)
    [] r # "Observation" /\ d.path = << >> /\ e.error # "none" -> e
    [] OTHER -> Transition(c, WithSlot(WithObservation(e)), c.root)

DefaultState(c, tok) ==
  CASE tok \in {"num", "str", "bool"} -> Transition(c, AddFeature(c), "Default")
    [] tok = "null" -> BaseNull(c)
    [] tok = "{" -> Transition(c, Push(c, c.key, "Default"), "Default")
    [] tok = "}" -> DefaultEnd(c)
    [] tok = "[" -> ArrayState(c, tok)
    [] OTHER -> Fails(c, "token")

(* DecisionServiceState: the members of a DSJSON line.  "p" and "_p" clear *)
(* the probabilities of the interaction, which are not those of the label. *)
DecisionServiceKey(c, key) ==
  CASE key \in {"a", "p", "_ba"} -> Transition(c, [c EXCEPT !.vret = "DecisionService", !.key = key], "Vector")
    [] key = "c" -> Transition(c, [c EXCEPT !.key = " "], "Default")
    [] key = "o" /\ label_type = "CBO" ->
         LET d == NewExample(c, "observation") IN
         Transition(c, [d EXCEPT !.examples = c.examples, !.obs = d.ex, !.key = " "], "Observation")
    [] key \in {"pdrop", "EventId", "_skipLearn", "_original_label_cost"} ->
         Transition(c, [c EXCEPT !.vret = "DecisionService"], "Scalar")
    [] key = "_label_" -> Transition(c, [c EXCEPT !.key = key], "LabelSingleProperty")
    [] key = "_labelIndex" -> Transition(c, [c EXCEPT !.key = key], "LabelIndex")
    [] key = "_outcomes" -> Transition(c, c, "Outcomes")
    [] OTHER -> Transition(c, c, "Ignore")

DecisionServiceState(c, tok) ==
  IF tok \in {"{", "}"} THEN Transition(c, c, "DecisionService")
  ELSE IF tok = "null" THEN BaseNull(c) ELSE Fails(c, "token")

-----------------------------------------------------------------------------
(* VWReaderHandler: the token goes to the current state.  `_p` in the "c"  *)
(* of a DSJSON line is blanked by Ignore, whose state is then not the one  *)
(* that is returned.                                                       *)
Handle(c, tok, owner, value) ==
  CASE c.current = "Default" -> DefaultState(c, tok)
    [] c.current = "DecisionService" -> DecisionServiceState(c, tok)
    [] c.current = "LabelObject" -> LabelObjectState(c, tok, owner)
    [] c.current = "LabelSingleProperty" -> LabelSingleProperty(c, tok, owner)
    [] c.current = "Label" -> LabelState(c, tok, owner)
    [] c.current = "LabelIndex" -> LabelIndexState(c, tok, value)
    [] c.current \in {"Text", "Tag"} -> StringState(c, tok)
    [] c.current = "Vector" -> VectorState(c, tok, owner)
    [] c.current = "Scalar" -> ScalarState(c, tok)
    [] c.current = "Ignore" -> IgnoreState(c, tok)
    [] c.current = "Multi" -> MultiState(c, tok)
    [] c.current = "Observation" -> ObservationState(c, tok)
    [] c.current = "Slots" -> SlotsState(c, tok)
    [] c.current = "Outcomes" -> OutcomesState(c, tok)
    [] OTHER -> ArrayState(c, tok)

HandleKey(c, key) ==
  CASE c.current = "Default" -> DefaultKey(c, key)
    [] c.current = "DecisionService" -> DecisionServiceKey(c, key)
    [] c.current = "LabelObject" -> LabelObjectState(c, "key", 0)
    [] OTHER -> Fails(c, "token")

-----------------------------------------------------------------------------
(* The document.  Frame kinds: "ds" a DSJSON line, "ctx" the context,      *)
(* "action", "slot", "feat" an object of features, "label" a label object, *)
(* "outcome", "seen" an observation; and the arrays "multi", "slots",      *)
(* "outcomes", "obs", "arr" (features) and "vec" (numbers).                *)
InFrame(kinds) == frames # << >> /\ awaiting = "" /\ Last(frames).kind \in kinds
Objects == {"ds", "ctx", "action", "slot", "feat", "label", "outcome", "seen"}
OnceOnly == {"_multi", "_slots", "c", "o", "_outcomes", "_labelIndex", "_label_", "_label", "_p"}

NoPending == ctx.cb = {} /\ ctx.actions = << >> /\ ctx.probs = << >>

(* The keys a frame may have next.  The parts of a label come before the   *)
(* end of what they label: in a DSJSON line, before "c".                   *)
KeysOf(kind) ==
  CASE kind = "ctx" ->
         {"f", "_tag"}
         \cup (IF "_slots" \in doc.given THEN {} ELSE {"_multi"})
         \cup (IF label_type = "CCB" /\ "_multi" \in doc.given /\ NoPending THEN {"_slots"} ELSE {})
         \cup (IF dsjson \/ "_slots" \in doc.given THEN {} ELSE {"_label_", "_labelIndex"})
         \cup (IF dsjson /\ "p_in_context" \in Quirks THEN {"_p"} ELSE {})
    [] kind = "action" ->
         {"f", "_text"} \cup (IF label_type = "CB" /\ NoPending /\ ~ctx.found_cb THEN {"_label"} ELSE {})
    [] kind = "slot" ->
         {"f"} \cup (IF ctx.inc = {} THEN {"_inc"} ELSE {})
               \cup (IF dsjson THEN {} ELSE {"_label_", "_a", "_p"})
    [] kind = "outcome" -> {"_label_", "_a", "_p", "_original_label_cost"}
    [] kind = "feat" -> {"g", "_other"}
    [] kind = "seen" -> {"f"}
    [] kind = "label" -> {"Cost"}
    [] OTHER -> {"a", "pdrop", "other", "c"}
                \cup (IF "c" \in doc.given THEN {} ELSE {"_label_", "_labelIndex", "o"})
                \cup (IF label_type = "CCB" /\ doc.slots # << >> THEN {"_outcomes"} ELSE {})

Again(k) ==  \* a slot or an outcome has its own parts of a label
  IF k \in {"_label_", "_a", "_p"} /\ Last(frames).kind \in {"slot", "outcome"}
  THEN CASE k = "_label_" -> ctx.cb = {} [] k = "_a" -> ctx.actions = << >> [] OTHER -> ctx.probs = << >>
  ELSE k \in OnceOnly => k \notin doc.given

Reading == lineEnd = "reading"

Moves(c) ==  \* the reader has handled a token
  /\ ctx' = c /\ UNCHANGED <<label_type, dsjson>>
  /\ lineEnd' = IF c.error # "none" THEN "rejected" ELSE IF frames' = << >> THEN "ok" ELSE "reading"

EmitKey(k) ==
  /\ Reading /\ InFrame(Objects) /\ k \in KeysOf(Last(frames).kind) /\ Again(k)
  /\ awaiting' = k /\ doc' = [doc EXCEPT !.given = @ \cup ({k} \cap OnceOnly)]
  /\ placed' = Nowhere /\ UNCHANGED frames
  /\ Moves(HandleKey(ctx, k))

(* What may follow a key.                                                  *)
ValuesOf(k) ==
  CASE k = "f" -> {"num", "null", "{", "["}
    [] k = "g" -> {"num", "{"}
    [] k \in {"_text", "_tag"} -> {"str", "null"}
    [] k \in {"_label_", "Cost"} -> {"num", "null"}
    [] k \in {"_a", "_p"} -> IF Last(frames).kind = "ctx" THEN {"num"} ELSE {"num", "["}
    [] k \in {"_multi", "_slots", "_outcomes", "o", "_inc", "a", "p"} ->
         IF k = "o" /\ label_type # "CBO" THEN {"num"} ELSE {"["}
    [] k \in {"c", "line", "_label"} -> {"{"}
    [] OTHER -> {"num"}

ElementsOf(kind) ==
  CASE kind = "arr" -> {"num", "null", "{"}
    [] kind = "vec" -> IF Len(ctx.actions) < 2 /\ Len(ctx.probs) < 2 THEN {"num"} ELSE {}
    [] kind \in {"multi", "slots"} ->
         (IF doc.opened < MaxLines THEN {"{"} ELSE {}) \cup (IF "null_element" \in Quirks THEN {"null"} ELSE {})
    [] kind = "outcomes" -> IF Last(frames).ex < Len(doc.slots) THEN {"{"} ELSE {}
    [] kind = "obs" -> {"{"}
    [] OTHER -> {}

NextTokens ==
  IF awaiting # "" THEN ValuesOf(awaiting)
  ELSE IF frames # << >> THEN ElementsOf(Last(frames).kind) ELSE {}

Owner == IF frames = << >> \/ Last(frames).kind \in {"ds", "ctx"} THEN 0 ELSE Last(frames).ex
IsFeature(tok) == tok \in {"num", "str"} /\ (awaiting \in {"f", "g", "_text"} \/ InFrame({"arr"}))

(* A scalar.                                                               *)
EmitValue(tok, value) ==
  /\ Reading /\ tok \in NextTokens \ {"{", "["}
  /\ awaiting' = ""
  /\ doc' = IF awaiting = "_labelIndex" THEN [doc EXCEPT !.index = value] ELSE doc
  /\ value # 0 => awaiting = "_labelIndex"
  /\ placed' = IF IsFeature(tok)
               THEN [got |-> <<Last(ctx.path).ex, Last(ctx.path).ns>>,
                     want |-> <<Last(frames).ex, Last(frames).ns>>]
               ELSE Nowhere
  /\ UNCHANGED frames
  /\ Moves(Handle(ctx, tok, Owner, value))

(* The beginning of an object or an array.                                 *)
Opened(tok) ==
  LET top == Last(frames)  new == doc.opened + 1
      In(kind, ex, ns) == [kind |-> kind, ex |-> ex, ns |-> ns] IN
  CASE awaiting = "line" -> IF dsjson THEN In("ds", 0, "") ELSE In("ctx", 1, " ")
    [] awaiting = "c" -> In("ctx", 1, " ")
    [] awaiting \in {"f", "g"} -> In(IF tok = "{" THEN "feat" ELSE "arr", top.ex, awaiting)
    [] awaiting = "_label" -> In("label", top.ex, "")
    [] awaiting = "_multi" -> In("multi", 0, "")
    [] awaiting = "_slots" -> In("slots", 0, "")
    [] awaiting = "_outcomes" -> In("outcomes", 0, "")
    [] awaiting = "o" -> In("obs", new, "")
    [] awaiting # "" -> In("vec", top.ex, "")
    [] InFrame({"arr"}) -> In("feat", top.ex, top.ns)
    [] InFrame({"multi"}) -> In("action", new, " ")
    [] InFrame({"slots"}) -> In("slot", new, " ")
    [] InFrame({"outcomes"}) -> In("outcome", doc.slots[top.ex + 1], " ")
    [] OTHER -> In("seen", top.ex, " ")

EmitOpen(tok) ==
  LET frame == Opened(tok) IN
  /\ Reading /\ tok \in NextTokens \cap {"{", "["} /\ Len(frames) < MaxDepth
  /\ frames' = Append(IF frame.kind = "outcome" THEN [frames EXCEPT ![Len(frames)].ex = @ + 1] ELSE frames, frame)
  /\ doc' = [doc EXCEPT !.opened = IF frame.kind \in {"action", "slot", "obs"} THEN @ + 1 ELSE @,
                        !.slots = IF frame.kind = "slot" THEN Append(@, frame.ex) ELSE @]
  /\ awaiting' = "" /\ placed' = Nowhere
  /\ Moves(Handle(ctx, tok, Owner, 0))

(* The end of one.  The label of a slot or an outcome has all its parts or *)
(* none, and a line has its context.                                       *)
EmitClose ==
  LET kind == Last(frames).kind IN
  /\ Reading /\ frames # << >> /\ awaiting = ""
  /\ kind \in {"slot", "outcome"} => Len(ctx.actions) = Len(ctx.probs) /\ (ctx.cb # {} => ctx.actions # << >>)
  /\ kind = "ds" => "c" \in doc.given
  /\ frames' = Front(frames) /\ awaiting' = "" /\ placed' = Nowhere /\ UNCHANGED doc
  /\ Moves(Handle(ctx, IF kind \in Objects THEN "}" ELSE "]", Owner, 0))

AllKeys == {"f", "g", "_text", "_tag", "_other", "_label_", "_label", "_labelIndex", "_multi", "_slots", "_inc",
            "_a", "_p", "_original_label_cost", "Cost", "a", "p", "pdrop", "other", "c", "o", "_outcomes"}

JsonNext ==
  \/ \E k \in AllKeys : EmitKey(k)
  \/ \E tok \in {"num", "str", "null"}, v \in 0 .. 1 : EmitValue(tok, v)
  \/ \E tok \in {"{", "["} : EmitOpen(tok)
  \/ EmitClose

JsonSpec == JsonInit /\ [][JsonNext]_jsonVars

-----------------------------------------------------------------------------
(* Every feature goes to the example and the namespace whose braces it is  *)
(* in, and no namespace is closed on another example than it was opened    *)
(* on, whatever was read before it.                                        *)
FeaturesPlaced == placed.got = placed.want /\ ~ctx.lost

(* A part of a label that was given for a slot, an outcome or an action is *)
(* on it, and the label of the line is on the action _labelIndex names,    *)
(* on the context where nothing is named, or on the slot made for it.      *)
LabelsPlaced ==
  \A l \in ctx.labels :
    \/ l[2] # 0 /\ l[1] = l[2]
    \/ l[2] = 0 /\ ctx.types[l[1]] = "slot"
    \/ l[2] = 0 /\ doc.index = -1 /\ l[1] = 1
    \/ l[2] = 0 /\ doc.index # -1 /\ ctx.types[l[1]] = "action" /\ ctx.examples[doc.index + 2] = l[1]

(* A document in the format is read to its end: the only thing that can be *)
(* wrong with it is a _labelIndex beyond the actions.  At the end the      *)
(* parser is back where it started, and every example it took is in the    *)
(* list, each once and in the order of the document, the observation last. *)
LineRead ==
  /\ ctx.error \in IF doc.index + 1 < Len(ctx.examples) THEN {"none"} ELSE {"none", "labelIndex"}
  /\ lineEnd = "ok" =>
       /\ ctx.path = << >> /\ ctx.ret = << >> /\ ctx.label_index = -1
       /\ ctx.root = (IF dsjson THEN "DecisionService" ELSE "Default") /\ ctx.current = ctx.root
       /\ Range(ctx.examples) = 1 .. ctx.created /\ IsInjective(ctx.examples)
       /\ doc.opened \in {ctx.created, ctx.created - 1}

(* "Ignore "_p" when it is inside the "c" key in decision service state":  *)
(* what it says of the label is not taken.                                 *)
ContextPIgnored == \A i \in DOMAIN ctx.probs : ctx.probs[i] # 0

-----------------------------------------------------------------------------
(***************************************************************************)
(* The flatbuffer parser (fb_parser/parse_example_flatbuffer.cc).  One     *)
(* parser object delivers one example per call and remembers where it is   *)
(* in the object it works on: a single example, a multi-example, or a      *)
(* collection of either.  It is used for files, where objects follow each  *)
(* other, and by read_span_flatbuffer for buffers of the caller, which may *)
(* be freed and handed out again at the same address.                      *)
(***************************************************************************)

CONSTANTS
  FbObjects,   \* objects: [kind, items]; kind "example": items is <<e>>,
               \* "multi" and "collection": examples, "multis": a sequence of
               \* multi-examples; an example is "good" or "bad"
  Addresses,   \* addresses of the caller's buffers
  MaxObjects   \* bound: objects in one behaviour

ASSUME FbAssumption == MaxObjects \in Nat

VARIABLES
  fbmode,      \* "none", "file" or "span"
  memory,      \* the number of the object at each address; 0: freed
  objects,     \* the objects of this behaviour, in the order in which they come
  fbGiven,       \* how many of them there have been
  active_collection, active_multi_ex, example_index, multi_ex_index,
  fbpointer,   \* _flatbuffer_pointer: an address, 0 for none
  fbdata,      \* the number of the object _data points to
  fbCall,        \* the span being read, 0: none
  fbAsked,       \* the object this or the last call was for, 0: none
  result,      \* what this call of read_span_flatbuffer has put into examples
  emitted,     \* file: the examples delivered, <<object, i, j>> or "newline"
  failed,      \* the last call returned an error
  abandoned    \* a caller has freed a span whose examples it has not all asked for

fbVars == <<fbmode, memory, objects, fbGiven, active_collection, active_multi_ex, example_index,
            multi_ex_index, fbpointer, fbdata, fbCall, fbAsked, result, emitted, failed, abandoned>>
parserVars == <<active_collection, active_multi_ex, example_index, multi_ex_index>>

FbInit ==
  /\ fbmode = "none" /\ memory = [a \in Addresses |-> 0] /\ objects = <<>> /\ fbGiven = 0
  /\ active_collection = FALSE /\ active_multi_ex = FALSE
  /\ example_index = 0 /\ multi_ex_index = 0 /\ fbpointer = 0 /\ fbdata = 0
  /\ fbCall = 0 /\ fbAsked = 0 /\ result = <<>> /\ emitted = <<>> /\ failed = FALSE /\ abandoned = FALSE

(* Example j of part i of an object; a part is a multi-example of a        *)
(* collection or the whole object.                                         *)
Obj(k) == objects[k]
Part(k, i) == IF Obj(k).kind = "multis" THEN Obj(k).items[i] ELSE Obj(k).items
InMulti(k) == Obj(k).kind \in {"multi", "multis"}

(* What one call of parse_examples makes of the parser: the position it    *)
(* works on and the state it leaves.                                       *)
ResetState == [coll |-> FALSE, multi |-> FALSE, i |-> 0, j |-> 0]
FbPosition == [coll |-> active_collection, multi |-> active_multi_ex,
             i |-> example_index, j |-> multi_ex_index]
NewObject(k) == [coll |-> Obj(k).kind \in {"collection", "multis"}, multi |-> InMulti(k),
                 i |-> 0, j |-> 0]

(* The next part of a collection, or its end.                              *)
NextItem_Slip(k, i) ==
  IF i + 1 = Len(Obj(k).items) THEN ResetState
  ELSE [coll |-> TRUE, multi |-> FALSE, i |-> i + 1, j |-> 1]
NextItem(k, i) ==
  IF i + 1 = Len(Obj(k).items) THEN ResetState
  ELSE [coll |-> TRUE, multi |-> FALSE, i |-> i + 1, j |-> 0]

(* One step at position s of object k: [out, state, ok].                   *)
ParseAt(k, s) ==
  LET s1 == IF s.coll /\ InMulti(k) THEN [s EXCEPT !.multi = TRUE] ELSE s
      part == Part(k, s.i + 1)
      at == IF s1.multi THEN s.j + 1 ELSE s.i + 1
  IN IF s1.multi /\ s.j >= Len(part)
     THEN [out |-> "newline", ok |-> TRUE,
           state |-> IF s.coll THEN NextItem(k, s.i) ELSE ResetState]
     ELSE IF part[at] = "bad" THEN [out |-> "none", ok |-> FALSE, state |-> s1]
     ELSE [out |-> <<k, IF s1.multi THEN s.i + 1 ELSE 1, at>>, ok |-> TRUE,
           state |-> IF s1.multi THEN [s1 EXCEPT !.j = @ + 1]
                     ELSE IF s.coll THEN NextItem(k, s.i) ELSE ResetState]

SetState(s) ==
  /\ active_collection' = s.coll /\ active_multi_ex' = s.multi
  /\ example_index' = s.i /\ multi_ex_index' = s.j

Active == active_collection \/ active_multi_ex

-----------------------------------------------------------------------------
(* A file: flatbuffer_to_examples delivers what one call parses; an error  *)
(* is an exception that ends the file.                                     *)
BeginFb ==
  /\ fbmode = "none" /\ fbmode' \in {"file", "span"}
  /\ \E n \in 1 .. MaxObjects : objects' \in [1 .. n -> FbObjects]
  /\ UNCHANGED <<memory, fbGiven, parserVars, fbpointer, fbdata, fbCall, fbAsked, result, emitted, failed,
                 abandoned>>

FileCall ==
  /\ fbmode = "file" /\ ~failed /\ (Active \/ fbGiven < Len(objects))
  /\ LET k == IF Active THEN fbdata ELSE fbGiven + 1
         r == ParseAt(k, IF Active THEN FbPosition ELSE NewObject(k))
     IN /\ fbdata' = k /\ fbGiven' = k /\ SetState(r.state) /\ failed' = ~r.ok
        /\ emitted' = IF r.ok THEN Append(emitted, r.out) ELSE emitted
  /\ UNCHANGED <<fbmode, memory, objects, fbpointer, fbCall, fbAsked, result, abandoned>>

-----------------------------------------------------------------------------
(* A caller puts the next object into a buffer and has it read.            *)
Allocate(a) ==
  /\ fbmode = "span" /\ fbCall = 0 /\ fbGiven < Len(objects) /\ memory[a] = 0
  /\ fbGiven' = fbGiven + 1 /\ memory' = [memory EXCEPT ![a] = fbGiven + 1]
  /\ UNCHANGED <<fbmode, objects, parserVars, fbpointer, fbdata, fbCall, fbAsked, result, emitted, failed,
                 abandoned>>

BeginSpan(a) ==
  /\ fbmode = "span" /\ fbCall = 0 /\ memory[a] # 0
  /\ fbpointer # a \/ Active \/ fbdata # memory[a]
  /\ fbCall' = a /\ fbAsked' = memory[a] /\ result' = <<>> /\ failed' = FALSE
  /\ UNCHANGED <<fbmode, memory, objects, fbGiven, parserVars, fbpointer, fbdata, emitted,
                 abandoned>>

(* One turn of its loop.  A new address resets the parser; an error does   *)
(* so too before it is returned.  The object in work is the one whose      *)
(* bytes are at the address now.                                           *)
KeepsState_Slip(a) == TRUE
KeepsState(a) == fbpointer = a

AfterError_Slip(s) == s
AfterError(s) == ResetState

SpanStep ==
  /\ fbCall # 0
  /\ LET busy == KeepsState(fbCall) /\ Active
         k == IF busy THEN fbdata ELSE memory[fbCall]
         r == ParseAt(k, IF busy THEN FbPosition ELSE NewObject(k))
         ended == r.ok /\ ~r.state.coll /\ ~r.state.multi
         more == r.ok /\ ~ended /\ r.out # "newline"
     IN /\ fbdata' = k /\ fbpointer' = fbCall /\ failed' = ~r.ok
        /\ SetState(IF r.ok THEN r.state ELSE AfterError(r.state))
        /\ result' = IF r.ok /\ r.out # "newline" THEN Append(result, r.out) ELSE result
        /\ fbCall' = IF more THEN fbCall ELSE 0
  /\ UNCHANGED <<fbmode, memory, objects, fbGiven, fbAsked, emitted, abandoned>>

FreeSpan(a) ==
  /\ fbmode = "span" /\ fbCall = 0 /\ memory[a] # 0 /\ memory' = [memory EXCEPT ![a] = 0]
  /\ abandoned' = (abandoned \/ (Active /\ ~failed /\ fbdata = memory[a]))
  /\ UNCHANGED <<fbmode, objects, fbGiven, parserVars, fbpointer, fbdata, fbCall, fbAsked, result, emitted,
                 failed>>

FbNext ==
  \/ BeginFb \/ FileCall \/ SpanStep
  \/ \E a \in Addresses : Allocate(a) \/ BeginSpan(a) \/ FreeSpan(a)

-----------------------------------------------------------------------------
(* What an object is meant to deliver: its examples, and a newline at the  *)
(* end of every multi-example.                                             *)
Examples(k, i) == [j \in 1 .. Len(Part(k, i)) |-> <<k, i, j>>]
Expected(k) ==
  CASE Obj(k).kind = "multi"  -> Append(Examples(k, 1), "newline")
    [] Obj(k).kind = "multis" ->
         FlattenSeq([i \in DOMAIN Obj(k).items |-> Append(Examples(k, i), "newline")])
    [] OTHER -> Examples(k, 1)

(* A file's examples are delivered in order and once each, a newline after *)
(* every multi-example and nowhere else, however the objects are nested.   *)
FileInOrder ==
  LET all == FlattenSeq([k \in 1 .. fbGiven |-> Expected(k)])
  IN /\ IsPrefix(emitted, all)
     /\ ~Active /\ ~failed /\ fbmode = "file" => emitted = all

(* A call on a span returns the examples of the object in that span, in    *)
(* order and all of them (of a collection of multi-examples: those of one  *)
(* of them), also after a call that failed half way through an object at   *)
(* the same address and while a collection at another address is           *)
(* unfinished, unless a caller has freed a collection before its end.      *)
SpanWhole ==
  ~abandoned /\ fbAsked # 0 /\ fbCall = 0 /\ ~failed =>
    \E i \in 1 .. IF Obj(fbAsked).kind = "multis" THEN Len(Obj(fbAsked).items) ELSE 1 :
      result = Examples(fbAsked, i)

(* Between two calls the parser is in the middle of nothing but an object  *)
(* that still exists: a freed one is never continued, whatever is handed   *)
(* out at its address next.                                                *)
NothingStale ==
  ~abandoned /\ fbmode = "span" /\ Active => \E a \in Addresses : memory[a] = fbdata
=============================================================================
