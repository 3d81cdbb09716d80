------------------------- MODULE ParsePipelineProofs -------------------------
(***************************************************************************)
(* The two threads of vw share examples safely, for every input, queue     *)
(* length and number of passes, with any failures and early stops.  The    *)
(* argument: every example is in exactly one of six places - the pool, the *)
(* parser's batch, the queue, the handler's sequence, the examples being   *)
(* finished, the handler's hand - and every step moves it from one to the  *)
(* next.  A thread writes to an example only while it is in a place of its *)
(* own, so what the other one has read of it stays true.                   *)
(*                                                                         *)
(* One use is excluded, since the code is wrong there (see NoInFlight-     *)
(* MultiEx): a save command among the lines of a multiline learner.        *)
(***************************************************************************)
EXTENDS ParsePipeline, SequenceTheorems, TLAPS

(* No command line gives a multiline learner an input with a save command. *)
NoSaveInGroups ==
  \A s \in Scenarios : s.multiline =>
    \A src \in s.sources : \A i \in DOMAIN src : \A j \in DOMAIN src[i] : src[i][j] # "save"

(* Then the handler never meets one.                                       *)
SaveFree ==
  Multiline =>
    /\ \A i \in DOMAIN source : \A j \in DOMAIN source[i] : source[i][j] # "save"
    /\ \A i \in DOMAIN input : \A j \in DOMAIN input[i] : input[i][j] # "save"
    /\ \A i \in DOMAIN cache : cache[i] # "save"
    /\ \A e \in 1 .. allocated : Kind(e) # "save"

(* Where the parser's batch is, by where the parser thread is.             *)
ParserShape ==
  /\ ppc \in {"get", "lock_done", "exited"} => examples = << >>
  /\ ppc \in {"read", "dispatch_end"} => pushed = 0 /\ Len(examples) = 1
  /\ ppc = "catch" => pushed = 0
  /\ ppc = "dispatch" => pushed < Len(examples)
  /\ ppc = "end_of_pass_done" => pushed = Len(examples)
  /\ exc_ptr => ppc \in {"lock_done", "exited"}

(* Where the handler's examples are, by where the main thread is; what it  *)
(* finds in ec when it looks again.                                        *)
Finishing(step) == mpc \in {"finish", "count"} /\ mret = step
Closing == {"newline", "end_pass"}
MainShape ==
  /\ fin = << >> <=> mpc \notin {"finish", "count"}
  /\ mpc \in {"drain", "join", "exit"} \/ Finishing("drain") \/ Finishing("exit") =>
       ec_seq = << >>
  /\ mpc = "exit" \/ Finishing("exit") => ready = << >> /\ ppc = "exited"
  /\ threw => mpc \in {"join", "exit"} \/ Finishing("exit")
  /\ ~Multiline => ~AtRecheck /\ ec_seq = << >>
  /\ mpc = "handle" => ec \in 1 .. allocated
  /\ AtRecheck => /\ ec \in 1 .. allocated
                  /\ Kind(ec) \in Closing \/ (Kind(ec) = "learn" /\ ec \in ToSet(ec_seq))

(* The six places.                                                         *)
Held == mpc = "handle" \/ (AtRecheck /\ Kind(ec) \in Closing)
Hand == IF Held THEN {ec} ELSE {}
Distinct(s) == \A i, j \in DOMAIN s : i # j => s[i] # s[j]
Apart(P, U, R, Q, F, H) ==
  /\ P \cap U = {} /\ P \cap R = {} /\ P \cap Q = {} /\ P \cap F = {} /\ P \cap H = {}
  /\ U \cap R = {} /\ U \cap Q = {} /\ U \cap F = {} /\ U \cap H = {}
  /\ R \cap Q = {} /\ R \cap F = {} /\ R \cap H = {}
  /\ Q \cap F = {} /\ Q \cap H = {} /\ F \cap H = {}
OnePlace ==
  /\ Distinct(pool) /\ Distinct(Undispatched) /\ Distinct(ready) /\ Distinct(ec_seq)
  /\ Distinct(ToReturn)
  /\ Apart(ToSet(pool), ToSet(Undispatched), ToSet(ready), ToSet(ec_seq), ToSet(ToReturn), Hand)
Accounted ==
  ~threw => 1 .. allocated \subseteq ToSet(pool) \union ToSet(Undispatched) \union ToSet(ready)
                                     \union ToSet(ec_seq) \union ToSet(ToReturn) \union Hand

(* What is on its way to the learner is of the present connection.         *)
Dispatching == ppc \in {"dispatch", "dispatch_end"}
OnTheWay ==
  ToSet(ready) \union ToSet(ec_seq) \union (IF mpc = "handle" THEN {ec} ELSE {})
    \union (IF Dispatching THEN ToSet(Undispatched) ELSE {})
FromClient ==
  Daemon => \A e \in OnTheWay : Kind(e) = "learn" => content[e].from = connection

PipelineInv ==
  /\ TypeOK /\ SaveFree /\ ParserShape /\ MainShape
  /\ OnePlace /\ Accounted /\ CountersAgree /\ FromClient

-----------------------------------------------------------------------------
(* Sequences as sets of different elements.                                *)
LEMMA EmptyOrOne ==
  /\ ToSet(<< >>) = {} /\ Distinct(<< >>)
  /\ \A e : ToSet(<<e>>) = {e} /\ Distinct(<<e>>)
BY DEF ToSet, Distinct

(* The elements of a sequence.                                             *)
LEMMA Elements ==
  ASSUME NEW S, NEW s \in Seq(S)
  PROVE  /\ ToSet(s) \subseteq S /\ ToSet(s) = {s[i] : i \in 1 .. Len(s)} /\ Len(s) \in Nat
         /\ DOMAIN s = 1 .. Len(s) /\ \A i \in 1 .. Len(s) : s[i] \in S /\ s[i] \in ToSet(s)
         /\ (s = << >> <=> Len(s) = 0) /\ (s = << >> <=> ToSet(s) = {})
<1>1. /\ DOMAIN s = 1 .. Len(s) /\ Len(s) \in Nat /\ (s = << >> <=> Len(s) = 0)
      /\ \A i \in 1 .. Len(s) : s[i] \in S
  BY LenProperties, EmptySeq
<1>2. ToSet(s) = {s[i] : i \in 1 .. Len(s)} BY <1>1 DEF ToSet
<1>3. s # << >> => s[1] \in ToSet(s) BY <1>1, <1>2
<1> QED BY <1>1, <1>2, <1>3, EmptyOrOne

(* Append.                                                                 *)
LEMMA Appended ==
  ASSUME NEW S, NEW s \in Seq(S), NEW e \in S
  PROVE  /\ Append(s, e) \in Seq(S) /\ Len(Append(s, e)) = Len(s) + 1
         /\ ToSet(Append(s, e)) = ToSet(s) \union {e}
         /\ Distinct(s) /\ e \notin ToSet(s) => Distinct(Append(s, e))
<1> DEFINE a == Append(s, e)
<1>1. /\ a \in Seq(S) /\ Len(a) = Len(s) + 1 /\ a[Len(s) + 1] = e
      /\ \A i \in 1 .. Len(s) : a[i] = s[i]
  BY AppendProperties, LenProperties
<1> HIDE DEF a
<1>2. /\ Len(s) \in Nat /\ DOMAIN a = 1 .. Len(s) + 1 /\ DOMAIN s = 1 .. Len(s)
      /\ ToSet(s) = {s[i] : i \in 1 .. Len(s)} /\ ToSet(a) = {a[i] : i \in 1 .. Len(s) + 1}
  BY <1>1, Elements
<1>3. ToSet(a) = ToSet(s) \union {e}
  <2>1. \A i \in 1 .. Len(s) + 1 : i \in 1 .. Len(s) \/ i = Len(s) + 1 BY <1>2
  <2>2. \A i \in 1 .. Len(s) : i \in 1 .. Len(s) + 1 BY <1>2
  <2>3. Len(s) + 1 \in 1 .. Len(s) + 1 BY <1>2
  <2> QED BY <1>1, <1>2, <2>1, <2>2, <2>3
<1>4. ASSUME Distinct(s), e \notin ToSet(s) PROVE Distinct(a)
  <2> SUFFICES ASSUME NEW i \in 1 .. Len(s) + 1, NEW j \in 1 .. Len(s) + 1, i # j
               PROVE  a[i] # a[j]
    BY <1>2 DEF Distinct
  <2>1. CASE i \in 1 .. Len(s) /\ j \in 1 .. Len(s) BY <1>1, <1>2, <1>4, <2>1 DEF Distinct
  <2>2. CASE i \in 1 .. Len(s) /\ j = Len(s) + 1 BY <1>1, <1>2, <1>4, <2>2
  <2>3. CASE i = Len(s) + 1 /\ j \in 1 .. Len(s) BY <1>1, <1>2, <1>4, <2>3
  <2> QED BY <1>2, <2>1, <2>2, <2>3
<1> QED BY <1>1, <1>3, <1>4 DEF a

(* Head and Tail.                                                          *)
LEMMA Shortened ==
  ASSUME NEW S, NEW s \in Seq(S), s # << >>
  PROVE  /\ Head(s) \in S /\ Head(s) \in ToSet(s) /\ Tail(s) \in Seq(S)
         /\ Len(Tail(s)) = Len(s) - 1 /\ Len(s) > 0
         /\ Distinct(s) => ToSet(Tail(s)) = ToSet(s) \ {Head(s)} /\ Distinct(Tail(s))
<1> DEFINE t == Tail(s)
<1>1. /\ Head(s) \in S /\ t \in Seq(S) /\ Len(t) = Len(s) - 1 /\ Head(s) = s[1]
      /\ \A i \in 1 .. Len(t) : t[i] = s[i + 1]
  BY HeadTailProperties
<1> HIDE DEF t
<1>2. /\ Len(s) \in Nat /\ Len(s) > 0 /\ DOMAIN s = 1 .. Len(s) /\ DOMAIN t = 1 .. Len(s) - 1
      /\ ToSet(s) = {s[i] : i \in 1 .. Len(s)} /\ ToSet(t) = {t[i] : i \in 1 .. Len(s) - 1}
  BY <1>1, Elements
<1>3. Head(s) \in ToSet(s) BY <1>1, <1>2
<1>4. ASSUME Distinct(s) PROVE ToSet(t) = ToSet(s) \ {Head(s)} /\ Distinct(t)
  <2>1. \A i \in 1 .. Len(s) - 1 : i + 1 \in 1 .. Len(s) /\ t[i] = s[i + 1] /\ i + 1 # 1
    BY <1>1, <1>2
  <2>2. \A i \in 1 .. Len(s) : i # 1 => i - 1 \in 1 .. Len(s) - 1 /\ t[i - 1] = s[i]
    BY <1>1, <1>2
  <2>3. 1 \in 1 .. Len(s) BY <1>2
  <2>4. ASSUME NEW x \in ToSet(t) PROVE x \in ToSet(s) \ {Head(s)}
    <3>1. PICK i \in 1 .. Len(s) - 1 : x = t[i] BY <1>2
    <3> QED BY <1>1, <1>2, <1>4, <2>1, <2>3, <3>1, SMTT(40) DEF Distinct
  <2>5. ASSUME NEW x \in ToSet(s) \ {Head(s)} PROVE x \in ToSet(t)
    <3>1. PICK i \in 1 .. Len(s) : x = s[i] BY <1>2
    <3> QED BY <1>1, <1>2, <2>2, <3>1
  <2>6. Distinct(t)
    <3> SUFFICES ASSUME NEW i \in 1 .. Len(s) - 1, NEW j \in 1 .. Len(s) - 1, i # j
                 PROVE  t[i] # t[j]
      BY <1>2 DEF Distinct
    <3>1. i + 1 # j + 1 OBVIOUS
    <3> QED BY <1>2, <1>4, <2>1, <3>1 DEF Distinct
  <2> QED BY <2>4, <2>5, <2>6
<1> QED BY <1>1, <1>2, <1>3, <1>4 DEF t

(* Concatenation.                                                          *)
LEMMA Joined ==
  ASSUME NEW S, NEW s \in Seq(S), NEW t \in Seq(S)
  PROVE  /\ s \o t \in Seq(S) /\ Len(s \o t) = Len(s) + Len(t)
         /\ ToSet(s \o t) = ToSet(s) \union ToSet(t)
         /\ Distinct(s) /\ Distinct(t) /\ ToSet(s) \cap ToSet(t) = {} => Distinct(s \o t)
<1> DEFINE c == s \o t
<1>1. /\ c \in Seq(S) /\ Len(c) = Len(s) + Len(t)
      /\ \A i \in 1 .. Len(s) + Len(t) : c[i] = IF i <= Len(s) THEN s[i] ELSE t[i - Len(s)]
  BY ConcatProperties
<1> HIDE DEF c
<1>2. /\ Len(s) \in Nat /\ Len(t) \in Nat /\ DOMAIN c = 1 .. Len(s) + Len(t)
      /\ DOMAIN s = 1 .. Len(s) /\ DOMAIN t = 1 .. Len(t)
      /\ ToSet(s) = {s[i] : i \in 1 .. Len(s)} /\ ToSet(t) = {t[i] : i \in 1 .. Len(t)}
      /\ ToSet(c) = {c[i] : i \in 1 .. Len(s) + Len(t)}
  <2>1. Len(s) \in Nat /\ DOMAIN s = 1 .. Len(s) /\ ToSet(s) = {s[i] : i \in 1 .. Len(s)}
    BY Elements
  <2>2. Len(t) \in Nat /\ DOMAIN t = 1 .. Len(t) /\ ToSet(t) = {t[i] : i \in 1 .. Len(t)}
    BY Elements
  <2>3. DOMAIN c = 1 .. Len(c) /\ ToSet(c) = {c[i] : i \in 1 .. Len(c)}
    BY <1>1, Elements
  <2> QED BY <1>1, <2>1, <2>2, <2>3
<1>3. ASSUME NEW i \in 1 .. Len(s) + Len(t)
      PROVE  \/ i \in 1 .. Len(s) /\ c[i] = s[i]
             \/ i - Len(s) \in 1 .. Len(t) /\ c[i] = t[i - Len(s)]
  BY <1>1, <1>2
<1>4. \A i \in 1 .. Len(s) : i \in 1 .. Len(s) + Len(t) /\ c[i] = s[i] BY <1>1, <1>2
<1>5. ASSUME NEW i \in 1 .. Len(t)
      PROVE  i + Len(s) \in 1 .. Len(s) + Len(t) /\ c[i + Len(s)] = t[i]
  BY <1>1, <1>2
<1>6. ToSet(c) = ToSet(s) \union ToSet(t) BY <1>2, <1>3, <1>4, <1>5
<1>7. ASSUME Distinct(s), Distinct(t), ToSet(s) \cap ToSet(t) = {} PROVE Distinct(c)
  <2> SUFFICES ASSUME NEW i \in 1 .. Len(s) + Len(t), NEW j \in 1 .. Len(s) + Len(t), i # j
               PROVE  c[i] # c[j]
    BY <1>2 DEF Distinct
  <2>1. CASE i \in 1 .. Len(s) /\ j \in 1 .. Len(s) BY <1>2, <1>4, <1>7, <2>1 DEF Distinct
  <2>2. CASE i \in 1 .. Len(s) /\ j \notin 1 .. Len(s)
    <3>1. c[i] \in ToSet(s) /\ c[j] \in ToSet(t) BY <1>2, <1>3, <1>4, <2>2
    <3> QED BY <1>7, <3>1
  <2>3. CASE i \notin 1 .. Len(s) /\ j \in 1 .. Len(s)
    <3>1. c[j] \in ToSet(s) /\ c[i] \in ToSet(t) BY <1>2, <1>3, <1>4, <2>3
    <3> QED BY <1>7, <3>1
  <2>4. CASE i \notin 1 .. Len(s) /\ j \notin 1 .. Len(s)
    <3>1. /\ i - Len(s) \in 1 .. Len(t) /\ c[i] = t[i - Len(s)]
          /\ j - Len(s) \in 1 .. Len(t) /\ c[j] = t[j - Len(s)]
      BY <1>3, <2>4
    <3>2. i - Len(s) # j - Len(s) BY <1>2
    <3> QED BY <1>2, <1>7, <3>1, <3>2 DEF Distinct
  <2> QED BY <2>1, <2>2, <2>3, <2>4
<1> QED BY <1>1, <1>6, <1>7 DEF c

(* The rest of a sequence.                                                 *)
LEMMA RestOf ==
  ASSUME NEW S, NEW s \in Seq(S), NEW k \in Nat
  PROVE  LET r == SubSeq(s, k + 1, Len(s))
         IN  /\ r \in Seq(S) /\ Len(r) = IF k <= Len(s) THEN Len(s) - k ELSE 0
             /\ \A i \in 1 .. Len(s) - k : r[i] = s[k + i]
             /\ k = 0 => r = s
             /\ k >= Len(s) => r = << >>
             /\ k < Len(s) => /\ r # << >> /\ Head(r) = s[k + 1]
                              /\ Tail(r) = SubSeq(s, k + 2, Len(s))
<1> DEFINE r == SubSeq(s, k + 1, Len(s))
<1>1. Len(s) \in Nat /\ \A i \in 1 .. Len(s) : s[i] \in S BY Elements
<1>2. /\ r \in Seq(S) /\ Len(r) = IF k + 1 <= Len(s) THEN Len(s) - (k + 1) + 1 ELSE 0
      /\ \A i \in 1 .. Len(s) - (k + 1) + 1 : r[i] = s[k + 1 + i - 1]
  <2>1. \A i \in k + 1 .. Len(s) : s[i] \in S BY <1>1
  <2> QED BY <1>1, <2>1, SubSeqProperties
<1> HIDE DEF r
<1>3. Len(r) = (IF k <= Len(s) THEN Len(s) - k ELSE 0) /\ Len(r) \in Nat BY <1>1, <1>2
<1>4. \A i \in 1 .. Len(s) - k : r[i] = s[k + i]
  <2> TAKE i \in 1 .. Len(s) - k
  <2>1. i \in 1 .. Len(s) - (k + 1) + 1 /\ k + 1 + i - 1 = k + i BY <1>1
  <2> QED BY <1>2, <2>1
<1>5. k = 0 => r = s
  <2> SUFFICES ASSUME k = 0 PROVE r = s OBVIOUS
  <2>1. Len(r) = Len(s) BY <1>1, <1>3
  <2>2. \A i \in 1 .. Len(r) : r[i] = s[i] BY <1>1, <1>4, <2>1
  <2> QED BY <1>2, <2>1, <2>2, SeqEqual
<1>6. k >= Len(s) => r = << >>
  <2> SUFFICES ASSUME k >= Len(s) PROVE r = << >> OBVIOUS
  <2>1. Len(r) = 0 BY <1>1, <1>3
  <2> QED BY <1>2, <2>1, Elements
<1>7. ASSUME k < Len(s)
      PROVE  r # << >> /\ Head(r) = s[k + 1] /\ Tail(r) = SubSeq(s, k + 2, Len(s))
  <2> DEFINE q == SubSeq(s, k + 2, Len(s))
  <2>1. Len(r) = Len(s) - k /\ Len(r) > 0 BY <1>1, <1>3, <1>7
  <2>2. r # << >> BY <1>2, <2>1, EmptySeq
  <2>3. Head(r) = s[k + 1]
    <3>1. Head(r) = r[1] BY <1>2, <2>2, HeadTailProperties
    <3>2. 1 \in 1 .. Len(s) - k BY <1>1, <1>7
    <3> QED BY <1>4, <3>1, <3>2
  <2>4. /\ q \in Seq(S) /\ Len(q) = IF k + 2 <= Len(s) THEN Len(s) - (k + 2) + 1 ELSE 0
        /\ \A i \in 1 .. Len(s) - (k + 2) + 1 : q[i] = s[k + 2 + i - 1]
    <3>1. \A i \in k + 2 .. Len(s) : s[i] \in S BY <1>1
    <3> QED BY <1>1, <3>1, SubSeqProperties
  <2> HIDE DEF q
  <2>5. /\ Tail(r) \in Seq(S) /\ Len(Tail(r)) = Len(r) - 1
        /\ \A i \in 1 .. Len(Tail(r)) : Tail(r)[i] = r[i + 1]
    BY <1>2, <2>2, HeadTailProperties
  <2>6. Len(Tail(r)) = Len(q) /\ Len(Tail(r)) = Len(s) - k - 1
    <3>1. Len(q) = Len(s) - k - 1 BY <1>1, <1>7, <2>4
    <3>2. Len(Tail(r)) = Len(s) - k - 1 BY <1>1, <2>1, <2>5
    <3> QED BY <3>1, <3>2
  <2>7. ASSUME NEW i \in 1 .. Len(Tail(r)) PROVE Tail(r)[i] = q[i]
    <3>1. i + 1 \in 1 .. Len(s) - k /\ i \in 1 .. Len(s) - (k + 2) + 1 /\ k + (i + 1) = k + 2 + i - 1
      BY <1>1, <1>7, <2>6
    <3> QED BY <1>4, <2>4, <2>5, <3>1
  <2>8. Tail(r) = q BY <2>4, <2>5, <2>6, <2>7, SeqEqual
  <2> QED BY <2>2, <2>3, <2>8 DEF q
<1> QED BY <1>2, <1>3, <1>4, <1>5, <1>6, <1>7 DEF r

(* A part of a sequence of different elements.                             *)
LEMMA PartOf ==
  ASSUME NEW S, NEW s \in Seq(S), NEW t \in Seq(S), NEW k \in Nat, Distinct(s),
         Len(t) + k <= Len(s), \A i \in 1 .. Len(t) : t[i] = s[k + i]
  PROVE  Distinct(t) /\ ToSet(t) = {s[i] : i \in k + 1 .. k + Len(t)}
<1>1. /\ Len(t) \in Nat /\ DOMAIN t = 1 .. Len(t) /\ ToSet(t) = {t[i] : i \in 1 .. Len(t)}
  BY Elements
<1>2. Len(s) \in Nat /\ DOMAIN s = 1 .. Len(s) BY Elements
<1>3. \A i \in 1 .. Len(t) : k + i \in 1 .. Len(s) /\ k + i \in k + 1 .. k + Len(t)
  BY <1>1, <1>2
<1>4. \A i \in k + 1 .. k + Len(t) : i - k \in 1 .. Len(t) /\ k + (i - k) = i BY <1>1, <1>2
<1>5. Distinct(t)
  <2> SUFFICES ASSUME NEW i \in 1 .. Len(t), NEW j \in 1 .. Len(t), i # j PROVE t[i] # t[j]
    BY <1>1 DEF Distinct
  <2>1. k + i # k + j OBVIOUS
  <2> QED BY <1>2, <1>3, <2>1 DEF Distinct
<1>6. ToSet(t) \subseteq {s[i] : i \in k + 1 .. k + Len(t)} BY <1>1, <1>3
<1>7. {s[i] : i \in k + 1 .. k + Len(t)} \subseteq ToSet(t)
  <2> SUFFICES ASSUME NEW i \in k + 1 .. k + Len(t) PROVE s[i] \in ToSet(t) OBVIOUS
  <2> QED BY <1>1, <1>4
<1> QED BY <1>5, <1>6, <1>7

-----------------------------------------------------------------------------
(* get_object, n times: what is handed out was in the pool or is new, and  *)
(* is in it no more.                                                       *)
LEMMA Handed ==
  ASSUME allocated \in Nat, pool \in Seq(1 .. allocated), Distinct(pool), NEW n \in Nat,
         TakeFromPool(n)
  PROVE  /\ allocated' \in Nat /\ allocated <= allocated'
         /\ pool' \in Seq(1 .. allocated') /\ Distinct(pool')
         /\ FromPool(n) \in Seq(1 .. allocated') /\ Distinct(FromPool(n)) /\ Len(FromPool(n)) = n
         /\ ToSet(FromPool(n)) \cap ToSet(pool') = {}
         /\ ToSet(FromPool(n)) \union ToSet(pool') =
              ToSet(pool) \union {e \in 1 .. allocated' : e > allocated}
<1> DEFINE f == FromPool(n)  L == Len(pool)
<1>1. /\ L \in Nat /\ DOMAIN pool = 1 .. L /\ ToSet(pool) = {pool[i] : i \in 1 .. L}
      /\ \A i \in 1 .. L : pool[i] \in 1 .. allocated
  BY Elements
<1>2. f = [i \in 1 .. n |-> IF i <= L THEN pool[i] ELSE allocated + i - L] BY DEF FromPool
<1>3. CASE n <= L
  <2>1. pool' = SubSeq(pool, n + 1, L) /\ allocated' = allocated BY <1>3 DEF TakeFromPool
  <2>2. /\ pool' \in Seq(1 .. allocated) /\ Len(pool') = L - n
        /\ \A i \in 1 .. Len(pool') : pool'[i] = pool[n + i]
    <3> DEFINE r == SubSeq(pool, n + 1, Len(pool))
    <3>1. /\ r \in Seq(1 .. allocated) /\ Len(r) = IF n <= Len(pool) THEN Len(pool) - n ELSE 0
          /\ \A i \in 1 .. Len(pool) - n : r[i] = pool[n + i]
      BY RestOf
    <3>2. pool' = r BY <2>1
    <3> HIDE DEF r
    <3>3. Len(r) = Len(pool) - n BY <1>3, <3>1
    <3> QED BY <3>1, <3>2, <3>3
  <2>3. Distinct(pool') /\ ToSet(pool') = {pool[i] : i \in n + 1 .. L}
    <3>1. Len(pool') + n <= L /\ n + Len(pool') = L BY <1>1, <2>2
    <3>2. Distinct(pool') /\ ToSet(pool') = {pool[i] : i \in n + 1 .. n + Len(pool')}
      <4> HIDE DEF L
      <4>1. Len(pool') + n <= Len(pool) BY <3>1 DEF L
      <4> QED BY ONLY n \in Nat, pool \in Seq(1 .. allocated), Distinct(pool), <2>2, <4>1, PartOf
    <3> QED BY <3>1, <3>2
  <2>4. \A i \in 1 .. n : f[i] = pool[i] /\ i \in 1 .. L BY <1>1, <1>2, <1>3
  <2>5. f \in Seq(1 .. allocated) /\ Len(f) = n
    <3>1. f \in [1 .. n -> 1 .. allocated] BY <1>1, <1>2, <2>4
    <3> QED BY <3>1, SeqDef, LenProperties
  <2>6. Distinct(f) /\ ToSet(f) = {pool[i] : i \in 1 .. n}
    <3> HIDE DEF f
    <3>1. Len(f) + 0 <= L /\ 0 + 1 = 1 /\ 0 + Len(f) = n BY <1>1, <1>3, <2>5
    <3>2. \A i \in 1 .. Len(f) : f[i] = pool[0 + i] BY <1>1, <2>4, <2>5
    <3>3. Distinct(f) /\ ToSet(f) = {pool[i] : i \in 0 + 1 .. 0 + Len(f)}
      <4> HIDE DEF L
      <4>1. Len(f) + 0 <= Len(pool) /\ 0 \in Nat BY <3>1 DEF L
      <4> QED BY ONLY pool \in Seq(1 .. allocated), Distinct(pool), <2>5, <3>2, <4>1, PartOf
    <3> QED BY <3>1, <3>3
  <2>7. ToSet(f) \cap ToSet(pool') = {}
    <3>1. \A i \in 1 .. n : \A j \in n + 1 .. L : i # j /\ i \in 1 .. L /\ j \in 1 .. L
      BY <1>1, <1>3
    <3> QED BY <1>1, <2>3, <2>6, <3>1 DEF Distinct
  <2>8. ToSet(f) \union ToSet(pool') = ToSet(pool)
    <3>1. \A i \in 1 .. L : i \in 1 .. n \/ i \in n + 1 .. L BY <1>1
    <3>2. \A i \in n + 1 .. L : i \in 1 .. L BY <1>1
    <3> QED BY <1>1, <2>3, <2>4, <2>6, <3>1, <3>2
  <2>9. {e \in 1 .. allocated : e > allocated} = {} OBVIOUS
  <2> QED BY <2>1, <2>2, <2>3, <2>5, <2>6, <2>7, <2>8, <2>9
<1>4. CASE ~(n <= L)
  <2>1. pool' = << >> /\ allocated' = allocated + n - L BY <1>4 DEF TakeFromPool
  <2>2. allocated' \in Nat /\ allocated <= allocated' BY <1>1, <1>4, <2>1
  <2>3. ToSet(pool') = {} /\ Distinct(pool') /\ pool' \in Seq(1 .. allocated')
    BY <2>1, EmptyOrOne, EmptySeq
  <2>4. ASSUME NEW i \in 1 .. n
        PROVE  \/ i \in 1 .. L /\ f[i] = pool[i] /\ f[i] \in 1 .. allocated
               \/ i \notin 1 .. L /\ f[i] = allocated + i - L /\ f[i] \in allocated + 1 .. allocated'
    BY <1>1, <1>2, <1>4, <2>1
  <2>5. f \in Seq(1 .. allocated') /\ Len(f) = n
    <3>1. \A i \in 1 .. n : f[i] \in 1 .. allocated' BY <2>2, <2>4
    <3>2. f \in [1 .. n -> 1 .. allocated'] BY <1>2, <3>1
    <3> HIDE DEF f
    <3>3. f \in Seq(1 .. allocated') BY ONLY n \in Nat, <3>2, SeqDef
    <3> QED BY <3>2, <3>3, LenProperties
  <2> HIDE DEF f
  <2>6. DOMAIN f = 1 .. n /\ ToSet(f) = {f[i] : i \in 1 .. n} BY <2>5, Elements
  <2>7. Distinct(f)
    <3> SUFFICES ASSUME NEW i \in 1 .. n, NEW j \in 1 .. n, i # j PROVE f[i] # f[j]
      BY <2>6 DEF Distinct
    <3>1. CASE i \in 1 .. L /\ j \in 1 .. L
      <4>1. f[i] = pool[i] /\ f[j] = pool[j] BY <2>4, <3>1
      <4> QED BY <1>1, <3>1, <4>1 DEF Distinct
    <3>2. CASE i \in 1 .. L /\ j \notin 1 .. L
      <4>1. f[i] \in 1 .. allocated /\ f[j] \in allocated + 1 .. allocated' BY <2>4, <3>2
      <4> QED BY <4>1
    <3>3. CASE i \notin 1 .. L /\ j \in 1 .. L
      <4>1. f[j] \in 1 .. allocated /\ f[i] \in allocated + 1 .. allocated' BY <2>4, <3>3
      <4> QED BY <4>1
    <3>4. CASE i \notin 1 .. L /\ j \notin 1 .. L
      <4>1. f[i] = allocated + i - L /\ f[j] = allocated + j - L BY <2>4, <3>4
      <4> QED BY <1>1, <4>1
    <3> QED BY <3>1, <3>2, <3>3, <3>4
  <2>8. ToSet(f) = ToSet(pool) \union {e \in 1 .. allocated' : e > allocated}
    <3>1. ASSUME NEW i \in 1 .. n
          PROVE  f[i] \in ToSet(pool) \union {e \in 1 .. allocated' : e > allocated}
      <4>1. CASE i \in 1 .. L /\ f[i] = pool[i] BY <1>1, <4>1
      <4>2. CASE f[i] \in allocated + 1 .. allocated' BY <2>2, <4>2
      <4> QED BY <2>4, <4>1, <4>2
    <3>2. ASSUME NEW i \in 1 .. L PROVE pool[i] \in ToSet(f)
      <4>1. i \in 1 .. n BY <1>1, <1>4
      <4> QED BY <2>4, <2>6, <4>1
    <3>3. ASSUME NEW e \in 1 .. allocated', e > allocated PROVE e \in ToSet(f)
      <4>1. e - allocated + L \in 1 .. n /\ e - allocated + L \notin 1 .. L
            /\ allocated + (e - allocated + L) - L = e
        BY <1>1, <1>4, <2>1, <3>3
      <4> QED BY <2>4, <2>6, <4>1
    <3> QED BY <1>1, <2>6, <3>1, <3>2, <3>3
  <2> QED BY <2>2, <2>3, <2>5, <2>7, <2>8 DEF f
<1> QED BY <1>3, <1>4

-----------------------------------------------------------------------------
(* TypeOK by threads.                                                      *)
Contents == [kind : InputKinds \union {"empty", "end_pass"}, from : Nat, pos : Nat]
InputTypes ==
  /\ options \in Scenarios /\ source \in options.sources /\ input \in Seq(Batches)
  /\ taken \in Nat /\ cache \in Seq(InputKinds) /\ write_cache \in BOOLEAN
ParserTypes ==
  /\ ppc \in {"get", "read", "dispatch", "dispatch_end", "end_of_pass_done",
              "catch", "lock_done", "exited"}
  /\ examples \in Seq(1 .. allocated) /\ pushed \in Nat
  /\ example_number \in Nat /\ passes_complete \in Nat /\ pass_length \in Nat
  /\ connection \in Nat /\ num_setup_examples \in Nat /\ exc_ptr \in BOOLEAN
SharedTypes ==
  /\ pool \in Seq(1 .. allocated) /\ allocated \in Nat /\ content \in [1 .. allocated -> Contents]
  /\ ready \in Seq(1 .. allocated) /\ Len(ready) <= QueueLimit /\ done \in BOOLEAN
MainTypes ==
  /\ mpc \in {"pop", "handle", "recheck", "finish", "count", "remaining", "drain",
              "join", "exit"}
  /\ mret \in {"pop", "recheck", "drain", "exit"}
  /\ ec \in 0 .. allocated /\ ec_seq \in Seq(1 .. allocated) /\ fin \in Seq(1 .. allocated)
  /\ early_terminate \in BOOLEAN /\ threw \in BOOLEAN
  /\ log \in Seq(Seq(Nat \X Nat)) /\ num_finished_examples \in Nat

(* The parts make up the type invariant.                                   *)
LEMMA TypesSplit == TypeOK <=> InputTypes /\ ParserTypes /\ SharedTypes /\ MainTypes
BY DEF TypeOK, InputTypes, ParserTypes, SharedTypes, MainTypes, Contents

(* The same in the next state.                                             *)
LEMMA TypesSplitNext == TypeOK' <=> InputTypes' /\ ParserTypes' /\ SharedTypes' /\ MainTypes'
BY DEF TypeOK, InputTypes, ParserTypes, SharedTypes, MainTypes, Contents

(* The scenario's numbers.                                                 *)
LEMMA OptionTypes ==
  ASSUME options \in Scenarios
  PROVE  /\ QueueLimit \in Nat \ {0} /\ NumPasses \in Nat /\ PassLength \in Nat
         /\ options.sources \subseteq Seq(Batches) /\ Multiline \in BOOLEAN /\ Cache \in BOOLEAN
BY ScenariosAssumption DEF QueueLimit, NumPasses, PassLength, Multiline, Cache

(* The places as sets of examples.                                         *)
LEMMA PlacesTyped ==
  ASSUME TypeOK, MainShape
  PROVE  /\ Undispatched \in Seq(1 .. allocated) /\ ToReturn \in Seq(1 .. allocated)
         /\ ToSet(pool) \subseteq 1 .. allocated /\ ToSet(Undispatched) \subseteq 1 .. allocated
         /\ ToSet(ready) \subseteq 1 .. allocated /\ ToSet(ec_seq) \subseteq 1 .. allocated
         /\ ToSet(ToReturn) \subseteq 1 .. allocated /\ Hand \subseteq 1 .. allocated
<1> USE DEF TypeOK
<1>1. Undispatched \in Seq(1 .. allocated) BY RestOf DEF Undispatched
<1>2. ToReturn \in Seq(1 .. allocated)
  <2>1. CASE mpc = "count"
    <3>1. fin # << >> BY <2>1 DEF MainShape
    <3>2. Tail(fin) \in Seq(1 .. allocated) BY <3>1, Shortened
    <3> QED BY <2>1, <3>2 DEF ToReturn
  <2>2. CASE mpc # "count" BY <2>2 DEF ToReturn
  <2> QED BY <2>1, <2>2
<1>3. /\ ToSet(pool) \subseteq 1 .. allocated /\ ToSet(ready) \subseteq 1 .. allocated
      /\ ToSet(ec_seq) \subseteq 1 .. allocated
  BY Elements
<1>4. ToSet(Undispatched) \subseteq 1 .. allocated /\ ToSet(ToReturn) \subseteq 1 .. allocated
  BY <1>1, <1>2, Elements
<1>5. Hand \subseteq 1 .. allocated BY DEF Hand, Held, MainShape
<1> QED BY <1>1, <1>2, <1>3, <1>4, <1>5

(* What the invariant says is what the two threads rely on.                *)
LEMMA PipelineInvIsSafe == PipelineInv => SharedStateSafe
<1> SUFFICES ASSUME PipelineInv PROVE SharedStateSafe OBVIOUS
<1> USE DEF PipelineInv
<1> DEFINE A == 1 .. allocated
<1>1. /\ pool \in Seq(A) /\ Undispatched \in Seq(A) /\ ready \in Seq(A) /\ ec_seq \in Seq(A)
      /\ ToReturn \in Seq(A)
  BY PlacesTyped DEF TypeOK
<1>2. /\ Distinct(pool) /\ Distinct(Undispatched) /\ Distinct(ready) /\ Distinct(ec_seq)
      /\ Distinct(ToReturn)
      /\ Apart(ToSet(pool), ToSet(Undispatched), ToSet(ready), ToSet(ec_seq), ToSet(ToReturn), Hand)
  BY DEF OnePlace
<1> HIDE DEF A
<1>3. Ownership
  <2> DEFINE h1 == pool \o Undispatched
             h2 == h1 \o ready
             h3 == h2 \o ec_seq
             h4 == h3 \o ToReturn
  <2>1. h1 \in Seq(A) /\ Distinct(h1) /\ ToSet(h1) = ToSet(pool) \union ToSet(Undispatched)
    BY <1>1, <1>2, Joined DEF Apart
  <2> HIDE DEF h1
  <2>2. h2 \in Seq(A) /\ Distinct(h2) /\ ToSet(h2) = ToSet(h1) \union ToSet(ready)
    <3>1. ToSet(h1) \cap ToSet(ready) = {} BY <1>2, <2>1 DEF Apart
    <3> QED BY <1>1, <1>2, <2>1, <3>1, Joined
  <2> HIDE DEF h2
  <2>3. h3 \in Seq(A) /\ Distinct(h3) /\ ToSet(h3) = ToSet(h2) \union ToSet(ec_seq)
    <3>1. ToSet(h2) \cap ToSet(ec_seq) = {} BY <1>2, <2>1, <2>2 DEF Apart
    <3> QED BY <1>1, <1>2, <2>2, <3>1, Joined
  <2> HIDE DEF h3
  <2>4. h4 \in Seq(A) /\ Distinct(h4) /\ ToSet(h4) = ToSet(h3) \union ToSet(ToReturn)
    <3>1. ToSet(h3) \cap ToSet(ToReturn) = {} BY <1>2, <2>1, <2>2, <2>3 DEF Apart
    <3> QED BY <1>1, <1>2, <2>3, <3>1, Joined
  <2>5. Holders = h4 BY DEF Holders, h1, h2, h3
  <2>6. mpc = "handle" => ec \notin ToSet(Holders)
    <3> SUFFICES ASSUME mpc = "handle" PROVE ec \notin ToSet(Holders) OBVIOUS
    <3>1. Hand = {ec} BY DEF Hand, Held
    <3>2. ToSet(Holders) = ToSet(pool) \union ToSet(Undispatched) \union ToSet(ready)
                            \union ToSet(ec_seq) \union ToSet(ToReturn)
      BY <2>1, <2>2, <2>3, <2>4, <2>5
    <3> QED BY <1>2, <3>1, <3>2 DEF Apart
  <2>7. \A i, j \in DOMAIN Holders : i # j => Holders[i] # Holders[j]
    BY <2>4, <2>5 DEF Distinct
  <2> QED BY <2>6, <2>7 DEF Ownership
<1>4. NothingLeaked
  <2> SUFFICES ASSUME mpc = "exit", ~threw PROVE ToSet(pool) = 1 .. allocated
    BY DEF NothingLeaked
  <2>1. fin = << >> /\ ec_seq = << >> /\ ready = << >> /\ ppc = "exited" BY DEF MainShape
  <2>2. examples = << >> BY <2>1 DEF ParserShape
  <2>3. Undispatched = << >>
    <3>1. Len(examples) = 0 /\ pushed \in Nat BY <2>2, EmptySeq DEF TypeOK
    <3> QED BY <3>1, RestOf DEF Undispatched, TypeOK
  <2>4. ToReturn = << >> /\ ~Held BY <2>1 DEF ToReturn, Held, AtRecheck
  <2>5. Hand = {} BY <2>4 DEF Hand
  <2>6. 1 .. allocated \subseteq ToSet(pool)
    BY <2>1, <2>3, <2>4, <2>5, EmptyOrOne DEF Accounted
  <2> QED BY <2>6, PlacesTyped
<1>5. SinkStable BY DEF FromClient, OnTheWay, SinkStable
<1> QED BY <1>3, <1>4, <1>5 DEF SharedStateSafe

-----------------------------------------------------------------------------
(* vw starts with all examples in the pool.                                *)
LEMMA PipelineStarts ==
  ASSUME NoSaveInGroups, Init PROVE PipelineInv
<1> USE DEF Init
<1>0. options \in Scenarios /\ QueueLimit \in Nat \ {0} /\ PassLength \in Nat
      /\ options.sources \subseteq Seq(Batches) /\ Cache \in BOOLEAN
  BY OptionTypes
<1>1. pool \in Seq(1 .. allocated) /\ Len(pool) = allocated /\ allocated \in Nat
      /\ ToSet(pool) = 1 .. allocated /\ Distinct(pool)
  <2>1. pool \in [1 .. allocated -> 1 .. allocated] /\ allocated \in Nat BY <1>0
  <2>2. pool \in Seq(1 .. allocated) BY <2>1, SeqDef
  <2>3. \A i \in 1 .. allocated : pool[i] = i BY <1>0
  <2>4. DOMAIN pool = 1 .. allocated BY <1>0
  <2> QED BY <2>1, <2>2, <2>3, <2>4, LenProperties DEF ToSet, Distinct
<1>2. TypeOK
  <2>1. InputTypes BY <1>0, EmptySeq DEF InputTypes
  <2>2. ParserTypes BY <1>0, <1>1, EmptySeq DEF ParserTypes
  <2>3. SharedTypes
    <3>1. content \in [1 .. allocated -> Contents] BY DEF Contents, Blank
    <3>2. ready \in Seq(1 .. allocated) /\ Len(ready) <= QueueLimit BY <1>0, EmptySeq
    <3> QED BY <1>1, <3>1, <3>2 DEF SharedTypes
  <2>4. MainTypes
    <3>1. << >> \in Seq(1 .. allocated) /\ << >> \in Seq(Seq(Nat \X Nat)) BY EmptySeq
    <3>2. 0 \in 0 .. allocated BY <1>1
    <3> QED BY <3>1, <3>2 DEF MainTypes
  <2> QED BY <2>1, <2>2, <2>3, <2>4, TypesSplit
<1>3. SaveFree
  <2>1. Multiline => \A i \in DOMAIN source : \A j \in DOMAIN source[i] : source[i][j] # "save"
    BY <1>0 DEF NoSaveInGroups, Multiline
  <2>2. \A e \in 1 .. allocated : Kind(e) # "save" BY DEF Kind, Blank
  <2>3. DOMAIN cache = {} OBVIOUS
  <2> QED BY <2>1, <2>2, <2>3 DEF SaveFree
<1>4. ParserShape /\ MainShape BY DEF ParserShape, MainShape, Finishing, AtRecheck
<1>5. Undispatched = << >> /\ ToReturn = << >> /\ ~Held /\ Hand = {}
  BY RestOf, EmptySeq DEF Undispatched, ToReturn, Held, Hand, AtRecheck
<1>6. OnePlace BY <1>1, <1>5, EmptyOrOne DEF OnePlace, Apart
<1>7. Accounted BY <1>1 DEF Accounted
<1>8. CountersAgree
  BY <1>5, EmptySeq DEF CountersAgree, InHand, AtRecheck
<1>9. FromClient BY <1>5, EmptyOrOne DEF FromClient, OnTheWay, Dispatching
<1> QED BY <1>2, <1>3, <1>4, <1>6, <1>7, <1>8, <1>9 DEF PipelineInv

-----------------------------------------------------------------------------
(* A step of the main thread that touches neither pool nor contents: what  *)
(* has to be shown of it.                                                  *)
LEMMA MainKeeps ==
  ASSUME PipelineInv, MainOnly, options' = options, MainTypes', MainShape',
         ready' \in Seq(1 .. allocated), Len(ready') <= Len(ready), done' \in BOOLEAN,
         Distinct(ready'), Distinct(ec_seq'), Distinct(ToReturn'),
         Apart(ToSet(pool), ToSet(Undispatched), ToSet(ready'), ToSet(ec_seq'), ToSet(ToReturn'),
               Hand'),
         ~threw' => /\ ~threw
                    /\ ToSet(ready) \union ToSet(ec_seq) \union ToSet(ToReturn) \union Hand
                         \subseteq ToSet(ready') \union ToSet(ec_seq') \union ToSet(ToReturn')
                                   \union Hand'
                    /\ num_finished_examples + Len(ready) + Len(ec_seq) + Len(fin) + InHand
                         = num_finished_examples' + Len(ready') + Len(ec_seq') + Len(fin') + InHand',
         ToSet(ready') \union ToSet(ec_seq') \union (IF mpc' = "handle" THEN {ec'} ELSE {})
           \subseteq ToSet(ready) \union ToSet(ec_seq) \union (IF mpc = "handle" THEN {ec} ELSE {})
  PROVE  PipelineInv'
<1> USE DEF PipelineInv, MainOnly, parserVars, inputVars, poolVars
<1>1. TypeOK'
  <2>1. InputTypes' /\ ParserTypes' BY TypesSplit DEF InputTypes, ParserTypes
  <2>2. SharedTypes'
    <3>1. Len(ready') <= QueueLimit
      <4>1. Len(ready) <= QueueLimit /\ QueueLimit \in Nat /\ Len(ready) \in Nat
        BY OptionTypes, Elements DEF TypeOK
      <4>2. Len(ready') \in Nat BY Elements
      <4> QED BY <4>1, <4>2
    <3> QED BY <3>1, TypesSplit DEF SharedTypes, QueueLimit
  <2> QED BY <2>1, <2>2, TypesSplitNext
<1>2. SaveFree' BY DEF SaveFree, Kind, Multiline
<1>3. ParserShape' BY DEF ParserShape
<1>4. Undispatched' = Undispatched /\ (Dispatching' <=> Dispatching)
  BY DEF Undispatched, Dispatching
<1>5. OnePlace' BY <1>4 DEF OnePlace
<1>6. Accounted' BY <1>4 DEF Accounted
<1>7. CountersAgree'
  <2> SUFFICES ASSUME ppc # "catch", ~exc_ptr, ~threw'
               PROVE  num_setup_examples
                        = num_finished_examples' + Len(ready') + Len(ec_seq') + Len(fin') + InHand'
                          + (IF Dispatching THEN Len(Undispatched) ELSE 0)
    BY <1>4 DEF CountersAgree, Dispatching
  <2>1. num_setup_examples
          = num_finished_examples + Len(ready) + Len(ec_seq) + Len(fin) + InHand
            + (IF Dispatching THEN Len(Undispatched) ELSE 0)
    BY DEF CountersAgree, Dispatching
  <2> QED BY <2>1
<1>8. FromClient'
  <2>1. OnTheWay' \subseteq OnTheWay BY <1>4 DEF OnTheWay
  <2> QED BY <2>1 DEF FromClient, Kind, Daemon
<1> QED BY <1>1, <1>2, <1>3, <1>5, <1>6, <1>7, <1>8

(* What is logged is a sequence of pairs of numbers.                       *)
LEMMA LogTyped ==
  ASSUME TypeOK, NEW es \in Seq(1 .. allocated)
  PROVE  Append(log, Entry(es)) \in Seq(Seq(Nat \X Nat))
<1>1. /\ DOMAIN es = 1 .. Len(es) /\ Len(es) \in Nat
      /\ \A i \in 1 .. Len(es) : es[i] \in 1 .. allocated
  BY Elements
<1>2. Entry(es) \in [1 .. Len(es) -> Nat \X Nat] BY <1>1 DEF Entry, TypeOK
<1>3. Entry(es) \in Seq(Nat \X Nat) BY <1>1, <1>2, SeqDef
<1>4. log \in Seq(Seq(Nat \X Nat)) BY DEF TypeOK
<1> QED BY <1>3, <1>4, AppendProperties

(* Facts about the present state that most steps of the main thread need.  *)
LEMMA MainFacts ==
  ASSUME PipelineInv
  PROVE  /\ MainTypes /\ MainShape /\ options \in Scenarios /\ Multiline \in BOOLEAN
         /\ ready \in Seq(1 .. allocated) /\ Len(ready) \in Nat /\ Len(ec_seq) \in Nat
         /\ Len(fin) \in Nat /\ done \in BOOLEAN /\ allocated \in Nat
         /\ Distinct(ready) /\ Distinct(ec_seq) /\ Distinct(ToReturn)
         /\ Apart(ToSet(pool), ToSet(Undispatched), ToSet(ready), ToSet(ec_seq), ToSet(ToReturn),
                  Hand)
         /\ Multiline => \A e \in 1 .. allocated : Kind(e) # "save"
<1>1. /\ MainTypes /\ MainShape /\ options \in Scenarios /\ done \in BOOLEAN
      /\ ready \in Seq(1 .. allocated) /\ allocated \in Nat
      /\ ec_seq \in Seq(1 .. allocated) /\ fin \in Seq(1 .. allocated)
  BY TypesSplit DEF PipelineInv, InputTypes, SharedTypes, MainTypes
<1>2. Len(ready) \in Nat /\ Len(ec_seq) \in Nat /\ Len(fin) \in Nat BY <1>1, Elements
<1>3. Multiline \in BOOLEAN BY <1>1, OptionTypes
<1> QED BY <1>1, <1>2, <1>3 DEF PipelineInv, OnePlace, SaveFree

(* pop.                                                                    *)
LEMMA PopKeeps ==
  ASSUME PipelineInv, PopExample, options' = options PROVE PipelineInv'
<1> USE MainFacts DEF PopExample, MainOnly
<1>1. mpc = "pop" /\ ready # << >> /\ mpc' = "handle" BY DEF MayPop
<1>2. fin = << >> /\ ~Held /\ Hand = {} /\ InHand = 0 /\ ~threw /\ fin' = fin /\ ec_seq' = ec_seq
  BY <1>1 DEF MainShape, Held, Hand, InHand, AtRecheck, Finishing
<1>3. /\ Head(ready) \in 1 .. allocated /\ Head(ready) \in ToSet(ready)
      /\ ready' \in Seq(1 .. allocated) /\ Len(ready') = Len(ready) - 1
      /\ ToSet(ready') = ToSet(ready) \ {Head(ready)} /\ Distinct(ready')
  BY <1>1, Shortened
<1>4. ToReturn = << >> /\ ToReturn' = << >> BY <1>1, <1>2 DEF ToReturn
<1>5. Hand' = {Head(ready)} /\ InHand' = 1 BY <1>1 DEF Hand, Held, InHand
<1>6. MainTypes' BY <1>1, <1>3 DEF MainTypes, poolVars
<1>7. MainShape'
  BY <1>1, <1>2, <1>3 DEF MainShape, Finishing, AtRecheck, Multiline, poolVars
<1>8. Apart(ToSet(pool), ToSet(Undispatched), ToSet(ready'), ToSet(ec_seq'), ToSet(ToReturn'),
            Hand')
  BY <1>2, <1>3, <1>4, <1>5 DEF Apart
<1>9. ToSet(ready) \union ToSet(ec_seq) \union ToSet(ToReturn) \union Hand
        \subseteq ToSet(ready') \union ToSet(ec_seq') \union ToSet(ToReturn') \union Hand'
  BY <1>2, <1>3, <1>4, <1>5
<1>10. num_finished_examples + Len(ready) + Len(ec_seq) + Len(fin) + InHand
         = num_finished_examples' + Len(ready') + Len(ec_seq') + Len(fin') + InHand'
  BY <1>2, <1>3, <1>5 DEF MainTypes
<1>11. ToSet(ready') \union ToSet(ec_seq') \union (IF mpc' = "handle" THEN {ec'} ELSE {})
         \subseteq ToSet(ready) \union ToSet(ec_seq) \union (IF mpc = "handle" THEN {ec} ELSE {})
  BY <1>2, <1>3
<1>12. Len(ready') <= Len(ready) BY <1>3
<1> HIDE MainFacts
<1> QED BY <1>2, <1>3, <1>4, <1>6, <1>7, <1>8, <1>9, <1>10, <1>11, <1>12, MainKeeps, MainFacts

(* A step in which no example changes its place.                           *)
LEMMA NothingMoves ==
  ASSUME PipelineInv, MainOnly, options' = options, MainTypes', MainShape',
         UNCHANGED <<ec, ec_seq, fin, ready, num_finished_examples, threw>>, done' \in BOOLEAN,
         ToReturn' = ToReturn, Hand' = Hand, InHand' = InHand, mpc' # "handle"
  PROVE  PipelineInv'
<1> USE MainFacts
<1>1. ToSet(ready') \union ToSet(ec_seq') \union (IF mpc' = "handle" THEN {ec'} ELSE {})
        \subseteq ToSet(ready) \union ToSet(ec_seq) \union (IF mpc = "handle" THEN {ec} ELSE {})
  OBVIOUS
<1>2. Len(ready') <= Len(ready) OBVIOUS
<1> QED BY <1>1, <1>2, MainKeeps

(* The example in hand is passed to finish_example.                        *)
LEMMA HandFinished ==
  ASSUME PipelineInv, MainOnly, options' = options, Held, mpc \in {"handle", "recheck"},
         FinishThen(<<ec>>, "pop"), UNCHANGED <<ec, ec_seq, threw, num_finished_examples, ready>>,
         done' \in BOOLEAN, early_terminate' \in BOOLEAN, log' \in Seq(Seq(Nat \X Nat))
  PROVE  PipelineInv'
<1> USE MainFacts
<1>1. mpc' = "finish" /\ fin' = <<ec>> /\ mret' = "pop" BY DEF FinishThen
<1>2. ec \in 1 .. allocated /\ fin = << >> /\ ~threw
  BY DEF Held, MainShape, Finishing
<1>3. Hand = {ec} /\ InHand = 1 /\ ~Held' /\ Hand' = {} /\ InHand' = 0 /\ ~AtRecheck'
  BY <1>1 DEF Hand, Held, InHand, AtRecheck, Closing
<1>4. ToReturn = << >> /\ ToReturn' = <<ec>> BY <1>1, <1>2 DEF ToReturn
<1>5. /\ ToSet(ToReturn) = {} /\ ToSet(ToReturn') = {ec} /\ Distinct(ToReturn')
      /\ <<ec>> \in Seq(1 .. allocated) /\ Len(fin') = 1 /\ Len(fin) = 0
  BY <1>1, <1>2, <1>4, EmptyOrOne
<1>6. MainTypes' BY <1>1, <1>5 DEF MainTypes, MainOnly, poolVars
<1>7. MainShape'
  BY <1>1, <1>2, <1>3 DEF MainShape, Finishing, Multiline, MainOnly, poolVars
<1>8. Apart(ToSet(pool), ToSet(Undispatched), ToSet(ready'), ToSet(ec_seq'), ToSet(ToReturn'),
            Hand')
  BY <1>3, <1>5 DEF Apart
<1>9. ToSet(ready) \union ToSet(ec_seq) \union ToSet(ToReturn) \union Hand
        \subseteq ToSet(ready') \union ToSet(ec_seq') \union ToSet(ToReturn') \union Hand'
  BY <1>3, <1>5
<1>10. num_finished_examples + Len(ready) + Len(ec_seq) + Len(fin) + InHand
         = num_finished_examples' + Len(ready') + Len(ec_seq') + Len(fin') + InHand'
  BY <1>3, <1>5 DEF MainTypes
<1>11. ToSet(ready') \union ToSet(ec_seq') \union (IF mpc' = "handle" THEN {ec'} ELSE {})
         \subseteq ToSet(ready) \union ToSet(ec_seq) \union (IF mpc = "handle" THEN {ec} ELSE {})
  BY <1>1
<1>12. Len(ready') <= Len(ready) OBVIOUS
<1> QED BY <1>2, <1>5, <1>6, <1>7, <1>8, <1>9, <1>10, <1>11, <1>12, MainKeeps

(* The collected sequence is passed to finish_example.                     *)
LEMMA SequenceFinished ==
  ASSUME PipelineInv, MainOnly, options' = options, ec_seq # << >>, ec_seq' = << >>,
         mpc \notin {"finish", "count"}, ~threw, NEW step \in {"recheck", "drain"},
         FinishThen(ec_seq, step), UNCHANGED <<ec, threw, num_finished_examples, ready>>,
         step = "recheck" => Multiline /\ mpc = "handle" /\ Kind(ec) \in Closing,
         step = "drain" => mpc = "remaining",
         done' \in BOOLEAN, early_terminate' \in BOOLEAN, log' \in Seq(Seq(Nat \X Nat))
  PROVE  PipelineInv'
<1> USE MainFacts
<1>1. mpc' = "finish" /\ fin' = ec_seq /\ mret' = step BY DEF FinishThen
<1>2. fin = << >> /\ Len(fin) = 0 BY DEF MainShape
<1>3. ToReturn = << >> /\ ToReturn' = ec_seq BY <1>1, <1>2 DEF ToReturn
<1>4. Kind(ec)' = Kind(ec) BY DEF Kind, MainOnly, poolVars
<1>5. (Held' <=> Held) /\ Hand' = Hand /\ InHand' = InHand /\ (AtRecheck' <=> step = "recheck")
  <2>1. Held' <=> step = "recheck" /\ Kind(ec) \in Closing BY <1>1, <1>4 DEF Held, AtRecheck
  <2>2. Held <=> step = "recheck" BY DEF Held, AtRecheck
  <2>3. InHand = (IF Held THEN 1 ELSE 0) /\ InHand' = (IF Held' THEN 1 ELSE 0)
    BY DEF InHand, Held, Closing
  <2>4. AtRecheck' <=> step = "recheck" BY <1>1 DEF AtRecheck
  <2> QED BY <2>1, <2>2, <2>3, <2>4 DEF Hand
<1>6. /\ ToSet(ToReturn) = {} /\ ToSet(ToReturn') = ToSet(ec_seq) /\ Distinct(ToReturn')
      /\ ToSet(ec_seq') = {} /\ Distinct(ec_seq') /\ Len(ec_seq') = 0
  BY <1>3, EmptyOrOne
<1>7. MainTypes' BY <1>1, EmptySeq DEF MainTypes, MainOnly, poolVars
<1>8. MainShape'
  BY <1>1, <1>4, <1>5 DEF MainShape, Finishing, Multiline, MainOnly, poolVars
<1>9. Apart(ToSet(pool), ToSet(Undispatched), ToSet(ready'), ToSet(ec_seq'), ToSet(ToReturn'),
            Hand')
  BY <1>5, <1>6 DEF Apart
<1>10. ToSet(ready) \union ToSet(ec_seq) \union ToSet(ToReturn) \union Hand
         \subseteq ToSet(ready') \union ToSet(ec_seq') \union ToSet(ToReturn') \union Hand'
  BY <1>5, <1>6
<1>11. num_finished_examples + Len(ready) + Len(ec_seq) + Len(fin) + InHand
         = num_finished_examples' + Len(ready') + Len(ec_seq') + Len(fin') + InHand'
  <2>1. InHand \in Nat BY DEF InHand
  <2> QED BY <1>1, <1>2, <1>5, <1>6, <2>1 DEF MainTypes
<1>12. ToSet(ready') \union ToSet(ec_seq') \union (IF mpc' = "handle" THEN {ec'} ELSE {})
         \subseteq ToSet(ready) \union ToSet(ec_seq) \union (IF mpc = "handle" THEN {ec} ELSE {})
  BY <1>1, <1>6
<1>13. Len(ready') <= Len(ready) OBVIOUS
<1> QED BY <1>6, <1>7, <1>8, <1>9, <1>10, <1>11, <1>12, <1>13, MainKeeps

(* What the learner may do to the flags.                                   *)
LEMMA FlagsTyped ==
  ASSUME PipelineInv, NEW where, MaySetDone(where)
  PROVE  done' \in BOOLEAN /\ early_terminate' \in BOOLEAN
BY MainFacts DEF MaySetDone, MainTypes

(* The handlers that finish the example in hand.                           *)
LEMMA SingleKeeps ==
  ASSUME PipelineInv, options' = options,
         SingleLearn \/ SingleEndPass \/ SingleSaveOrNewline \/ RecheckEndPass
           \/ (RecheckOther /\ Kind(ec) = "newline")
  PROVE  PipelineInv'
<1>1. /\ Held /\ mpc \in {"handle", "recheck"} /\ MainOnly /\ FinishThen(<<ec>>, "pop")
      /\ UNCHANGED <<ec, ec_seq, threw, num_finished_examples, ready>>
  BY DEF SingleLearn, SingleEndPass, SingleSaveOrNewline, RecheckEndPass, RecheckOther, Held,
         AtRecheck, Closing, LearnThen, EndPassHandled
<1>2. ec \in 1 .. allocated BY <1>1, MainFacts DEF Held, MainShape
<1>3. <<ec>> \in Seq(1 .. allocated) BY <1>2
<1>4. done' \in BOOLEAN /\ early_terminate' \in BOOLEAN
  <2>1. CASE SingleLearn BY <2>1, FlagsTyped DEF SingleLearn, LearnThen
  <2>2. CASE SingleEndPass BY <2>2, FlagsTyped DEF SingleEndPass, EndPassHandled
  <2>3. CASE RecheckEndPass BY <2>3, FlagsTyped DEF RecheckEndPass, EndPassHandled
  <2>4. CASE SingleSaveOrNewline BY <2>4, MainFacts DEF SingleSaveOrNewline, MainTypes
  <2>5. CASE RecheckOther BY <2>5, MainFacts DEF RecheckOther, MainTypes
  <2> QED BY <2>1, <2>2, <2>3, <2>4, <2>5
<1>5. log' \in Seq(Seq(Nat \X Nat))
  <2>1. log' = log \/ log' = Append(log, Entry(<<ec>>))
    BY DEF SingleLearn, SingleEndPass, SingleSaveOrNewline, RecheckEndPass, RecheckOther,
           LearnThen, EndPassHandled
  <2>2. log \in Seq(Seq(Nat \X Nat)) /\ TypeOK BY MainFacts DEF MainTypes, PipelineInv
  <2> QED BY <1>3, <2>1, <2>2, LogTyped
<1> QED BY <1>1, <1>4, <1>5, HandFinished

(* The steps that only move the main thread on.                            *)
LEMMA QuietKeeps ==
  ASSUME PipelineInv, options' = options,
         PopNothing \/ DrainEnds \/ (RecheckOther /\ Kind(ec) # "newline")
           \/ (ProcessRemaining /\ ec_seq = << >>) \/ (MultiComplete /\ ec_seq = << >>)
  PROVE  PipelineInv'
<1> USE MainFacts
<1>1. /\ MainOnly /\ UNCHANGED <<ec, ec_seq, fin, mret, ready, num_finished_examples, threw, log,
                                 early_terminate, done>>
  BY DEF PopNothing, DrainEnds, RecheckOther, ProcessRemaining, MultiComplete, FinishThen,
         AfterLearn
<1>2. Kind(ec)' = Kind(ec) BY <1>1 DEF Kind, MainOnly, poolVars
<1>3. \/ mpc = "pop" /\ mpc' = "remaining"
      \/ mpc = "drain" /\ mpc' = "join"
      \/ mpc = "recheck" /\ mpc' = "pop" /\ Kind(ec) \notin Closing
      \/ mpc = "remaining" /\ mpc' = "drain" /\ ec_seq = << >>
      \/ mpc = "handle" /\ mpc' = "recheck" /\ Multiline /\ Kind(ec) \in Closing
  BY DEF PopNothing, DrainEnds, RecheckOther, ProcessRemaining, MultiComplete, FinishThen,
         Closing
<1>4. fin = << >> /\ mpc' # "handle" BY <1>3 DEF MainShape
<1>5. ToReturn' = ToReturn BY <1>1, <1>3 DEF ToReturn
<1>6. Held' <=> Held BY <1>1, <1>2, <1>3 DEF Held, AtRecheck
<1>7. Hand' = Hand /\ InHand' = InHand
  <2>1. InHand = (IF Held THEN 1 ELSE 0) /\ InHand' = (IF Held' THEN 1 ELSE 0)
    BY DEF InHand, Held, Closing
  <2> QED BY <1>1, <1>6, <2>1 DEF Hand
<1>8. MainTypes' BY <1>1, <1>3 DEF MainTypes, MainOnly, poolVars
<1>9. MainShape'
  BY <1>1, <1>2, <1>3, <1>4
     DEF MainShape, Finishing, AtRecheck, Multiline, MainOnly, poolVars
<1> QED BY <1>1, <1>4, <1>5, <1>7, <1>8, <1>9, NothingMoves

(* try_complete_multi_ex puts an example on the sequence.                  *)
LEMMA CollectKeeps ==
  ASSUME PipelineInv, MultiCollect, options' = options PROVE PipelineInv'
<1> USE MainFacts
<1>1. /\ mpc = "handle" /\ mpc' = "recheck" /\ Multiline /\ Kind(ec) = "learn"
      /\ ec_seq' = Append(ec_seq, ec) /\ MainOnly
      /\ UNCHANGED <<ec, fin, mret, early_terminate, threw, log, num_finished_examples, ready, done>>
  BY DEF MultiCollect
<1>2. Kind(ec)' = Kind(ec) BY <1>1 DEF Kind, MainOnly, poolVars
<1>3. ec \in 1 .. allocated /\ fin = << >> /\ ~threw BY <1>1 DEF MainShape, Finishing
<1>4. Hand = {ec} /\ InHand = 1 /\ Hand' = {} /\ InHand' = 0
  BY <1>1, <1>2 DEF Hand, Held, InHand, AtRecheck, Closing
<1>5. ec \notin ToSet(ec_seq) BY <1>4 DEF Apart
<1>6. /\ ec_seq' \in Seq(1 .. allocated) /\ Len(ec_seq') = Len(ec_seq) + 1
      /\ ToSet(ec_seq') = ToSet(ec_seq) \union {ec} /\ Distinct(ec_seq')
  <2>1. ec_seq \in Seq(1 .. allocated) BY DEF MainTypes
  <2> QED BY <1>1, <1>3, <1>5, <2>1, Appended
<1>7. ToReturn' = ToReturn BY <1>1 DEF ToReturn
<1>8. MainTypes' BY <1>1, <1>6 DEF MainTypes, MainOnly, poolVars
<1>9. MainShape'
  BY <1>1, <1>2, <1>3, <1>6
     DEF MainShape, Finishing, AtRecheck, Multiline, MainOnly, poolVars
<1>10. Apart(ToSet(pool), ToSet(Undispatched), ToSet(ready'), ToSet(ec_seq'), ToSet(ToReturn'),
             Hand')
  BY <1>1, <1>4, <1>6, <1>7 DEF Apart
<1>11. ToSet(ready) \union ToSet(ec_seq) \union ToSet(ToReturn) \union Hand
         \subseteq ToSet(ready') \union ToSet(ec_seq') \union ToSet(ToReturn') \union Hand'
  BY <1>1, <1>4, <1>6, <1>7
<1>12. num_finished_examples + Len(ready) + Len(ec_seq) + Len(fin) + InHand
         = num_finished_examples' + Len(ready') + Len(ec_seq') + Len(fin') + InHand'
  BY <1>1, <1>4, <1>6 DEF MainTypes
<1>13. ToSet(ready') \union ToSet(ec_seq') \union (IF mpc' = "handle" THEN {ec'} ELSE {})
         \subseteq ToSet(ready) \union ToSet(ec_seq) \union (IF mpc = "handle" THEN {ec} ELSE {})
  BY <1>1, <1>6
<1>14. Len(ready') <= Len(ready) /\ Distinct(ready') /\ Distinct(ToReturn')
       /\ ready' \in Seq(1 .. allocated) /\ done' \in BOOLEAN
  BY <1>1, <1>7
<1> QED BY <1>1, <1>3, <1>6, <1>8, <1>9, <1>10, <1>11, <1>12, <1>13, <1>14, MainKeeps

(* A collected sequence is learned.                                        *)
LEMMA LearnSequenceKeeps ==
  ASSUME PipelineInv, options' = options, ec_seq # << >>, MultiComplete \/ ProcessRemaining
  PROVE  PipelineInv'
<1> USE MainFacts
<1>1. PICK step \in {"recheck", "drain"} :
        /\ LearnThen(ec_seq, step) /\ mpc \in {"handle", "remaining"}
        /\ step = "recheck" => Multiline /\ mpc = "handle" /\ Kind(ec) \in Closing
        /\ step = "drain" => mpc = "remaining"
  BY DEF MultiComplete, ProcessRemaining, Closing
<1>2. MainOnly /\ ec_seq' = << >> /\ UNCHANGED <<ec, threw, num_finished_examples, ready>>
  BY DEF MultiComplete, ProcessRemaining, AfterLearn
<1>3. ~threw BY <1>1 DEF MainShape, Finishing
<1>4. FinishThen(ec_seq, step) /\ done' \in BOOLEAN /\ early_terminate' \in BOOLEAN
  BY <1>1, FlagsTyped DEF LearnThen
<1>5. log' \in Seq(Seq(Nat \X Nat))
  <2>1. log' = Append(log, Entry(ec_seq)) BY <1>1 DEF LearnThen
  <2>2. ec_seq \in Seq(1 .. allocated) /\ TypeOK BY DEF MainTypes, PipelineInv
  <2> QED BY <2>1, <2>2, LogTyped
<1>6. mpc \notin {"finish", "count"} BY <1>1
<1> QED BY <1>1, <1>2, <1>3, <1>4, <1>5, <1>6, SequenceFinished

(* The learner throws: what the handler held is given up.                  *)
LEMMA LearnThrowsKeeps ==
  ASSUME PipelineInv, LearnThrows, options' = options PROVE PipelineInv'
<1> USE MainFacts
<1>1. /\ mpc \in {"handle", "remaining"} /\ threw' = TRUE /\ mpc' = "join" /\ ec_seq' = << >>
      /\ MainOnly
      /\ UNCHANGED <<ec, fin, mret, early_terminate, log, num_finished_examples, ready, done>>
  BY DEF LearnThrows
<1>2. fin = << >> /\ ToReturn = << >> /\ ToReturn' = << >> BY <1>1 DEF MainShape, ToReturn
<1>3. Hand' = {} BY <1>1 DEF Hand, Held, AtRecheck
<1>4. ToSet(ec_seq') = {} /\ Distinct(ec_seq') /\ ToSet(ToReturn') = {} /\ Distinct(ToReturn')
  BY <1>1, <1>2, EmptyOrOne
<1>5. MainTypes' BY <1>1, EmptySeq DEF MainTypes, MainOnly, poolVars
<1>6. MainShape'
  BY <1>1, <1>2 DEF MainShape, Finishing, AtRecheck, Multiline, MainOnly, poolVars
<1>7. Apart(ToSet(pool), ToSet(Undispatched), ToSet(ready'), ToSet(ec_seq'), ToSet(ToReturn'),
            Hand')
  BY <1>1, <1>3, <1>4 DEF Apart
<1>8. ToSet(ready') \union ToSet(ec_seq') \union (IF mpc' = "handle" THEN {ec'} ELSE {})
        \subseteq ToSet(ready) \union ToSet(ec_seq) \union (IF mpc = "handle" THEN {ec} ELSE {})
  BY <1>1, <1>4
<1>9. Len(ready') <= Len(ready) /\ Distinct(ready') /\ ready' \in Seq(1 .. allocated)
      /\ done' \in BOOLEAN
  BY <1>1
<1> QED BY <1>1, <1>4, <1>5, <1>6, <1>7, <1>8, <1>9, MainKeeps

(* Queued examples are taken out to be finished: drain_examples takes one, *)
(* free_parser all of them.                                                *)
LEMMA QueueFinished ==
  ASSUME PipelineInv, MainOnly, options' = options, NEW step \in {"drain", "exit"},
         mpc \in {"drain", "join"}, NEW es \in Seq(1 .. allocated), FinishThen(es, step),
         UNCHANGED <<ec, ec_seq, early_terminate, threw, log, num_finished_examples, done>>,
         ready' \in Seq(1 .. allocated), Distinct(es), Distinct(ready'),
         ToSet(es) \cap ToSet(ready') = {}, ToSet(es) \union ToSet(ready') = ToSet(ready),
         Len(ready) = Len(ready') + Len(es),
         step = "exit" => ready' = << >> /\ ppc = "exited",
         step = "drain" => ~threw
  PROVE  PipelineInv'
<1> USE MainFacts
<1>1. fin = << >> /\ ec_seq = << >> /\ ToReturn = << >> BY DEF MainShape, ToReturn
<1>2. /\ fin' = es /\ mpc' = IF es = << >> THEN step ELSE "finish"
      /\ es # << >> => mret' = step /\ mret' \in {"pop", "recheck", "drain", "exit"}
      /\ mret' \in {"pop", "recheck", "drain", "exit"}
  BY <1>1 DEF FinishThen, MainTypes
<1>3. ToReturn' = es BY <1>1, <1>2 DEF ToReturn
<1>4. ~Held /\ ~Held' /\ ~AtRecheck' BY <1>2 DEF Held, AtRecheck, FinishThen
<1>5. Hand = {} /\ Hand' = {} /\ InHand = 0 /\ InHand' = 0
  BY <1>4 DEF Hand, InHand, Held, Closing
<1>6. ToSet(ToReturn) = {} /\ Len(es) \in Nat /\ Len(ready') \in Nat /\ Len(fin) = 0
  BY <1>1, EmptyOrOne, Elements
<1>7. MainTypes' BY <1>2 DEF MainTypes, MainOnly, poolVars
<1>8. MainShape'
  BY <1>1, <1>2, <1>4
     DEF MainShape, Finishing, Multiline, MainOnly, poolVars, parserVars, Held
<1>9. Apart(ToSet(pool), ToSet(Undispatched), ToSet(ready'), ToSet(ec_seq'), ToSet(ToReturn'),
            Hand')
  BY <1>3, <1>5, <1>6 DEF Apart
<1>10. ToSet(ready) \union ToSet(ec_seq) \union ToSet(ToReturn) \union Hand
         \subseteq ToSet(ready') \union ToSet(ec_seq') \union ToSet(ToReturn') \union Hand'
  BY <1>3, <1>5, <1>6
<1>11. num_finished_examples + Len(ready) + Len(ec_seq) + Len(fin) + InHand
         = num_finished_examples' + Len(ready') + Len(ec_seq') + Len(fin') + InHand'
  BY <1>2, <1>5, <1>6 DEF MainTypes
<1>12. ToSet(ready') \union ToSet(ec_seq') \union (IF mpc' = "handle" THEN {ec'} ELSE {})
         \subseteq ToSet(ready) \union ToSet(ec_seq) \union (IF mpc = "handle" THEN {ec} ELSE {})
  BY <1>2
<1>13. Len(ready') <= Len(ready) /\ done' \in BOOLEAN /\ Distinct(ec_seq') /\ Distinct(ToReturn')
  BY <1>3, <1>6
<1> QED BY <1>7, <1>8, <1>9, <1>10, <1>11, <1>12, <1>13, MainKeeps

(* drain_examples and free_parser.                                         *)
LEMMA DrainKeeps ==
  ASSUME PipelineInv, DrainExample \/ FreeParser, options' = options PROVE PipelineInv'
<1> USE MainFacts
<1>1. CASE DrainExample
  <2>1. /\ mpc = "drain" /\ ready # << >> /\ ready' = Tail(ready) /\ MainOnly
        /\ FinishThen(<<Head(ready)>>, "drain")
        /\ UNCHANGED <<ec, ec_seq, early_terminate, threw, log, num_finished_examples, done>>
    BY <1>1 DEF DrainExample
  <2>2. ~threw BY <2>1 DEF MainShape, Finishing
  <2>3. /\ Head(ready) \in 1 .. allocated /\ Head(ready) \in ToSet(ready)
        /\ ready' \in Seq(1 .. allocated) /\ Len(ready') = Len(ready) - 1
        /\ ToSet(ready') = ToSet(ready) \ {Head(ready)} /\ Distinct(ready')
    BY <2>1, Shortened
  <2> DEFINE es == <<Head(ready)>>
  <2>4. es \in Seq(1 .. allocated) /\ Distinct(es) /\ ToSet(es) = {Head(ready)} /\ Len(es) = 1
    BY <2>3, EmptyOrOne
  <2>5. FinishThen(es, "drain") BY <2>1
  <2> HIDE DEF es
  <2>6. /\ ToSet(es) \cap ToSet(ready') = {} /\ ToSet(es) \union ToSet(ready') = ToSet(ready)
        /\ Len(ready) = Len(ready') + Len(es)
    BY <2>3, <2>4
  <2> HIDE MainFacts
  <2> QED BY <2>1, <2>2, <2>3, <2>4, <2>5, <2>6, QueueFinished
<1>2. CASE FreeParser
  <2>1. /\ mpc = "join" /\ ppc = "exited" /\ ready' = << >> /\ MainOnly
        /\ FinishThen(ready, "exit")
        /\ UNCHANGED <<ec, ec_seq, early_terminate, threw, log, num_finished_examples, done>>
    BY <1>2 DEF FreeParser, Unfinished
  <2>2. ready' \in Seq(1 .. allocated) /\ Distinct(ready') /\ ToSet(ready') = {} /\ Len(ready') = 0
    BY <2>1, EmptyOrOne, EmptySeq
  <2>3. /\ ToSet(ready) \cap ToSet(ready') = {} /\ ToSet(ready) \union ToSet(ready') = ToSet(ready)
        /\ Len(ready) = Len(ready') + Len(ready)
    BY <2>2
  <2>4. ready \in Seq(1 .. allocated) /\ Distinct(ready) OBVIOUS
  <2> HIDE MainFacts
  <2> QED BY <2>1, <2>2, <2>3, <2>4, QueueFinished
<1> QED BY <1>1, <1>2

(* finish_example, second half: the example is counted.                    *)
LEMMA CountKeeps ==
  ASSUME PipelineInv, FinishCount, options' = options PROVE PipelineInv'
<1> USE MainFacts
<1>1. /\ mpc = "count" /\ num_finished_examples' = num_finished_examples + 1 /\ fin' = Tail(fin)
      /\ mpc' = (IF Tail(fin) = << >> THEN mret ELSE "finish") /\ MainOnly
      /\ UNCHANGED <<ec, ec_seq, mret, early_terminate, threw, log, ready, done>>
  BY DEF FinishCount
<1>2. fin # << >> /\ fin \in Seq(1 .. allocated) BY <1>1 DEF MainShape, MainTypes
<1>3. fin' \in Seq(1 .. allocated) /\ Len(fin') = Len(fin) - 1 BY <1>1, <1>2, Shortened
<1>4. mpc' \in {"pop", "recheck", "drain", "exit", "finish"} BY <1>1 DEF MainTypes
<1>5. ToReturn' = ToReturn BY <1>1, <1>4 DEF ToReturn
<1>6. Kind(ec)' = Kind(ec) BY <1>1 DEF Kind, MainOnly, poolVars
<1>7. AtRecheck' <=> AtRecheck BY <1>1 DEF AtRecheck, MainTypes
<1>8. Held' <=> Held BY <1>1, <1>4, <1>6, <1>7 DEF Held
<1>9. Hand' = Hand /\ InHand' = InHand /\ InHand \in Nat
  <2>1. InHand = (IF Held THEN 1 ELSE 0) /\ InHand' = (IF Held' THEN 1 ELSE 0)
    BY DEF InHand, Held, Closing
  <2> QED BY <1>1, <1>8, <2>1 DEF Hand
<1>10. MainTypes'
  <2>1. num_finished_examples' \in Nat BY <1>1 DEF MainTypes
  <2>2. allocated' = allocated /\ UNCHANGED <<ec, ec_seq, mret, early_terminate, threw, log>>
    BY <1>1 DEF MainOnly, poolVars
  <2> QED BY <1>3, <1>4, <2>1, <2>2 DEF MainTypes
<1>11. MainShape'
  <2>1. fin' = << >> <=> mpc' \notin {"finish", "count"} BY <1>1 DEF MainTypes
  <2>2. /\ mpc' \in {"drain", "join", "exit"} \/ Finishing("drain")' \/ Finishing("exit")'
           => Finishing("drain") \/ Finishing("exit")
        /\ mpc' = "exit" \/ Finishing("exit")' <=> Finishing("exit")
    BY <1>1 DEF Finishing, MainTypes
  <2> QED BY <1>1, <1>4, <1>6, <1>7, <2>1, <2>2
          DEF MainShape, Multiline, MainOnly, poolVars, parserVars
<1>12. num_finished_examples + Len(ready) + Len(ec_seq) + Len(fin) + InHand
         = num_finished_examples' + Len(ready') + Len(ec_seq') + Len(fin') + InHand'
  BY <1>1, <1>3, <1>9, SMTT(40) DEF MainTypes
<1>13. ToSet(ready') \union ToSet(ec_seq') \union (IF mpc' = "handle" THEN {ec'} ELSE {})
         \subseteq ToSet(ready) \union ToSet(ec_seq) \union (IF mpc = "handle" THEN {ec} ELSE {})
  BY <1>1, <1>4
<1>14. Len(ready') <= Len(ready) /\ done' \in BOOLEAN /\ Distinct(ec_seq') /\ Distinct(ToReturn')
       /\ Distinct(ready') /\ ready' \in Seq(1 .. allocated)
  BY <1>1, <1>5
<1>15. Apart(ToSet(pool), ToSet(Undispatched), ToSet(ready'), ToSet(ec_seq'), ToSet(ToReturn'),
             Hand')
  BY <1>1, <1>5, <1>9
<1>16. ToSet(ready) \union ToSet(ec_seq) \union ToSet(ToReturn) \union Hand
         \subseteq ToSet(ready') \union ToSet(ec_seq') \union ToSet(ToReturn') \union Hand'
  BY <1>1, <1>5, <1>9
<1> HIDE MainFacts
<1> QED BY <1>1, <1>10, <1>11, <1>12, <1>13, <1>14, <1>15, <1>16, MainKeeps

(* finish_example, first half: clean_example blanks the example, which is  *)
(* in nobody else's place, and returns it to the pool.                     *)
LEMMA CleanKeeps ==
  ASSUME PipelineInv, FinishClean, options' = options PROVE PipelineInv'
<1> DEFINE e == Head(fin)
<1> USE MainFacts
<1>1. /\ mpc = "finish" /\ mpc' = "count" /\ content' = [content EXCEPT ![e] = Blank]
      /\ pool' = Append(pool, e)
      /\ UNCHANGED <<ec, ec_seq, fin, mret, early_terminate, threw, log, num_finished_examples,
                     allocated, ready, done, parserVars>>
  BY DEF FinishClean
<1>2. fin # << >> /\ fin \in Seq(1 .. allocated) /\ ToReturn = fin /\ ToReturn' = Tail(fin)
  BY <1>1 DEF MainShape, MainTypes, ToReturn
<1>3. /\ e \in 1 .. allocated /\ e \in ToSet(ToReturn) /\ ToReturn' \in Seq(1 .. allocated)
      /\ ToSet(ToReturn') = ToSet(ToReturn) \ {e} /\ Distinct(ToReturn')
  BY <1>2, Shortened
<1> HIDE DEF e
<1>4. e \notin ToSet(pool) /\ e \notin ToSet(Undispatched) /\ e \notin ToSet(ready)
      /\ e \notin ToSet(ec_seq) /\ e \notin Hand
  BY <1>3 DEF Apart
<1>5. pool \in Seq(1 .. allocated) /\ Distinct(pool) /\ content \in [1 .. allocated -> Contents]
  BY TypesSplit DEF PipelineInv, OnePlace, SharedTypes
<1>6. /\ pool' \in Seq(1 .. allocated) /\ ToSet(pool') = ToSet(pool) \union {e} /\ Distinct(pool')
  BY <1>1, <1>3, <1>4, <1>5, Appended
<1>7. /\ content' \in [1 .. allocated -> Contents] /\ content'[e].kind = "empty"
      /\ \A x \in 1 .. allocated : x # e => content'[x] = content[x]
  BY <1>1, <1>3, <1>5 DEF Contents, Blank
<1>8. AtRecheck' <=> AtRecheck BY <1>1 DEF AtRecheck
<1>9. AtRecheck => Kind(ec)' = Kind(ec)
  <2> SUFFICES ASSUME AtRecheck PROVE Kind(ec)' = Kind(ec) OBVIOUS
  <2>1. ec \in 1 .. allocated /\ (Kind(ec) \in Closing \/ ec \in ToSet(ec_seq)) BY DEF MainShape
  <2>2. ec # e BY <1>4, <2>1 DEF Hand, Held
  <2> QED BY <1>1, <1>7, <2>1, <2>2 DEF Kind
<1>10. (Held' <=> Held) /\ Hand' = Hand /\ InHand' = InHand
  <2>1. Held' <=> Held BY <1>1, <1>8, <1>9 DEF Held
  <2>2. InHand = (IF Held THEN 1 ELSE 0) /\ InHand' = (IF Held' THEN 1 ELSE 0)
    BY DEF InHand, Held, Closing
  <2> QED BY <1>1, <2>1, <2>2 DEF Hand
<1>11. TypeOK'
  <2>1. InputTypes /\ ParserTypes /\ SharedTypes BY TypesSplit DEF PipelineInv
  <2>2. InputTypes' /\ ParserTypes' BY <1>1, <2>1 DEF InputTypes, ParserTypes, parserVars, inputVars
  <2>3. SharedTypes'
    BY <1>1, <1>6, <1>7, <2>1 DEF SharedTypes, QueueLimit, Contents
  <2>4. MainTypes' BY <1>1 DEF MainTypes
  <2> QED BY <2>2, <2>3, <2>4, TypesSplitNext
<1>12. SaveFree'
  <2>1. \A x \in 1 .. allocated : Kind(x) # "save" => content'[x].kind # "save"
    BY <1>7 DEF Kind
  <2> QED BY <1>1, <2>1 DEF PipelineInv, SaveFree, Kind, Multiline, parserVars, inputVars
<1>13. ParserShape' BY <1>1 DEF PipelineInv, ParserShape, parserVars
<1>14. MainShape'
  BY <1>1, <1>8, <1>9 DEF MainShape, Finishing, Multiline, parserVars
<1>15. Undispatched' = Undispatched /\ (Dispatching' <=> Dispatching)
  BY <1>1 DEF Undispatched, Dispatching, parserVars
<1>16. OnePlace'
  <2>1. Distinct(Undispatched) BY DEF PipelineInv, OnePlace
  <2> QED BY <1>1, <1>3, <1>4, <1>6, <1>10, <1>15, <2>1 DEF OnePlace, Apart
<1>17. Accounted' BY <1>1, <1>3, <1>6, <1>10, <1>15 DEF PipelineInv, Accounted
<1>18. CountersAgree'
  <2>1. CountersAgree BY DEF PipelineInv
  <2> QED BY <1>1, <1>10, <1>15, <2>1 DEF CountersAgree, parserVars
<1>19. FromClient'
  <2>1. OnTheWay' = OnTheWay \/ OnTheWay' \subseteq OnTheWay BY <1>1, <1>15 DEF OnTheWay
  <2>2. e \notin OnTheWay /\ OnTheWay \subseteq 1 .. allocated
    BY <1>1, <1>4, PlacesTyped DEF OnTheWay, PipelineInv
  <2>3. \A x \in OnTheWay : content'[x] = content[x] BY <1>7, <2>2
  <2> QED BY <1>1, <2>1, <2>3 DEF PipelineInv, FromClient, Kind, Daemon, parserVars
<1> QED BY <1>11, <1>12, <1>13, <1>14, <1>16, <1>17, <1>18, <1>19 DEF PipelineInv

(* Every step of the main thread.                                          *)
LEMMA MainStepKeeps ==
  ASSUME PipelineInv, Main PROVE PipelineInv'
<1> USE DEF Main
<1>1. CASE PopExample BY <1>1, PopKeeps
<1>2. CASE PopNothing \/ DrainEnds BY <1>2, QuietKeeps
<1>3. CASE SingleLearn \/ SingleEndPass \/ SingleSaveOrNewline \/ RecheckEndPass
  BY <1>3, SingleKeeps
<1>4. CASE RecheckOther BY <1>4, SingleKeeps, QuietKeeps
<1>5. CASE MultiCollect BY <1>5, CollectKeeps
<1>6. CASE MultiSave
  <2>1. mpc = "handle" /\ Multiline /\ Kind(ec) = "save" BY <1>6 DEF MultiSave
  <2>2. ec \in 1 .. allocated BY <2>1, MainFacts DEF MainShape
  <2> QED BY <2>1, <2>2, MainFacts
<1>7. CASE MultiComplete \/ ProcessRemaining BY <1>7, QuietKeeps, LearnSequenceKeeps
<1>8. CASE LearnThrows BY <1>8, LearnThrowsKeeps
<1>9. CASE FinishClean BY <1>9, CleanKeeps
<1>10. CASE FinishCount BY <1>10, CountKeeps
<1>11. CASE DrainExample \/ FreeParser BY <1>11, DrainKeeps
<1> QED BY <1>1, <1>2, <1>3, <1>4, <1>5, <1>6, <1>7, <1>8, <1>9, <1>10, <1>11

-----------------------------------------------------------------------------
(* Examples of a smaller pool are examples of a larger one.                *)
LEMMA Wider ==
  ASSUME NEW m \in Nat, NEW n \in Nat, m <= n, NEW s \in Seq(1 .. m)
  PROVE  s \in Seq(1 .. n)
<1>1. DOMAIN s = 1 .. Len(s) /\ Len(s) \in Nat /\ \A i \in 1 .. Len(s) : s[i] \in 1 .. m
  BY Elements
<1>2. s \in [1 .. Len(s) -> 1 .. m] BY LenProperties
<1>3. s \in [1 .. Len(s) -> 1 .. n] BY <1>1, <1>2
<1> QED BY <1>1, <1>3, SeqDef

(* A step of the parser thread: what has to be shown of it.  It may write  *)
(* to no example of the handler.                                           *)
LEMMA ParserKeeps ==
  ASSUME PipelineInv, UNCHANGED mainVars, options' = options, ppc # "exited",
         InputTypes', ParserTypes', SharedTypes', SaveFree', ParserShape', allocated <= allocated',
         \A e \in ToSet(ec_seq) \union Hand : content'[e] = content[e],
         Distinct(pool'), Distinct(Undispatched'), Distinct(ready'),
         Apart(ToSet(pool'), ToSet(Undispatched'), ToSet(ready'), ToSet(ec_seq), ToSet(ToReturn),
               Hand),
         ~threw => 1 .. allocated' \subseteq ToSet(pool') \union ToSet(Undispatched')
                                   \union ToSet(ready') \union ToSet(ec_seq)
                                   \union ToSet(ToReturn) \union Hand,
         ppc' # "catch" /\ ~exc_ptr' /\ ~threw =>
           num_setup_examples' = num_finished_examples + Len(ready') + Len(ec_seq) + Len(fin)
                                 + InHand + (IF Dispatching' THEN Len(Undispatched') ELSE 0),
         Daemon => \A e \in ToSet(ready') \union ToSet(ec_seq)
                              \union (IF mpc = "handle" THEN {ec} ELSE {})
                              \union (IF Dispatching' THEN ToSet(Undispatched') ELSE {}) :
                     content'[e].kind = "learn" => content'[e].from = connection'
  PROVE  PipelineInv'
<1> USE DEF mainVars
<1>1. /\ MainTypes /\ MainShape /\ allocated \in Nat /\ OnePlace BY MainFacts DEF PipelineInv
<1>2. ToReturn' = ToReturn /\ (AtRecheck' <=> AtRecheck) BY DEF ToReturn, AtRecheck
<1>3. AtRecheck => Kind(ec)' = Kind(ec)
  <2> SUFFICES ASSUME AtRecheck PROVE Kind(ec)' = Kind(ec) OBVIOUS
  <2>1. Kind(ec) \in Closing \/ ec \in ToSet(ec_seq) BY <1>1 DEF MainShape
  <2>2. content'[ec] = content[ec] BY <2>1 DEF Hand, Held
  <2> QED BY <2>2 DEF Kind
<1>4. Hand' = Hand /\ InHand' = InHand
  <2>1. Held' <=> Held BY <1>2, <1>3 DEF Held
  <2>2. InHand = (IF Held THEN 1 ELSE 0) /\ InHand' = (IF Held' THEN 1 ELSE 0)
    BY DEF InHand, Held, Closing
  <2> QED BY <2>1, <2>2 DEF Hand
<1>5. TypeOK'
  <2>1. allocated' \in Nat BY DEF SharedTypes
  <2>2. ec_seq' \in Seq(1 .. allocated') /\ fin' \in Seq(1 .. allocated')
    BY <1>1, <2>1, Wider DEF MainTypes
  <2>3. ec' \in 0 .. allocated' BY <1>1, <2>1 DEF MainTypes
  <2>4. MainTypes' BY <1>1, <2>2, <2>3 DEF MainTypes
  <2> QED BY <2>4, TypesSplitNext
<1>6. MainShape'
  <2>1. mpc # "exit" /\ ~Finishing("exit") BY <1>1 DEF MainShape
  <2>2. ec \in 1 .. allocated => ec \in 1 .. allocated' BY <1>1 DEF SharedTypes
  <2> QED BY <1>1, <1>2, <1>3, <2>1, <2>2 DEF MainShape, Finishing, Multiline
<1>7. OnePlace' BY <1>1, <1>2, <1>4 DEF OnePlace
<1>8. Accounted' BY <1>2, <1>4 DEF Accounted
<1>9. CountersAgree' BY <1>4 DEF CountersAgree, Dispatching
<1>10. FromClient' BY DEF FromClient, OnTheWay, Kind, Daemon
<1> QED BY <1>5, <1>6, <1>7, <1>8, <1>9, <1>10 DEF PipelineInv

(* Facts about the present state that most steps of the parser need.       *)
LEMMA ParserFacts ==
  ASSUME PipelineInv
  PROVE  /\ InputTypes /\ ParserTypes /\ SharedTypes /\ SaveFree /\ ParserShape
         /\ OnePlace /\ Accounted /\ CountersAgree /\ FromClient
         /\ ppc = "read" => Undispatched = examples /\ ~exc_ptr
         /\ ppc = "catch" => Undispatched = examples
         /\ ppc \in {"get", "lock_done", "exited", "end_of_pass_done"} => Undispatched = << >>
<1>1. /\ InputTypes /\ ParserTypes /\ SharedTypes /\ SaveFree /\ ParserShape
      /\ OnePlace /\ Accounted /\ CountersAgree /\ FromClient
  BY TypesSplit DEF PipelineInv
<1>2. examples \in Seq(1 .. allocated) /\ pushed \in Nat BY <1>1 DEF ParserTypes
<1>3. pushed = 0 => Undispatched = examples BY <1>2, RestOf DEF Undispatched
<1>4. pushed = Len(examples) => Undispatched = << >>
  <2>1. pushed = Len(examples) => pushed >= Len(examples) BY <1>2
  <2> QED BY <1>2, <2>1, RestOf DEF Undispatched
<1>5. examples = << >> => Undispatched = << >>
  <2>1. examples = << >> => pushed >= Len(examples) BY <1>2, Elements
  <2> QED BY <1>2, <2>1, RestOf DEF Undispatched
<1>6. ppc \in {"read", "catch"} => pushed = 0 BY <1>1 DEF ParserShape
<1>7. ppc = "read" => ~exc_ptr BY <1>1 DEF ParserShape
<1>8. ppc \in {"get", "lock_done", "exited", "end_of_pass_done"}
        => examples = << >> \/ pushed = Len(examples)
  BY <1>1 DEF ParserShape
<1> QED BY <1>1, <1>3, <1>4, <1>5, <1>6, <1>7, <1>8

(* The steps that only move the parser thread on.                          *)
LEMMA ParserQuietKeeps ==
  ASSUME PipelineInv, options' = options,
         ParserSeesDone \/ ResetThrows \/ CheckLastPass \/ LockDone
  PROVE  PipelineInv'
<1> USE ParserFacts
<1>1. /\ UNCHANGED <<mainVars, poolVars, ready, source, input, taken, cache, num_setup_examples,
                     connection, exc_ptr, passes_complete, pass_length, pushed>>
  BY DEF ParserSeesDone, ResetThrows, CheckLastPass, LockDone, inputVars
<1>2. \/ ppc = "get" /\ ppc' = "lock_done" /\ examples' = examples
      \/ ppc = "read" /\ ppc' = "catch" /\ examples' = examples
      \/ ppc = "end_of_pass_done" /\ ppc' = "get" /\ examples' = << >>
      \/ ppc = "lock_done" /\ ppc' = "exited" /\ examples' = examples
  BY DEF ParserSeesDone, ResetThrows, CheckLastPass, LockDone, AtEndOfPass, Cleared
<1>3. write_cache' \in BOOLEAN /\ example_number' \in Nat /\ done' \in BOOLEAN
  <2>1. write_cache' \in BOOLEAN /\ example_number' \in Nat
    <3>1. write_cache' = write_cache \/ write_cache' = FALSE
      BY DEF ParserSeesDone, ResetThrows, CheckLastPass, LockDone, inputVars
    <3>2. example_number' = example_number \/ example_number' = 0
      BY DEF ParserSeesDone, ResetThrows, CheckLastPass, LockDone
    <3>3. write_cache \in BOOLEAN /\ example_number \in Nat BY DEF InputTypes, ParserTypes
    <3>4. write_cache' \in BOOLEAN BY <3>1, <3>3
    <3>5. example_number' \in Nat BY <3>2, <3>3
    <3> QED BY <3>4, <3>5
  <2>2. done \in BOOLEAN BY DEF SharedTypes
  <2>3. done' = done \/ done' = TRUE \/ done' = (done \/ LastPass)
    BY DEF ParserSeesDone, ResetThrows, CheckLastPass, LockDone, DoneAtExit
  <2>4. (done \/ LastPass) \in BOOLEAN OBVIOUS
  <2>5. done' \in BOOLEAN BY <2>2, <2>3, <2>4
  <2> QED BY <2>1, <2>5
<1>4. InputTypes' /\ SharedTypes'
  BY <1>1, <1>3 DEF InputTypes, SharedTypes, poolVars, QueueLimit
<1>5. ParserTypes'
  <2>1. examples' \in Seq(1 .. allocated') BY <1>1, <1>2, EmptySeq DEF ParserTypes, poolVars
  <2> QED BY <1>1, <1>2, <1>3, <2>1 DEF ParserTypes
<1>6. SaveFree' BY <1>1 DEF SaveFree, Kind, Multiline, poolVars
<1>7. ParserShape' BY <1>1, <1>2 DEF ParserShape
<1>8. Undispatched' = Undispatched
  <2>1. CASE examples' = examples BY <1>1, <2>1 DEF Undispatched
  <2>2. CASE examples' = << >>
    <3>1. pushed' >= Len(examples') /\ pushed' \in Nat /\ examples' \in Seq(1 .. allocated)
      BY <1>1, <2>2, EmptySeq DEF ParserTypes
    <3>2. Undispatched' = << >> BY <3>1, RestOf DEF Undispatched
    <3> QED BY <1>2, <2>1, <3>2
  <2> QED BY <1>2, <2>1, <2>2
<1>9. ~Dispatching /\ ~Dispatching' /\ ppc # "catch" /\ ppc # "exited" BY <1>2 DEF Dispatching
<1>10. ppc' # "catch" /\ ~exc_ptr' /\ ~threw =>
         num_setup_examples' = num_finished_examples + Len(ready') + Len(ec_seq) + Len(fin)
                               + InHand + (IF Dispatching' THEN Len(Undispatched') ELSE 0)
  <2>1. ~exc_ptr /\ ~threw =>
          num_setup_examples = num_finished_examples + Len(ready) + Len(ec_seq) + Len(fin)
                               + InHand + (IF Dispatching THEN Len(Undispatched) ELSE 0)
    BY <1>9 DEF CountersAgree, Dispatching
  <2> QED BY <1>1, <1>9, <2>1
<1>11. ASSUME Daemon,
              NEW e \in ToSet(ready') \union ToSet(ec_seq)
                          \union (IF mpc = "handle" THEN {ec} ELSE {})
                          \union (IF Dispatching' THEN ToSet(Undispatched') ELSE {}),
              content'[e].kind = "learn"
       PROVE  content'[e].from = connection'
  <2>1. e \in OnTheWay BY <1>1, <1>9 DEF OnTheWay
  <2> QED BY <1>1, <1>11, <2>1 DEF FromClient, Kind, poolVars
<1>12. allocated <= allocated' BY <1>1 DEF poolVars, SharedTypes
<1>13. /\ Distinct(pool') /\ Distinct(Undispatched') /\ Distinct(ready')
       /\ Apart(ToSet(pool'), ToSet(Undispatched'), ToSet(ready'), ToSet(ec_seq), ToSet(ToReturn),
                Hand)
  BY <1>1, <1>8 DEF OnePlace, poolVars
<1>14. ~threw => 1 .. allocated' \subseteq ToSet(pool') \union ToSet(Undispatched')
                                   \union ToSet(ready') \union ToSet(ec_seq)
                                   \union ToSet(ToReturn) \union Hand
  BY <1>1, <1>8 DEF Accounted, poolVars
<1>15. \A e \in ToSet(ec_seq) \union Hand : content'[e] = content[e] BY <1>1 DEF poolVars
<1> HIDE ParserFacts
<1> QED BY <1>1, <1>4, <1>5, <1>6, <1>7, <1>9, <1>10, <1>11, <1>12, <1>13, <1>14, <1>15,
           ParserKeeps

(* The batch grows by n examples from the pool.                            *)
LEMMA BatchGrows ==
  ASSUME PipelineInv, Undispatched = examples, NEW n \in Nat, TakeFromPool(n),
         examples' = examples \o FromPool(n), pushed' = 0
  PROVE  /\ allocated' \in Nat /\ allocated <= allocated'
         /\ pool' \in Seq(1 .. allocated') /\ Distinct(pool')
         /\ examples' \in Seq(1 .. allocated') /\ Distinct(examples')
         /\ Len(examples') = Len(examples) + n /\ Undispatched' = examples'
         /\ Apart(ToSet(pool'), ToSet(examples'), ToSet(ready), ToSet(ec_seq), ToSet(ToReturn), Hand)
         /\ ~threw => 1 .. allocated' \subseteq ToSet(pool') \union ToSet(examples')
                                      \union ToSet(ready) \union ToSet(ec_seq)
                                      \union ToSet(ToReturn) \union Hand
<1> DEFINE f == FromPool(n)  New == {e \in 1 .. allocated' : e > allocated}
<1>1. /\ allocated \in Nat /\ pool \in Seq(1 .. allocated) /\ examples \in Seq(1 .. allocated)
      /\ OnePlace /\ Accounted
  BY ParserFacts DEF SharedTypes, ParserTypes
<1>2. /\ Distinct(pool) /\ Distinct(examples)
      /\ Apart(ToSet(pool), ToSet(examples), ToSet(ready), ToSet(ec_seq), ToSet(ToReturn), Hand)
  BY <1>1 DEF OnePlace
<1>3. /\ allocated' \in Nat /\ allocated <= allocated' /\ pool' \in Seq(1 .. allocated')
      /\ Distinct(pool') /\ f \in Seq(1 .. allocated') /\ Distinct(f) /\ Len(f) = n
      /\ ToSet(f) \cap ToSet(pool') = {} /\ ToSet(f) \union ToSet(pool') = ToSet(pool) \union New
  BY <1>1, <1>2, Handed
<1> HIDE DEF f
<1>4. /\ ToSet(pool) \cap New = {} /\ ToSet(examples) \cap New = {} /\ ToSet(ready) \cap New = {}
      /\ ToSet(ec_seq) \cap New = {} /\ ToSet(ToReturn) \cap New = {} /\ Hand \cap New = {}
  <2>1. (1 .. allocated) \cap New = {} BY <1>1, <1>3
  <2>2. /\ ToSet(pool) \subseteq 1 .. allocated /\ ToSet(examples) \subseteq 1 .. allocated
        /\ ToSet(ready) \subseteq 1 .. allocated /\ ToSet(ec_seq) \subseteq 1 .. allocated
        /\ ToSet(ToReturn) \subseteq 1 .. allocated /\ Hand \subseteq 1 .. allocated
    BY PlacesTyped DEF PipelineInv
  <2> HIDE DEF New
  <2> QED BY <2>1, <2>2
<1>5. 1 .. allocated' = (1 .. allocated) \union New BY <1>1, <1>3
<1> HIDE DEF New
<1>6. examples \in Seq(1 .. allocated') BY <1>1, <1>3, Wider
<1>7. ToSet(examples) \cap ToSet(f) = {} BY <1>2, <1>3, <1>4 DEF Apart
<1>8. /\ examples' \in Seq(1 .. allocated') /\ Len(examples') = Len(examples) + n
      /\ ToSet(examples') = ToSet(examples) \union ToSet(f) /\ Distinct(examples')
  <2> DEFINE c == examples \o f
  <2>1. examples' = c BY DEF f
  <2>2. f \in Seq(1 .. allocated') /\ Distinct(f) /\ Len(f) = n /\ Distinct(examples) BY <1>2, <1>3
  <2>3. /\ c \in Seq(1 .. allocated') /\ Len(c) = Len(examples) + n
        /\ ToSet(c) = ToSet(examples) \union ToSet(f) /\ Distinct(c)
    BY ONLY <1>6, <1>7, <2>2, Joined
  <2> HIDE DEF c
  <2> QED BY <2>1, <2>3
<1>9. Undispatched' = examples'
  <2>1. \A A : \A s \in Seq(A) : SubSeq(s, 0 + 1, Len(s)) = s BY RestOf
  <2>2. Undispatched' = SubSeq(examples', 0 + 1, Len(examples')) BY DEF Undispatched
  <2> QED BY <1>8, <2>1, <2>2
<1>10. Apart(ToSet(pool'), ToSet(examples'), ToSet(ready), ToSet(ec_seq), ToSet(ToReturn), Hand)
  BY <1>2, <1>3, <1>4, <1>8 DEF Apart
<1>11. ~threw => 1 .. allocated' \subseteq ToSet(pool') \union ToSet(examples') \union ToSet(ready)
                                   \union ToSet(ec_seq) \union ToSet(ToReturn) \union Hand
  BY <1>1, <1>3, <1>5, <1>8 DEF Accounted
<1> QED BY <1>3, <1>8, <1>9, <1>10, <1>11

(* get_unused_example.                                                     *)
LEMMA GetKeeps ==
  ASSUME PipelineInv, GetUnusedExample, options' = options PROVE PipelineInv'
<1> USE ParserFacts
<1>1. /\ ppc = "get" /\ ppc' = "read" /\ examples' = examples \o FromPool(1) /\ TakeFromPool(1)
      /\ content' = [e \in 1 .. allocated' |-> IF e <= allocated THEN content[e] ELSE Blank]
      /\ pushed' = 0
      /\ UNCHANGED <<inputVars, example_number, passes_complete, pass_length, connection,
                     num_setup_examples, ready, done, exc_ptr, mainVars>>
  BY DEF GetUnusedExample
<1>2. examples = << >> /\ Undispatched = examples /\ Len(examples) = 0
  BY <1>1, EmptySeq DEF ParserShape
<1>3. /\ allocated' \in Nat /\ allocated <= allocated'
      /\ pool' \in Seq(1 .. allocated') /\ Distinct(pool')
      /\ examples' \in Seq(1 .. allocated') /\ Distinct(examples')
      /\ Len(examples') = Len(examples) + 1 /\ Undispatched' = examples'
      /\ Apart(ToSet(pool'), ToSet(examples'), ToSet(ready), ToSet(ec_seq), ToSet(ToReturn), Hand)
      /\ ~threw => 1 .. allocated' \subseteq ToSet(pool') \union ToSet(examples')
                                   \union ToSet(ready) \union ToSet(ec_seq)
                                   \union ToSet(ToReturn) \union Hand
  <2>1. 1 \in Nat OBVIOUS
  <2> HIDE ParserFacts
  <2> QED BY <1>1, <1>2, <2>1, BatchGrows
<1>4. allocated \in Nat /\ content \in [1 .. allocated -> Contents] BY DEF SharedTypes
<1>5. \A e \in 1 .. allocated : content'[e] = content[e] BY <1>1, <1>3, <1>4
<1>6. content' \in [1 .. allocated' -> Contents]
  <2>1. Blank \in Contents BY DEF Blank, Contents
  <2>2. \A e \in 1 .. allocated' : e <= allocated => e \in 1 .. allocated BY <1>3, <1>4
  <2> QED BY <1>1, <1>4, <2>1, <2>2
<1>7. ready' \in Seq(1 .. allocated') BY <1>1, <1>3, <1>4, Wider DEF SharedTypes
<1>8. InputTypes' BY <1>1 DEF InputTypes, inputVars
<1>9. ParserTypes' BY <1>1, <1>3 DEF ParserTypes
<1>10. SharedTypes' BY <1>1, <1>3, <1>6, <1>7 DEF SharedTypes, QueueLimit, Contents
<1>11. SaveFree'
  <2>1. ASSUME Multiline, NEW e \in 1 .. allocated' PROVE content'[e].kind # "save"
    <3>1. CASE e <= allocated
      <4>1. e \in 1 .. allocated BY <1>3, <1>4, <3>1
      <4> QED BY <1>5, <2>1, <4>1 DEF SaveFree, Kind
    <3>2. CASE ~(e <= allocated) BY <1>1, <3>2 DEF Blank
    <3> QED BY <3>1, <3>2
  <2> QED BY <1>1, <2>1 DEF SaveFree, Kind, Multiline, inputVars
<1>12. ParserShape' BY <1>1, <1>2, <1>3 DEF ParserShape
<1>13. ~Dispatching /\ ~Dispatching' BY <1>1 DEF Dispatching
<1>14. ToSet(ready) \union ToSet(ec_seq) \union Hand \subseteq 1 .. allocated
  BY PlacesTyped DEF PipelineInv
<1>15. \A e \in ToSet(ec_seq) \union Hand : content'[e] = content[e] BY <1>5, <1>14
<1>16. ppc' # "catch" /\ ~exc_ptr' /\ ~threw =>
         num_setup_examples' = num_finished_examples + Len(ready') + Len(ec_seq) + Len(fin)
                               + InHand + (IF Dispatching' THEN Len(Undispatched') ELSE 0)
  <2>1. ~exc_ptr /\ ~threw =>
          num_setup_examples = num_finished_examples + Len(ready) + Len(ec_seq) + Len(fin)
                               + InHand + (IF Dispatching THEN Len(Undispatched) ELSE 0)
    BY <1>1 DEF CountersAgree, Dispatching
  <2> QED BY <1>1, <1>13, <2>1
<1>17. ASSUME Daemon,
              NEW e \in ToSet(ready') \union ToSet(ec_seq)
                          \union (IF mpc = "handle" THEN {ec} ELSE {})
                          \union (IF Dispatching' THEN ToSet(Undispatched') ELSE {}),
              content'[e].kind = "learn"
       PROVE  content'[e].from = connection'
  <2>1. e \in OnTheWay BY <1>1, <1>13 DEF OnTheWay
  <2>2. e \in 1 .. allocated
    BY <1>1, <1>13, <1>14 DEF Hand, Held
  <2> QED BY <1>1, <1>5, <1>17, <2>1, <2>2 DEF FromClient, Kind
<1>18. Distinct(ready') BY <1>1 DEF OnePlace
<1>19. ppc # "exited" /\ ToSet(ready') = ToSet(ready) /\ UNCHANGED mainVars BY <1>1
<1> HIDE ParserFacts
<1> QED BY <1>3, <1>8, <1>9, <1>10, <1>11, <1>12, <1>15, <1>16, <1>17, <1>18, <1>19, ParserKeeps

(* What the reader leaves in the examples: the batch, member by member,    *)
(* and nothing else is touched.                                            *)
LEMMA FilledIn ==
  ASSUME allocated \in Nat, content \in [1 .. allocated -> Contents], allocated' \in Nat,
         connection \in Nat, taken \in Nat,
         NEW batch \in Seq(InputKinds), NEW all \in Seq(1 .. allocated'), Len(all) = Len(batch),
         content' = Filled(batch, all)
  PROVE  /\ content' \in [1 .. allocated' -> Contents]
         /\ \A e \in 1 .. allocated' : e \notin ToSet(all) =>
              content'[e] = IF e <= allocated THEN content[e] ELSE Blank
         /\ \A e \in ToSet(all) : /\ content'[e].from = connection
                                  /\ \E i \in DOMAIN batch : content'[e].kind = batch[i]
<1>1. DOMAIN batch = 1 .. Len(batch) /\ \A i \in DOMAIN batch : batch[i] \in InputKinds
  BY Elements
<1>2. /\ Len(batch) \in Nat /\ ToSet(all) = {all[i] : i \in DOMAIN batch}
      /\ ToSet(all) \subseteq 1 .. allocated'
  <2>1. Len(batch) \in Nat BY Elements
  <2>2. ToSet(all) = {all[i] : i \in 1 .. Len(all)} /\ ToSet(all) \subseteq 1 .. allocated'
    BY Elements
  <2> QED BY <1>1, <2>1, <2>2
<1>3. ASSUME NEW e \in 1 .. allocated', e \notin ToSet(all)
      PROVE  content'[e] = IF e <= allocated THEN content[e] ELSE Blank
  <2>1. ~ \E i \in DOMAIN batch : all[i] = e BY <1>2, <1>3
  <2> QED BY <2>1 DEF Filled
<1>4. ASSUME NEW e \in ToSet(all)
      PROVE  \E i \in DOMAIN batch :
               content'[e] = [kind |-> batch[i], from |-> connection, pos |-> taken + i]
  <2>1. e \in 1 .. allocated' /\ \E i \in DOMAIN batch : all[i] = e BY <1>2
  <2> DEFINE k == CHOOSE j \in DOMAIN batch : all[j] = e
  <2>2. k \in DOMAIN batch BY <2>1
  <2>3. content'[e] = [kind |-> batch[k], from |-> connection, pos |-> taken + k]
    BY <2>1 DEF Filled
  <2> QED BY <2>2, <2>3
<1>5. ASSUME NEW e \in 1 .. allocated' PROVE content'[e] \in Contents
  <2>1. CASE e \in ToSet(all)
    <3>1. PICK i \in DOMAIN batch :
            content'[e] = [kind |-> batch[i], from |-> connection, pos |-> taken + i]
      BY <1>4, <2>1
    <3>2. batch[i] \in InputKinds /\ taken + i \in Nat BY <1>1, <1>2
    <3> QED BY <3>1, <3>2 DEF Contents
  <2>2. CASE e \notin ToSet(all)
    <3>1. content'[e] = IF e <= allocated THEN content[e] ELSE Blank BY <1>3, <2>2
    <3>2. e <= allocated => e \in 1 .. allocated OBVIOUS
    <3>3. Blank \in Contents BY DEF Blank, Contents
    <3> QED BY <3>1, <3>2, <3>3
  <2> QED BY <2>1, <2>2
<1>6. content' = [e \in 1 .. allocated' |-> content'[e]] BY DEF Filled
<1>7. content' \in [1 .. allocated' -> Contents] BY <1>5, <1>6
<1>8. \A e \in ToSet(all) : /\ content'[e].from = connection
                            /\ \E i \in DOMAIN batch : content'[e].kind = batch[i]
  <2> TAKE e \in ToSet(all)
  <2>1. PICK i \in DOMAIN batch :
          content'[e] = [kind |-> batch[i], from |-> connection, pos |-> taken + i]
    BY <1>4
  <2>2. content'[e].from = connection /\ content'[e].kind = batch[i] BY <2>1
  <2> QED BY <2>2
<1> QED BY <1>3, <1>7, <1>8

(* The reader delivers a batch; it may then throw, or setup_example may.   *)
LEMMA ReadKeeps ==
  ASSUME PipelineInv, options' = options, ppc = "read", input # << >>, ReadBatch,
         UNCHANGED <<source, write_cache, pushed, passes_complete, pass_length, connection,
                     exc_ptr, ready, done, mainVars>>,
         cache' \in Seq(InputKinds), Multiline => \A i \in DOMAIN cache' : cache'[i] # "save",
         example_number' \in Nat, num_setup_examples' \in Nat, ppc' \in {"dispatch", "catch"},
         ppc' = "dispatch" => num_setup_examples' = num_setup_examples + Len(Head(input))
  PROVE  PipelineInv'
<1> DEFINE batch == Head(input)  n == Len(batch) - 1
<1> USE ParserFacts
<1>1. /\ batch \in Batches /\ input' \in Seq(Batches) /\ batch = input[1]
      /\ \A i \in DOMAIN input' : i + 1 \in DOMAIN input /\ input'[i] = input[i + 1]
  <2>1. input \in Seq(Batches) /\ input' = Tail(input) BY DEF InputTypes, ReadBatch
  <2>2. /\ Head(input) \in Batches /\ Tail(input) \in Seq(Batches) /\ Head(input) = input[1]
        /\ Len(Tail(input)) = Len(input) - 1
        /\ \A i \in 1 .. Len(Tail(input)) : Tail(input)[i] = input[i + 1]
    BY <2>1, HeadTailProperties
  <2>3. DOMAIN input = 1 .. Len(input) /\ Len(input) \in Nat BY <2>1, Elements
  <2>4. DOMAIN input' = 1 .. Len(input) - 1
    BY <2>1, <2>2, Elements
  <2>5. ASSUME NEW i \in DOMAIN input' PROVE i + 1 \in DOMAIN input /\ input'[i] = input[i + 1]
    BY <2>1, <2>2, <2>3, <2>4
  <2> QED BY <2>1, <2>2, <2>5
<1>2. batch \in Seq(InputKinds) /\ Len(batch) \in Nat /\ Len(batch) > 0 /\ n \in Nat
  <2>1. batch \in Seq(InputKinds) /\ batch # << >> BY <1>1 DEF Batches
  <2> HIDE DEF batch
  <2>2. Len(batch) \in Nat /\ Len(batch) # 0 BY <2>1, Elements
  <2> QED BY <2>1, <2>2
<1>3. /\ TakeFromPool(n) /\ examples' = examples \o FromPool(n)
      /\ content' = Filled(batch, examples') /\ taken' = taken + Len(batch)
  BY DEF ReadBatch
<1>4. /\ Undispatched = examples /\ Len(examples) = 1 /\ pushed = 0 /\ pushed' = 0 /\ ~exc_ptr
  BY DEF ParserShape
<1> HIDE DEF batch, n
<1>5. /\ allocated' \in Nat /\ allocated <= allocated'
      /\ pool' \in Seq(1 .. allocated') /\ Distinct(pool')
      /\ examples' \in Seq(1 .. allocated') /\ Distinct(examples')
      /\ Len(examples') = Len(examples) + n /\ Undispatched' = examples'
      /\ Apart(ToSet(pool'), ToSet(examples'), ToSet(ready), ToSet(ec_seq), ToSet(ToReturn), Hand)
      /\ ~threw => 1 .. allocated' \subseteq ToSet(pool') \union ToSet(examples')
                                   \union ToSet(ready) \union ToSet(ec_seq)
                                   \union ToSet(ToReturn) \union Hand
  <2> HIDE ParserFacts
  <2> QED BY <1>2, <1>3, <1>4, BatchGrows
<1>6. Len(examples') = Len(batch) BY <1>2, <1>4, <1>5 DEF n
<1>7. /\ allocated \in Nat /\ content \in [1 .. allocated -> Contents] /\ connection \in Nat
      /\ taken \in Nat
  BY DEF SharedTypes, ParserTypes, InputTypes
<1>8. /\ content' \in [1 .. allocated' -> Contents]
      /\ \A e \in 1 .. allocated' : e \notin ToSet(examples') =>
           content'[e] = IF e <= allocated THEN content[e] ELSE Blank
      /\ \A e \in ToSet(examples') : /\ content'[e].from = connection
                                     /\ \E i \in DOMAIN batch : content'[e].kind = batch[i]
  <2>1. PICK all \in Seq(1 .. allocated') : all = examples' BY <1>5
  <2>2. Len(all) = Len(batch) /\ content' = Filled(batch, all) BY <1>3, <1>6, <2>1
  <2>3. /\ content' \in [1 .. allocated' -> Contents]
        /\ \A e \in 1 .. allocated' : e \notin ToSet(all) =>
             content'[e] = IF e <= allocated THEN content[e] ELSE Blank
        /\ \A e \in ToSet(all) : /\ content'[e].from = connection
                                 /\ \E i \in DOMAIN batch : content'[e].kind = batch[i]
    BY ONLY <1>2, <1>5, <1>7, <2>2, FilledIn
  <2> QED BY <2>1, <2>3
<1>9. ToSet(ready) \union ToSet(ec_seq) \union Hand \subseteq 1 .. allocated
  BY PlacesTyped DEF PipelineInv
<1>10. \A e \in ToSet(ready) \union ToSet(ec_seq) \union Hand : content'[e] = content[e]
  <2> TAKE e \in ToSet(ready) \union ToSet(ec_seq) \union Hand
  <2>1. e \notin ToSet(examples') BY <1>5 DEF Apart
  <2>2. e \in 1 .. allocated BY <1>9
  <2>3. e \in 1 .. allocated' /\ e <= allocated BY <1>5, <1>7, <2>2
  <2> QED BY <1>8, <2>1, <2>3
<1>11. InputTypes' BY <1>1, <1>2, <1>3, <1>7 DEF InputTypes
<1>12. ParserTypes' BY <1>4, <1>5 DEF ParserTypes
<1>13. ready' \in Seq(1 .. allocated') BY <1>5, <1>7, Wider DEF SharedTypes
<1>14. SharedTypes' BY <1>5, <1>8, <1>13 DEF SharedTypes, QueueLimit, Contents
<1>15. SaveFree'
  <2> SUFFICES ASSUME Multiline
               PROVE  /\ \A i \in DOMAIN source' : \A j \in DOMAIN source'[i] : source'[i][j] # "save"
                      /\ \A i \in DOMAIN input' : \A j \in DOMAIN input'[i] : input'[i][j] # "save"
                      /\ \A i \in DOMAIN cache' : cache'[i] # "save"
                      /\ \A e \in 1 .. allocated' : content'[e].kind # "save"
    BY DEF SaveFree, Kind, Multiline
  <2>1. \A i \in DOMAIN input' : \A j \in DOMAIN input'[i] : input'[i][j] # "save"
    BY <1>1 DEF SaveFree
  <2>2. \A j \in DOMAIN batch : batch[j] # "save"
    <3>1. 1 \in DOMAIN input
      <4>1. input \in Seq(Batches) /\ input # << >> BY DEF InputTypes
      <4>2. DOMAIN input = 1 .. Len(input) /\ Len(input) \in Nat /\ Len(input) # 0
        BY <4>1, Elements
      <4> QED BY <4>2
    <3> QED BY <1>1, <3>1 DEF SaveFree
  <2>3. ASSUME NEW e \in 1 .. allocated' PROVE content'[e].kind # "save"
    <3>1. CASE e \in ToSet(examples') BY <1>8, <2>2, <3>1
    <3>2. CASE e \notin ToSet(examples') /\ e <= allocated
      <4>1. e \in 1 .. allocated BY <1>7, <3>2
      <4> QED BY <1>8, <3>2, <4>1 DEF SaveFree, Kind
    <3>3. CASE e \notin ToSet(examples') /\ ~(e <= allocated) BY <1>8, <3>3 DEF Blank
    <3> QED BY <3>1, <3>2, <3>3
  <2> QED BY <2>1, <2>3 DEF SaveFree
<1>16. ParserShape'
  <2>1. pushed' < Len(examples') BY <1>2, <1>4, <1>6
  <2> QED BY <1>4, <2>1 DEF ParserShape
<1>17. ~Dispatching /\ (Dispatching' <=> ppc' = "dispatch") BY DEF Dispatching
<1>18. ppc' # "catch" /\ ~exc_ptr' /\ ~threw =>
         num_setup_examples' = num_finished_examples + Len(ready') + Len(ec_seq) + Len(fin)
                               + InHand + (IF Dispatching' THEN Len(Undispatched') ELSE 0)
  <2> SUFFICES ASSUME ppc' # "catch", ~threw
               PROVE  num_setup_examples' = num_finished_examples + Len(ready) + Len(ec_seq)
                                            + Len(fin) + InHand + Len(Undispatched')
    BY <1>17
  <2>1. num_setup_examples = num_finished_examples + Len(ready) + Len(ec_seq) + Len(fin) + InHand + 0
    BY <1>4 DEF CountersAgree
  <2>2. num_setup_examples' = num_setup_examples + Len(batch) BY DEF batch
  <2>3. Len(Undispatched') = Len(batch) BY <1>5, <1>6
  <2>4. num_finished_examples \in Nat /\ Len(ready) \in Nat /\ Len(ec_seq) \in Nat
        /\ Len(fin) \in Nat /\ InHand \in Nat
    BY MainFacts DEF MainTypes, InHand
  <2> QED BY ONLY <1>2, <2>1, <2>2, <2>3, <2>4
<1>19. ASSUME Daemon,
              NEW e \in ToSet(ready') \union ToSet(ec_seq)
                          \union (IF mpc = "handle" THEN {ec} ELSE {})
                          \union (IF Dispatching' THEN ToSet(Undispatched') ELSE {}),
              content'[e].kind = "learn"
       PROVE  content'[e].from = connection'
  <2>1. CASE e \in ToSet(examples') BY <1>8, <2>1
  <2>2. CASE e \notin ToSet(examples')
    <3>1. e \in ToSet(ready) \union ToSet(ec_seq) \union (IF mpc = "handle" THEN {ec} ELSE {})
      BY <1>5, <2>2
    <3>2. e \in OnTheWay BY <3>1 DEF OnTheWay
    <3>3. content'[e] = content[e] BY <1>10, <3>1 DEF Hand, Held
    <3> QED BY <1>19, <3>2, <3>3 DEF FromClient, Kind
  <2> QED BY <2>1, <2>2
<1>20. ToSet(ready') = ToSet(ready) /\ Distinct(ready') /\ ppc # "exited" BY DEF OnePlace
<1>21. \A e \in ToSet(ec_seq) \union Hand : content'[e] = content[e] BY <1>10
<1> HIDE ParserFacts
<1> QED BY <1>5, <1>11, <1>12, <1>14, <1>15, <1>16, <1>18, <1>19, <1>20, <1>21, ParserKeeps

(* The batch is set up, or an exception interrupts it.                     *)
LEMMA ReadStepKeeps ==
  ASSUME PipelineInv, ReadAndSetup \/ ReaderThrows \/ SetupThrows, options' = options
  PROVE  PipelineInv'
<1> DEFINE batch == Head(input)
<1>1. /\ ppc = "read" /\ input # << >> /\ ReadBatch
      /\ UNCHANGED <<source, write_cache, pushed, passes_complete, pass_length, connection,
                     exc_ptr, ready, done, mainVars>>
      /\ ppc' \in {"dispatch", "catch"}
      /\ ppc' = "dispatch" => num_setup_examples' = num_setup_examples + Len(Head(input))
  BY DEF ReadAndSetup, ReaderThrows, SetupThrows
<1>2. InputTypes /\ ParserTypes /\ SaveFree BY ParserFacts
<1>3. /\ batch \in Seq(InputKinds) /\ Len(batch) \in Nat /\ DOMAIN batch = 1 .. Len(batch)
      /\ Multiline => \A j \in DOMAIN batch : batch[j] # "save"
  <2>1. input \in Seq(Batches) BY <1>2 DEF InputTypes
  <2>2. batch \in Batches /\ batch = input[1] BY <1>1, <2>1, HeadTailProperties
  <2>3. DOMAIN input = 1 .. Len(input) /\ Len(input) \in Nat /\ Len(input) # 0
    BY <1>1, <2>1, Elements
  <2>4. 1 \in DOMAIN input BY <2>3
  <2>5. Multiline => \A j \in DOMAIN batch : batch[j] # "save" BY <1>2, <2>2, <2>4 DEF SaveFree
  <2>6. batch \in Seq(InputKinds) BY <2>2 DEF Batches
  <2> HIDE DEF batch
  <2> QED BY <2>5, <2>6, Elements
<1>4. PICK more \in Seq(InputKinds) :
        /\ cache' = cache \o more \/ cache' = cache
        /\ Multiline => \A j \in DOMAIN more : more[j] # "save"
  <2>1. CASE ReadAndSetup \/ ReaderThrows BY <1>3, <2>1 DEF ReadAndSetup, ReaderThrows
  <2>2. CASE SetupThrows
    <3>1. PICK k \in DOMAIN batch :
            cache' = IF write_cache THEN cache \o SubSeq(batch, 1, k) ELSE cache
      BY <2>2 DEF SetupThrows
    <3> DEFINE s == SubSeq(batch, 1, k)
    <3> HIDE DEF batch
    <3>2. k \in 1 .. Len(batch) BY <1>3
    <3>3. \A i \in 1 .. k : i \in 1 .. Len(batch) /\ batch[i] \in InputKinds
      <4>1. \A i \in 1 .. Len(batch) : batch[i] \in InputKinds BY <1>3, Elements
      <4> QED BY <1>3, <3>2, <4>1
    <3>4. /\ s \in Seq(InputKinds) /\ Len(s) = (IF 1 <= k THEN k - 1 + 1 ELSE 0)
          /\ \A i \in 1 .. k - 1 + 1 : s[i] = batch[1 + i - 1]
      <4>1. k \in Int /\ 1 \in Int BY <1>3, <3>2
      <4>2. \A i \in 1 .. k : batch[i] \in InputKinds BY <3>3
      <4> QED BY ONLY <1>3, <4>1, <4>2, SubSeqProperties
    <3> HIDE DEF s
    <3>5. Len(s) = k BY <1>3, <3>2, <3>4
    <3>6. DOMAIN s = 1 .. k BY <3>4, <3>5, Elements
    <3>7. ASSUME NEW i \in 1 .. k PROVE i \in 1 .. Len(batch) /\ s[i] = batch[i]
      <4>1. i \in 1 .. k - 1 + 1 /\ 1 + i - 1 = i BY <1>3, <3>2
      <4> QED BY <3>3, <3>4, <4>1
    <3>8. Multiline => \A j \in DOMAIN s : s[j] # "save" BY <1>3, <3>6, <3>7
    <3>9. cache' = cache \o s \/ cache' = cache BY <3>1 DEF s
    <3> QED BY <3>4, <3>8, <3>9
  <2> QED BY <2>1, <2>2
<1>5. /\ cache' \in Seq(InputKinds)
      /\ Multiline => \A i \in DOMAIN cache' : cache'[i] # "save"
  <2>1. /\ cache \in Seq(InputKinds)
        /\ Multiline => \A i \in DOMAIN cache : cache[i] # "save"
    BY <1>2 DEF InputTypes, SaveFree
  <2>2. CASE cache' = cache BY <2>1, <2>2
  <2>3. CASE cache' = cache \o more
    <3> DEFINE c == cache \o more
    <3>1. c \in Seq(InputKinds) /\ ToSet(c) = ToSet(cache) \union ToSet(more)
      BY ONLY <1>4, <2>1, Joined
    <3> HIDE DEF c
    <3>2. Multiline => "save" \notin ToSet(cache) /\ "save" \notin ToSet(more)
      BY <1>4, <2>1 DEF ToSet
    <3>3. Multiline => \A i \in DOMAIN c : c[i] # "save" BY <3>1, <3>2 DEF ToSet
    <3>4. cache' = c BY <2>3 DEF c
    <3> QED BY <3>1, <3>3, <3>4
  <2> QED BY <1>4, <2>2, <2>3
<1>6. example_number' \in Nat /\ num_setup_examples' \in Nat
  <2>1. example_number \in Nat /\ num_setup_examples \in Nat BY <1>2 DEF ParserTypes
  <2>2. example_number' = example_number \/ example_number' = example_number + Len(batch)
    BY DEF ReadAndSetup, ReaderThrows, SetupThrows
  <2>3. \/ num_setup_examples' = num_setup_examples
        \/ \E k \in 1 .. Len(batch) : num_setup_examples' = num_setup_examples + k
        \/ num_setup_examples' = num_setup_examples + Len(batch)
    BY <1>3 DEF ReadAndSetup, ReaderThrows, SetupThrows
  <2> HIDE DEF batch
  <2> QED BY <1>3, <2>1, <2>2, <2>3
<1> HIDE DEF batch
<1> QED BY <1>1, <1>5, <1>6, ReadKeeps

(* thread_dispatch pushes the next example of the batch.                   *)
LEMMA PushKeeps ==
  ASSUME PipelineInv, Dispatch \/ DispatchEnd, options' = options PROVE PipelineInv'
<1> USE ParserFacts
<1>1. /\ PushNext /\ UNCHANGED <<inputVars, example_number, passes_complete, pass_length,
                                 connection, num_setup_examples, exc_ptr, poolVars, done, mainVars>>
      /\ ppc \in {"dispatch", "dispatch_end"} /\ Dispatching
  BY DEF Dispatch, DispatchEnd, Dispatching
<1>2. /\ pushed < Len(examples) /\ Len(ready) < QueueLimit /\ pushed' = pushed + 1
      /\ ready' = Append(ready, examples[pushed + 1])
  BY <1>1 DEF PushNext, Room
<1>3. /\ examples \in Seq(1 .. allocated) /\ pushed \in Nat /\ Len(examples) \in Nat
      /\ ready \in Seq(1 .. allocated) /\ Len(ready) \in Nat /\ allocated \in Nat
      /\ QueueLimit \in Nat
  <2>1. examples \in Seq(1 .. allocated) /\ pushed \in Nat /\ ready \in Seq(1 .. allocated)
        /\ options \in Scenarios /\ allocated \in Nat
    BY DEF ParserTypes, SharedTypes, InputTypes
  <2> QED BY <2>1, Elements, OptionTypes
<1> DEFINE e == Head(Undispatched)
<1>4. /\ Undispatched \in Seq(1 .. allocated) /\ Undispatched # << >> /\ e = examples[pushed + 1]
      /\ Tail(Undispatched) = SubSeq(examples, pushed + 2, Len(examples))
      /\ Len(Undispatched) = Len(examples) - pushed
  <2>1. /\ Undispatched \in Seq(1 .. allocated)
        /\ Len(Undispatched) = IF pushed <= Len(examples) THEN Len(examples) - pushed ELSE 0
        /\ pushed < Len(examples) =>
             /\ Undispatched # << >> /\ Head(Undispatched) = examples[pushed + 1]
             /\ Tail(Undispatched) = SubSeq(examples, pushed + 2, Len(examples))
    BY <1>3, RestOf DEF Undispatched
  <2>2. pushed <= Len(examples) BY <1>2, <1>3
  <2> QED BY <1>2, <2>1, <2>2
<1>5. /\ e \in 1 .. allocated /\ e \in ToSet(Undispatched) /\ Tail(Undispatched) \in Seq(1 .. allocated)
      /\ Len(Tail(Undispatched)) = Len(Undispatched) - 1
      /\ ToSet(Tail(Undispatched)) = ToSet(Undispatched) \ {e} /\ Distinct(Tail(Undispatched))
  BY <1>4, Shortened DEF OnePlace
<1>6. /\ \/ ppc = "dispatch" /\ pushed' = Len(examples) /\ ppc' = "get" /\ examples' = << >>
         \/ ppc = "dispatch" /\ pushed' # Len(examples) /\ ppc' = ppc /\ examples' = examples
         \/ ppc = "dispatch_end" /\ ppc' = "end_of_pass_done" /\ examples' = examples
  BY DEF Dispatch, DispatchEnd, Cleared
<1>7. ppc = "dispatch_end" => Len(examples) = 1 /\ pushed = 0 BY DEF ParserShape
<1>8. /\ pushed' \in Nat /\ pushed' >= 1 /\ pushed' <= Len(examples)
      /\ Len(Tail(Undispatched)) = Len(examples) - pushed'
  <2>1. pushed' = pushed + 1 /\ pushed < Len(examples) BY <1>2
  <2>2. Len(Tail(Undispatched)) = (Len(examples) - pushed) - 1 BY <1>4, <1>5
  <2>3. pushed \in Nat /\ Len(examples) \in Nat BY <1>3
  <2> QED BY ONLY <2>1, <2>2, <2>3
<1>9. Undispatched' = Tail(Undispatched)
  <2>1. CASE examples' = examples
    <3>1. Undispatched' = SubSeq(examples, pushed' + 1, Len(examples)) BY <2>1 DEF Undispatched
    <3>2. pushed' + 1 = pushed + 2 BY <1>2, <1>3
    <3> QED BY <1>4, <3>1, <3>2
  <2>2. CASE examples' = << >> /\ pushed' = Len(examples)
    <3>1. << >> \in Seq(1 .. allocated) /\ Len(<< >>) = 0 BY EmptySeq
    <3>2. pushed' >= Len(<< >>) BY <1>8, <3>1
    <3>3. Undispatched' = << >>
      <4>1. SubSeq(<< >>, pushed' + 1, Len(<< >>)) = << >> BY <1>8, <3>1, <3>2, RestOf
      <4> QED BY <2>2, <4>1 DEF Undispatched
    <3>4. Len(Tail(Undispatched)) = 0 BY <1>3, <1>8, <2>2
    <3>5. Tail(Undispatched) = << >> BY <1>5, <3>4, Elements
    <3> QED BY <3>3, <3>5
  <2> QED BY <1>6, <2>1, <2>2
<1>10. Dispatching' \/ Len(Undispatched') = 0
  <2>1. CASE Dispatching' BY <2>1
  <2>2. CASE ppc = "dispatch" /\ pushed' = Len(examples) BY <1>3, <1>8, <1>9, <2>2
  <2>3. CASE ppc = "dispatch_end"
    <3>1. Len(examples) = 1 /\ pushed = 0 BY <1>7, <2>3
    <3>2. Len(examples) - pushed' = 0 BY <1>2, <3>1
    <3> QED BY <1>8, <1>9, <3>2
  <2> QED BY <1>6, <2>1, <2>2, <2>3 DEF Dispatching
<1> HIDE DEF e
<1>11. e \notin ToSet(pool) /\ e \notin ToSet(ready) /\ e \notin ToSet(ec_seq)
       /\ e \notin ToSet(ToReturn) /\ e \notin Hand
  BY <1>5 DEF OnePlace, Apart
<1>12. /\ ready' \in Seq(1 .. allocated) /\ Len(ready') = Len(ready) + 1
       /\ ToSet(ready') = ToSet(ready) \union {e} /\ Distinct(ready')
  <2>1. ready' = Append(ready, e) BY <1>2, <1>4
  <2>2. Distinct(ready) BY DEF OnePlace
  <2> QED BY <1>3, <1>5, <1>11, <2>1, <2>2, Appended
<1>13. InputTypes' BY <1>1 DEF InputTypes, inputVars
<1>14. ParserTypes'
  <2>1. examples' \in Seq(1 .. allocated') BY <1>1, <1>3, <1>6, EmptySeq DEF poolVars
  <2>2. ppc' \in {"get", "dispatch", "end_of_pass_done"} BY <1>6
  <2> QED BY <1>1, <1>8, <2>1, <2>2 DEF ParserTypes
<1>15. SharedTypes'
  <2>1. Len(ready') <= QueueLimit BY <1>2, <1>3, <1>12
  <2> QED BY <1>1, <1>12, <2>1 DEF SharedTypes, poolVars, QueueLimit
<1>16. SaveFree' BY <1>1 DEF SaveFree, Kind, Multiline, poolVars, inputVars
<1>17. ParserShape'
  <2>1. ppc' = "dispatch" => pushed' < Len(examples')
    <3>1. ppc' = "dispatch" => pushed' # Len(examples) /\ examples' = examples BY <1>6
    <3> QED BY <1>3, <1>8, <3>1
  <2>2. ppc' = "end_of_pass_done" => pushed' = Len(examples')
    <3>1. ppc' = "end_of_pass_done" => Len(examples) = 1 /\ pushed = 0 /\ examples' = examples
      BY <1>6, <1>7
    <3> QED BY <1>2, <3>1
  <2>3. ~exc_ptr BY <1>1 DEF ParserShape
  <2> QED BY <1>1, <1>6, <2>1, <2>2, <2>3 DEF ParserShape
<1>18. /\ Distinct(pool') /\ Distinct(Undispatched')
       /\ Apart(ToSet(pool'), ToSet(Undispatched'), ToSet(ready'), ToSet(ec_seq), ToSet(ToReturn),
                Hand)
  <2>1. ToSet(Undispatched') = ToSet(Undispatched) \ {e} BY <1>5, <1>9
  <2>2. pool' = pool /\ Distinct(Undispatched') BY <1>1, <1>5, <1>9 DEF poolVars
  <2> QED BY <1>5, <1>11, <1>12, <2>1, <2>2 DEF OnePlace, Apart
<1>19. ~threw => 1 .. allocated' \subseteq ToSet(pool') \union ToSet(Undispatched')
                                   \union ToSet(ready') \union ToSet(ec_seq)
                                   \union ToSet(ToReturn) \union Hand
  BY <1>1, <1>5, <1>9, <1>12 DEF Accounted, poolVars
<1>20. ppc' # "catch" /\ ~exc_ptr' /\ ~threw =>
         num_setup_examples' = num_finished_examples + Len(ready') + Len(ec_seq) + Len(fin)
                               + InHand + (IF Dispatching' THEN Len(Undispatched') ELSE 0)
  <2> SUFFICES ASSUME ~exc_ptr, ~threw
               PROVE  num_setup_examples = num_finished_examples + Len(ready') + Len(ec_seq)
                                           + Len(fin) + InHand + Len(Undispatched')
    BY <1>1, <1>10
  <2>1. num_setup_examples = num_finished_examples + Len(ready) + Len(ec_seq) + Len(fin)
                             + InHand + Len(Undispatched)
    BY <1>1 DEF CountersAgree
  <2>2. num_finished_examples \in Nat /\ Len(ec_seq) \in Nat /\ Len(fin) \in Nat /\ InHand \in Nat
    BY MainFacts DEF MainTypes, InHand
  <2>3. Len(Undispatched') = Len(Undispatched) - 1 /\ Len(Undispatched) \in Int
    BY <1>3, <1>4, <1>5, <1>9
  <2> QED BY ONLY <1>3, <1>12, <2>1, <2>2, <2>3
<1>21. ASSUME Daemon,
              NEW x \in ToSet(ready') \union ToSet(ec_seq)
                          \union (IF mpc = "handle" THEN {ec} ELSE {})
                          \union (IF Dispatching' THEN ToSet(Undispatched') ELSE {}),
              content'[x].kind = "learn"
       PROVE  content'[x].from = connection'
  <2>1. x \in OnTheWay BY <1>1, <1>5, <1>9, <1>12 DEF OnTheWay
  <2> QED BY <1>1, <1>21, <2>1 DEF FromClient, Kind, poolVars
<1>22. allocated <= allocated' /\ ppc # "exited" /\ UNCHANGED mainVars
       /\ \A x \in ToSet(ec_seq) \union Hand : content'[x] = content[x]
  BY <1>1, <1>3 DEF poolVars
<1> HIDE ParserFacts
<1> QED BY <1>12, <1>13, <1>14, <1>15, <1>16, <1>17, <1>18, <1>19, <1>20, <1>21, <1>22, ParserKeeps

(* The catch handlers give the batch back.                                 *)
LEMMA CatchKeeps ==
  ASSUME PipelineInv, Catch, options' = options PROVE PipelineInv'
<1> USE ParserFacts
<1>1. /\ ppc = "catch" /\ ppc' = "lock_done" /\ examples' = << >> /\ exc_ptr' = TRUE
      /\ content' = [e \in DOMAIN content |-> IF e \in ToSet(examples) THEN Blank ELSE content[e]]
      /\ pool' = pool \o examples
      /\ UNCHANGED <<inputVars, pushed, example_number, passes_complete, pass_length,
                     connection, num_setup_examples, allocated, ready, done, mainVars>>
  BY DEF Catch, Returned
<1>2. /\ pool \in Seq(1 .. allocated) /\ examples \in Seq(1 .. allocated) /\ allocated \in Nat
      /\ content \in [1 .. allocated -> Contents] /\ pushed \in Nat
  BY DEF SharedTypes, ParserTypes
<1>3. Undispatched = examples BY <1>1
<1>4. /\ Distinct(pool) /\ Distinct(examples) /\ Distinct(ready)
      /\ Apart(ToSet(pool), ToSet(examples), ToSet(ready), ToSet(ec_seq), ToSet(ToReturn), Hand)
  BY <1>3 DEF OnePlace
<1>5. /\ pool' \in Seq(1 .. allocated) /\ Distinct(pool')
      /\ ToSet(pool') = ToSet(pool) \union ToSet(examples)
  <2> DEFINE c == pool \o examples
  <2>1. ToSet(pool) \cap ToSet(examples) = {} BY <1>4 DEF Apart
  <2>2. c \in Seq(1 .. allocated) /\ Distinct(c) /\ ToSet(c) = ToSet(pool) \union ToSet(examples)
    BY ONLY <1>2, <1>4, <2>1, Joined
  <2>3. pool' = c BY <1>1
  <2> HIDE DEF c
  <2> QED BY <2>2, <2>3
<1>6. Undispatched' = << >> /\ ToSet(Undispatched') = {} /\ Distinct(Undispatched')
  <2>1. << >> \in Seq(1 .. allocated) /\ Len(<< >>) = 0 BY EmptySeq
  <2>2. pushed >= Len(<< >>) BY <1>2, <2>1
  <2>3. SubSeq(<< >>, pushed + 1, Len(<< >>)) = << >> BY <1>2, <2>1, <2>2, RestOf
  <2> QED BY <1>1, <2>3, EmptyOrOne DEF Undispatched
<1>7. /\ content' \in [1 .. allocated -> Contents]
      /\ \A e \in 1 .. allocated : content'[e] = IF e \in ToSet(examples) THEN Blank ELSE content[e]
  <2>1. Blank \in Contents BY DEF Blank, Contents
  <2> QED BY <1>1, <1>2, <2>1
<1>8. \A e \in ToSet(ready) \union ToSet(ec_seq) \union Hand : content'[e] = content[e]
  <2>1. ToSet(ready) \union ToSet(ec_seq) \union Hand \subseteq 1 .. allocated
    BY PlacesTyped DEF PipelineInv
  <2>2. \A e \in ToSet(ready) \union ToSet(ec_seq) \union Hand : e \notin ToSet(examples)
    BY <1>4 DEF Apart
  <2> QED BY <1>7, <2>1, <2>2
<1>9. InputTypes' BY <1>1 DEF InputTypes, inputVars
<1>10. ParserTypes' BY <1>1, EmptySeq DEF ParserTypes
<1>11. SharedTypes' BY <1>1, <1>5, <1>7 DEF SharedTypes, QueueLimit, Contents
<1>12. SaveFree'
  <2>1. Multiline => \A e \in 1 .. allocated : content'[e].kind # "save"
    BY <1>7 DEF SaveFree, Kind, Blank
  <2> QED BY <1>1, <2>1 DEF SaveFree, Kind, Multiline, inputVars
<1>13. ParserShape' BY <1>1 DEF ParserShape
<1>14. ~Dispatching' BY <1>1 DEF Dispatching
<1>15. Apart(ToSet(pool'), ToSet(Undispatched'), ToSet(ready'), ToSet(ec_seq), ToSet(ToReturn), Hand)
  BY <1>1, <1>4, <1>5, <1>6 DEF Apart
<1>16. ~threw => 1 .. allocated' \subseteq ToSet(pool') \union ToSet(Undispatched')
                                   \union ToSet(ready') \union ToSet(ec_seq)
                                   \union ToSet(ToReturn) \union Hand
  BY <1>1, <1>3, <1>5 DEF Accounted
<1>17. ASSUME Daemon,
              NEW e \in ToSet(ready') \union ToSet(ec_seq)
                          \union (IF mpc = "handle" THEN {ec} ELSE {})
                          \union (IF Dispatching' THEN ToSet(Undispatched') ELSE {}),
              content'[e].kind = "learn"
       PROVE  content'[e].from = connection'
  <2>1. e \in ToSet(ready) \union ToSet(ec_seq) \union (IF mpc = "handle" THEN {ec} ELSE {})
    BY <1>1, <1>14
  <2>2. e \in OnTheWay BY <2>1 DEF OnTheWay
  <2>3. content'[e] = content[e] BY <1>8, <2>1 DEF Hand, Held
  <2> QED BY <1>1, <1>17, <2>2, <2>3 DEF FromClient, Kind
<1>18. /\ ppc # "exited" /\ UNCHANGED mainVars /\ Distinct(ready') /\ exc_ptr'
       /\ allocated' = allocated
  BY <1>1, <1>4
<1>19. allocated <= allocated' /\ \A e \in ToSet(ec_seq) \union Hand : content'[e] = content[e]
  BY <1>2, <1>8, <1>18
<1> HIDE ParserFacts
<1> QED BY <1>5, <1>6, <1>9, <1>10, <1>11, <1>12, <1>13, <1>15, <1>16, <1>17, <1>18, <1>19,
           ParserKeeps

(* When a daemon's reset_source goes on, the main thread has nothing of    *)
(* the client in hand any more.                                            *)
LEMMA QuiescentIsQuiet ==
  ASSUME PipelineInv, ppc = "read", Quiescent
  PROVE  ready = << >> /\ ec_seq = << >> /\ mpc # "handle"
<1>1. ready = << >> /\ num_finished_examples = num_setup_examples BY DEF Quiescent
<1>2. MainShape /\ MainTypes BY MainFacts
<1>3. CASE threw BY <1>1, <1>2, <1>3 DEF MainShape, Finishing
<1>4. CASE ~threw
  <2>1. ~exc_ptr /\ CountersAgree BY ParserFacts
  <2>2. num_setup_examples
          = num_finished_examples + Len(ready) + Len(ec_seq) + Len(fin) + InHand + 0
    BY <1>4, <2>1 DEF CountersAgree
  <2>3. num_finished_examples \in Nat /\ Len(ready) \in Nat /\ Len(ec_seq) \in Nat
        /\ Len(fin) \in Nat /\ InHand \in Nat
    BY MainFacts DEF MainTypes, InHand
  <2>4. Len(ec_seq) = 0 /\ InHand = 0 BY ONLY <1>1, <2>2, <2>3
  <2>5. ec_seq = << >> BY <1>2, <2>4, Elements DEF MainTypes
  <2>6. mpc # "handle" BY <2>4 DEF InHand
  <2> QED BY <1>1, <2>5, <2>6
<1> QED BY <1>3, <1>4

(* The input after reset_source.                                           *)
LEMMA SourceReset ==
  ASSUME PipelineInv, options' = options, ResetSource
  PROVE  /\ InputTypes' /\ connection' \in Nat
         /\ Multiline =>
              /\ \A i \in DOMAIN source' : \A j \in DOMAIN source'[i] : source'[i][j] # "save"
              /\ \A i \in DOMAIN input' : \A j \in DOMAIN input'[i] : input'[i][j] # "save"
              /\ \A i \in DOMAIN cache' : cache'[i] # "save"
<1>1. InputTypes /\ ParserTypes /\ SaveFree BY ParserFacts
<1>2. /\ source \in Seq(Batches) /\ cache \in Seq(InputKinds) /\ input \in Seq(Batches)
      /\ source \in options.sources /\ options \in Scenarios /\ taken \in Nat /\ connection \in Nat
  BY <1>1, OptionTypes DEF InputTypes, ParserTypes
<1>3. source' = source /\ cache' = cache /\ connection' = connection + 1
  BY DEF ResetSource
<1> DEFINE again == [i \in DOMAIN cache |-> <<cache[i]>>]
<1>4. input' = source \/ input' = again \/ input' = input BY DEF ResetSource
<1>5. again \in Seq(Batches)
  <2>1. DOMAIN cache = 1 .. Len(cache) /\ Len(cache) \in Nat
        /\ \A i \in 1 .. Len(cache) : cache[i] \in InputKinds
    BY <1>2, Elements
  <2>2. ASSUME NEW k \in InputKinds PROVE <<k>> \in Batches
    <3>1. <<k>> \in Seq(InputKinds) /\ <<k>> # << >> OBVIOUS
    <3> QED BY <3>1 DEF Batches
  <2>3. again \in [1 .. Len(cache) -> Batches] BY <2>1, <2>2
  <2> HIDE DEF again
  <2> QED BY <2>1, <2>3, SeqDef
<1>6. InputTypes'
  <2>1. taken' \in Nat
    <3>1. taken' = taken \/ taken' = 0 BY DEF ResetSource
    <3> QED BY <1>2, <3>1
  <2>2. write_cache' \in BOOLEAN BY DEF ResetSource
  <2>3. input' \in Seq(Batches) BY <1>2, <1>4, <1>5
  <2> QED BY <1>2, <1>3, <2>1, <2>2, <2>3 DEF InputTypes
<1>7. ASSUME Multiline
      PROVE  \A i \in DOMAIN input' : \A j \in DOMAIN input'[i] : input'[i][j] # "save"
  <2>1. CASE input' = source \/ input' = input BY <1>1, <1>7, <2>1 DEF SaveFree
  <2>2. CASE input' = again
    <3> SUFFICES ASSUME NEW i \in DOMAIN cache, NEW j \in DOMAIN <<cache[i]>>
                 PROVE  <<cache[i]>>[j] # "save"
      BY <2>2
    <3>1. j = 1 OBVIOUS
    <3> QED BY <1>1, <1>7, <3>1 DEF SaveFree
  <2> QED BY <1>4, <2>1, <2>2
<1> QED BY <1>1, <1>2, <1>3, <1>6, <1>7 DEF SaveFree

(* The end of a pass.                                                      *)
LEMMA EndOfPassKeeps ==
  ASSUME PipelineInv, EndOfPass, options' = options PROVE PipelineInv'
<1> USE ParserFacts
<1> DEFINE e == examples[1]
           c == [kind |-> "end_pass", from |-> connection, pos |-> 0]
<1>1. /\ ppc = "read" /\ ResetSource /\ content' = [content EXCEPT ![e] = c]
      /\ num_setup_examples' = num_setup_examples + 1 /\ ppc' = "dispatch_end"
      /\ UNCHANGED <<examples, pushed, example_number, exc_ptr, pool, allocated, ready, done,
                     mainVars>>
  BY DEF EndOfPass, AtEndOfPass, EndPassCounted
<1>2. /\ examples \in Seq(1 .. allocated) /\ Len(examples) = 1 /\ pushed = 0 /\ ~exc_ptr
      /\ Undispatched = examples /\ Undispatched' = Undispatched
  BY <1>1 DEF ParserTypes, ParserShape, Undispatched
<1>3. e \in 1 .. allocated /\ ToSet(examples) = {e}
  <2>1. ToSet(examples) = {examples[i] : i \in 1 .. Len(examples)}
        /\ \A i \in 1 .. Len(examples) : examples[i] \in 1 .. allocated
    BY <1>2, Elements
  <2>2. 1 .. Len(examples) = {1} BY <1>2
  <2> QED BY <2>1, <2>2
<1>4. content \in [1 .. allocated -> Contents] /\ connection \in Nat /\ allocated \in Nat
  BY DEF SharedTypes, ParserTypes
<1> HIDE DEF e
<1>5. /\ content' \in [1 .. allocated -> Contents] /\ content'[e].kind = "end_pass"
      /\ \A x \in 1 .. allocated : x # e => content'[x] = content[x]
  <2>1. c \in Contents BY <1>4 DEF Contents
  <2>2. c.kind = "end_pass" OBVIOUS
  <2> HIDE DEF c
  <2> QED BY <1>1, <1>3, <1>4, <2>1, <2>2
<1>6. \A x \in ToSet(ready) \union ToSet(ec_seq) \union Hand : content'[x] = content[x]
  <2>1. ToSet(ready) \union ToSet(ec_seq) \union Hand \subseteq 1 .. allocated
    BY PlacesTyped DEF PipelineInv
  <2>2. e \notin ToSet(ready) \union ToSet(ec_seq) \union Hand
    BY <1>2, <1>3 DEF OnePlace, Apart
  <2> QED BY <1>5, <2>1, <2>2
<1>7. /\ InputTypes' /\ connection' \in Nat
      /\ Multiline =>
           /\ \A i \in DOMAIN source' : \A j \in DOMAIN source'[i] : source'[i][j] # "save"
           /\ \A i \in DOMAIN input' : \A j \in DOMAIN input'[i] : input'[i][j] # "save"
           /\ \A i \in DOMAIN cache' : cache'[i] # "save"
  BY <1>1, SourceReset
<1>8. ParserTypes'
  <2>1. passes_complete' \in Nat /\ pass_length' \in Nat
    <3>1. passes_complete' = 0 \/ passes_complete' = passes_complete + 1 BY DEF EndOfPass
    <3>2. pass_length' = pass_length \/ pass_length' = pass_length * 2 + 1 BY DEF EndOfPass
    <3>3. passes_complete \in Nat /\ pass_length \in Nat BY DEF ParserTypes
    <3> QED BY <3>1, <3>2, <3>3
  <2>2. num_setup_examples' \in Nat BY <1>1 DEF ParserTypes
  <2> QED BY <1>1, <1>7, <2>1, <2>2 DEF ParserTypes
<1>9. SharedTypes' BY <1>1, <1>5 DEF SharedTypes, QueueLimit, Contents
<1>10. SaveFree'
  <2>1. Multiline => \A x \in 1 .. allocated : content'[x].kind # "save"
    BY <1>5 DEF SaveFree, Kind
  <2> QED BY <1>1, <1>7, <2>1 DEF SaveFree, Kind, Multiline
<1>11. ParserShape' BY <1>1, <1>2 DEF ParserShape
<1>12. Dispatching' /\ ~Dispatching BY <1>1 DEF Dispatching
<1>13. ppc' # "catch" /\ ~exc_ptr' /\ ~threw =>
         num_setup_examples' = num_finished_examples + Len(ready') + Len(ec_seq) + Len(fin)
                               + InHand + (IF Dispatching' THEN Len(Undispatched') ELSE 0)
  <2> SUFFICES ASSUME ~threw
               PROVE  num_setup_examples + 1 = num_finished_examples + Len(ready) + Len(ec_seq)
                                               + Len(fin) + InHand + 1
    BY <1>1, <1>2, <1>12
  <2>1. num_setup_examples = num_finished_examples + Len(ready) + Len(ec_seq) + Len(fin) + InHand + 0
    BY <1>1, <1>2 DEF CountersAgree
  <2>2. num_finished_examples \in Nat /\ Len(ready) \in Nat /\ Len(ec_seq) \in Nat
        /\ Len(fin) \in Nat /\ InHand \in Nat
    BY MainFacts DEF MainTypes, InHand
  <2> QED BY ONLY <2>1, <2>2
<1>14. ASSUME Daemon,
              NEW x \in ToSet(ready') \union ToSet(ec_seq)
                          \union (IF mpc = "handle" THEN {ec} ELSE {})
                          \union (IF Dispatching' THEN ToSet(Undispatched') ELSE {}),
              content'[x].kind = "learn"
       PROVE  content'[x].from = connection'
  <2>1. Quiescent BY <1>1, <1>14 DEF ResetSource
  <2>2. ready = << >> /\ ec_seq = << >> /\ mpc # "handle" BY <1>1, <2>1, QuiescentIsQuiet
  <2>3. x = e BY <1>1, <1>2, <1>3, <2>2, EmptyOrOne
  <2> QED BY <1>5, <1>14, <2>3
<1>15. /\ Distinct(pool') /\ Distinct(Undispatched') /\ Distinct(ready')
       /\ Apart(ToSet(pool'), ToSet(Undispatched'), ToSet(ready'), ToSet(ec_seq), ToSet(ToReturn),
                Hand)
  BY <1>1, <1>2 DEF OnePlace
<1>16. ~threw => 1 .. allocated' \subseteq ToSet(pool') \union ToSet(Undispatched')
                                   \union ToSet(ready') \union ToSet(ec_seq)
                                   \union ToSet(ToReturn) \union Hand
  BY <1>1, <1>2 DEF Accounted
<1>17. allocated <= allocated' /\ \A x \in ToSet(ec_seq) \union Hand : content'[x] = content[x]
  BY <1>1, <1>4, <1>6
<1>18. ppc # "exited" /\ UNCHANGED mainVars BY <1>1
<1> HIDE ParserFacts
<1> QED BY <1>7, <1>8, <1>9, <1>10, <1>11, <1>13, <1>14, <1>15, <1>16, <1>17, <1>18, ParserKeeps

(* Every step of either thread.                                            *)
LEMMA PipelineSteps ==
  ASSUME PipelineInv, [Next]_vars PROVE PipelineInv'
<1>1. CASE Main BY <1>1, MainStepKeeps
<1>2. CASE Parser
  <2> USE DEF Parser
  <2>1. CASE GetUnusedExample BY <1>2, <2>1, GetKeeps
  <2>2. CASE ParserSeesDone \/ ResetThrows \/ CheckLastPass \/ LockDone
    BY <1>2, <2>2, ParserQuietKeeps
  <2>3. CASE ReadAndSetup \/ ReaderThrows \/ SetupThrows BY <1>2, <2>3, ReadStepKeeps
  <2>4. CASE Dispatch \/ DispatchEnd BY <1>2, <2>4, PushKeeps
  <2>5. CASE EndOfPass BY <1>2, <2>5, EndOfPassKeeps
  <2>6. CASE Catch BY <1>2, <2>6, CatchKeeps
  <2> QED BY <1>2, <2>1, <2>2, <2>3, <2>4, <2>5, <2>6
<1>3. CASE UNCHANGED vars
  <2> USE <1>3 DEF vars, parserVars, inputVars, mainVars, poolVars
  <2>1. TypeOK' <=> TypeOK BY DEF TypeOK, QueueLimit
  <2>2. SaveFree' <=> SaveFree BY DEF SaveFree, Kind, Multiline
  <2>3. ParserShape' <=> ParserShape BY DEF ParserShape
  <2>4. MainShape' <=> MainShape BY DEF MainShape, Finishing, AtRecheck, Kind, Multiline
  <2>5. /\ Undispatched' = Undispatched /\ ToReturn' = ToReturn /\ (Held' <=> Held)
        /\ InHand' = InHand /\ (Dispatching' <=> Dispatching)
    BY DEF Undispatched, ToReturn, Held, InHand, AtRecheck, Kind, Dispatching
  <2>6. Hand' = Hand BY <2>5 DEF Hand
  <2>7. OnePlace' <=> OnePlace BY <2>5, <2>6 DEF OnePlace
  <2>8. Accounted' <=> Accounted BY <2>5, <2>6 DEF Accounted
  <2>9. CountersAgree' <=> CountersAgree BY <2>5 DEF CountersAgree
  <2>10. FromClient' <=> FromClient BY <2>5 DEF FromClient, OnTheWay, Kind, Daemon
  <2> QED BY <2>1, <2>2, <2>3, <2>4, <2>7, <2>8, <2>9, <2>10 DEF PipelineInv
<1> QED BY <1>1, <1>2, <1>3 DEF Next

(* What parse_dispatch, generic_driver and the example pool share is       *)
(* consistent in every state, for all inputs, options, failures and early  *)
(* stops, as long as no multiline input contains a save command: no        *)
(* example object is in two hands, none is lost, the counters the daemon   *)
(* compares differ by exactly what is in flight, and no prediction goes to *)
(* another client.                                                         *)
THEOREM PipelineIsSafe ==
  ASSUME NoSaveInGroups PROVE Spec => []SharedStateSafe
<1>1. Init => PipelineInv BY PipelineStarts
<1>2. PipelineInv /\ [Next]_vars => PipelineInv' BY PipelineSteps
<1>3. PipelineInv => SharedStateSafe BY PipelineInvIsSafe
<1> QED BY <1>1, <1>2, <1>3, PTL DEF Spec

-----------------------------------------------------------------------------
(* What follows once a learner has stopped training: the handler has       *)
(* nothing left that it could learn.  The end of a pass is handled with no *)
(* sequence in flight.                                                     *)
Stopped ==
  /\ AtRecheck /\ Kind(ec) \in Closing => ec_seq = << >>
  /\ early_terminate => ec_seq = << >> /\ mpc # "handle" /\ ~AtRecheck

(* An example of the sequence does not become an end of pass.              *)
LEMMA StillInFlight ==
  ASSUME PipelineInv, PipelineInv', Stopped, UNCHANGED <<ec, ec_seq>>, AtRecheck' <=> AtRecheck
  PROVE  AtRecheck' /\ Kind(ec)' \in Closing => ec_seq' = << >>
<1> SUFFICES ASSUME AtRecheck', Kind(ec)' \in Closing PROVE ec_seq = << >> OBVIOUS
<1>1. MainShape /\ OnePlace' BY DEF PipelineInv
<1>2. Hand' = {ec} BY DEF Hand, Held
<1>3. ec \notin ToSet(ec_seq) BY <1>1, <1>2 DEF OnePlace, Apart
<1>4. Kind(ec) \in Closing BY <1>1, <1>3 DEF MainShape
<1> QED BY <1>4 DEF Stopped

(* A step that leaves the handler's examples and the flag alone.           *)
LEMMA StillStopped ==
  ASSUME PipelineInv, PipelineInv', Stopped, UNCHANGED <<ec, ec_seq, early_terminate>>,
         AtRecheck' <=> AtRecheck, mpc' = "handle" => ~early_terminate
  PROVE  Stopped'
<1>1. AtRecheck' /\ Kind(ec)' \in Closing => ec_seq' = << >> BY StillInFlight
<1> QED BY <1>1 DEF Stopped

(* Every step keeps it, and learns nothing once training has stopped.      *)
LEMMA StoppedSteps ==
  ASSUME PipelineInv, PipelineInv', Stopped, [Next]_vars
  PROVE  Stopped' /\ (early_terminate => log' = log)
<1>0. MainShape /\ MainTypes /\ Multiline \in BOOLEAN BY MainFacts
<1>1. CASE Parser \/ UNCHANGED vars
  <2>1. UNCHANGED mainVars
    BY <1>1 DEF Parser, vars, GetUnusedExample, ParserSeesDone, ReadAndSetup, ReaderThrows,
                SetupThrows, Dispatch, EndOfPass, ResetThrows, DispatchEnd, CheckLastPass, Catch,
                LockDone
  <2>2. UNCHANGED <<ec, ec_seq, early_terminate, log>> /\ (AtRecheck' <=> AtRecheck) /\ mpc' = mpc
    BY <2>1 DEF mainVars, AtRecheck
  <2> QED BY <2>2, StillStopped DEF Stopped
<1>2. CASE SingleLearn \/ SingleEndPass \/ RecheckEndPass
  <2>1. ec_seq = << >> /\ ~early_terminate
    <3>1. CASE SingleLearn \/ SingleEndPass
      BY <1>0, <3>1 DEF SingleLearn, SingleEndPass, Stopped, MainShape
    <3>2. CASE RecheckEndPass BY <3>2 DEF RecheckEndPass, Stopped, AtRecheck, Closing
    <3> QED BY <1>2, <3>1, <3>2
  <2>2. ec_seq' = ec_seq /\ mpc' = "finish" /\ mret' = "pop"
    BY <1>2 DEF SingleLearn, SingleEndPass, RecheckEndPass, LearnThen, EndPassHandled, FinishThen
  <2>3. ~AtRecheck' BY <2>2 DEF AtRecheck
  <2> QED BY <2>1, <2>2, <2>3 DEF Stopped
<1>3. CASE ec_seq # << >> /\ (MultiComplete \/ ProcessRemaining)
  <2>1. ~early_terminate /\ Multiline BY <1>0, <1>3 DEF Stopped, MainShape
  <2>2. ec_seq' = << >> /\ early_terminate' = early_terminate
    <3>1. ec_seq' = << >> /\ MaySetDone("learn")
      BY <1>3 DEF MultiComplete, ProcessRemaining, LearnThen, AfterLearn
    <3>2. options \in Scenarios BY MainFacts
    <3>3. "learn" \notin StopAt BY <2>1, <3>2, ScenariosAssumption DEF Multiline, StopAt
    <3> QED BY <3>1, <3>3 DEF MaySetDone
  <2> QED BY <2>1, <2>2 DEF Stopped
<1>4. CASE ec_seq = << >> /\ (MultiComplete \/ ProcessRemaining)
  <2>1. /\ ec_seq' = << >> /\ UNCHANGED <<early_terminate, log>>
        /\ (mpc = "handle" /\ mpc' = "recheck") \/ mpc' = "drain"
    BY <1>4 DEF MultiComplete, ProcessRemaining, AfterLearn
  <2>2. early_terminate => mpc' = "drain" BY <2>1 DEF Stopped
  <2> QED BY <2>1, <2>2 DEF Stopped, AtRecheck
<1>5. CASE MultiCollect
  <2>1. ~early_terminate /\ Kind(ec) = "learn" BY <1>5 DEF MultiCollect, Stopped
  <2>2. UNCHANGED <<early_terminate, log>> /\ Kind(ec)' = Kind(ec)
    BY <1>5 DEF MultiCollect, Kind, MainOnly, poolVars
  <2> QED BY <2>1, <2>2 DEF Stopped, Closing
<1>6. CASE MultiSave
  <2>1. mpc = "handle" /\ Multiline /\ Kind(ec) = "save" BY <1>6 DEF MultiSave
  <2>2. ec \in 1 .. allocated BY <1>0, <2>1 DEF MainShape
  <2> QED BY <2>1, <2>2, MainFacts
<1>7. CASE LearnThrows
  <2>1. ec_seq' = << >> /\ mpc' = "join" /\ UNCHANGED <<early_terminate, log>>
    BY <1>7 DEF LearnThrows
  <2> QED BY <2>1 DEF Stopped, AtRecheck
<1>8. CASE PopExample
  <2>1. ~early_terminate /\ UNCHANGED <<early_terminate, log>> /\ mpc' = "handle"
    BY <1>8 DEF PopExample, MayPop
  <2> QED BY <2>1 DEF Stopped, AtRecheck
<1>9. CASE SingleSaveOrNewline \/ RecheckOther
  <2>1. /\ UNCHANGED <<early_terminate, log, ec_seq>> /\ mpc \in {"handle", "recheck"}
        /\ mpc' = "pop" \/ (mpc' = "finish" /\ mret' = "pop")
    BY <1>9 DEF SingleSaveOrNewline, RecheckOther, FinishThen
  <2> QED BY <2>1 DEF Stopped, AtRecheck
<1>10. CASE PopNothing \/ DrainEnds \/ DrainExample \/ FreeParser
  <2>1. /\ UNCHANGED <<early_terminate, log, ec_seq>>
        /\ \/ mpc' \in {"remaining", "join", "drain", "exit"}
           \/ mpc' = "finish" /\ mret' \in {"drain", "exit"}
    BY <1>10 DEF PopNothing, DrainEnds, DrainExample, FreeParser, FinishThen
  <2> QED BY <2>1 DEF Stopped, AtRecheck
<1>11. CASE FinishClean \/ FinishCount
  <2>1. /\ UNCHANGED <<ec, ec_seq, early_terminate, log, mret>> /\ mpc \in {"finish", "count"}
        /\ mpc' \in {"finish", "count", mret}
    BY <1>11 DEF FinishClean, FinishCount
  <2>2. AtRecheck' <=> AtRecheck BY <1>0, <1>11, <2>1 DEF AtRecheck, MainTypes
  <2>3. mpc' # "handle" BY <1>0, <2>1 DEF MainTypes
  <2> QED BY <2>1, <2>2, <2>3, StillStopped
<1> QED BY <1>1, <1>2, <1>3, <1>4, <1>5, <1>6, <1>7, <1>8, <1>9, <1>10, <1>11 DEF Next, Main

(* Once a learner has called set_done, no step of either thread learns an  *)
(* example, whatever the parser still dispatches and whatever is queued.   *)
THEOREM PipelineStops ==
  ASSUME NoSaveInGroups PROVE Spec => StopsLearning
<1>1. Init => PipelineInv /\ Stopped
  BY PipelineStarts DEF Init, Stopped, AtRecheck
<1>2. PipelineInv /\ Stopped /\ [Next]_vars => PipelineInv' /\ Stopped'
  BY PipelineSteps, StoppedSteps
<1>3. PipelineInv /\ Stopped /\ [Next]_vars =>
        [early_terminate /\ log' # log => log' = Append(log, Entry(<<ec>>)) /\ Kind(ec) = "end_pass"]_vars
  BY PipelineSteps, StoppedSteps
<1> QED BY <1>1, <1>2, <1>3, PTL DEF Spec, StopsLearning

(* The assertions of multi_example_handler::on_example hold: the newline   *)
(* or the end of pass that closes a sequence finds none in flight when it  *)
(* is looked at again.  The save command is the only way to break them.    *)
THEOREM PipelineAsserts ==
  ASSUME NoSaveInGroups PROVE Spec => []NoInFlightMultiEx
<1>1. Init => PipelineInv /\ Stopped
  BY PipelineStarts DEF Init, Stopped, AtRecheck
<1>2. PipelineInv /\ Stopped /\ [Next]_vars => PipelineInv' /\ Stopped'
  BY PipelineSteps, StoppedSteps
<1>3. Stopped => NoInFlightMultiEx BY DEF Stopped, NoInFlightMultiEx, AtRecheck, Closing
<1> QED BY <1>1, <1>2, <1>3, PTL DEF Spec
=============================================================================
