---------------------------- MODULE ParsePipeline ----------------------------
(***************************************************************************)
(* The two threads of the vw executable.  The parser thread runs           *)
(* parse_dispatch: it takes examples from the pool, fills them from the    *)
(* input, sets them up and pushes them on ready_parsed_examples.  The main *)
(* thread runs generic_driver: it pops examples, hands them to the learner *)
(* and returns them to the pool, then joins the parser and leaves.         *)
(*                                                                         *)
(* An example is an object with an identity, since the pool hands the same *)
(* object out again: content[e] is what it currently holds.  The kinds are *)
(* the ones the handlers tell apart.  ready_parsed_examples is the closable*)
(* FIFO that ThreadSafeQueue implements; parser::done and the queue's      *)
(* _done are one variable, since lock_done sets both and each is read by   *)
(* one thread.  A source is a sequence of batches, one for each call of    *)
(* the reader: one example from text and cache, several from JSON.         *)
(***************************************************************************)
EXTENDS Integers, Sequences, SequencesExt, FiniteSets

CONSTANT Scenarios   \* the command lines and inputs to consider

InputKinds == {"learn", "newline", "save"}
Batches == Seq(InputKinds) \ {<<>>}

ASSUME ScenariosAssumption ==
  \A s \in Scenarios :
    /\ s.sources \subseteq Seq(Batches)
    /\ s.example_queue_limit \in Nat \ {0} /\ s.passes \in Nat \ {0}
    /\ s.pass_length \in Nat /\ s.max_examples \in Nat
    /\ {s.multiline, s.daemon, s.cache} \subseteq BOOLEAN
    /\ ~(s.daemon /\ s.cache) /\ (s.passes > 1 => s.daemon \/ s.cache)
    /\ s.stop_at \subseteq {"learn", "end_pass"} /\ (s.multiline => "learn" \notin s.stop_at)
    /\ s.faults \subseteq {"reader", "setup", "reset", "learn"}

VARIABLE options   \* the scenario; it never changes

QueueLimit  == options.example_queue_limit
NumPasses   == options.passes         \* in daemon mode the connections of one child
PassLength  == options.pass_length    \* --initial_pass_length
MaxExamples == options.max_examples   \* --examples
Multiline   == options.multiline      \* the learner is a multiline learner
Daemon      == options.daemon
Cache       == options.cache          \* the first pass writes a cache, later ones read it
StopAt      == options.stop_at        \* where the learner may call set_done
Faults      == options.faults         \* what may throw

VARIABLES
  \* the parser thread
  source,          \* what the file, or each client of the daemon, contains
  input,           \* the batches the reader has still to deliver
  taken,           \* examples read since the input was last rewound
  cache,           \* the kinds written to the cache file
  write_cache,     \* the cache is being written
  ppc,             \* where the parser thread is
  examples,        \* parse_dispatch's batch
  pushed,          \* how many of them have been dispatched
  example_number, passes_complete, pass_length,
  connection,      \* resets of the source so far: the pass, or the client
  num_setup_examples,
  \* shared
  pool,            \* example_pool, front first
  allocated,       \* examples 1 .. allocated exist
  content,         \* content[e]: what example e holds
  ready,           \* ready_parsed_examples, front first
  done,            \* parser::done and the queue's _done
  exc_ptr,         \* the parser thread stashed an exception
  num_finished_examples,
  \* the main thread
  mpc,             \* where the main thread is
  ec,              \* the example being handled
  ec_seq,          \* multi_example_handler::_ec_seq
  fin,             \* examples to pass to finish_example
  mret,            \* where to go on when fin is empty
  early_terminate,
  threw,           \* an exception is unwinding generic_driver
  log              \* what has been learned, in order, and the pass ends

inputVars == <<source, input, taken, cache, write_cache>>
parserVars == <<inputVars, ppc, examples, pushed, example_number,
                passes_complete, pass_length, connection, num_setup_examples,
                exc_ptr>>
mainVars == <<mpc, ec, ec_seq, fin, mret, early_terminate, threw, log,
              num_finished_examples>>
poolVars == <<pool, allocated, content>>
vars == <<options, parserVars, mainVars, poolVars, ready, done>>

Blank == [kind |-> "empty", from |-> 0, pos |-> 0]

Init ==
  /\ options \in Scenarios /\ source \in options.sources
  /\ input = source /\ taken = 0
  /\ cache = <<>> /\ write_cache = Cache
  /\ ppc = "get" /\ examples = <<>> /\ pushed = 0
  /\ example_number = 0 /\ passes_complete = 0 /\ pass_length = PassLength
  /\ connection = 1 /\ num_setup_examples = 0
  /\ pool = [i \in 1 .. QueueLimit |-> i] /\ allocated = QueueLimit
  /\ content = [e \in 1 .. QueueLimit |-> Blank]
  /\ ready = <<>> /\ done = FALSE /\ exc_ptr = FALSE
  /\ num_finished_examples = 0
  /\ mpc = "pop" /\ ec = 0 /\ ec_seq = <<>> /\ fin = <<>> /\ mret = "pop"
  /\ early_terminate = FALSE /\ threw = FALSE /\ log = <<>>

-----------------------------------------------------------------------------
(* The example pool *)

(* The first n examples get_object would hand out, and what is left: an    *)
(* empty pool allocates.                                                   *)
FromPool(n) ==
  [i \in 1 .. n |-> IF i <= Len(pool) THEN pool[i] ELSE allocated + i - Len(pool)]

TakeFromPool(n) ==
  /\ pool' = IF n <= Len(pool) THEN SubSeq(pool, n + 1, Len(pool)) ELSE <<>>
  /\ allocated' = IF n <= Len(pool) THEN allocated ELSE allocated + n - Len(pool)

-----------------------------------------------------------------------------
(* The parser thread: parse_dispatch *)

(* The loop test and get_unused_example.  A definition whose name ends in  *)
(* _Slip is a plausible error in the one after it, and is never used.      *)
GetUnusedExample ==
  /\ ppc = "get" /\ ~done
  /\ examples' = examples \o FromPool(1) /\ TakeFromPool(1)
  /\ content' = [e \in 1 .. allocated' |-> IF e <= allocated THEN content[e] ELSE Blank]
  /\ pushed' = 0 /\ ppc' = "read"
  /\ UNCHANGED <<inputVars, example_number, passes_complete, pass_length, connection,
                 num_setup_examples, ready, done, exc_ptr, mainVars>>

ParserSeesDone ==
  /\ ppc = "get" /\ done
  /\ ppc' = "lock_done"
  /\ UNCHANGED <<inputVars, examples, pushed, example_number, passes_complete,
                 pass_length, connection, num_setup_examples, exc_ptr, poolVars,
                 ready, done, mainVars>>

MayRead_Slip == example_number # pass_length /\ MaxExamples >= example_number
MayRead == example_number # pass_length /\ MaxExamples > example_number

(* The reader fills the first example and takes one more from the pool for *)
(* each further member of the batch; setup_examples counts them and writes *)
(* them to the cache.                                                      *)
Filled(batch, all) ==
  [e \in 1 .. allocated' |->
     IF \E i \in DOMAIN batch : all[i] = e
     THEN LET i == CHOOSE j \in DOMAIN batch : all[j] = e
          IN  [kind |-> batch[i], from |-> connection, pos |-> taken + i]
     ELSE IF e <= allocated THEN content[e] ELSE Blank]

ReadBatch ==
  LET batch == Head(input)
      all   == examples \o FromPool(Len(batch) - 1)
  IN  /\ TakeFromPool(Len(batch) - 1)
      /\ examples' = all
      /\ content' = Filled(batch, all)
      /\ input' = Tail(input) /\ taken' = taken + Len(batch)

ReadAndSetup ==
  /\ ppc = "read" /\ MayRead /\ input # <<>>
  /\ ReadBatch
  /\ num_setup_examples' = num_setup_examples + Len(Head(input))
  /\ cache' = IF write_cache THEN cache \o Head(input) ELSE cache
  /\ example_number' = example_number + Len(Head(input))
  /\ ppc' = "dispatch"
  /\ UNCHANGED <<source, write_cache, pushed, passes_complete, pass_length,
                 connection, exc_ptr, ready, done, mainVars>>

(* The reader throws with at least one example in hand.                    *)
ReaderThrows ==
  /\ ppc = "read" /\ MayRead /\ input # <<>> /\ "reader" \in Faults
  /\ ReadBatch
  /\ ppc' = "catch"
  /\ UNCHANGED <<source, cache, write_cache, pushed, example_number, passes_complete,
                 pass_length, connection, num_setup_examples, exc_ptr, ready, done,
                 mainVars>>

(* setup_example throws for the k-th example, after it has been counted    *)
(* and written to the cache (an invalid weight under --strict_parse).      *)
SetupThrows ==
  /\ ppc = "read" /\ MayRead /\ input # <<>> /\ "setup" \in Faults
  /\ ReadBatch
  /\ \E k \in DOMAIN Head(input) :
       /\ num_setup_examples' = num_setup_examples + k
       /\ cache' = IF write_cache THEN cache \o SubSeq(Head(input), 1, k) ELSE cache
  /\ ppc' = "catch"
  /\ UNCHANGED <<source, write_cache, pushed, example_number, passes_complete,
                 pass_length, connection, exc_ptr, ready, done, mainVars>>

(* thread_dispatch pushes the batch one example at a time.  push waits for *)
(* room whether or not the queue has been closed.                          *)
Room_Slip == Len(ready) <= QueueLimit
Room == Len(ready) < QueueLimit

PushNext ==
  /\ pushed < Len(examples) /\ Room
  /\ ready' = Append(ready, examples[pushed + 1])
  /\ pushed' = pushed + 1

Cleared_Slip == examples
Cleared == <<>>   \* examples.clear()

Dispatch ==
  /\ ppc = "dispatch" /\ PushNext
  /\ IF pushed' = Len(examples)
     THEN ppc' = "get" /\ examples' = Cleared
     ELSE UNCHANGED <<ppc, examples>>
  /\ UNCHANGED <<inputVars, example_number, passes_complete, pass_length, connection,
                 num_setup_examples, exc_ptr, poolVars, done, mainVars>>

(* The end of a pass: the reader has nothing more or a limit is reached.   *)
AtEndOfPass == ppc = "read" /\ (~MayRead \/ input = <<>>)

(* reset_source for a daemon waits until every example of the connection   *)
(* has been finished, swaps the prediction sink and accepts the next       *)
(* client; for a file with a cache it goes back to the cache's first       *)
(* example; otherwise the input is left where it is.                       *)
Quiescent_Slip == ready = <<>>
Quiescent == num_finished_examples = num_setup_examples /\ ready = <<>>

ResetSource ==
  /\ Daemon => Quiescent
  /\ connection' = connection + 1
  /\ input' = CASE Daemon -> source
                [] ~Daemon /\ Cache -> [i \in DOMAIN cache |-> <<cache[i]>>]
                [] OTHER -> input
  /\ taken' = IF Daemon \/ Cache THEN 0 ELSE taken
  /\ write_cache' = FALSE
  /\ UNCHANGED <<source, cache>>

EndPassCounted_Slip == num_setup_examples
EndPassCounted == num_setup_examples + 1

(* All passes of the present length are done and the length was the limit. *)
Grows_Slip == passes_complete + 1 = NumPasses /\ example_number > pass_length
Grows == passes_complete + 1 = NumPasses /\ example_number = pass_length

(* The rest of the branch up to the dispatch of the end-of-pass example.   *)
EndOfPass ==
  /\ AtEndOfPass
  /\ ResetSource
  /\ content' = [content EXCEPT
                   ![examples[1]] = [kind |-> "end_pass", from |-> connection, pos |-> 0]]
  /\ num_setup_examples' = EndPassCounted
  /\ IF Grows
     THEN passes_complete' = 0 /\ pass_length' = pass_length * 2 + 1
     ELSE passes_complete' = passes_complete + 1 /\ UNCHANGED pass_length
  /\ ppc' = "dispatch_end"
  /\ UNCHANGED <<examples, pushed, example_number, exc_ptr, pool, allocated, ready, done,
                 mainVars>>

ResetThrows ==
  /\ AtEndOfPass /\ "reset" \in Faults
  /\ Daemon => Quiescent
  /\ write_cache' = FALSE /\ ppc' = "catch"
  /\ UNCHANGED <<source, input, taken, cache, examples, pushed, example_number, passes_complete,
                 pass_length, connection, num_setup_examples, exc_ptr, poolVars,
                 ready, done, mainVars>>

DispatchEnd ==
  /\ ppc = "dispatch_end" /\ PushNext
  /\ ppc' = "end_of_pass_done"
  /\ UNCHANGED <<inputVars, examples, example_number, passes_complete, pass_length,
                 connection, num_setup_examples, exc_ptr, poolVars, done, mainVars>>

(* After the dispatch: was this the last pass?                             *)
LastPass_Slip == passes_complete + 1 >= NumPasses /\ MaxExamples >= example_number
LastPass == passes_complete >= NumPasses /\ MaxExamples >= example_number

CheckLastPass ==
  /\ ppc = "end_of_pass_done"
  /\ done' = (done \/ LastPass)
  /\ example_number' = 0 /\ examples' = Cleared /\ ppc' = "get"
  /\ UNCHANGED <<inputVars, pushed, passes_complete, pass_length, connection,
                 num_setup_examples, exc_ptr, poolVars, ready, mainVars>>

(* The catch handlers give the batch back to the pool (clean_example, not  *)
(* finish_example: nothing is counted) and stash the exception.            *)
Returned_Slip == pool
Returned == pool \o examples   \* return_multiple_example

Catch ==
  /\ ppc = "catch"
  /\ content' = [e \in DOMAIN content |->
                   IF e \in ToSet(examples) THEN Blank ELSE content[e]]
  /\ pool' = Returned /\ examples' = <<>>
  /\ exc_ptr' = TRUE /\ ppc' = "lock_done"
  /\ UNCHANGED <<inputVars, pushed, example_number, passes_complete, pass_length,
                 connection, num_setup_examples, allocated, ready, done, mainVars>>

DoneAtExit_Slip == done
DoneAtExit == TRUE   \* the call of lock_done after the loop

LockDone ==
  /\ ppc = "lock_done"
  /\ done' = DoneAtExit /\ ppc' = "exited"
  /\ UNCHANGED <<inputVars, examples, pushed, example_number, passes_complete,
                 pass_length, connection, num_setup_examples, exc_ptr, poolVars,
                 ready, mainVars>>

Parser ==
  /\ \/ GetUnusedExample \/ ParserSeesDone
     \/ ReadAndSetup \/ ReaderThrows \/ SetupThrows \/ Dispatch
     \/ EndOfPass \/ ResetThrows \/ DispatchEnd \/ CheckLastPass
     \/ Catch \/ LockDone
  /\ UNCHANGED options

-----------------------------------------------------------------------------
(* The main thread: generic_driver and its handlers *)

MainOnly == UNCHANGED <<parserVars, poolVars>>

(* Go to step `step' after finish_example has been called on all of es.    *)
FinishThen(es, step) ==
  IF es = <<>> THEN mpc' = step /\ UNCHANGED <<fin, mret>>
               ELSE mpc' = "finish" /\ fin' = es /\ mret' = step

(* A call into the learner may end training: set_done raises               *)
(* early_terminate and closes the queue.                                   *)
MaySetDone(where) ==
  \/ UNCHANGED <<early_terminate, done>>
  \/ where \in StopAt /\ early_terminate' = TRUE /\ done' = TRUE

(* ready_examples_queue::pop asks the queue unless training has stopped,   *)
(* and gives up for good when the queue is closed and empty.               *)
MayPop_Slip == ready # <<>>
MayPop == ~early_terminate /\ ready # <<>>

NothingToPop_Slip == early_terminate
NothingToPop == early_terminate \/ (done /\ ready = <<>>)

PopExample ==
  /\ mpc = "pop" /\ MayPop
  /\ ec' = Head(ready) /\ ready' = Tail(ready)
  /\ mpc' = "handle"
  /\ UNCHANGED <<ec_seq, fin, mret, early_terminate, threw, log, num_finished_examples, done>>
  /\ MainOnly

PopNothing ==
  /\ mpc = "pop" /\ NothingToPop
  /\ mpc' = "remaining"
  /\ UNCHANGED <<ec, ec_seq, fin, mret, early_terminate, threw, log,
                 num_finished_examples, ready, done>>
  /\ MainOnly

Kind(e) == content[e].kind
Entry(es) == [i \in DOMAIN es |-> <<content[es[i]].from, content[es[i]].pos>>]

(* learn_ex / learn_multi_ex on es: the learner predicts, writes the       *)
(* predictions to the sink and learns; then every member is finished.      *)
LearnThen(es, step) ==
  /\ log' = Append(log, Entry(es))
  /\ FinishThen(es, step)
  /\ MaySetDone("learn")

(* end_pass *)
EndPassHandled ==
  /\ log' = Append(log, Entry(<<ec>>))
  /\ FinishThen(<<ec>>, "pop")
  /\ MaySetDone("end_pass")

(* single_example_handler::on_example; a save only writes the model file.  *)
SingleLearn ==
  /\ mpc = "handle" /\ ~Multiline /\ Kind(ec) = "learn"
  /\ LearnThen(<<ec>>, "pop")
  /\ UNCHANGED <<ec, ec_seq, threw, num_finished_examples, ready>> /\ MainOnly

SingleEndPass ==
  /\ mpc = "handle" /\ ~Multiline /\ Kind(ec) = "end_pass"
  /\ EndPassHandled
  /\ UNCHANGED <<ec, ec_seq, threw, num_finished_examples, ready>> /\ MainOnly

SingleSaveOrNewline ==
  /\ mpc = "handle" /\ ~Multiline /\ Kind(ec) \in {"save", "newline"}
  /\ FinishThen(<<ec>>, "pop")
  /\ UNCHANGED <<ec, ec_seq, early_terminate, threw, log, num_finished_examples,
                 ready, done>>
  /\ MainOnly

(* multi_example_handler::on_example, first part: try_complete_multi_ex    *)
(* and the learning of a completed sequence.                               *)
MultiCollect ==
  /\ mpc = "handle" /\ Multiline /\ Kind(ec) = "learn"
  /\ ec_seq' = Append(ec_seq, ec) /\ mpc' = "recheck"
  /\ UNCHANGED <<ec, fin, mret, early_terminate, threw, log, num_finished_examples,
                 ready, done>>
  /\ MainOnly

MultiSave ==
  /\ mpc = "handle" /\ Multiline /\ Kind(ec) = "save"
  /\ FinishThen(<<ec>>, "recheck")
  /\ UNCHANGED <<ec, ec_seq, early_terminate, threw, log, num_finished_examples,
                 ready, done>>
  /\ MainOnly

AfterLearn_Slip == ec_seq
AfterLearn == <<>>   \* _ec_seq.clear()

MultiComplete ==
  /\ mpc = "handle" /\ Multiline /\ Kind(ec) \in {"newline", "end_pass"}
  /\ IF ec_seq = <<>>
     THEN mpc' = "recheck" /\ UNCHANGED <<fin, mret, early_terminate, log, done>>
     ELSE LearnThen(ec_seq, "recheck")
  /\ ec_seq' = AfterLearn
  /\ UNCHANGED <<ec, threw, num_finished_examples, ready>> /\ MainOnly

(* multi_example_handler::on_example, second part: the handler reads       *)
(* ec->end_pass and ec->is_newline again, whatever ec holds by then.       *)
RecheckEndPass ==
  /\ mpc = "recheck" /\ Kind(ec) = "end_pass"
  /\ EndPassHandled
  /\ UNCHANGED <<ec, ec_seq, threw, num_finished_examples, ready>> /\ MainOnly

RecheckOther ==
  /\ mpc = "recheck" /\ Kind(ec) # "end_pass"
  /\ FinishThen(IF Kind(ec) = "newline" THEN <<ec>> ELSE <<>>, "pop")
  /\ UNCHANGED <<ec, ec_seq, early_terminate, threw, log, num_finished_examples,
                 ready, done>>
  /\ MainOnly

(* An exception from the learner leaves generic_driver: the examples in    *)
(* hand are abandoned and the scope guard of main joins the parser.        *)
LearnThrows ==
  /\ "learn" \in Faults
  /\ \/ mpc = "handle" /\ ~Multiline /\ Kind(ec) = "learn"
     \/ mpc = "handle" /\ Kind(ec) \in {"newline", "end_pass"} /\ ec_seq # <<>>
     \/ mpc = "remaining" /\ ec_seq # <<>>
  /\ threw' = TRUE /\ mpc' = "join" /\ ec_seq' = <<>>
  /\ UNCHANGED <<ec, fin, mret, early_terminate, log, num_finished_examples, ready, done>>
  /\ MainOnly

(* finish_example: first clean_example, then the counter under output_lock.*)
FinishClean ==
  /\ mpc = "finish"
  /\ content' = [content EXCEPT ![Head(fin)] = Blank]
  /\ pool' = Append(pool, Head(fin))
  /\ mpc' = "count"
  /\ UNCHANGED <<ec, ec_seq, fin, mret, early_terminate, threw, log,
                 num_finished_examples, allocated, ready, done, parserVars>>

FinishCount ==
  /\ mpc = "count"
  /\ num_finished_examples' = num_finished_examples + 1
  /\ fin' = Tail(fin)
  /\ mpc' = IF Tail(fin) = <<>> THEN mret ELSE "finish"
  /\ UNCHANGED <<ec, ec_seq, mret, early_terminate, threw, log, ready, done>>
  /\ MainOnly

(* process_remaining, then drain_examples.                                 *)
ProcessRemaining ==
  /\ mpc = "remaining"
  /\ IF ec_seq = <<>>
     THEN mpc' = "drain" /\ UNCHANGED <<fin, mret, early_terminate, log, done>>
     ELSE LearnThen(ec_seq, "drain")
  /\ ec_seq' = <<>>
  /\ UNCHANGED <<ec, threw, num_finished_examples, ready>> /\ MainOnly

DrainExample ==
  /\ mpc = "drain" /\ early_terminate /\ ready # <<>>
  /\ ready' = Tail(ready) /\ FinishThen(<<Head(ready)>>, "drain")
  /\ UNCHANGED <<ec, ec_seq, early_terminate, threw, log, num_finished_examples, done>>
  /\ MainOnly

DrainEnds ==
  /\ mpc = "drain" /\ (early_terminate => done /\ ready = <<>>)
  /\ mpc' = "join"
  /\ UNCHANGED <<ec, ec_seq, fin, mret, early_terminate, threw, log,
                 num_finished_examples, ready, done>>
  /\ MainOnly

(* end_parser joins the thread; free_parser finishes what is still queued. *)
Unfinished_Slip == <<>>
Unfinished == ready

FreeParser ==
  /\ mpc = "join" /\ ppc = "exited"
  /\ FinishThen(Unfinished, "exit") /\ ready' = <<>>
  /\ UNCHANGED <<ec, ec_seq, early_terminate, threw, log, num_finished_examples, done>>
  /\ MainOnly

Main ==
  /\ \/ PopExample \/ PopNothing
     \/ SingleLearn \/ SingleEndPass \/ SingleSaveOrNewline
     \/ MultiCollect \/ MultiSave \/ MultiComplete \/ RecheckEndPass \/ RecheckOther
     \/ LearnThrows \/ FinishClean \/ FinishCount
     \/ ProcessRemaining \/ DrainExample \/ DrainEnds \/ FreeParser
  /\ UNCHANGED options

Next == Parser \/ Main

(* Both are threads of one process and the operating system runs both.  In *)
(* daemon mode the parser's step includes accept: clients keep connecting. *)
Fairness == WF_vars(Parser) /\ WF_vars(Main)

Spec == Init /\ [][Next]_vars /\ Fairness

-----------------------------------------------------------------------------
(* Types of all variables; the queue stays within its limit.               *)
TypeOK ==
  /\ options \in Scenarios /\ source \in options.sources /\ input \in Seq(Batches)
  /\ taken \in Nat /\ cache \in Seq(InputKinds) /\ write_cache \in BOOLEAN
  /\ ppc \in {"get", "read", "dispatch", "dispatch_end", "end_of_pass_done",
              "catch", "lock_done", "exited"}
  /\ examples \in Seq(1 .. allocated) /\ pushed \in Nat
  /\ example_number \in Nat /\ passes_complete \in Nat /\ pass_length \in Nat
  /\ connection \in Nat /\ num_setup_examples \in Nat /\ num_finished_examples \in Nat
  /\ pool \in Seq(1 .. allocated) /\ allocated \in Nat
  /\ content \in [1 .. allocated -> [kind : InputKinds \union {"empty", "end_pass"},
                                     from : Nat, pos : Nat]]
  /\ ready \in Seq(1 .. allocated) /\ Len(ready) <= QueueLimit
  /\ done \in BOOLEAN /\ exc_ptr \in BOOLEAN
  /\ mpc \in {"pop", "handle", "recheck", "finish", "count", "remaining", "drain",
              "join", "exit"}
  /\ mret \in {"pop", "recheck", "drain", "exit"}
  /\ ec \in 0 .. allocated /\ ec_seq \in Seq(1 .. allocated) /\ fin \in Seq(1 .. allocated)
  /\ early_terminate \in BOOLEAN /\ threw \in BOOLEAN
  /\ log \in Seq(Seq(Nat \X Nat))

(* Who holds the examples: the pool, the parser's undispatched ones, the   *)
(* queue, the handler's sequence, the ones being finished (the first has   *)
(* been returned already when it only remains to be counted).              *)
Undispatched == SubSeq(examples, pushed + 1, Len(examples))
ToReturn == IF mpc = "count" THEN Tail(fin) ELSE fin
Holders == pool \o Undispatched \o ready \o ec_seq \o ToReturn

(* No example object is in two places: what one thread fills, learns from  *)
(* or has returned is never at the same time in the other thread's hands   *)
(* (examples are recycled through the pool without any reference count).   *)
Ownership ==
  /\ \A i, j \in DOMAIN Holders : i # j => Holders[i] # Holders[j]
  /\ mpc = "handle" => ec \notin ToSet(Holders)

(* When vw leaves, every example it ever allocated is back in the pool,    *)
(* also after a parse error or an early stop that left some in the queue   *)
(* ("There should be no examples in flight at this point", free_parser).   *)
NothingLeaked == mpc = "exit" /\ ~threw => ToSet(pool) = 1 .. allocated

(* The example in hand that has yet to be finished, if there is one.       *)
AtRecheck == mpc = "recheck" \/ (mpc \in {"finish", "count"} /\ mret = "recheck")
InHand ==
  IF mpc = "handle" \/ (AtRecheck /\ Kind(ec) \in {"newline", "end_pass"}) THEN 1 ELSE 0

(* The two counters the daemon compares before it drops a client differ by *)
(* exactly the examples that are set up and not finished, wherever they    *)
(* are.                                                                    *)
CountersAgree ==
  ppc # "catch" /\ ~exc_ptr /\ ~threw =>
    num_setup_examples = num_finished_examples + Len(ready) + Len(ec_seq) + Len(fin)
                         + InHand + (IF ppc \in {"dispatch", "dispatch_end"}
                                     THEN Len(Undispatched) ELSE 0)

(* A daemon never redirects its predictions while an example of the        *)
(* previous client could still produce one: what the main thread is about  *)
(* to predict belongs to the connection the sink writes to.                *)
SinkStable ==
  Daemon => \A e \in ToSet(ready) \union ToSet(ec_seq)
                     \union (IF mpc = "handle" THEN {ec} ELSE {}) :
              Kind(e) = "learn" => content[e].from = connection

(* What one pass over the source teaches: every example, or every group of *)
(* examples that a newline or the end of the pass closes.                  *)
Groups(flat, p) ==
  LET close(g) == IF g.open = <<>> THEN g ELSE [closed |-> Append(g.closed, g.open), open |-> <<>>]
      step(g, i) ==
        CASE flat[i] = "learn" /\ Multiline -> [g EXCEPT !.open = Append(@, <<p, i>>)]
          [] flat[i] = "learn" /\ ~Multiline -> [g EXCEPT !.closed = Append(@, << <<p, i>> >>)]
          [] flat[i] = "newline" -> close(g)
          [] OTHER -> g
  IN  close(FoldLeftDomain(step, [closed |-> <<>>, open |-> <<>>], flat)).closed

ExpectedLog ==
  FlattenSeq([p \in 1 .. NumPasses |->
                Append(Groups(FlattenSeq(source), p), << <<p, 0>> >>)])

(* No limit cuts the input short.                                          *)
Unlimited == Len(FlattenSeq(source)) < PassLength /\ Len(FlattenSeq(source)) < MaxExamples

(* Without failures and limits the main thread learns every example of     *)
(* every pass exactly once, in the order of the input and grouped as the   *)
(* input groups them, with the end of each pass in its place; and it does  *)
(* not leave before that.                                                  *)
LearnsAll ==
  Unlimited /\ Faults = {} /\ StopAt = {} =>
    /\ IsPrefix(log, ExpectedLog)
    /\ mpc = "exit" => log = ExpectedLog

(* Also when a thread fails or training is stopped: what has been learned  *)
(* is what came before, in order and without repetition.                   *)
LearnsPrefix == Unlimited => IsPrefix(FlattenSeq(log), FlattenSeq(ExpectedLog))

(* "we should have no more in-flight multi_ex here": the assertions of     *)
(* multi_example_handler::on_example hold when they are reached.           *)
NoInFlightMultiEx ==
  mpc = "recheck" /\ Kind(ec) \in {"newline", "end_pass"} => ec_seq = <<>>

(* Once a learner has called set_done no example is learned any more,      *)
(* whatever the parser still dispatches and process_remaining finds; at    *)
(* most the end of pass that is in hand is handled.                        *)
StopsLearning ==
  [][early_terminate /\ log' # log => log' = Append(log, Entry(<<ec>>)) /\ Kind(ec) = "end_pass"]_vars

(* --passes, "Number of Training Passes": parse_dispatch never starts more *)
(* passes than were asked for.                                             *)
WithinPasses == passes_complete <= NumPasses

(* --examples, "Number of examples to parse": a pass of a reader that      *)
(* delivers single examples stops exactly at the limit, and the passes are *)
(* still counted right.                                                    *)
LimitsRespected ==
  (\A i \in DOMAIN source : Len(source[i]) = 1) =>
    WithinPasses /\ example_number <= MaxExamples

(* --initial_pass_length, "Initial number of examples per pass": passes    *)
(* that start short grow, and vw does not end before it has learned from   *)
(* every example of its input.                                             *)
CoversInput ==
  mpc = "exit" /\ Faults = {} /\ StopAt = {} /\ Len(FlattenSeq(source)) < MaxExamples =>
    \A i \in DOMAIN FlattenSeq(source) :
      FlattenSeq(source)[i] = "learn" => \E k \in DOMAIN log : \E e \in ToSet(log[k]) : e[2] = i

(* vw ends: the two threads never wait for each other for ever.            *)
Termination == <>(mpc = "exit")

(* A daemon that waits for the predictions of a connection to be sent gets *)
(* out of that wait.                                                       *)
PredictionsSent == [](Daemon /\ AtEndOfPass => <>(ppc # "read"))

(* What the two threads of vw share stays consistent, whatever fails and   *)
(* whenever learning stops: no example object is in two hands, all are     *)
(* back in the pool at the end, the counters of set up and finished        *)
(* examples differ by what is in flight, and a daemon never redirects its  *)
(* predictions under an example that still has to print one.               *)
SharedStateSafe ==
  /\ TypeOK
  /\ Ownership
  /\ NothingLeaked
  /\ CountersAgree
  /\ SinkStable

(* What the learner sees is the input: every example once per pass, in     *)
(* order and grouped as in the input, at least a prefix of it when a       *)
(* thread fails or training stops, as much as --examples, --passes and     *)
(* --initial_pass_length ask for; and multi_example_handler::on_example    *)
(* meets no group where it asserts that there is none.                     *)
LearnsInput ==
  /\ LearnsAll
  /\ LearnsPrefix
  /\ NoInFlightMultiEx
  /\ LimitsRespected
  /\ CoversInput
=============================================================================
