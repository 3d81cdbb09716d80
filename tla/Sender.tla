-------------------------------- MODULE Sender --------------------------------
(***************************************************************************)
(* The sender reduction (--sendto, sender.cc): vw sends its examples to a  *)
(* vw daemon and gets the predictions back, in order, over one socket.  It *)
(* keeps what it needs to score a prediction in delay_ring, a ring of      *)
(* example_queue_limit entries, and reads a prediction before it sends     *)
(* when a window of half the ring is in flight.                            *)
(*                                                                         *)
(* Examples are numbered 1, 2, ...; the daemon's prediction for an example *)
(* is the example's number, and 0 is the prediction of a zeroed record.    *)
(* The two directions of the socket are FIFOs.  size_t counts modulo Word. *)
(***************************************************************************)
EXTENDS Integers, Sequences

CONSTANTS
  Limits,           \* values of --example_queue_limit
  NumExamples,      \* examples to send
  Word,             \* 2^64 in the code: any number well above the indices
  DaemonMayDie      \* the daemon may close the connection

ASSUME LimitsAssumption == Limits \subseteq Nat \ {0}
ASSUME NumbersAssumption ==
  NumExamples \in Nat /\ Word \in Nat /\ \A l \in Limits : Word > NumExamples + l
ASSUME DaemonAssumption == DaemonMayDie \in BOOLEAN

VARIABLES
  limit,            \* example_queue_limit
  pc,               \* where the sender is
  sent_index, received_index,
  delay_ring,       \* delay_ring[i]: the example whose label and tag entry i has
  wire, back,       \* examples on their way, predictions on their way back
  daemon,           \* "up" or "gone"
  output            \* <<example scored, prediction>>, in the order of output

indexVars == <<limit, sent_index, received_index, delay_ring>>
socketVars == <<wire, back, daemon>>
senderVars == <<indexVars, pc, socketVars, output>>

SenderInit ==
  /\ limit \in Limits
  /\ pc = "send" /\ sent_index = 0 /\ received_index = 0
  /\ delay_ring = [i \in 0 .. limit - 1 |-> 0]
  /\ wire = <<>> /\ back = <<>> /\ daemon = "up"
  /\ output = <<>>

-----------------------------------------------------------------------------
(* get_prediction blocks until the daemon answers; at the end of the       *)
(* stream it returns a record of zeros.  Definitions with the suffixes     *)
(* _Slip and _Blocks are plausible errors in the one after them and are    *)
(* not used.                                                               *)
GetPrediction_Blocks(prediction) ==
  back # <<>> /\ prediction = Head(back) /\ back' = Tail(back)

GetPrediction(prediction) ==
  \/ back # <<>> /\ prediction = Head(back) /\ back' = Tail(back)
  \/ back = <<>> /\ daemon = "gone" /\ prediction = 0 /\ UNCHANGED back

(* The entry of the ring that belongs to an index.                         *)
Slot(i) == i % limit

ReceiveResult ==
  /\ \E prediction \in 0 .. NumExamples :
       /\ GetPrediction(prediction)
       /\ output' = Append(output, <<delay_ring[Slot(received_index)], prediction>>)
  /\ received_index' = received_index + 1

MustReceive_Slip == (received_index + 2 * limit) % Word = sent_index
MustReceive == (received_index + limit \div 2 - 1) % Word = sent_index

(* send_example, first part: make room in the window.                      *)
ReceiveFirst ==
  /\ pc = "send" /\ sent_index < NumExamples /\ MustReceive
  /\ ReceiveResult
  /\ pc' = "write"
  /\ UNCHANGED <<limit, sent_index, delay_ring, wire, daemon>>

WindowOpen ==
  /\ pc = "send" /\ sent_index < NumExamples /\ ~MustReceive
  /\ pc' = "write"
  /\ UNCHANGED <<indexVars, socketVars, output>>

(* send_example, second part.  What is written to a closed connection is   *)
(* lost, or the write fails.                                               *)
WriteExample ==
  /\ pc = "write"
  /\ wire' = IF daemon = "up" THEN Append(wire, sent_index + 1) ELSE wire
  /\ delay_ring' = [delay_ring EXCEPT ![Slot(sent_index)] = sent_index + 1]
  /\ sent_index' = sent_index + 1 /\ pc' = "send"
  /\ UNCHANGED <<limit, received_index, back, daemon, output>>

WriteThrows ==
  /\ pc = "write" /\ daemon = "gone"
  /\ pc' = "threw"
  /\ UNCHANGED <<indexVars, socketVars, output>>

(* end_examples waits for what is in flight and closes the connection.     *)
InFlight_Slip == received_index + 1 < sent_index
InFlight == received_index # sent_index

Drain ==
  /\ pc = "send" /\ sent_index = NumExamples /\ InFlight
  /\ ReceiveResult
  /\ UNCHANGED <<limit, sent_index, delay_ring, pc, wire, daemon>>

CloseFiles ==
  /\ pc = "send" /\ sent_index = NumExamples /\ ~InFlight
  /\ pc' = "closed"
  /\ UNCHANGED <<indexVars, socketVars, output>>

(* really_read throws if the connection was reset.                         *)
ReceiveThrows ==
  /\ pc = "send" /\ daemon = "gone"
  /\ IF sent_index < NumExamples THEN MustReceive ELSE InFlight
  /\ pc' = "threw"
  /\ UNCHANGED <<indexVars, socketVars, output>>

Send == ReceiveFirst \/ WindowOpen \/ WriteExample \/ Drain \/ CloseFiles
Fail == WriteThrows \/ ReceiveThrows

(* The daemon predicts one example after the other.                        *)
Predict ==
  /\ daemon = "up" /\ wire # <<>>
  /\ wire' = Tail(wire) /\ back' = Append(back, Head(wire))
  /\ UNCHANGED <<indexVars, pc, daemon, output>>

DaemonDies ==
  /\ DaemonMayDie /\ daemon = "up" /\ pc # "closed"
  /\ daemon' = "gone" /\ wire' = <<>>
  /\ UNCHANGED <<indexVars, pc, back, output>>

SenderNext == Send \/ Fail \/ Predict \/ DaemonDies

(* Both processes run; a lost connection need not be reported.             *)
SenderFairness == WF_senderVars(Send) /\ WF_senderVars(Predict)

SenderSpec == SenderInit /\ [][SenderNext]_senderVars /\ SenderFairness

-----------------------------------------------------------------------------
(* Every prediction is scored against the example it was made for, however *)
(* often the ring wraps around and wherever the window is; zeros appear    *)
(* only after the daemon has gone.                                         *)
PairedRight ==
  \A k \in DOMAIN output :
    /\ output[k][1] = k
    /\ output[k][2] = k \/ (output[k][2] = 0 /\ daemon = "gone")

(* "it waits to receive the result and then outputs it": every prediction  *)
(* that is output was made by the daemon.                                  *)
OutputsResults == \A k \in DOMAIN output : output[k][2] # 0

(* While the daemon is up the sender gets all its answers and closes the   *)
(* connection to signal the end.                                           *)
Finishes == [](daemon = "up") => <>(pc = "closed" /\ Len(output) = NumExamples)

(* Also when the daemon goes away the sender comes to an end.              *)
Ends == <>(pc \in {"closed", "threw"})
=============================================================================
