-------------------------- MODULE AllReduceSockets --------------------------
(***************************************************************************)
(* VW::all_reduce_sockets::all_reduce (allreduce.h, allreduce_sockets.cc): *)
(* once a node has its place in the tree it adds up its children's buffers *)
(* into its own while it passes what is complete on to its parent, and     *)
(* then passes the sum from its parent down to its children.               *)
(*                                                                         *)
(* Sockets carry bytes.  A read may end anywhere, also inside a value of   *)
(* SizeofT bytes.  A byte is known by the value it is part of; a value     *)
(* whose bytes come from different values is Torn.                         *)
(***************************************************************************)
EXTENDS SpanningTree, Functions

CONSTANTS
  SizeofT,      \* sizeof(T)
  NumValues,    \* the values in a buffer
  AR_BUF_SIZE,  \* the most bytes that are sent or read at once
  SocketBuffer  \* bytes a connection holds before send blocks

ASSUME SizesAssumption ==
  /\ SizeofT \in Nat \ {0} /\ NumValues \in Nat \ {0}
  /\ AR_BUF_SIZE \in Nat \ {0} /\ SocketBuffer \in Nat /\ SocketBuffer >= AR_BUF_SIZE

VARIABLES
  phase,             \* "idle", "reduce", "select", "recv", "broadcast", "read"
  sums,             \* calls of all_reduce begun by each node
  buffer,            \* buffer[n][p]: byte p of the buffer
  up, down,          \* bytes on the way to and from the parent
  child_read_pos,    \* bytes read from each child
  child_read_buf,    \* the bytes of each child not yet added
  fds,               \* the children select has reported and that are still to be read
  parent_sent_pos, parent_read_pos, children_sent_pos

posVars == <<child_read_pos, child_read_buf, parent_sent_pos, parent_read_pos,
             children_sent_pos>>
dataVars == <<phase, sums, buffer, up, down, fds, posVars>>
clusterVars == <<treeVars, dataVars>>

Bytes == NumValues * SizeofT
Torn == -1
Weight(n) == (Cardinality(Node) + 1) ^ n
(* What node n brings to call k as its value number e: different for every *)
(* call and value, and sums over different nodes differ.                   *)
Contribution(n, k, e) == (k + scenario.sums * e) * Weight(n)
Fresh(n, k) == [p \in 0 .. Bytes - 1 |-> Contribution(n, k, p \div SizeofT)]

ClusterInit ==
  /\ TreeInit \/ JoinedInit
  /\ phase = [n \in Node |-> "idle"] /\ sums = [n \in Node |-> 0]
  /\ buffer = [n \in Node |-> [p \in 0 .. Bytes - 1 |-> 0]]
  /\ up = [n \in Node |-> <<>>] /\ down = [n \in Node |-> <<>>]
  /\ child_read_pos = [n \in Node |-> <<0, 0>>]
  /\ child_read_buf = [n \in Node |-> << <<>>, <<>> >>]
  /\ fds = [n \in Node |-> {}]
  /\ parent_sent_pos = [n \in Node |-> 0]
  /\ parent_read_pos = [n \in Node |-> 0]
  /\ children_sent_pos = [n \in Node |-> 0]

Least(S) == CHOOSE x \in S : \A y \in S : x <= y
HasChild(n, i) == i <= Len(children[n])
HasParent(n) == parent[n] # NoNode

-----------------------------------------------------------------------------
(* The caller fills its buffer and calls; children that do not exist have  *)
(* been read to the end.                                                   *)
Call(n) ==
  /\ stage[n] = "ready" /\ phase[n] = "idle" /\ sums[n] < scenario.sums
  /\ sums' = [sums EXCEPT ![n] = @ + 1]
  /\ buffer' = [buffer EXCEPT ![n] = Fresh(n, sums[n] + 1)]
  /\ child_read_pos' = [child_read_pos EXCEPT ![n] =
                          [i \in 1 .. 2 |-> IF HasChild(n, i) THEN 0 ELSE Bytes]]
  /\ child_read_buf' = [child_read_buf EXCEPT ![n] = << <<>>, <<>> >>]
  /\ parent_sent_pos' = [parent_sent_pos EXCEPT ![n] = 0]
  /\ phase' = [phase EXCEPT ![n] = "reduce"]
  /\ UNCHANGED <<treeVars, fds, up, down, parent_read_pos, children_sent_pos>>

(* pass_up: only values that both children have contributed to.            *)
WholeValues(n) == (Least({child_read_pos[n][1], child_read_pos[n][2]}) \div SizeofT) * SizeofT

PassUpSize(n) ==
  IF HasParent(n) THEN Least({AR_BUF_SIZE, WholeValues(n) - parent_sent_pos[n]}) ELSE 0

Chunk(n, from, size) == [i \in 1 .. size |-> buffer[n][from + i - 1]]

ChildrenRead(n) == child_read_pos[n][1] >= Bytes /\ child_read_pos[n][2] >= Bytes

(* broadcast begins with these positions.                                  *)
BeginBroadcast(n) ==
  /\ phase' = [phase EXCEPT ![n] = "broadcast"]
  /\ parent_read_pos' = [parent_read_pos EXCEPT ![n] = IF HasParent(n) THEN 0 ELSE Bytes]
  /\ children_sent_pos' = [children_sent_pos EXCEPT ![n] =
                             IF children[n] = <<>> THEN Bytes ELSE 0]

(* The first half of a turn of reduce's loop, and its end.  The root has   *)
(* nothing to send.                                                        *)
PassUp(n) ==
  /\ phase[n] = "reduce"
  /\ Len(up[n]) + PassUpSize(n) <= SocketBuffer
  /\ up' = [up EXCEPT ![n] = @ \o Chunk(n, parent_sent_pos[n], PassUpSize(n))]
  /\ LET sent == parent_sent_pos[n] + PassUpSize(n)
     IN /\ parent_sent_pos' = [parent_sent_pos EXCEPT ![n] =
             IF ~HasParent(n) /\ ChildrenRead(n) THEN Bytes ELSE sent]
        /\ IF ~ChildrenRead(n)
           THEN /\ phase' = [phase EXCEPT ![n] = "select"]
                /\ UNCHANGED <<parent_read_pos, children_sent_pos>>
           ELSE IF HasParent(n) /\ sent < Bytes
                THEN UNCHANGED <<phase, parent_read_pos, children_sent_pos>>
                ELSE BeginBroadcast(n)
  /\ UNCHANGED <<treeVars, sums, fds, buffer, down, child_read_pos, child_read_buf>>

(* The value whose bytes these are.                                        *)
ValueOf(bytes) == IF \A i \in DOMAIN bytes : bytes[i] = bytes[1] THEN bytes[1] ELSE Torn
Plus(v, w) == IF Torn \in {v, w} THEN Torn ELSE v + w

(* addbufs: the values that read_size more bytes of child i complete.      *)
AddBufs(n, bytes, pos, read_size) ==
  LET first == pos \div SizeofT
      count == (pos + read_size) \div SizeofT - first
      Own(e)   == ValueOf([i \in 1 .. SizeofT |-> buffer[n][e * SizeofT + i - 1]])
      Child(e) == ValueOf(SubSeq(bytes, (e - first) * SizeofT + 1, (e - first + 1) * SizeofT))
  IN [p \in 0 .. Bytes - 1 |->
        IF p \div SizeofT \in first .. first + count - 1
        THEN Plus(Own(p \div SizeofT), Child(p \div SizeofT)) ELSE buffer[n][p]]

(* The bytes that are left over are moved to the front.                    *)
LeftOver_Slip(bytes, pos) == SubSeq(bytes, 1, pos % SizeofT)
LeftOver(bytes, pos) ==
  LET whole == (Len(bytes) \div SizeofT) * SizeofT
  IN SubSeq(bytes, whole + 1, whole + (pos % SizeofT))

(* The second half: select waits until an unfinished child has data, then  *)
(* each child it reports is read; a recv returns at least one byte.  The   *)
(* set is prepared again for the children that were not reported, and a    *)
(* child that has been read to the end is taken out of it.                 *)
Readable(n) == {i \in DOMAIN children[n] : up[children[n][i]] # <<>>}
Watched(n) == {i \in DOMAIN children[n] : child_read_pos[n][i] # Bytes}

Select(n) ==
  /\ phase[n] = "select" /\ Readable(n) \intersect Watched(n) # {}
  /\ fds' = [fds EXCEPT ![n] = Readable(n) \intersect Watched(n)]
  /\ phase' = [phase EXCEPT ![n] = "recv"]
  /\ UNCHANGED <<treeVars, sums, buffer, up, down, posVars>>

ReadChild(n) ==
  LET i == Least(fds[n])
      child == children[n][i]
      pos == child_read_pos[n][i]
  IN /\ phase[n] = "recv" /\ pos # Bytes
     /\ \E read_size \in 1 .. Least({AR_BUF_SIZE, Bytes - pos, Len(up[child])}) :
          LET bytes == child_read_buf[n][i] \o SubSeq(up[child], 1, read_size)
          IN /\ up' = [up EXCEPT ![child] = SubSeq(@, read_size + 1, Len(@))]
             /\ buffer' = [buffer EXCEPT ![n] = AddBufs(n, bytes, pos, read_size)]
             /\ child_read_pos' = [child_read_pos EXCEPT ![n][i] = @ + read_size]
             /\ child_read_buf' = [child_read_buf EXCEPT ![n][i] =
                                     LeftOver(bytes, pos + read_size)]
     /\ fds' = [fds EXCEPT ![n] = @ \ {i}]
     /\ phase' = [phase EXCEPT ![n] = IF fds[n] = {i} THEN "reduce" ELSE "recv"]
     /\ UNCHANGED <<treeVars, sums, down, parent_sent_pos, parent_read_pos, children_sent_pos>>

-----------------------------------------------------------------------------
(* pass_down.  A node without children starts with children_sent_pos at    *)
(* the end, so that the unsigned difference wraps around: it "sends" full  *)
(* chunks to nobody.                                                       *)
PassDownSize_Slip(n) ==
  IF parent_read_pos[n] < children_sent_pos[n] THEN AR_BUF_SIZE
  ELSE Least({AR_BUF_SIZE - 1, parent_read_pos[n] - children_sent_pos[n]})
PassDownSize(n) ==
  IF parent_read_pos[n] < children_sent_pos[n] THEN AR_BUF_SIZE
  ELSE Least({AR_BUF_SIZE, parent_read_pos[n] - children_sent_pos[n]})

BroadcastDone(n, sent) == parent_read_pos[n] >= Bytes /\ sent >= Bytes

PassDown(n) ==
  /\ phase[n] = "broadcast"
  /\ LET size == IF BroadcastDone(n, children_sent_pos[n]) THEN 0 ELSE PassDownSize(n)
         sent == children_sent_pos[n] + size
         kids == ToSet(children[n])
     IN /\ \A c \in kids : Len(down[c]) + size <= SocketBuffer
        /\ down' = [c \in Node |->
             IF c \in kids THEN down[c] \o Chunk(n, children_sent_pos[n], size) ELSE down[c]]
        /\ children_sent_pos' = [children_sent_pos EXCEPT ![n] = sent]
        /\ phase' = [phase EXCEPT ![n] = IF BroadcastDone(n, sent) THEN "idle"
                                         ELSE IF HasParent(n) THEN "read" ELSE "broadcast"]
  /\ UNCHANGED <<treeVars, sums, fds, buffer, up, child_read_pos, child_read_buf, parent_sent_pos,
                 parent_read_pos>>

ReadParentBytes(n) ==
  /\ phase[n] = "read" /\ parent_read_pos[n] # Bytes
  /\ \E read_size \in 1 .. Least({AR_BUF_SIZE, Bytes - parent_read_pos[n], Len(down[n])}) :
       /\ buffer' = [buffer EXCEPT ![n] = [p \in 0 .. Bytes - 1 |->
            IF p \in parent_read_pos[n] .. parent_read_pos[n] + read_size - 1
            THEN down[n][p - parent_read_pos[n] + 1] ELSE @[p]]]
       /\ down' = [down EXCEPT ![n] = SubSeq(@, read_size + 1, Len(@))]
       /\ parent_read_pos' = [parent_read_pos EXCEPT ![n] = @ + read_size]
  /\ phase' = [phase EXCEPT ![n] = "broadcast"]
  /\ UNCHANGED <<treeVars, sums, fds, up, child_read_pos, child_read_buf, parent_sent_pos,
                 children_sent_pos>>

Stream(n) ==
  \/ Call(n) \/ PassUp(n) \/ Select(n) \/ ReadChild(n)
  \/ PassDown(n) \/ ReadParentBytes(n)

ClusterNext ==
  \/ TreeNext /\ UNCHANGED dataVars
  \/ \E n \in Node : Stream(n)

(* Every process runs, the server included; nothing obliges one to end.    *)
ClusterFairness ==
  /\ WF_clusterVars(Server /\ UNCHANGED dataVars)
  /\ \A n \in Node : WF_clusterVars(AllReduceInit(n) /\ UNCHANGED dataVars) /\ WF_clusterVars(Stream(n))
ClusterSpec == ClusterInit /\ [][ClusterNext]_clusterVars /\ ClusterFairness

-----------------------------------------------------------------------------
(* The sum of all contributions to call k of the job of node n.            *)
Job(n) == {m \in DOMAIN reg : reg[m].nonce = reg[n].nonce}
Sum(n, k, e) == FoldFunction(+, 0, [m \in Job(n) |-> Contribution(m, k, e)])

(* A node that has returned from its k-th call has the sum of all k-th     *)
(* contributions in every byte: nothing is added twice, passed on too      *)
(* early or put together from two values, wherever the reads end and       *)
(* although other nodes are still in the call or already in the next one.  *)
SumCorrect ==
  \A n \in Node : phase[n] = "idle" /\ sums[n] > 0 =>
    \A p \in 0 .. Bytes - 1 : buffer[n][p] = Sum(n, sums[n], p \div SizeofT)

(* The exception "There is no data to be read from the parent" of          *)
(* broadcast is never thrown: a node that has read everything has also     *)
(* passed everything on when it comes to read.                             *)
DataFromParent == \A n \in Node : phase[n] = "read" => parent_read_pos[n] < Bytes

(* Without deaths some node is served for every id that is announced and  *)
(* makes all its sums, whoever else announces that id or a wrong one:     *)
(* nobody waits in a circle for a registration, a connection or room in a  *)
(* socket.                                                                 *)
Finished(n) == stage[n] = "ready" /\ phase[n] = "idle" /\ sums[n] = scenario.sums

Served == scenario.may_die \/
  <>(\A n \in DOMAIN reg : reg[n].id < reg[n].total =>
       \E m \in Job(n) : reg[m].id = reg[n].id /\ Finished(m))

(* From the registration to the sum: the server keeps every node that      *)
(* waits, the connections form one binary tree for each job, every node    *)
(* that has returned holds the sum over its tree although reads end inside *)
(* values, and broadcast never finds itself with nothing to read.          *)
ClusterSafe ==
  /\ WaitingRemembered
  /\ RightParent
  /\ TreeShape
  /\ SumCorrect
  /\ DataFromParent
=============================================================================
