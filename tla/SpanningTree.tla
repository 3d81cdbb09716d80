---------------------------- MODULE SpanningTree ----------------------------
(***************************************************************************)
(* The spanning tree server (spanning_tree.cc) and what every node of a    *)
(* cluster does to join the tree (all_reduce_init, allreduce_sockets.cc).  *)
(*                                                                         *)
(* A node connects, writes nonce, total and id, and is told whether it is  *)
(* accepted.  When all nodes of a nonce have registered the server builds  *)
(* a binary tree over them, tells each how many children to expect, reads  *)
(* the port each listens on, and tells each the address of its parent.     *)
(* The server is one thread and serves one connection at a time.           *)
(***************************************************************************)
EXTENDS Integers, Sequences, FiniteSets, SequencesExt, TLC

CONSTANTS
  Node,       \* processes that may want to join a tree
  Scenarios   \* records: reg, what each process that takes part announces,
              \* [nonce, total, id, ip]; may_die, whether processes may end
              \* in the middle of the protocol; joined, whether the tree
              \* is there at the start; sums, how often each node then
              \* calls all_reduce

NoNode == -1

(* The nodes of a job are started with the same --total.                   *)
ASSUME ScenariosAssumption ==
  /\ NoNode \notin Node
  /\ \A s \in Scenarios :
       /\ DOMAIN s.reg \subseteq Node
       /\ \A n \in DOMAIN s.reg : s.reg[n].total \in Nat \ {0} /\ s.reg[n].id \in Nat
       /\ \A m, n \in DOMAIN s.reg :
            s.reg[m].nonce = s.reg[n].nonce => s.reg[m].total = s.reg[n].total

VARIABLES
  scenario,      \* the one this is
  server,        \* the server: "accept", "kids", "ports", "parents", "down"
  listenq,       \* connections the server has not accepted yet
  partial_nodesets, \* nonce -> the node registered under each id, or NoNode
  order,         \* the nodes of the tree being made, in sorted order
  at,            \* the loop index of the server
  client_ports,  \* what the server has read: a port for each index of order
  stage,            \* where each node is
  inbox,         \* what the server has sent to each node
  sent_port,     \* what each node has sent to the server, or NoNode
  kid_count,     \* what each node has been told
  port,          \* the port each node is bound to, 0 if none
  parent_addr,   \* the address each node has been told
  backlog,       \* connections to each node that it has not accepted
  parent,        \* the node at the other end of the parent socket, or NoNode
  children       \* the nodes at the other end of the children's sockets

serverVars == <<server, listenq, partial_nodesets, order, at, client_ports>>
nodeVars == <<stage, sent_port, kid_count, port, parent_addr, backlog, parent, children>>
treeVars == <<scenario, serverVars, nodeVars, inbox>>

reg == scenario.reg

TreeInit ==
  /\ scenario \in Scenarios /\ ~scenario.joined
  /\ server = "accept" /\ listenq = <<>> /\ partial_nodesets = <<>>
  /\ order = <<>> /\ at = 1 /\ client_ports = <<>>
  /\ stage = [n \in Node |-> IF n \in DOMAIN reg THEN "connect" ELSE "absent"] /\ inbox = [n \in Node |-> <<>>]
  /\ sent_port = [n \in Node |-> NoNode]
  /\ kid_count = [n \in Node |-> 0] /\ port = [n \in Node |-> 0]
  /\ parent_addr = [n \in Node |-> <<0, 0>>] /\ backlog = [n \in Node |-> <<>>]
  /\ parent = [n \in Node |-> NoNode] /\ children = [n \in Node |-> <<>>]

-----------------------------------------------------------------------------
(* build_tree over source_count nodes numbered from offset: the root, and  *)
(* the parent of every other node.                                         *)
Height(count) == CHOOSE h \in 0 .. count : 2^h <= count /\ count < 2^(h + 1)

LeftCount_Slip(count) == count - 1
LeftCount(count) == 2^Height(count) - 1

build_tree[count, offset \in Nat] ==
  IF count = 1 THEN [root |-> offset, parent |-> <<>>]
  ELSE LET left_count == LeftCount(count)
           oroot == left_count + offset
           left  == build_tree[left_count, offset]
           right_count == count - left_count - 1
           right == build_tree[right_count, oroot + 1]
       IN [root |-> oroot,
           parent |-> (left.root :> oroot) @@ left.parent @@
                      (IF right_count = 0 THEN <<>> ELSE (right.root :> oroot) @@ right.parent)]

(* The tree over the sorted nodes: indices of order instead of 0, 1, ...   *)
TreeParent == build_tree[Len(order), 1].parent
IsRoot(i) == i \notin DOMAIN TreeParent
Kids(i) == Cardinality({j \in DOMAIN TreeParent : TreeParent[j] = i})

(* A cluster whose nodes have all joined, in the order of their numbers.   *)
JoinedParent(n) ==
  LET up_edges == build_tree[Cardinality(DOMAIN reg), 0].parent
  IN IF n \in DOMAIN up_edges THEN up_edges[n] ELSE NoNode

JoinedInit ==
  /\ scenario \in Scenarios /\ scenario.joined
  /\ server = "accept" /\ listenq = <<>> /\ partial_nodesets = <<>>
  /\ order = <<>> /\ at = 1 /\ client_ports = <<>>
  /\ stage = [n \in Node |-> IF n \in DOMAIN reg THEN "ready" ELSE "absent"]
  /\ inbox = [n \in Node |-> <<>>] /\ sent_port = [n \in Node |-> NoNode]
  /\ port = [n \in Node |-> 0] /\ parent_addr = [n \in Node |-> <<0, 0>>]
  /\ backlog = [n \in Node |-> <<>>]
  /\ parent = [n \in Node |-> IF n \in DOMAIN reg THEN JoinedParent(n) ELSE NoNode]
  /\ children = [n \in Node |-> SetToSeq({m \in DOMAIN reg : JoinedParent(m) = n})]
  /\ kid_count = [n \in Node |-> Len(children[n])]

-----------------------------------------------------------------------------
(* The server.  A connection is accepted once its three words can be read. *)
Gone(n) == stage[n] \in {"lost", "gone", "threw"}

Nodeset(nonce, total) ==
  IF nonce \in DOMAIN partial_nodesets THEN partial_nodesets[nonce]
  ELSE [i \in 0 .. total - 1 |-> NoNode]

Without(nonce) ==
  [k \in DOMAIN partial_nodesets \ {nonce} |-> partial_nodesets[k]]

Accepted(nodes, r) == r.id < r.total /\ nodes[r.id] = NoNode

(* The set goes back into the map while nodes are missing.                 *)
Remembered_Slip(r, nodes, ok) == IF ok THEN (r.nonce :> nodes) @@ Without(r.nonce)
                                 ELSE Without(r.nonce)
Remembered(r, nodes, ok) ==
  [k \in DOMAIN partial_nodesets \union {r.nonce} |->
     IF k = r.nonce THEN nodes ELSE partial_nodesets[k]]

(* The nodes are sorted by address and socket.  Addresses compare by a     *)
(* 32-bit difference that may wrap around and socket numbers are reused:   *)
(* every order can come out.                                               *)
Serve ==
  /\ server = "accept" /\ listenq # <<>>
  /\ LET n == Head(listenq)
         r == reg[n]
         old == Nodeset(r.nonce, r.total)
         ok == Accepted(old, r)
         nodes == IF ok THEN [old EXCEPT ![r.id] = n] ELSE old
     IN /\ stage[n] \notin {"write", "lost"}
        /\ listenq' = Tail(listenq)
        /\ inbox' = [inbox EXCEPT ![n] = Append(@, ok)]
        /\ IF \E i \in DOMAIN nodes : nodes[i] = NoNode
           THEN /\ partial_nodesets' = Remembered(r, nodes, ok)
                /\ UNCHANGED <<server, order, at>>
           ELSE /\ partial_nodesets' = Without(r.nonce)
                /\ order' \in SetToSeqs({nodes[i] : i \in DOMAIN nodes})
                /\ server' = "kids" /\ at' = 1
  /\ UNCHANGED <<scenario, client_ports, nodeVars>>

(* One loop over the nodes; what follows it is then.                       *)
Loop(then) ==
  IF at < Len(order) THEN at' = at + 1 /\ UNCHANGED server
  ELSE at' = 1 /\ server' = then

SendKidCount ==
  /\ server = "kids"
  /\ inbox' = [inbox EXCEPT ![order[at]] = Append(@, Kids(at))]
  /\ client_ports' = [i \in DOMAIN order |-> 0]
  /\ Loop("ports")
  /\ UNCHANGED <<scenario, listenq, partial_nodesets, order, nodeVars>>

(* A port that cannot be read stays 0 and the loop goes on.                *)
AfterPorts == "parents"
ReadPort ==
  /\ server = "ports"
  /\ LET n == order[at]
     IN \/ /\ sent_port[n] # NoNode
           /\ client_ports' = [client_ports EXCEPT ![at] = sent_port[n]]
        \/ Gone(n) /\ sent_port[n] = NoNode /\ UNCHANGED client_ports
  /\ Loop(AfterPorts)
  /\ UNCHANGED <<scenario, listenq, partial_nodesets, order, nodeVars, inbox>>

ParentAddress(i) ==
  IF IsRoot(i) THEN <<NoNode, NoNode>>
  ELSE <<reg[order[TreeParent[i]]].ip, client_ports[TreeParent[i]]>>

SendParent ==
  /\ server = "parents"
  /\ inbox' = [inbox EXCEPT ![order[at]] = Append(@, ParentAddress(at))]
  /\ Loop("accept")
  /\ UNCHANGED <<scenario, listenq, partial_nodesets, order, client_ports, nodeVars>>

(* A registration that cannot be read and an answer that cannot be sent    *)
(* are exceptions that end the server; a send to a node that has gone may  *)
(* also succeed.                                                           *)
ServerThrows ==
  /\ \/ server = "accept" /\ listenq # <<>> /\ Gone(Head(listenq))
     \/ server \in {"kids", "parents"} /\ Gone(order[at])
  /\ server' = "down"
  /\ UNCHANGED <<scenario, listenq, partial_nodesets, order, at, client_ports, nodeVars, inbox>>

-----------------------------------------------------------------------------
(* The nodes.  A process that ends before it has written its registration  *)
(* is lost, one that ends later is gone.                                   *)
Goto(n, label) == stage' = [stage EXCEPT ![n] = label]

Connect(n) ==
  /\ stage[n] = "connect" /\ server # "down"
  /\ listenq' = Append(listenq, n) /\ Goto(n, "write")
  /\ UNCHANGED <<scenario, server, partial_nodesets, order, at, client_ports, sent_port, kid_count,
                 port, parent_addr, backlog, parent, children, inbox>>

WriteRegistration(n) ==
  /\ stage[n] = "write" /\ Goto(n, "ok")
  /\ UNCHANGED <<scenario, serverVars, sent_port, kid_count, port, parent_addr, backlog, parent,
                 children, inbox>>

(* A recv from the server.                                                 *)
Receive(n, label) ==
  /\ stage[n] = label /\ inbox[n] # <<>>
  /\ inbox' = [inbox EXCEPT ![n] = Tail(@)]
  /\ UNCHANGED <<scenario, serverVars>>

ReadOk(n) ==
  /\ Receive(n, "ok")
  /\ Goto(n, IF Head(inbox[n]) THEN "kid_count" ELSE "threw")
  /\ UNCHANGED <<sent_port, kid_count, port, parent_addr, backlog, parent, children>>

ReadKidCount(n) ==
  /\ Receive(n, "kid_count")
  /\ kid_count' = [kid_count EXCEPT ![n] = Head(inbox[n])]
  /\ Goto(n, "bind")
  /\ UNCHANGED <<sent_port, port, parent_addr, backlog, parent, children>>

(* The first free port from 26544 on, here 1, which is bound only by nodes *)
(* that expect children, and sent by all.                                  *)
Listening(n) == port[n] # 0 /\ ~Gone(n)
PortsInUse(ip) == {port[m] : m \in {m \in DOMAIN reg : Listening(m) /\ reg[m].ip = ip}}
FirstFree_Slip(used) == 1
FirstFree(used) == CHOOSE p \in 1 .. Cardinality(Node) + 1 :
                     p \notin used /\ \A q \in 1 .. p - 1 : q \in used

Bind(n) ==
  /\ stage[n] = "bind"
  /\ LET p == FirstFree(PortsInUse(reg[n].ip))
     IN IF kid_count[n] > 0
        THEN port' = [port EXCEPT ![n] = p] /\ sent_port' = [sent_port EXCEPT ![n] = p]
        ELSE sent_port' = [sent_port EXCEPT ![n] = 1] /\ UNCHANGED port
  /\ Goto(n, "parent")
  /\ UNCHANGED <<scenario, serverVars, kid_count, parent_addr, backlog, parent, children, inbox>>

ReadParent(n) ==
  /\ Receive(n, "parent")
  /\ parent_addr' = [parent_addr EXCEPT ![n] = Head(inbox[n])]
  /\ Goto(n, IF Head(inbox[n])[1] = NoNode THEN "accept" ELSE "join")
  /\ UNCHANGED <<sent_port, kid_count, port, backlog, parent, children>>

(* sock_connect tries 100 times, then throws.                              *)
ListenersAt(addr) == {m \in DOMAIN reg : Listening(m) /\ <<reg[m].ip, port[m]>> = addr}

JoinParent(n) ==
  /\ stage[n] = "join"
  /\ \E m \in ListenersAt(parent_addr[n]) :
       /\ backlog' = [backlog EXCEPT ![m] = Append(@, n)]
       /\ parent' = [parent EXCEPT ![n] = m]
  /\ Goto(n, "accept")
  /\ UNCHANGED <<scenario, serverVars, sent_port, kid_count, port, parent_addr, children, inbox>>

CannotConnect(n) ==
  /\ \/ stage[n] = "join" /\ ListenersAt(parent_addr[n]) = {}
     \/ stage[n] = "connect" /\ server = "down"
     \/ stage[n] \in {"ok", "kid_count", "parent"} /\ inbox[n] = <<>> /\ server = "down"
  /\ Goto(n, "threw")
  /\ UNCHANGED <<scenario, serverVars, sent_port, kid_count, port, parent_addr, backlog, parent,
                 children, inbox>>

AcceptChild(n) ==
  /\ stage[n] = "accept" /\ Len(children[n]) < kid_count[n] /\ backlog[n] # <<>>
  /\ children' = [children EXCEPT ![n] = Append(@, Head(backlog[n]))]
  /\ backlog' = [backlog EXCEPT ![n] = Tail(@)]
  /\ UNCHANGED <<scenario, serverVars, stage, sent_port, kid_count, port, parent_addr, parent, inbox>>

(* The listening socket is closed when all children are there.             *)
AllThere_Slip(n) == Len(children[n]) + 1 >= kid_count[n]
AllThere(n) == Len(children[n]) = kid_count[n]

Joined(n) ==
  /\ stage[n] = "accept" /\ AllThere(n)
  /\ port' = [port EXCEPT ![n] = 0]
  /\ Goto(n, "ready")
  /\ UNCHANGED <<scenario, serverVars, sent_port, kid_count, parent_addr, backlog, parent, children,
                 inbox>>

Die(n) ==
  /\ scenario.may_die /\ stage[n] \notin {"absent", "connect", "ready"} /\ ~Gone(n)
  /\ Goto(n, IF stage[n] = "write" THEN "lost" ELSE "gone")
  /\ UNCHANGED <<scenario, serverVars, sent_port, kid_count, port, parent_addr, backlog, parent,
                 children, inbox>>

Server == Serve \/ SendKidCount \/ ReadPort \/ SendParent \/ ServerThrows

AllReduceInit(n) ==
  \/ Connect(n) \/ WriteRegistration(n) \/ ReadOk(n) \/ ReadKidCount(n) \/ Bind(n)
  \/ ReadParent(n) \/ JoinParent(n) \/ CannotConnect(n) \/ AcceptChild(n) \/ Joined(n)

-----------------------------------------------------------------------------
(* The tree a nonce's nodes are meant to form is read off the sockets.     *)
Live(n) == stage[n] = "ready"
NobodyDied == \A n \in Node : stage[n] \notin {"lost", "gone"}

(* A node that was accepted and waits for its number of children is in the *)
(* server's map under its nonce and id, or in the tree being made: the     *)
(* server takes a set out of the map for every registration, also one it   *)
(* rejects.                                                                *)
WaitingRemembered ==
  server # "down" => \A n \in Node : stage[n] = "kid_count" /\ inbox[n] = <<>> =>
    \/ /\ reg[n].nonce \in DOMAIN partial_nodesets
       /\ partial_nodesets[reg[n].nonce][reg[n].id] = n
    \/ server = "kids" /\ \E i \in at .. Len(order) : order[i] = n

(* Both ends of every connection agree, and they belong to one job: no     *)
(* node of one tree hangs below a node of another one on the same host,    *)
(* although ports are taken and released all the time.                     *)
RightParent ==
  NobodyDied => \A n \in Node :
    /\ parent[n] # NoNode => reg[parent[n]].nonce = reg[n].nonce
    /\ \A i \in DOMAIN children[n] : parent[children[n][i]] = n

(* The nodes of a nonce that are all there form one binary tree whose      *)
(* height is the logarithm of their number.                                *)
Ancestors[n \in Node, k \in Nat] ==
  IF k = 0 \/ parent[n] = NoNode THEN {n} ELSE {n} \union Ancestors[parent[n], k - 1]

FloorLog2(k) == Cardinality({h \in 1 .. k : 2^h <= k})
Members(nonce) == {n \in DOMAIN reg : reg[n].nonce = nonce /\ Live(n)}

TreeShape ==
  \A r \in {reg[n] : n \in DOMAIN reg} :
    LET members == Members(r.nonce)
    IN NobodyDied /\ Cardinality(members) = r.total =>
         /\ \E root \in members :
              /\ parent[root] = NoNode
              /\ \A n \in members : root \in Ancestors[n, FloorLog2(r.total)]
         /\ \A n \in members : Len(children[n]) <= 2

TreeNext == Server \/ \E n \in Node : AllReduceInit(n) \/ Die(n)
=============================================================================
