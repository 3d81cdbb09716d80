------------------------- MODULE MCAllReduceSockets -------------------------
(* Small clusters for the model checker.                                   *)
EXTENDS AllReduceSockets

Processes == 0 .. 3

Entry(nonce, total, id, ip) == [nonce |-> nonce, total |-> total, id |-> id, ip |-> ip]
Of(entries) ==
  [reg |-> [n \in 0 .. Len(entries) - 1 |-> entries[n + 1]],
   may_die |-> FALSE, joined |-> FALSE, sums |-> 0]

\* two jobs on one host
TwoJobs ==
  Of(<<Entry("a", 2, 0, 1), Entry("a", 2, 1, 1), Entry("b", 2, 0, 1), Entry("b", 2, 1, 1)>>)

\* a tree with two children on two hosts
OneJob == Of(<<Entry("a", 3, 0, 1), Entry("a", 3, 1, 1), Entry("a", 3, 2, 2)>>)

\* an id that is registered twice, and one that is too large
Rejected == { Of(<<Entry("a", 2, 0, 1), Entry("a", 2, 0, 2), Entry("a", 2, 1, 1)>>),
              Of(<<Entry("a", 2, 0, 1), Entry("a", 2, 2, 1), Entry("a", 2, 1, 2)>>) }

Deaths == [Of(<<Entry("a", 2, 0, 1), Entry("a", 2, 1, 1), Entry("b", 1, 0, 1)>>) EXCEPT
             !.may_die = TRUE]

\* from the registration to the second sum
FromTheStart == [Of(<<Entry("a", 2, 0, 1), Entry("a", 2, 1, 1)>>) EXCEPT !.sums = 2]

\* sums over trees of one, three and four nodes
Cluster(total, times) ==
  [Of([i \in 1 .. total |-> Entry("a", total, i - 1, 1)]) EXCEPT
     !.joined = TRUE, !.sums = times]

Clusters == {TwoJobs, OneJob, Deaths, FromTheStart} \union Rejected
              \union {Cluster(1, 2), Cluster(3, 2), Cluster(4, 1)}
=============================================================================
