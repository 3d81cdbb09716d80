---------------------------- MODULE ProcessProofs ---------------------------
(***************************************************************************)
(* Processes that the operating system may end at any time, and what they  *)
(* leave behind: the parent of the daemon with its children, the runs that *)
(* share a cache file, the run that saves the model of its best pass, and  *)
(* the runs that load and save one model after the other.                  *)
(***************************************************************************)
EXTENDS DaemonParent, CacheFiles, HoldoutStop, ModelFile, InductionLemmas

(***************************************************************************)
(* The parent of the daemon, for any number of children, any pids and any  *)
(* order of forks, deaths and signals.  The argument: a slot that holds a  *)
(* pid holds that of a running or ended child of the parent, except for    *)
(* the one pid that wait has just returned, which stays in its slot until  *)
(* a new child replaces it or the parent ends; so a new child, whose pid   *)
(* nobody holds, never meets its own pid in another slot.                  *)
(***************************************************************************)
USE DaemonAssumption

(* The values that the variables of enable_sources take.                   *)
DaemonTypes ==
  /\ daemon \in {"fork", "loop", "wait", "returned", "kill", "exited", "killed"}
  /\ kidSlot \in Nat \ {0}
  /\ kids \in [Slots -> Pid \union {-1, 0}]
  /\ processes \in [Pid -> {"none", "child", "zombie", "other"}]
  /\ told \subseteq Pid

(* A pid is in one slot at most.                                           *)
SlotsDistinct ==
  \A i, j \in Slots : kids[i] \in Pid /\ kids[i] = kids[j] => i = j

(* Every child that runs or has not been collected is in a slot.           *)
InSomeSlot == \A p \in Pid : OwnChild(p) => \E i \in Slots : kids[i] = p

(* The one pid in a slot that may not be a child's is what wait returned,  *)
(* until its slot is filled again.                                         *)
StaleIsWaited ==
  \A i \in Slots : kids[i] \in Pid /\ ~OwnChild(kids[i]) =>
    kids[i] = waited /\ daemon \in {"returned", "kill", "exited"}

(* No slot holds anything but children: as the parent waits.               *)
AllOwn == \A i \in Slots : kids[i] \in Pid => OwnChild(kids[i])

(* The first loop has not touched the slots from kidSlot on, and a pid     *)
(* that wait returned is no longer a child's.                              *)
SlotsFree ==
  /\ daemon = "fork" => \A i \in Slots : i >= kidSlot => kids[i] = 0
  /\ daemon = "returned" => waited = -1 \/ (waited \in Pid /\ ~OwnChild(waited))

(* How far the loop over kill has come.                                    *)
ToldSoFar ==
  daemon = "kill" =>
    \A i \in Slots : i < kidSlot /\ kids[i] \in Pid /\ processes[kids[i]] = "child" =>
      kids[i] \in told

DaemonInv ==
  DaemonTypes /\ SlotsDistinct /\ InSomeSlot /\ StaleIsWaited /\ SlotsFree /\ ToldSoFar
      /\ AllTold

-----------------------------------------------------------------------------
(* Before the first fork no slot holds a pid.                              *)
LEMMA DaemonStarts == DaemonInit => DaemonInv
  BY DEF DaemonInit, DaemonInv, DaemonTypes, SlotsDistinct, InSomeSlot, StaleIsWaited,
      SlotsFree,
         ToldSoFar, AllTold, OwnChild, Slots

(* A fork into slot i, where no other slot holds a pid that is free: the   *)
(* new pid is the only one of its kind.                                    *)
LEMMA ForkedKeeps ==
  ASSUME DaemonInv, NEW i \in Slots, NEW inherits, Forked(i, inherits),
         \A j \in Slots : kids[j] \in Pid /\ ~OwnChild(kids[j]) => j = i,
         kids[i] \in Pid => ~OwnChild(kids[i])
  PROVE  /\ kids' \in [Slots -> Pid \union {-1, 0}]
         /\ processes' \in [Pid -> {"none", "child", "zombie", "other"}]
         /\ told' \subseteq Pid
         /\ SlotsDistinct' /\ InSomeSlot'
         /\ AllOwn'
         /\ \A j \in Slots : j # i => kids'[j] = kids[j]
  <1> USE DEF DaemonInv, DaemonTypes, PidStored
  <1>1. CASE ForkFails /\ kids' = PidStored(i, -1) /\ UNCHANGED <<processes, handler, told>>
    <2>1. \A j \in Slots : kids'[j] = IF j = i THEN -1 ELSE kids[j]
      BY <1>1
    <2>2. -1 \notin Pid
      OBVIOUS
    <2>3. SlotsDistinct'
      BY <2>1, <2>2 DEF SlotsDistinct
    <2>4. InSomeSlot'
      <3> SUFFICES ASSUME NEW q \in Pid, OwnChild(q)' PROVE \E j \in Slots : kids'[j] = q
        BY DEF InSomeSlot
      <3>1. OwnChild(q)
        BY <1>1 DEF OwnChild
      <3>2. PICK j \in Slots : kids[j] = q
        BY <3>1 DEF InSomeSlot
      <3> QED
        BY <2>1, <3>1, <3>2
    <2>5. AllOwn'
      BY <1>1, <2>1, <2>2 DEF AllOwn, OwnChild
    <2> QED
      BY <1>1, <2>1, <2>3, <2>4, <2>5
  <1>2. ASSUME NEW p \in Free, kids' = PidStored(i, p),
               processes' = [processes EXCEPT ![p] = "child"], told' = told \ {p}
        PROVE  /\ kids' \in [Slots -> Pid \union {-1, 0}]
               /\ processes' \in [Pid -> {"none", "child", "zombie", "other"}]
               /\ told' \subseteq Pid
               /\ SlotsDistinct' /\ InSomeSlot'
               /\ AllOwn'
               /\ \A j \in Slots : j # i => kids'[j] = kids[j]
    <2>1. p \in Pid /\ ~OwnChild(p) /\ \A j \in Slots : kids[j] = p => j = i
      BY <1>2 DEF Free, OwnChild
    <2>2. \A j \in Slots : kids'[j] = IF j = i THEN p ELSE kids[j]
      BY <1>2
    <2>3. \A q \in Pid : processes'[q] = IF q = p THEN "child" ELSE processes[q]
      BY <1>2
    <2>4. SlotsDistinct'
      BY <2>1, <2>2 DEF SlotsDistinct
    <2>5. InSomeSlot'
      BY <2>1, <2>2, <2>3 DEF InSomeSlot, OwnChild
    <2>6. AllOwn'
      BY <2>1, <2>2, <2>3 DEF AllOwn, OwnChild
    <2> QED
      BY <1>2, <2>1, <2>2, <2>4, <2>5, <2>6
  <1> QED
    BY <1>1, <1>2 DEF Forked

(* A process that changes without becoming or ceasing to be a child of the *)
(* parent disturbs nothing that the slots say.                             *)
LEMMA OwnersKeep ==
  ASSUME DaemonInv, NEW q \in Pid, NEW new \in {"none", "zombie", "other"},
         processes' = [processes EXCEPT ![q] = new],
         OwnChild(q) <=> new = "zombie",
         told' = told \/ (told' = told \ {q} /\ processes[q] # "child"),
         UNCHANGED <<daemon, kidSlot, kids, waited>>
  PROVE  DaemonInv'
  <1> USE DEF DaemonInv, DaemonTypes
  <1>1. \A p \in Pid : OwnChild(p)' = OwnChild(p)
    BY DEF OwnChild
  <1>2. \A p \in Pid : processes'[p] = "child" => processes[p] = "child" /\ p # q
    OBVIOUS
  <1>3. DaemonTypes'
    OBVIOUS
  <1>4. SlotsDistinct' /\ InSomeSlot' /\ StaleIsWaited'
    BY <1>1 DEF SlotsDistinct, InSomeSlot, StaleIsWaited
  <1>5. SlotsFree'
    BY <1>1 DEF SlotsFree
  <1>6. ToldSoFar' /\ AllTold'
    BY <1>2 DEF ToldSoFar, AllTold
  <1> QED
    BY <1>3, <1>4, <1>5, <1>6

(* Every step of the parent, of a child, of another program and every      *)
(* SIGTERM keeps the invariant.                                            *)
LEMMA DaemonSteps == DaemonInv /\ [DaemonNext]_daemonVars => DaemonInv'
  <1> SUFFICES ASSUME DaemonInv, [DaemonNext]_daemonVars PROVE DaemonInv'
    OBVIOUS
  <1> USE DEF DaemonInv
  <1>1. CASE Fork
    <2>1. kidSlot \in Slots
      BY <1>1 DEF Fork, Slots, DaemonTypes
    <2>2. AllOwn
      BY <1>1 DEF Fork, StaleIsWaited, AllOwn
    <2>3. kids[kidSlot] \notin Pid
      BY <1>1, <2>1 DEF Fork, SlotsFree, DaemonTypes
    <2>4. Forked(kidSlot, FALSE)
      BY <1>1 DEF Fork
    <2>5. /\ kids' \in [Slots -> Pid \union {-1, 0}]
          /\ processes' \in [Pid -> {"none", "child", "zombie", "other"}]
          /\ told' \subseteq Pid
          /\ SlotsDistinct' /\ InSomeSlot'
          /\ AllOwn'
          /\ \A j \in Slots : j # kidSlot => kids'[j] = kids[j]
      BY <2>1, <2>2, <2>3, <2>4, ForkedKeeps DEF AllOwn
    <2>6. DaemonTypes'
      BY <1>1, <2>5 DEF Fork, DaemonTypes
    <2>7. StaleIsWaited' /\ ToldSoFar' /\ AllTold'
      BY <1>1, <2>5 DEF Fork, AllOwn, StaleIsWaited, ToldSoFar, AllTold
    <2>8. SlotsFree'
      BY <1>1, <2>5 DEF Fork, SlotsFree, DaemonTypes, Slots
    <2> QED
      BY <2>5, <2>6, <2>7, <2>8
  <1>2. CASE Install \/ CallWait
    BY <1>2 DEF Install, CallWait, DaemonTypes, SlotsDistinct, InSomeSlot, StaleIsWaited,
        SlotsFree,
                ToldSoFar, AllTold, OwnChild
  <1>3. CASE WaitReturns
    <2>1. AllOwn
      BY <1>3 DEF WaitReturns, StaleIsWaited, AllOwn
    <2>2. DaemonTypes' /\ SlotsDistinct'
      BY <1>3 DEF WaitReturns, DaemonTypes, SlotsDistinct
    <2>3. \A p \in Pid : OwnChild(p)' => OwnChild(p)
      BY <1>3 DEF WaitReturns, OwnChild, DaemonTypes
    <2>4. InSomeSlot'
      BY <1>3, <2>3 DEF WaitReturns, InSomeSlot
    <2>5. \A p \in Pid : OwnChild(p) => OwnChild(p)' \/ p = waited'
      BY <1>3 DEF WaitReturns, OwnChild, DaemonTypes
    <2>6. StaleIsWaited'
      BY <1>3, <2>1, <2>5 DEF WaitReturns, StaleIsWaited, AllOwn
    <2>7. SlotsFree'
      BY <1>3 DEF WaitReturns, SlotsFree, OwnChild, DaemonTypes
    <2>8. ToldSoFar' /\ AllTold'
      BY <1>3 DEF WaitReturns, ToldSoFar, AllTold
    <2> QED
      BY <2>2, <2>4, <2>6, <2>7, <2>8
  <1>4. CASE AfterWait
    <2>1. CASE got_sigterm
      <3>1. /\ daemon' = "kill" /\ kidSlot' = 1 /\ daemon = "returned"
            /\ UNCHANGED <<kids, processes, told, waited>>
        BY <1>4, <2>1 DEF AfterWait
      <3>2. DaemonTypes'
        BY <3>1 DEF DaemonTypes
      <3>3. SlotsDistinct' /\ InSomeSlot' /\ StaleIsWaited' /\ SlotsFree' /\ AllTold'
        BY <3>1 DEF SlotsDistinct, InSomeSlot, StaleIsWaited, SlotsFree, AllTold, OwnChild
      <3>4. ToldSoFar'
        BY <3>1 DEF ToldSoFar, Slots
      <3> QED
        BY <3>2, <3>3, <3>4
    <2>2. CASE ~got_sigterm /\ waited < 0 /\ UNCHANGED <<kids, processes, handler, told, forks>>
      <3>1. AllOwn
        <4>1. daemon = "returned" /\ waited < 0
          BY <1>4, <2>2 DEF AfterWait
        <4>2. \A p \in Pid : p \in Nat /\ p # 0
          OBVIOUS
        <4>3. waited \notin Pid
          <5> SUFFICES ASSUME waited \in Pid PROVE FALSE
            OBVIOUS
          <5>1. waited \in Nat
            BY <4>2
          <5>2. ~(waited < 0)
            BY <5>1
          <5> QED
            BY <4>1, <5>2
        <4> QED
          BY <4>3 DEF StaleIsWaited, AllOwn
      <3> QED
        BY <1>4, <2>2, <3>1 DEF AfterWait, AllOwn, DaemonTypes, SlotsDistinct, InSomeSlot,
            StaleIsWaited,
                                SlotsFree, ToldSoFar, AllTold, OwnChild
    <2>3. ASSUME ~got_sigterm, NEW i \in SlotOf(waited), waited >= 0, Forked(i, TRUE)
          PROVE  DaemonInv'
      <3>1. i \in Slots /\ kids[i] = waited /\ waited \in Pid /\ ~OwnChild(waited)
        BY <1>4, <2>3 DEF AfterWait, SlotOf, SlotsFree
      <3>2. \A j \in Slots : kids[j] \in Pid /\ ~OwnChild(kids[j]) => j = i
        BY <3>1 DEF StaleIsWaited, SlotsDistinct
      <3>3. /\ kids' \in [Slots -> Pid \union {-1, 0}]
            /\ processes' \in [Pid -> {"none", "child", "zombie", "other"}]
            /\ told' \subseteq Pid
            /\ SlotsDistinct' /\ InSomeSlot'
            /\ AllOwn'
        BY <2>3, <3>1, <3>2, ForkedKeeps
      <3>4. daemon' = "loop" /\ kidSlot' = kidSlot
        BY <1>4, <2>3 DEF AfterWait
      <3> QED
        BY <3>3, <3>4 DEF AllOwn, DaemonTypes, StaleIsWaited, SlotsFree, ToldSoFar, AllTold
    <2> QED
      BY <1>4, <2>1, <2>2, <2>3 DEF AfterWait
  <1>5. CASE KillChild
    <2>1. DaemonTypes' /\ SlotsDistinct' /\ InSomeSlot' /\ StaleIsWaited' /\ SlotsFree'
      <3>1. /\ daemon = "kill" /\ daemon' \in {"kill", "exited"}
            /\ UNCHANGED <<kids, processes, waited>>
        BY <1>5 DEF KillChild
      <3>2. Signalled(kidSlot) \subseteq Pid
        BY DEF Signalled
      <3>3. DaemonTypes'
        <4>1. kidSlot' \in Nat \ {0}
          BY <1>5 DEF KillChild, DaemonTypes
        <4>2. told' \subseteq Pid
          BY <1>5, <3>2 DEF KillChild, DaemonTypes
        <4> QED
          BY <3>1, <4>1, <4>2 DEF DaemonTypes
      <3>4. SlotsDistinct' /\ InSomeSlot' /\ StaleIsWaited' /\ SlotsFree'
        BY <3>1 DEF SlotsDistinct, InSomeSlot, StaleIsWaited, SlotsFree, OwnChild
      <3> QED
        BY <3>3, <3>4
    <2>2. CASE kidSlot > num_children
      BY <1>5, <2>1, <2>2 DEF KillChild, LastKilled, ToldSoFar, AllTold, InSomeSlot, OwnChild,
          Slots, DaemonTypes
    <2>3. CASE ~(kidSlot > num_children)
      <3>1. /\ daemon' = "kill" /\ kidSlot' = kidSlot + 1 /\ UNCHANGED <<kids, processes>>
            /\ told' = told \union Signalled(kidSlot)
        BY <1>5, <2>3 DEF KillChild, LastKilled
      <3>2. kids[kidSlot] \in Pid
          /\ processes[kids[kidSlot]] = "child" => kids[kidSlot] \in Signalled(kidSlot)
        BY DEF Signalled
      <3>3. ToldSoFar'
        BY <1>5, <3>1, <3>2 DEF KillChild, ToldSoFar, Slots, DaemonTypes
      <3> QED
        BY <2>1, <3>1, <3>3 DEF AllTold
    <2> QED
      BY <2>2, <2>3, <1>5 DEF DaemonTypes
  <1>6. CASE Sigterm
    <2>1. daemon' # "exited" /\ (daemon' = "kill" => daemon = "kill")
        /\ (daemon' = "fork" => daemon = "fork")
      BY <1>6 DEF Sigterm, DaemonTypes
    <2>2. UNCHANGED <<kidSlot, kids, processes, told>>
      BY <1>6 DEF Sigterm
    <2>3. DaemonTypes' /\ SlotsDistinct' /\ InSomeSlot' /\ ToldSoFar' /\ AllTold'
      BY <1>6, <2>1, <2>2 DEF Sigterm, DaemonTypes, SlotsDistinct, InSomeSlot, OwnChild,
          ToldSoFar, AllTold
    <2>4. CASE daemon = "wait"
      BY <1>6, <2>1, <2>2, <2>3, <2>4 DEF Sigterm, StaleIsWaited, SlotsFree, OwnChild
    <2>5. CASE daemon = "fork"
      BY <1>6, <2>1, <2>2, <2>3, <2>5 DEF Sigterm, StaleIsWaited, SlotsFree, OwnChild
    <2>6. CASE daemon \notin {"wait", "fork"}
      BY <1>6, <2>1, <2>2, <2>3, <2>6 DEF Sigterm, StaleIsWaited, SlotsFree, OwnChild
    <2> QED
      BY <2>4, <2>5, <2>6
  <1>7. ASSUME NEW p \in Pid, Obey(p) \/ ChildEnds(p)
        PROVE  DaemonInv'
    BY <1>7, OwnersKeep DEF Obey, ChildEnds, OwnChild
  <1>8. ASSUME NEW p \in Pid, OtherProcess(p)
        PROVE  DaemonInv'
    <2>1. PICK new \in {"none", "other"} : processes' = [processes EXCEPT ![p] = new]
      BY <1>8 DEF OtherProcess
    <2>2. processes[p] \in {"none", "other"}
      BY <1>8 DEF OtherProcess
    <2> QED
      BY <1>8, <2>1, <2>2, OwnersKeep DEF OtherProcess, OwnChild
  <1>9. CASE UNCHANGED daemonVars
    BY <1>9 DEF daemonVars, DaemonTypes, SlotsDistinct, InSomeSlot, StaleIsWaited, SlotsFree,
        ToldSoFar,
                AllTold, OwnChild
  <1> QED
    BY <1>1, <1>2, <1>3, <1>4, <1>5, <1>6, <1>7, <1>8, <1>9 DEF DaemonNext, Parent

-----------------------------------------------------------------------------
(* The parent of the daemon knows every child it has not collected, each   *)
(* in exactly one slot of children[], and has sent a SIGTERM to all that   *)
(* still run when it exits: for any number of children, and whatever pids  *)
(* the system hands out again.                                             *)
THEOREM DaemonIsSafe == DaemonSpec => []DaemonSafe
  <1>1. DaemonInv => DaemonSafe
    <2> SUFFICES ASSUME DaemonInv, NEW p \in Pid, OwnChild(p)
                 PROVE  Cardinality({i \in Slots : kids[i] = p}) = 1
      BY DEF DaemonSafe, ChildrenKnown, DaemonInv
    <2>1. PICK i \in Slots : kids[i] = p
      BY DEF DaemonInv, InSomeSlot
    <2>2. {j \in Slots : kids[j] = p} = {i}
      BY <2>1 DEF DaemonInv, SlotsDistinct
    <2> QED
      BY <2>2, FS_Singleton
  <1> QED
    BY <1>1, DaemonStarts, DaemonSteps, PTL DEF DaemonSpec

(* A SIGTERM goes to a child of the parent, to the pid that wait has just  *)
(* returned, or, after a fork that failed, to everybody.                   *)
THEOREM DaemonSignalsOwn == DaemonSpec => SignalsOwn
  <1>1. DaemonInv /\ [DaemonNext]_daemonVars =>
          [\A p \in told' \ told :
             OwnChild(p) \/ p = waited \/ \E i \in Slots : kids[i] = -1]_daemonVars
    <2> SUFFICES ASSUME DaemonInv, [DaemonNext]_daemonVars, NEW p \in told' \ told,
        ~OwnChild(p), p # waited
                 PROVE  \E i \in Slots : kids[i] = -1
      OBVIOUS
    <2>1. KillChild
      BY DEF DaemonNext, Parent, Fork, Forked, Install, CallWait, WaitReturns, AfterWait,
          Sigterm, Obey,
             ChildEnds, OtherProcess, daemonVars
    <2>2. p \in Signalled(kidSlot) /\ kidSlot \in Slots
      BY <2>1 DEF KillChild, LastKilled, Slots, DaemonInv, DaemonTypes
    <2>3. CASE kids[kidSlot] # -1
      BY <2>1, <2>2, <2>3 DEF Signalled, DaemonInv, StaleIsWaited
    <2> QED
      BY <2>2, <2>3
  <1> QED
    BY <1>1, DaemonStarts, DaemonSteps, PTL DEF DaemonSpec, SignalsOwn

-----------------------------------------------------------------------------
(***************************************************************************)
(* The cache file, for any number of processes, examples, passes and bits, *)
(* whoever is killed where.  The argument: the inode under name.writing is *)
(* written by the one process that claims it and read by nobody, and       *)
(* becomes the one under name only after its writer has flushed all        *)
(* examples; readers hold on to the inode they opened, which nobody writes *)
(* any more whatever happens to its name.                                  *)
(***************************************************************************)
USE CacheAssumption

Writing == dir["name.writing"]
Named == dir["name"]

(* The values that the variables take.                                     *)
CacheTypes ==
  /\ dir \in [Names -> Inode \union {Nothing}]
  /\ file \in [Inode -> [bits : Nat, examples : Nat]]
  /\ clash \in BOOLEAN
  /\ cpc \in [Proc -> {"start", "create", "learn", "remove", "rename", "reopen", "check",
                       "done", "threw", "killed"}]
  /\ num_bits \in [Proc -> Nat]
  /\ infile \in [Proc -> Inode \union {Nothing}]
  /\ outnode \in [Proc -> Inode \union {Nothing}]
  /\ unflushed \in [Proc -> Nat] /\ learned \in [Proc -> Nat] /\ passes \in [Proc -> Nat]

(* What a process has open, by where it is.                                *)
Descriptors ==
  \A p \in Proc :
    /\ outnode[p] # Nothing => cpc[p] \in {"learn", "remove"} /\ infile[p] = Nothing
    /\ cpc[p] = "remove" => outnode[p] # Nothing
    /\ cpc[p] \in {"start",
        "create"} => infile[p] = Nothing /\ learned[p] = 0 /\ unflushed[p] = 0

(* Nobody reads the inode that is being written, and it has one name.      *)
WritingApart ==
  /\ Named # Nothing => Named # Writing
  /\ \A p \in Proc : infile[p] # Nothing => infile[p] # Writing

(* One process at most is between creating name.writing and renaming it.   *)
OneClaims == ~clash => \A p, q \in Proc : Claims(p) /\ Claims(q) => p = q

(* What that process has written so far.                                   *)
WrittenSoFar ==
  ~clash => \A p \in Proc :
    /\ outnode[p] # Nothing => outnode[p] = Writing
    /\ outnode[p] # Nothing
        /\ cpc[p] = "learn" => file[Writing].examples + unflushed[p] = learned[p]
    /\ cpc[p] \in {"remove",
        "rename"} => Writing # Nothing /\ file[Writing].examples = NumExamples

(* What readers have open is whole, and a pass that has ended was too.     *)
ReadWhole ==
  ~clash => \A p \in Proc :
    /\ infile[p] # Nothing => file[infile[p]].examples = NumExamples
    /\ cpc[p] \in {"remove", "rename", "reopen", "check", "done"} => learned[p] = NumExamples

CacheInv ==
  /\ CacheTypes /\ Descriptors /\ WritingApart /\ OneClaims /\ WrittenSoFar /\ ReadWhole
  /\ CacheWhole /\ EnoughBits

-----------------------------------------------------------------------------
(* Nothing is open and no file exists.                                     *)
LEMMA CacheStarts == CacheInit => CacheInv
  <1> SUFFICES ASSUME CacheInit PROVE CacheInv
    OBVIOUS
  <1>1. CacheTypes
    BY DEF CacheInit, CacheTypes
  <1>2. Descriptors /\ WritingApart /\ CacheWhole
    BY DEF CacheInit, Descriptors, WritingApart, CacheWhole, Writing, Named, Names
  <1>3. OneClaims /\ WrittenSoFar /\ ReadWhole /\ EnoughBits
    BY DEF CacheInit, OneClaims, WrittenSoFar, ReadWhole, EnoughBits, Claims, Writes
  <1> QED
    BY <1>1, <1>2, <1>3 DEF CacheInv

(* There is a free inode for a process that creates name.writing: every    *)
(* other process has one open at most, and name is the only name.          *)
LEMMA FreeInode ==
  ASSUME CacheInv, NEW p \in Proc, cpc[p] = "create", Writing = Nothing
  PROVE  NewInode \in Inode /\ ~InUse(NewInode)
  <1> DEFINE f == [q \in Proc |-> IF q = p THEN Named
                                  ELSE IF infile[q] # Nothing THEN infile[q] ELSE outnode[q]]
             T == {f[q] : q \in Proc}
  <1>1. infile[p] = Nothing /\ outnode[p] = Nothing
    BY DEF CacheInv, Descriptors
  <1>2. \A i \in Inode : InUse(i) => i \in T
    <2> SUFFICES ASSUME NEW i \in Inode, InUse(i) PROVE \E q \in Proc : f[q] = i
      OBVIOUS
    <2>1. i # Nothing
      BY DEF Inode, Nothing
    <2>2. CASE \E x \in Names : dir[x] = i
      <3>1. Named = i
        BY <2>1, <2>2 DEF Names, Named, Writing
      <3> QED
        BY <3>1
    <2>3. ASSUME NEW q \in Proc, infile[q] = i \/ outnode[q] = i PROVE f[q] = i
      <3>1. q # p
        BY <1>1, <2>1, <2>3
      <3>2. infile[q] # Nothing => outnode[q] = Nothing
        BY DEF CacheInv, Descriptors
      <3> QED
        BY <2>1, <2>3, <3>1, <3>2
    <2> QED
      BY <2>2, <2>3 DEF InUse
  <1>3. f \in Surjection(Proc, T)
    BY DEF Surjection
  <1>4. IsFiniteSet(T) /\ Cardinality(T) <= Cardinality(Proc) /\ Cardinality(Proc) \in Nat
    BY <1>3, FS_Surjection, FS_CardinalityType
  <1>5. Cardinality(T) \in Nat /\ Cardinality(Proc) > 0
    BY <1>4, FS_CardinalityType, FS_EmptySet
  <1>6. Cardinality(Inode) = 2 * Cardinality(Proc)
    BY <1>4, <1>5, FS_Interval DEF Inode
  <1>7. \E i \in Inode : ~InUse(i)
    <2> SUFFICES ASSUME \A i \in Inode : InUse(i) PROVE FALSE
      OBVIOUS
    <2>1. Inode \in SUBSET T
      BY <1>2
    <2>2. Cardinality(Inode) <= Cardinality(T)
      BY <1>4, <2>1, FS_Subset
    <2> QED
      BY <1>4, <1>5, <1>6, <2>2
  <1> QED
    BY <1>7 DEF NewInode

-----------------------------------------------------------------------------
(* A process that uses the cache it finds takes a whole one with enough    *)
(* bits.                                                                   *)
LEMMA OpenCacheKeeps ==
  ASSUME CacheInv, NEW p \in Proc, OpenCache(p)
  PROVE  CacheInv'
  <1> USE DEF CacheInv
  <1>1. CacheTypes'
    BY DEF OpenCache, Goto, Usable, CacheTypes, Names
  <1>2. Descriptors'
    BY DEF OpenCache, Goto, Usable, Descriptors, CacheTypes
  <1>3. WritingApart'
    BY DEF OpenCache, Goto, Usable, WritingApart, Descriptors, CacheTypes, Writing, Named, Names
  <1>4. OneClaims'
    BY DEF OpenCache, Goto, Usable, OneClaims, Claims, Writes, CacheTypes, Descriptors
  <1>5. WrittenSoFar'
    BY DEF OpenCache, Goto, Usable, WrittenSoFar, CacheTypes, Descriptors, WritingApart,
        OneClaims, Claims, Writes, Writing, Named, Names
  <1>6. ReadWhole'
    BY DEF OpenCache, Goto, Usable, ReadWhole, CacheWhole, CacheTypes, Descriptors,
        WritingApart, WrittenSoFar, Writing, Named
  <1>7. CacheWhole'
    BY DEF OpenCache, Goto, Usable, CacheWhole, CacheTypes, Descriptors, WritingApart,
        WrittenSoFar, Writing, Named, Names
  <1>8. EnoughBits'
    BY DEF OpenCache, Goto, Usable, EnoughBits, CacheTypes, Descriptors, WritingApart,
        Writing, Named, Names
  <1> QED
    BY <1>1, <1>2, <1>3, <1>4, <1>5, <1>6, <1>7, <1>8

(* The file that is emptied or made for the cache is in nobody's hands.    *)
LEMMA CreateCacheKeeps ==
  ASSUME CacheInv, NEW p \in Proc, CreateCache(p)
  PROVE  CacheInv'
  <1> USE DEF CacheInv
  <1> DEFINE i == IF Writing = Nothing THEN NewInode ELSE Writing
  <1>1. /\ cpc[p] = "create" /\ infile[p] = Nothing /\ outnode[p] = Nothing
        /\ learned[p] = 0 /\ unflushed[p] = 0
    BY DEF CreateCache, Descriptors
  <1>2. i \in Inode /\ i # Nothing /\ i # Named /\ \A q \in Proc : infile[q] # i
    <2>1. CASE Writing = Nothing
      <3>1. NewInode \in Inode /\ ~InUse(NewInode)
        BY <1>1, <2>1, FreeInode
      <3> QED
        BY <2>1, <3>1 DEF InUse, Inode, Nothing, Named, Names
    <2>2. CASE Writing # Nothing
      <3>1. Writing \in Inode
        BY <2>2 DEF CacheTypes, Writing, Names
      <3> QED
        BY <2>2, <3>1 DEF WritingApart, Inode, Nothing
    <2> QED
      BY <2>1, <2>2
  <1> HIDE DEF i
  <1>3. /\ dir' = [dir EXCEPT !["name.writing"] = i]
        /\ outnode' = [outnode EXCEPT ![p] = i]
        /\ file' = [file EXCEPT ![i] = [bits |-> num_bits[p], examples |-> 0]]
        /\ clash' = (clash \/ \E q \in Proc \ {p} : Claims(q))
        /\ cpc' = [cpc EXCEPT ![p] = "learn"]
        /\ UNCHANGED <<num_bits, infile, unflushed, learned, passes>>
    BY DEF CreateCache, Goto, i, Writing
  <1>4. CacheTypes'
    BY <1>2, <1>3 DEF CacheTypes, Names
  <1>5. Writing' = i /\ Named' = Named
    BY <1>3 DEF Writing, Named, CacheTypes, Names
  <1>6. /\ file'[i].examples = 0
        /\ \A j \in Inode : j # i => file'[j] = file[j]
    BY <1>2, <1>3 DEF CacheTypes
  <1>7. /\ outnode'[p] = i /\ cpc'[p] = "learn"
        /\ \A q \in Proc : q # p => outnode'[q] = outnode[q] /\ cpc'[q] = cpc[q]
    BY <1>3 DEF CacheTypes
  <1>8. Descriptors'
    BY <1>1, <1>2, <1>3, <1>7 DEF Descriptors
  <1>9. WritingApart'
    BY <1>2, <1>3, <1>5 DEF WritingApart
  <1>10. ~clash' => ~clash /\ \A q \in Proc : q # p => outnode[q] = Nothing /\ cpc[q] # "rename"
    BY <1>3 DEF Claims, Writes
  <1>11. OneClaims'
    BY <1>7, <1>10 DEF OneClaims, Claims, Writes
  <1>12. WrittenSoFar'
    BY <1>1, <1>3, <1>5, <1>6, <1>7, <1>10 DEF WrittenSoFar, Descriptors
  <1>13. ReadWhole'
    BY <1>2, <1>3, <1>6, <1>7, <1>10 DEF ReadWhole, CacheTypes
  <1>14. Named # Nothing => Named \in Inode
    BY DEF CacheTypes, Named, Names
  <1>15. CacheWhole'
    BY <1>2, <1>5, <1>6, <1>10, <1>14 DEF CacheWhole, Named
  <1>16. EnoughBits'
    BY <1>1, <1>2, <1>3, <1>6, <1>7 DEF EnoughBits, CacheTypes
  <1> QED
    BY <1>4, <1>8, <1>9, <1>11, <1>12, <1>13, <1>15, <1>16

(* A process without a cache file has nothing open.                        *)
LEMMA CannotCreateKeeps ==
  ASSUME CacheInv, NEW p \in Proc, CannotCreate(p)
  PROVE  CacheInv'
  <1> USE DEF CacheInv
  <1>1. CacheTypes'
    BY DEF CannotCreate, Goto, CacheTypes
  <1>2. Descriptors'
    BY DEF CannotCreate, Goto, Descriptors, CacheTypes
  <1>3. WritingApart'
    BY DEF CannotCreate, Goto, WritingApart, Descriptors, CacheTypes, Writing, Named, Names
  <1>4. OneClaims'
    BY DEF CannotCreate, Goto, OneClaims, Claims, Writes, CacheTypes, Descriptors
  <1>5. WrittenSoFar'
    BY DEF CannotCreate, Goto, WrittenSoFar, CacheTypes, Descriptors, WritingApart, OneClaims,
        Claims, Writes, Writing, Named, Names
  <1>6. ReadWhole'
    BY DEF CannotCreate, Goto, ReadWhole, CacheWhole, CacheTypes, Descriptors, WritingApart,
        WrittenSoFar, Writing, Named
  <1>7. CacheWhole'
    BY DEF CannotCreate, Goto, CacheWhole, CacheTypes, Descriptors, WritingApart,
        WrittenSoFar, Writing, Named, Names
  <1>8. EnoughBits'
    BY DEF CannotCreate, Goto, EnoughBits, CacheTypes, Descriptors, WritingApart, Writing,
        Named, Names
  <1> QED
    BY <1>1, <1>2, <1>3, <1>4, <1>5, <1>6, <1>7, <1>8

(* What is learned and what is written of it grow together.                *)
LEMMA LearnExampleKeeps ==
  ASSUME CacheInv, NEW p \in Proc, LearnExample(p)
  PROVE  CacheInv'
  <1> USE DEF CacheInv
  <1>1. CacheTypes'
    BY DEF LearnExample, Writes, Size, CacheTypes
  <1>2. Descriptors'
    BY DEF LearnExample, Writes, Size, Descriptors, CacheTypes
  <1>3. WritingApart'
    BY DEF LearnExample, Writes, Size, WritingApart, Descriptors, CacheTypes, Writing, Named,
        Names
  <1>4. OneClaims'
    BY DEF LearnExample, Writes, Size, OneClaims, Claims, CacheTypes, Descriptors
  <1>5. WrittenSoFar'
    BY DEF LearnExample, Writes, Size, WrittenSoFar, CacheTypes, Descriptors, WritingApart,
        OneClaims, Claims, Writing, Named, Names
  <1>6. ReadWhole'
    BY DEF LearnExample, Writes, Size, ReadWhole, CacheWhole, CacheTypes, Descriptors,
        WritingApart, WrittenSoFar, Writing, Named
  <1>7. CacheWhole'
    BY DEF LearnExample, Writes, Size, CacheWhole, CacheTypes, Descriptors, WritingApart,
        WrittenSoFar, Writing, Named, Names
  <1>8. EnoughBits'
    BY DEF LearnExample, Writes, Size, EnoughBits, CacheTypes, Descriptors, WritingApart,
        Writing, Named, Names
  <1> QED
    BY <1>1, <1>2, <1>3, <1>4, <1>5, <1>6, <1>7, <1>8

(* Flushing moves examples from the buffer to the file.                    *)
LEMMA BufferFullKeeps ==
  ASSUME CacheInv, NEW p \in Proc, BufferFull(p)
  PROVE  CacheInv'
  <1> USE DEF CacheInv
  <1>1. CacheTypes'
    BY DEF BufferFull, Writes, FlushTo, CacheTypes
  <1>2. Descriptors'
    BY DEF BufferFull, Writes, FlushTo, Descriptors, CacheTypes
  <1>3. WritingApart'
    BY DEF BufferFull, Writes, FlushTo, WritingApart, Descriptors, CacheTypes, Writing, Named,
        Names
  <1>4. OneClaims'
    BY DEF BufferFull, Writes, FlushTo, OneClaims, Claims, CacheTypes, Descriptors
  <1>5. WrittenSoFar'
    BY DEF BufferFull, Writes, FlushTo, WrittenSoFar, CacheTypes, Descriptors, WritingApart,
        OneClaims, Claims, Writing, Named, Names
  <1>6. ReadWhole'
    BY DEF BufferFull, Writes, FlushTo, ReadWhole, CacheWhole, CacheTypes, Descriptors,
        WritingApart, WrittenSoFar, Writing, Named
  <1>7. CacheWhole'
    BY DEF BufferFull, Writes, FlushTo, CacheWhole, CacheTypes, Descriptors, WritingApart,
        WrittenSoFar, Writing, Named, Names
  <1>8. EnoughBits'
    BY DEF BufferFull, Writes, FlushTo, EnoughBits, CacheTypes, Descriptors, WritingApart,
        Writing, Named, Names
  <1> QED
    BY <1>1, <1>2, <1>3, <1>4, <1>5, <1>6, <1>7, <1>8

(* At the end of the first pass all examples are in the file.              *)
LEMMA EndPassKeeps ==
  ASSUME CacheInv, NEW p \in Proc, EndPass(p)
  PROVE  CacheInv'
  <1> USE DEF CacheInv
  <1>1. CacheTypes'
    BY SMTT(40) DEF EndPass, Goto, Writes, Size, FlushedAtEnd, FlushTo, CacheTypes
  <1>2. Descriptors'
    BY DEF EndPass, Goto, Writes, Size, FlushedAtEnd, FlushTo, Descriptors, CacheTypes
  <1>3. WritingApart'
    BY DEF EndPass, Goto, Writes, Size, FlushedAtEnd, FlushTo, WritingApart, Descriptors,
        CacheTypes, Writing, Named, Names
  <1>4. OneClaims'
    BY DEF EndPass, Goto, Writes, Size, FlushedAtEnd, FlushTo, OneClaims, Claims, CacheTypes,
        Descriptors
  <1>5. WrittenSoFar'
    BY DEF EndPass, Goto, Writes, Size, FlushedAtEnd, FlushTo, WrittenSoFar, CacheTypes,
        Descriptors, WritingApart, OneClaims, Claims, Writing, Named, Names
  <1>6. ReadWhole'
    BY DEF EndPass, Goto, Writes, Size, FlushedAtEnd, FlushTo, ReadWhole, CacheWhole,
        CacheTypes, Descriptors, WritingApart, WrittenSoFar, Writing, Named
  <1>7. CacheWhole'
    BY DEF EndPass, Goto, Writes, Size, FlushedAtEnd, FlushTo, CacheWhole, CacheTypes,
        Descriptors, WritingApart, WrittenSoFar, Writing, Named, Names
  <1>8. EnoughBits'
    BY DEF EndPass, Goto, Writes, Size, FlushedAtEnd, FlushTo, EnoughBits, CacheTypes,
        Descriptors, WritingApart, Writing, Named, Names
  <1> QED
    BY <1>1, <1>2, <1>3, <1>4, <1>5, <1>6, <1>7, <1>8

(* The old cache loses its name, not its readers.                          *)
LEMMA RemoveOldKeeps ==
  ASSUME CacheInv, NEW p \in Proc, RemoveOld(p)
  PROVE  CacheInv'
  <1> USE DEF CacheInv
  <1>1. CacheTypes'
    BY DEF RemoveOld, Goto, CacheTypes
  <1>2. Descriptors'
    BY DEF RemoveOld, Goto, Descriptors, CacheTypes
  <1>3. WritingApart'
    BY DEF RemoveOld, Goto, WritingApart, Descriptors, CacheTypes, Writing, Named, Names
  <1>4. OneClaims'
    BY DEF RemoveOld, Goto, OneClaims, Claims, Writes, CacheTypes, Descriptors
  <1>5. WrittenSoFar'
    BY DEF RemoveOld, Goto, WrittenSoFar, CacheTypes, Descriptors, WritingApart, OneClaims,
        Claims, Writes, Writing, Named, Names
  <1>6. ReadWhole'
    BY DEF RemoveOld, Goto, ReadWhole, CacheWhole, CacheTypes, Descriptors, WritingApart,
        WrittenSoFar, Writing, Named
  <1>7. CacheWhole'
    BY DEF RemoveOld, Goto, CacheWhole, CacheTypes, Descriptors, WritingApart, WrittenSoFar,
        Writing, Named, Names
  <1>8. EnoughBits'
    BY DEF RemoveOld, Goto, EnoughBits, CacheTypes, Descriptors, WritingApart, Writing, Named,
        Names
  <1> QED
    BY <1>1, <1>2, <1>3, <1>4, <1>5, <1>6, <1>7, <1>8

(* The whole file gets the name.                                           *)
LEMMA RenameNewKeeps ==
  ASSUME CacheInv, NEW p \in Proc, RenameNew(p)
  PROVE  CacheInv'
  <1> USE DEF CacheInv
  <1>1. CacheTypes'
    BY DEF RenameNew, Goto, CacheTypes, Names
  <1>2. Descriptors'
    BY DEF RenameNew, Goto, Descriptors, CacheTypes
  <1>3. WritingApart'
    BY DEF RenameNew, Goto, WritingApart, Descriptors, CacheTypes, Writing, Named, Names
  <1>4. OneClaims'
    BY DEF RenameNew, Goto, OneClaims, Claims, Writes, CacheTypes, Descriptors
  <1>5. WrittenSoFar'
    BY DEF RenameNew, Goto, WrittenSoFar, CacheTypes, Descriptors, WritingApart, OneClaims,
        Claims, Writes, Writing, Named, Names
  <1>6. ReadWhole'
    BY DEF RenameNew, Goto, ReadWhole, CacheWhole, CacheTypes, Descriptors, WritingApart,
        WrittenSoFar, Writing, Named
  <1>7. CacheWhole'
    BY DEF RenameNew, Goto, CacheWhole, CacheTypes, Descriptors, WritingApart, WrittenSoFar,
        Writing, Named, Names
  <1>8. EnoughBits'
    BY DEF RenameNew, Goto, EnoughBits, CacheTypes, Descriptors, WritingApart, Writing, Named,
        Names
  <1> QED
    BY <1>1, <1>2, <1>3, <1>4, <1>5, <1>6, <1>7, <1>8

(* The process reads what is under the name now, its own file or not.      *)
LEMMA ReopenKeeps ==
  ASSUME CacheInv, NEW p \in Proc, Reopen(p)
  PROVE  CacheInv'
  <1> USE DEF CacheInv
  <1>1. CacheTypes'
    BY DEF Reopen, Goto, CacheTypes, Names
  <1>2. Descriptors'
    BY DEF Reopen, Goto, Descriptors, CacheTypes
  <1>3. WritingApart'
    BY DEF Reopen, Goto, WritingApart, Descriptors, CacheTypes, Writing, Named, Names
  <1>4. OneClaims'
    BY DEF Reopen, Goto, OneClaims, Claims, Writes, CacheTypes, Descriptors
  <1>5. WrittenSoFar'
    BY DEF Reopen, Goto, WrittenSoFar, CacheTypes, Descriptors, WritingApart, OneClaims,
        Claims, Writes, Writing, Named, Names
  <1>6. ReadWhole'
    BY DEF Reopen, Goto, ReadWhole, CacheWhole, CacheTypes, Descriptors, WritingApart,
        WrittenSoFar, Writing, Named
  <1>7. CacheWhole'
    BY DEF Reopen, Goto, CacheWhole, CacheTypes, Descriptors, WritingApart, WrittenSoFar,
        Writing, Named, Names
  <1>8. EnoughBits'
    BY DEF Reopen, Goto, EnoughBits, CacheTypes, Descriptors, WritingApart, Writing, Named,
        Names
  <1> QED
    BY <1>1, <1>2, <1>3, <1>4, <1>5, <1>6, <1>7, <1>8

(* The bits are compared before every pass.                                *)
LEMMA CheckBitsKeeps ==
  ASSUME CacheInv, NEW p \in Proc, CheckBits(p)
  PROVE  CacheInv'
  <1> USE DEF CacheInv
  <1>1. CacheTypes'
    BY DEF CheckBits, Goto, BitsChecked, CacheTypes
  <1>2. Descriptors'
    BY DEF CheckBits, Goto, BitsChecked, Descriptors, CacheTypes
  <1>3. WritingApart'
    BY DEF CheckBits, Goto, BitsChecked, WritingApart, Descriptors, CacheTypes, Writing,
        Named, Names
  <1>4. OneClaims'
    BY DEF CheckBits, Goto, BitsChecked, OneClaims, Claims, Writes, CacheTypes, Descriptors
  <1>5. WrittenSoFar'
    BY DEF CheckBits, Goto, BitsChecked, WrittenSoFar, CacheTypes, Descriptors, WritingApart,
        OneClaims, Claims, Writes, Writing, Named, Names
  <1>6. ReadWhole'
    BY DEF CheckBits, Goto, BitsChecked, ReadWhole, CacheWhole, CacheTypes, Descriptors,
        WritingApart, WrittenSoFar, Writing, Named
  <1>7. CacheWhole'
    BY DEF CheckBits, Goto, BitsChecked, CacheWhole, CacheTypes, Descriptors, WritingApart,
        WrittenSoFar, Writing, Named, Names
  <1>8. EnoughBits'
    BY DEF CheckBits, Goto, BitsChecked, EnoughBits, CacheTypes, Descriptors, WritingApart,
        Writing, Named, Names
  <1> QED
    BY <1>1, <1>2, <1>3, <1>4, <1>5, <1>6, <1>7, <1>8

(* A process that is killed leaves its file behind, and nobody claims it.  *)
LEMMA KillProcessKeeps ==
  ASSUME CacheInv, NEW p \in Proc, KillProcess(p)
  PROVE  CacheInv'
  <1> USE DEF CacheInv
  <1>1. CacheTypes'
    BY DEF KillProcess, Goto, Over, CacheTypes
  <1>2. Descriptors'
    BY DEF KillProcess, Goto, Over, Descriptors, CacheTypes
  <1>3. WritingApart'
    BY DEF KillProcess, Goto, Over, WritingApart, Descriptors, CacheTypes, Writing, Named, Names
  <1>4. OneClaims'
    BY DEF KillProcess, Goto, Over, OneClaims, Claims, Writes, CacheTypes, Descriptors
  <1>5. WrittenSoFar'
    BY DEF KillProcess, Goto, Over, WrittenSoFar, CacheTypes, Descriptors, WritingApart,
        OneClaims, Claims, Writes, Writing, Named, Names
  <1>6. ReadWhole'
    BY DEF KillProcess, Goto, Over, ReadWhole, CacheWhole, CacheTypes, Descriptors,
        WritingApart, WrittenSoFar, Writing, Named
  <1>7. CacheWhole'
    BY DEF KillProcess, Goto, Over, CacheWhole, CacheTypes, Descriptors, WritingApart,
        WrittenSoFar, Writing, Named, Names
  <1>8. EnoughBits'
    BY DEF KillProcess, Goto, Over, EnoughBits, CacheTypes, Descriptors, WritingApart,
        Writing, Named, Names
  <1> QED
    BY <1>1, <1>2, <1>3, <1>4, <1>5, <1>6, <1>7, <1>8

(* The invariant is inductive.                                             *)
LEMMA CacheSteps == CacheInv /\ [CacheNext]_cacheVars => CacheInv'
  <1> SUFFICES ASSUME CacheInv, [CacheNext]_cacheVars PROVE CacheInv'
    OBVIOUS
  <1>1. CASE UNCHANGED cacheVars
    BY <1>1 DEF cacheVars, CacheInv, CacheTypes, Descriptors, WritingApart, OneClaims,
        WrittenSoFar, ReadWhole,
                CacheWhole, EnoughBits, Claims, Writes, Writing, Named
  <1>2. ASSUME NEW p \in Proc, CacheStep(p) \/ KillProcess(p) PROVE CacheInv'
    BY <1>2, OpenCacheKeeps, CreateCacheKeeps, CannotCreateKeeps, LearnExampleKeeps,
        BufferFullKeeps,
       EndPassKeeps, RemoveOldKeeps, RenameNewKeeps, ReopenKeeps, CheckBitsKeeps,
           KillProcessKeeps
    DEF CacheStep
  <1> QED
    BY <1>1, <1>2 DEF CacheNext

(* The file under the cache's name is whole, every pass learns all of the  *)
(* data, and no process learns from a cache with fewer bits than it needs: *)
(* for any number of processes that share the cache, that may be killed    *)
(* between any two steps of parse_cache, make_write_cache and reset_source *)
(* and, but for the last statement, do not write it at once.               *)
THEOREM CacheIsSafe == CacheSpec => []CacheSafe
  <1>1. CacheInv => CacheSafe
    BY DEF CacheInv, CacheSafe, EveryPassWhole, ReadWhole
  <1> QED
    BY <1>1, CacheStarts, CacheSteps, PTL DEF CacheSpec

-----------------------------------------------------------------------------
(***************************************************************************)
(* Saving the model of the best pass, for every number of passes and all   *)
(* losses.                                                                 *)
(***************************************************************************)
Dumping == {"open", "write", "remove", "rename"}
Running == {"learn", "summarize", "check_stop"}

(* Who called dump_regressor, and what has been written by then.           *)
DumpOK ==
  pc \in Dumping =>
    /\ \/ target = current_pass /\ target # Model /\ ret = "summarize"
       \/ target = Model /\ ret = "check_stop" /\ holdout_best_pass = current_pass
       \/ target = Model /\ ret = "exit"
    /\ pc \in {"remove", "rename"} => writing[target] = current_pass

(* The final file holds the best pass whenever it is not being replaced.   *)
KeptOK ==
  /\ pc \in Running \/ (pc \in Dumping /\ ret = "summarize") =>
       held[Model] = holdout_best_pass
  /\ pc = "exit" /\ early_terminate => held[Model] = holdout_best_pass
  /\ early_terminate => pc \in {"learn", "exit", "killed"}

(* The counter counts the passes since the best one.                       *)
CounterOK ==
  pc \in Running \union Dumping \union {"exit"} =>
    current_pass - holdout_best_pass =
      IF pc = "summarize" \/ (pc \in Dumping /\ ret = "summarize")
      THEN no_win_counter + 1 ELSE no_win_counter

IInv ==
  /\ TypeOK /\ NeverTorn
  /\ trained = current_pass
  /\ pc \notin {"learn", "killed"} \/ early_terminate => current_pass > 0
  /\ DumpOK /\ KeptOK /\ CounterOK

(* Before the first pass no model has been saved.                          *)
LEMMA InitIInv == Init => IInv
<1> SUFFICES ASSUME Init PROVE IInv
  OBVIOUS
<1> USE PassesAssumption, LossesAssumption DEF Init, ModelNames, Model, Contents, NoModel, Partial
<1>1. TypeOK
  BY DEF TypeOK
<1>2. NeverTorn
  BY DEF NeverTorn
<1>3. DumpOK /\ KeptOK /\ CounterOK
  BY DEF DumpOK, KeptOK, CounterOK, Dumping, Running
<1> QED
  BY <1>1, <1>2, <1>3 DEF IInv

(* Every step of a pass, of its summary and of saving keeps the invariant. *)
LEMMA StepIInv == IInv /\ [Next]_vars => IInv'
<1> SUFFICES ASSUME IInv, [Next]_vars PROVE IInv'
  OBVIOUS
<1> USE PassesAssumption, LossesAssumption DEF ModelNames, Model, Contents, NoModel, Partial
<1> USE DEF IInv, TypeOK, NeverTorn, DumpOK, KeptOK, CounterOK, Dumping, Running,
            holdoutVars, fileVars
<1>1. CASE Open
  BY <1>1 DEF Open, FileAtOpen
<1>2. CASE Write
  BY <1>2 DEF Write
<1>3. CASE RemoveName
  BY <1>3 DEF RemoveName, Removed
<1>4. CASE Rename
  BY <1>4 DEF Rename
<1>5. CASE DumpThrows
  BY <1>5 DEF DumpThrows
<1>6. CASE LearnPass
  BY <1>6, SMTT(40) DEF LearnPass, MorePasses, Dump
<1>7. CASE Win
  <2>1. losses[current_pass] \in Nat /\ current_pass > 0
    BY <1>7 DEF Win
  <2>2. ~early_terminate /\ Dump(Model, "check_stop")
    BY <1>7 DEF Win, Finalize, MaySave
  <2> QED
    BY <1>7, <2>1, <2>2 DEF Win, Improved, NoWinAfterWin, Dump
<1>8. CASE NoWin
  BY <1>8 DEF NoWin, Improved
<1>9. CASE CheckStop
  BY <1>9 DEF CheckStop, Stops
<1>10. CASE FinishDriver
  <2>1. current_pass > 0
    BY <1>10 DEF FinishDriver, MorePasses
  <2>2. CASE early_terminate
    BY <1>10, <2>1, <2>2 DEF FinishDriver, Finalize, MaySave
  <2>3. CASE ~early_terminate
    BY <1>10, <2>1, <2>3 DEF FinishDriver, Finalize, MaySave, Dump
  <2> QED
    BY <2>2, <2>3
<1>11. CASE Kill
  BY <1>11 DEF Kill
<1>12. CASE UNCHANGED vars
  BY <1>12 DEF vars
<1> QED
  BY <1>1, <1>2, <1>3, <1>4, <1>5, <1>6, <1>7, <1>8, <1>9, <1>10, <1>11, <1>12 DEF Next

(* So it holds throughout the run.                                         *)
LEMMA Invariance == Spec => []IInv
  BY InitIInv, StepIInv, PTL DEF Spec

(* Every variable keeps its type; vw never learns more passes than asked.  *)
THEOREM TypeCorrect == Spec => []TypeOK
<1>1. IInv => TypeOK
  BY DEF IInv
<1> QED
  BY <1>1, Invariance, PTL

(* Whenever the process dies, a file under a final name is whole.          *)
THEOREM FilesWhole == Spec => []NeverTorn
<1>1. IInv => NeverTorn
  BY DEF IInv
<1> QED
  BY <1>1, Invariance, PTL

(* After an early stop the saved model is the one of the best pass.        *)
THEOREM BestKept == Spec => []BestModelKept
<1>1. IInv => BestModelKept
  BY DEF IInv, KeptOK, BestModelKept, Running
<1> QED
  BY <1>1, Invariance, PTL

(* While training goes on without having been stopped the counter has not  *)
(* reached the threshold: it starts below, grows by one and is compared    *)
(* after every pass.                                                       *)
BelowOK ==
  /\ early_terminate => no_win_counter = EarlyStop
  /\ pc \in {"learn", "summarize", "exit"} \/ (pc \in Dumping /\ ret # "check_stop") =>
       early_terminate \/ no_win_counter < EarlyStop
  /\ pc \in {"check_stop"} \union Dumping => no_win_counter <= EarlyStop

(* With a positive threshold that is compared after every pass, training   *)
(* goes on for exactly as many passes without improvement as tolerated.    *)
THEOREM StopCorrect ==
  ASSUME EarlyStop > 0, CheckEvery <= 1
  PROVE  Spec => []StopsInTime
<1> USE StopAssumption
<1>1. Init => BelowOK
  BY DEF Init, BelowOK, Dumping
<1>2. IInv /\ BelowOK /\ [Next]_vars => BelowOK'
  <2> SUFFICES ASSUME IInv, BelowOK, [Next]_vars PROVE BelowOK'
    OBVIOUS
  <2> USE DEF BelowOK, Dumping, holdoutVars, fileVars
  <2>0. /\ early_terminate \in BOOLEAN /\ no_win_counter \in Nat
        /\ early_terminate => pc \in {"learn", "exit", "killed"}
        /\ pc \in Dumping => ret \in {"summarize", "check_stop", "exit"}
    BY DEF IInv, TypeOK, KeptOK, DumpOK
  <2>1. CASE Open
    BY <2>0, <2>1 DEF Open
  <2>2. CASE Write
    BY <2>0, <2>2 DEF Write
  <2>3. CASE RemoveName
    BY <2>0, <2>3 DEF RemoveName
  <2>4. CASE Rename
    BY <2>0, <2>4 DEF Rename
  <2>5. CASE DumpThrows
    BY <2>0, <2>5 DEF DumpThrows
  <2>6. CASE LearnPass
    BY <2>0, <2>6 DEF LearnPass, Dump
  <2>7. CASE Win
    BY <2>0, <2>7 DEF Win, NoWinAfterWin, Finalize, MaySave, Dump
  <2>8. CASE NoWin
    BY <2>0, <2>8 DEF NoWin
  <2>9. CASE CheckStop
    BY <2>0, <2>9 DEF CheckStop, Stops
  <2>10. CASE FinishDriver
    BY <2>0, <2>10 DEF FinishDriver, Finalize, MaySave, Dump
  <2>11. CASE Kill
    BY <2>0, <2>11 DEF Kill
  <2>12. CASE UNCHANGED vars
    BY <2>0, <2>12 DEF vars
  <2> QED
    BY <2>1, <2>2, <2>3, <2>4, <2>5, <2>6, <2>7, <2>8, <2>9, <2>10, <2>11, <2>12 DEF Next
<1>3. IInv /\ BelowOK => StopsInTime
  BY DEF IInv, TypeOK, CounterOK, BelowOK, StopsInTime, Running, Dumping
<1> QED
  BY <1>1, <1>2, <1>3, Invariance, PTL DEF Spec

(* A complete n.writing exists only between the write and the rename.      *)
CopyOK ==
  writing[Model] > 0 =>
    (pc \in {"remove", "rename"} /\ target = Model) \/ pc \in {"aborted", "killed"}

(* Once saved, a whole model stays on disk, whenever the process dies.     *)
THEOREM ModelSafe == Spec => ModelSurvives
<1> USE DEF Model, ModelNames, Contents, NoModel, Partial, OnDisk, CopyOK, holdoutVars, fileVars
<1>1. Init => CopyOK
  BY PassesAssumption DEF Init
<1>2. IInv /\ CopyOK /\ [Next]_vars => CopyOK' /\ (OnDisk => OnDisk')
  <2> SUFFICES ASSUME IInv, CopyOK, [Next]_vars PROVE CopyOK' /\ (OnDisk => OnDisk')
    OBVIOUS
  <2>0. /\ held \in [ModelNames -> Contents] /\ writing \in [ModelNames -> Contents]
        /\ target \in ModelNames /\ AllPasses \in Nat /\ current_pass \in Nat
        /\ trained = current_pass
        /\ pc \in Dumping => current_pass > 0
        /\ pc \in {"remove", "rename"} => writing[target] = current_pass
        /\ pc \in Dumping => ret \in {"summarize", "check_stop", "exit"}
    BY PassesAssumption DEF IInv, TypeOK, DumpOK, Dumping
  <2>1. CASE Open
    BY <2>0, <2>1 DEF Open, FileAtOpen, Dumping
  <2>2. CASE Write
    BY <2>0, <2>2 DEF Write, Dumping
  <2>3. CASE RemoveName
    BY <2>0, <2>3 DEF RemoveName, Removed, Dumping
  <2>4. CASE Rename
    BY <2>0, <2>4 DEF Rename, Dumping
  <2>5. CASE LearnPass \/ Win \/ NoWin \/ CheckStop \/ FinishDriver
    BY <2>0, <2>5 DEF LearnPass, Win, NoWin, CheckStop, FinishDriver, Finalize, Dump
  <2>6. CASE DumpThrows \/ Kill \/ UNCHANGED vars
    BY <2>0, <2>6 DEF DumpThrows, Kill, vars
  <2> QED
    BY <2>1, <2>2, <2>3, <2>4, <2>5, <2>6 DEF Next
<1>3. held[Model] > 0 => OnDisk
  OBVIOUS
<1> QED
  BY <1>1, <1>2, <1>3, Invariance, PTL DEF Spec, ModelSurvives

-----------------------------------------------------------------------------
(* The passes whose loss has been compared with the best one so far.       *)
Summarized ==
  IF pc = "summarize" \/ (pc \in Dumping /\ ret = "summarize") THEN current_pass - 1
                                                               ELSE current_pass

(* The best one is the first of the smallest among them.                   *)
BestOK ==
  pc \in Running \union Dumping \union {"exit"} =>
    /\ \A p \in 1 .. Summarized : holdout_best_loss <= losses[p]
    /\ holdout_best_pass = 0 => holdout_best_loss = FltMax
    /\ holdout_best_pass # 0 => losses[holdout_best_pass] = holdout_best_loss
    /\ \A p \in 1 .. holdout_best_pass - 1 : losses[p] > holdout_best_loss

(* summarize_holdout_set keeps the loss and the number of the first of the *)
(* best passes, however the losses go up and down.                         *)
THEOREM BestFound == Spec => []BestIsBest
<1>1. Init => BestOK
  BY DEF Init, BestOK, Summarized, Running, Dumping
<1>2. IInv /\ BestOK /\ [Next]_vars => BestOK'
  <2> SUFFICES ASSUME IInv, BestOK, [Next]_vars PROVE BestOK'
    OBVIOUS
  <2> USE DEF holdoutVars, fileVars
  <2>0. /\ current_pass \in Nat /\ holdout_best_pass \in Nat /\ holdout_best_loss \in Nat
        /\ losses \in Seq(Losses) /\ Len(losses) = current_pass
        /\ \A p \in 1 .. current_pass : losses[p] \in Nat
        /\ pc \in Dumping => ret \in {"summarize", "check_stop", "exit"}
        /\ pc \in Running \union Dumping \union {"exit"} => holdout_best_pass <= current_pass
        /\ pc = "summarize" => current_pass > 0 /\ holdout_best_pass < current_pass
    <3>1. /\ current_pass \in Nat /\ holdout_best_pass \in Nat /\ holdout_best_loss \in Nat
          /\ losses \in Seq(Losses) /\ Len(losses) = current_pass /\ no_win_counter \in Nat
      BY PassesAssumption DEF IInv, TypeOK
    <3>2. \A p \in 1 .. current_pass : losses[p] \in Nat
      <4>1. \A p \in 1 .. current_pass : losses[p] \in Losses
        BY <3>1
      <4> QED
        BY <4>1, LossesAssumption
    <3>3. pc \in Dumping => ret \in {"summarize", "check_stop", "exit"}
      BY DEF IInv, DumpOK
    <3>4. pc \in Running \union Dumping \union {"exit"} => holdout_best_pass <= current_pass
      BY <3>1 DEF IInv, CounterOK
    <3>5. pc = "summarize" => current_pass > 0 /\ holdout_best_pass < current_pass
      BY <3>1 DEF IInv, CounterOK, Running
    <3> QED
      BY <3>1, <3>2, <3>3, <3>4, <3>5
  <2>1. CASE Open \/ Write \/ RemoveName \/ DumpThrows \/ Kill
    BY <2>1 DEF Open, Write, RemoveName, DumpThrows, Kill, BestOK, Summarized, Running, Dumping
  <2>2. CASE Rename
    BY <2>0, <2>2 DEF Rename, BestOK, Summarized, Running, Dumping
  <2>3. CASE LearnPass
    <3>1. PICK loss \in Losses : losses' = Append(losses, loss)
      BY <2>3 DEF LearnPass
    <3>2. \A p \in 1 .. current_pass : losses'[p] = losses[p]
      BY <2>0, <3>1
    <3>3. Summarized' = current_pass /\ Summarized = current_pass /\ pc \in Running
      BY <2>0, <2>3 DEF LearnPass, Dump, Summarized, Dumping, Running
    <3>4. holdout_best_loss' = holdout_best_loss /\ holdout_best_pass' = holdout_best_pass
      BY <2>3 DEF LearnPass
    <3> QED
      BY <2>0, <3>2, <3>3, <3>4 DEF BestOK
  <2>4. CASE Win
    <3>1. /\ pc = "summarize" /\ losses' = losses /\ current_pass' = current_pass
          /\ holdout_best_loss' = losses[current_pass] /\ holdout_best_pass' = current_pass
          /\ losses[current_pass] < holdout_best_loss
      BY <2>4 DEF Win, Improved
    <3>2. ret' = "check_stop" \/ pc' = "check_stop"
      BY <2>4 DEF Win, Finalize, Dump
    <3>3. Summarized = current_pass - 1 /\ (Summarized' = current_pass \/ pc' \notin Dumping)
      BY <3>1, <3>2 DEF Summarized, Dumping
    <3>4. pc' # "summarize"
      BY <2>4 DEF Win, Finalize, Dump
    <3>5. Summarized' = current_pass
      BY <3>1, <3>3, <3>4 DEF Summarized
    <3>6. \A p \in 1 .. current_pass - 1 : holdout_best_loss <= losses[p]
      BY <3>1, <3>3 DEF BestOK, Running
    <3>7. \A p \in 1 .. current_pass - 1 : losses[p] > losses[current_pass]
      BY <2>0, <3>1, <3>6
    <3>8. \A p \in 1 .. current_pass : losses[current_pass] <= losses[p]
      BY <2>0, <3>1, <3>7
    <3> QED
      BY <2>0, <3>1, <3>5, <3>7, <3>8 DEF BestOK
  <2>5. CASE NoWin
    <3>1. /\ pc = "summarize" /\ pc' = "check_stop" /\ losses' = losses
          /\ current_pass' = current_pass /\ ~(losses[current_pass] < holdout_best_loss)
          /\ holdout_best_loss' = holdout_best_loss /\ holdout_best_pass' = holdout_best_pass
      BY <2>5 DEF NoWin, Improved
    <3>2. Summarized = current_pass - 1 /\ Summarized' = current_pass
      BY <3>1 DEF Summarized, Dumping
    <3>3. \A p \in 1 .. current_pass : holdout_best_loss <= losses[p]
      BY <2>0, <3>1, <3>2 DEF BestOK, Running
    <3> QED
      BY <3>1, <3>2, <3>3 DEF BestOK, Running
  <2>6. CASE CheckStop
    BY <2>6 DEF CheckStop, BestOK, Summarized, Running, Dumping
  <2>7. CASE FinishDriver
    BY <2>7 DEF FinishDriver, Finalize, Dump, BestOK, Summarized, Running, Dumping
  <2>8. CASE UNCHANGED vars
    BY <2>8 DEF vars, BestOK, Summarized
  <2> QED
    BY <2>1, <2>2, <2>3, <2>4, <2>5, <2>6, <2>7, <2>8 DEF Next
<1>3. BestOK => BestIsBest
  BY DEF BestOK, BestIsBest, Summarized, Running, Dumping
<1> QED
  BY <1>1, <1>2, <1>3, Invariance, PTL DEF Spec

-----------------------------------------------------------------------------
(***************************************************************************)
(* A model file over any chain of runs.  The argument: every whole file    *)
(* says in its header what the run that wrote it had in effect, and the    *)
(* run that loads it merges that with at most one option of its own; since *)
(* two values of an option that must not differ are refused, what is in    *)
(* effect then is what the header says or what the command line adds.      *)
(***************************************************************************)
Settings == [Kinds -> Seq(Nat)]
Models == [what : {"model"}, header : Settings, trainedWith : Settings, prg : Nat]
Files == Models \union {Absent, Torn}
Ats == {"loaded", "trained", "opened", "written", "removed"}
Runs == [at : Ats, opts : Settings, user : Settings, from : Files, prg : Nat]

(* What a saved header says of the run that saved it.                      *)
HeaderSays(m) ==
  /\ \A k \in {"fixed", "override"} : m.header[k] = m.trainedWith[k] /\ Len(m.header[k]) <= 1
  /\ \A k \in {"many", "inter"} : m.header[k] = m.trainedWith[k]
  /\ ToSet(m.header["ignore"]) = ToSet(m.trainedWith["ignore"])
  /\ Len(m.header["bits"]) = 1 /\ (m.trainedWith["bits"] = << >> \/ m.trainedWith["bits"] = m.header["bits"])
  /\ m.header["seed"] = IF m.prg = 0 THEN << >> ELSE <<m.prg>>
  /\ m.header["local"] = << >>

GoodFile(f) == f \in Files /\ (Whole(f) => HeaderSays(f))

ModelInv ==
  /\ GoodFile(modelName) /\ GoodFile(modelWriting) /\ modelName # Torn
  /\ modelProc = NoProc \/ modelProc \in Runs
  /\ modelProc.at \in {"written", "removed"} => Whole(modelWriting)
  /\ crashCount \in Nat
  /\ everSaved /\ crashCount = 0 => Whole(modelName) \/ modelProc.at = "removed"
  /\ LoadedAsSaved

(* The values of ignore and keep are merged without losing one.            *)
LEMMA MergedSame == ASSUME NEW vs \in Seq(Nat) PROVE MergedValues(vs) \in Seq(Nat) /\ ToSet(MergedValues(vs)) = ToSet(vs)
<1> DEFINE S == ToSet(vs)
           m == MergedValues(vs)
<1>1. S \in SUBSET Nat /\ vs \in Surjection(1 .. Len(vs), S) BY DEF ToSet, Surjection
<1>2. IsFiniteSet(S)
  <2>1. IsFiniteSet(1 .. Len(vs))
    <3>1. 1 \in Int /\ Len(vs) \in Int OBVIOUS
    <3> QED BY <3>1, FS_Interval
  <2> HIDE DEF S
  <2> QED BY <1>1, <2>1, FS_Surjection
<1>3. Enumerates(m, S)
  <2>1. m = CHOOSE s \in [1 .. Cardinality(S) -> S] : \A i, j \in 1 .. Cardinality(S) : i < j => s[i] < s[j]
    BY DEF MergedValues
  <2> HIDE DEF m, S
  <2> QED BY <1>1, <1>2, <2>1, ChosenOrder, Zenon
<1> HIDE DEF m, S
<1>4. m \in Seq(Nat) /\ {m[i] : i \in DOMAIN m} = S BY <1>1, <1>2, <1>3, EnumerationSeq
<1> QED BY <1>4 DEF m, S, ToSet

(* Sequences of none and of one value.                                     *)
LEMMA ShortSeqs ==
  /\ << >> \in Seq(Nat) /\ Len(<< >>) <= 1
  /\ \A x \in Nat : <<x>> \in Seq(Nat) /\ Len(<<x>>) = 1 /\ Len(<<x>>) <= 1 /\ <<x>>[1] = x /\ <<x>> # << >>
OBVIOUS

(* What is in effect of the options of a run.                              *)
LEMMA EffectOf ==
  ASSUME NEW opts \in Settings
  PROVE  /\ InEffect(opts) \in Settings
         /\ \A k \in Lists : InEffect(opts)[k] = opts[k]
         /\ \A k \in Scalars : /\ Len(InEffect(opts)[k]) <= 1
                               /\ opts[k] = << >> => InEffect(opts)[k] = << >>
                               /\ opts[k] # << >> => InEffect(opts)[k] = <<opts[k][1]>>
<1>1. \A k \in Kinds : opts[k] \in Seq(Nat) /\ (opts[k] # << >> => opts[k][1] \in Nat) BY DEF Settings
<1>2. \A k \in Kinds : InEffect(opts)[k] = IF k \in Scalars /\ opts[k] # << >> THEN <<opts[k][1]>> ELSE opts[k]
  BY DEF InEffect
<1>3. \A k \in Kinds : InEffect(opts)[k] \in Seq(Nat) BY <1>1, <1>2, ShortSeqs
<1>4. InEffect(opts) \in Settings BY <1>3 DEF InEffect, Settings
<1>5. \A k \in Lists : InEffect(opts)[k] = opts[k] BY <1>2 DEF Kinds, Scalars, Lists
<1>6. ASSUME NEW k \in Scalars
      PROVE  /\ Len(InEffect(opts)[k]) <= 1
             /\ opts[k] = << >> => InEffect(opts)[k] = << >>
             /\ opts[k] # << >> => InEffect(opts)[k] = <<opts[k][1]>>
  <2>1. k \in Kinds BY DEF Kinds
  <2>2. CASE opts[k] = << >> BY <1>2, <2>1, <2>2, ShortSeqs
  <2>3. CASE opts[k] # << >>
    <3>1. InEffect(opts)[k] = <<opts[k][1]>> BY <1>2, <2>1, <2>3
    <3>2. Len(<<opts[k][1]>>) = 1 OBVIOUS
    <3> QED BY <2>3, <3>1, <3>2
  <2> QED BY <2>2, <2>3
<1> QED BY <1>4, <1>5, <1>6

(* The model a run saves says what the run had in effect.                  *)
LEMMA SavedSays == ASSUME NEW p \in Runs PROVE ModelOf(p) \in Models /\ HeaderSays(ModelOf(p))
<1> DEFINE h == HeaderOf(p)
           e == InEffect(p.opts)
<1>1. p.opts \in Settings /\ p.prg \in Nat BY DEF Runs
<1>2. \A k \in Kinds : p.opts[k] \in Seq(Nat) /\ (p.opts[k] # << >> => p.opts[k][1] \in Nat) BY <1>1 DEF Settings
<1>3. /\ e \in Settings /\ \A k \in Lists : e[k] = p.opts[k]
      /\ \A k \in Scalars : /\ Len(e[k]) <= 1
                            /\ p.opts[k] = << >> => e[k] = << >>
                            /\ p.opts[k] # << >> => e[k] = <<p.opts[k][1]>>
  BY <1>1, EffectOf
<1>4. \A k \in {"fixed", "override", "many", "inter"} : h[k] = e[k]
  BY DEF HeaderOf, Kinds, Scalars, Lists, NotKept
<1>5. /\ h["ignore"] = MergedValues(p.opts["ignore"])
      /\ h["local"] = << >>
      /\ h["seed"] = IF p.prg = 0 THEN << >> ELSE <<p.prg>>
      /\ h["bits"] = IF p.opts["bits"] = << >> THEN <<DefaultBits>> ELSE <<p.opts["bits"][1]>>
  BY DEF HeaderOf, Kinds, Scalars, Lists, NotKept
<1>6. h["ignore"] \in Seq(Nat) /\ ToSet(h["ignore"]) = ToSet(p.opts["ignore"])
  BY <1>2, <1>5, MergedSame DEF Kinds, Lists
<1>7. h["local"] \in Seq(Nat) /\ h["seed"] \in Seq(Nat) /\ h["bits"] \in Seq(Nat) /\ Len(h["bits"]) = 1
  BY <1>1, <1>2, <1>5 DEF Kinds, Scalars, DefaultBits
<1>8. DOMAIN h = Kinds /\ h = [k \in Kinds |-> h[k]] BY DEF HeaderOf
<1> HIDE DEF h, e
<1>9. \A k \in Kinds : h[k] \in Seq(Nat) BY <1>3, <1>4, <1>6, <1>7 DEF Kinds, Scalars, Lists, Settings
<1>10. h \in Settings BY <1>8, <1>9 DEF Settings
<1>11. ModelOf(p) = [what |-> "model", header |-> h, trainedWith |-> e, prg |-> p.prg] BY DEF ModelOf, h, e
<1>12. ModelOf(p) \in Models BY <1>1, <1>3, <1>10, <1>11 DEF Models
<1>13. HeaderSays(ModelOf(p))
  <2> DEFINE m == ModelOf(p)
  <2>1. m.header = h /\ m.trainedWith = e /\ m.prg = p.prg BY <1>11
  <2> HIDE DEF m
  <2>2. \A k \in {"fixed", "override"} : m.header[k] = m.trainedWith[k] /\ Len(m.header[k]) <= 1
    BY <1>3, <1>4, <2>1 DEF Scalars
  <2>3. \A k \in {"many", "inter"} : m.header[k] = m.trainedWith[k] BY <1>4, <2>1
  <2>4. ToSet(m.header["ignore"]) = ToSet(m.trainedWith["ignore"]) BY <1>3, <1>6, <2>1 DEF Lists
  <2>5. Len(m.header["bits"]) = 1 /\ (m.trainedWith["bits"] = << >> \/ m.trainedWith["bits"] = m.header["bits"])
    BY <1>3, <1>5, <1>7, <2>1 DEF Scalars
  <2> QED BY <1>5, <2>1, <2>2, <2>3, <2>4, <2>5 DEF HeaderSays, m
<1> QED BY <1>12, <1>13

(* A command line has at most one value of each option.                    *)
LEMMA GivenOnce == ASSUME NEW user \in CommandLines PROVE user \in Settings /\ \A k \in Kinds : Len(user[k]) <= 1
<1> DEFINE none == [k \in Kinds |-> << >>]
<1>1. none \in Settings /\ \A k \in Kinds : none[k] = << >> BY ShortSeqs DEF Settings
<1>2. CASE user = none BY <1>1, <1>2, ShortSeqs
<1>3. ASSUME NEW k \in Kinds, NEW v \in KindValues[k], user = [none EXCEPT ![k] = <<v>>]
      PROVE  user \in Settings /\ \A l \in Kinds : Len(user[l]) <= 1
  <2>1. v \in Nat BY KindsAssumption
  <2>2. <<v>> \in Seq(Nat) /\ Len(<<v>>) <= 1 BY <2>1, ShortSeqs
  <2>3. \A l \in Kinds : user[l] = IF l = k THEN <<v>> ELSE << >> BY <1>3
  <2>4. user = [l \in Kinds |-> user[l]] BY <1>3
  <2>5. \A l \in Kinds : user[l] \in Seq(Nat) /\ Len(user[l]) <= 1 BY <2>2, <2>3, ShortSeqs
  <2> QED BY <2>4, <2>5 DEF Settings
<1> QED BY <1>2, <1>3 DEF CommandLines

(* What follows from two settings being joined and agreeing.               *)
LEMMA JoinedSeqs ==
  ASSUME NEW a \in Seq(Nat), NEW b \in Seq(Nat)
  PROVE  /\ a \o b \in Seq(Nat) /\ ToSet(a \o b) = ToSet(a) \union ToSet(b)
         /\ a = << >> => a \o b = b
         /\ a # << >> => (a \o b) # << >> /\ (a \o b)[1] = a[1]
         /\ b # << >> => \E i \in DOMAIN (a \o b) : (a \o b)[i] = b[1]
<1>1. /\ a \o b \in Seq(Nat) /\ Len(a \o b) = Len(a) + Len(b)
      /\ \A i \in 1 .. Len(a) + Len(b) : (a \o b)[i] = IF i <= Len(a) THEN a[i] ELSE b[i - Len(a)]
  BY ConcatProperties
<1>2. Len(a) \in Nat /\ Len(b) \in Nat /\ DOMAIN a = 1 .. Len(a) /\ DOMAIN b = 1 .. Len(b)
      /\ DOMAIN (a \o b) = 1 .. Len(a) + Len(b)
  BY <1>1
<1>3. ASSUME NEW j \in 1 .. Len(b) PROVE Len(a) + j \in 1 .. Len(a) + Len(b) /\ (a \o b)[Len(a) + j] = b[j]
  BY <1>1, <1>2
<1>4. ASSUME NEW i \in 1 .. Len(a) PROVE i \in 1 .. Len(a) + Len(b) /\ (a \o b)[i] = a[i]
  BY <1>1, <1>2
<1>5. ToSet(a \o b) = ToSet(a) \union ToSet(b)
  <2>1. ToSet(a \o b) \subseteq ToSet(a) \union ToSet(b)
    <3> SUFFICES ASSUME NEW i \in 1 .. Len(a) + Len(b) PROVE (a \o b)[i] \in ToSet(a) \union ToSet(b)
      BY <1>2 DEF ToSet
    <3>1. CASE i <= Len(a) BY <1>1, <1>2, <3>1 DEF ToSet
    <3>2. CASE ~(i <= Len(a))
      <4>1. i - Len(a) \in 1 .. Len(b) BY <1>2, <3>2
      <4> QED BY <1>1, <1>2, <3>2, <4>1 DEF ToSet
    <3> QED BY <3>1, <3>2
  <2>2. ToSet(a) \union ToSet(b) \subseteq ToSet(a \o b) BY <1>2, <1>3, <1>4 DEF ToSet
  <2> QED BY <2>1, <2>2
<1>6. a = << >> => a \o b = b OBVIOUS
<1>7. ASSUME a # << >> PROVE (a \o b) # << >> /\ (a \o b)[1] = a[1]
  <2>1. Len(a) >= 1 BY <1>7
  <2>2. Len(a \o b) # 0 BY <1>1, <1>2, <2>1
  <2> QED BY <1>2, <1>4, <2>1, <2>2
<1>8. ASSUME b # << >> PROVE \E i \in DOMAIN (a \o b) : (a \o b)[i] = b[1]
  <2>1. 1 \in 1 .. Len(b) BY <1>8
  <2> QED BY <1>2, <1>3, <2>1
<1> QED BY <1>1, <1>5, <1>6, <1>7, <1>8

(* The first value of two joined settings is the first one's.              *)
LEMMA JoinedFirst ==
  ASSUME NEW a \in Seq(Nat), NEW b \in Seq(Nat), a # << >>, NEW c, c = a \o b PROVE c # << >> /\ c[1] = a[1]
BY JoinedSeqs

(* A sequence of one value is that value's sequence.                       *)
LEMMA OnlyOne == ASSUME NEW s \in Seq(Nat), Len(s) <= 1, s # << >> PROVE Len(s) = 1 /\ s[1] \in Nat /\ s = <<s[1]>>
<1>1. Len(s) \in Nat /\ Len(s) # 0 BY EmptySeq
<1>2. Len(s) = 1
  <2>1. \A n \in Nat : n # 0 /\ n <= 1 => n = 1 OBVIOUS
  <2> QED BY <1>1, <2>1
<1>3. s[1] \in Nat BY <1>2
<1>4. <<s[1]>> \in Seq(Nat) /\ Len(<<s[1]>>) = 1 BY <1>3
<1>5. \A i \in 1 .. 1 : s[i] = <<s[1]>>[i] OBVIOUS
<1> QED BY <1>2, <1>3, <1>4, <1>5, SeqEqual

-----------------------------------------------------------------------------
(* What a run has in effect that has loaded model m with these options of  *)
(* its own.                                                                *)
LoadedWell(m, user, opts, prg) ==
  /\ opts \in Settings /\ prg \in Nat
  /\ user["seed"] = << >> => prg = m.prg
  /\ m.trainedWith["bits"] = << >> \/ InEffect(opts)["bits"] = m.trainedWith["bits"]
  /\ ToSet(InEffect(opts)["ignore"]) = ToSet(user["ignore"]) \union ToSet(m.trainedWith["ignore"])
  /\ user["ignore"] = << >> => ToSet(InEffect(opts)["ignore"]) = ToSet(m.trainedWith["ignore"])
  /\ \A k \in {"fixed", "override", "many", "inter"} :
       user[k] = << >> => InEffect(opts)[k] = m.trainedWith[k]
  /\ \A k \in {"override", "inter"} : user[k] # << >> => InEffect(opts)[k] = user[k]
  /\ \A k \in {"fixed", "many"} : user[k] # << >> =>
       ToSet(InEffect(opts)[k]) = ToSet(user[k]) \union ToSet(m.trainedWith[k])

(* A run that has loaded a model has what the model says.                  *)
LEMMA LoadsWell ==
  ASSUME NEW m \in Models, HeaderSays(m), NEW user \in CommandLines,
         NEW opts, opts = Merged(user, m.header), ~Disagree(opts),
         NEW prg, prg = IF opts["seed"] = << >> THEN 0 ELSE opts["seed"][1]
  PROVE  LoadedWell(m, user, opts, prg)
<1> DEFINE h == m.header
           e == InEffect(opts)
<1>1. /\ user \in Settings /\ (\A k \in Kinds : user[k] \in Seq(Nat) /\ Len(user[k]) <= 1)
      /\ h \in Settings /\ (\A k \in Kinds : h[k] \in Seq(Nat)) /\ m.prg \in Nat
  BY GivenOnce DEF Settings, Models
<1>2. /\ \A k \in Kinds : k # "inter" => opts[k] = user[k] \o h[k]
      /\ opts["inter"] = IF user["inter"] # << >> THEN user["inter"] ELSE user["inter"] \o h["inter"]
      /\ opts = [k \in Kinds |-> opts[k]]
  BY DEF Merged, Kinds, Lists
<1> HIDE DEF h
<1>3. \A k \in Kinds : opts[k] \in Seq(Nat)
  <2> SUFFICES ASSUME NEW k \in Kinds PROVE opts[k] \in Seq(Nat) OBVIOUS
  <2>1. user[k] \in Seq(Nat) /\ h[k] \in Seq(Nat) BY <1>1
  <2>2. user[k] \o h[k] \in Seq(Nat) BY <2>1, JoinedSeqs
  <2>3. CASE k = "inter" BY <1>2, <2>1, <2>2, <2>3
  <2>4. CASE k # "inter" BY <1>2, <2>2, <2>4
  <2> QED BY <2>3, <2>4
<1>4. opts \in Settings BY <1>2, <1>3 DEF Settings
<1>5. \A k \in Kinds : user[k] = << >> => opts[k] = h[k]
  <2> SUFFICES ASSUME NEW k \in Kinds, user[k] = << >> PROVE opts[k] = h[k] OBVIOUS
  <2>1. user[k] \o h[k] = h[k] BY <1>1, JoinedSeqs
  <2> QED BY <1>2, <2>1
<1>6. /\ \A k \in Lists : e[k] = opts[k]
      /\ \A k \in Scalars : /\ Len(e[k]) <= 1
                            /\ opts[k] = << >> => e[k] = << >>
                            /\ opts[k] # << >> => e[k] = <<opts[k][1]>>
  BY <1>4, EffectOf
<1> HIDE DEF e
<1>7. ASSUME NEW s \in Seq(Nat), Len(s) <= 1, s # << >> PROVE s = <<s[1]>>
  BY <1>7, OnlyOne
<1>8. prg \in Nat /\ (user["seed"] = << >> => prg = m.prg)
  <2>1. "seed" \in Kinds BY DEF Kinds, Scalars
  <2>2. prg \in Nat
    <3>1. opts["seed"] # << >> => opts["seed"][1] \in Nat BY <1>3, <2>1
    <3> QED BY <3>1
  <2>3. ASSUME user["seed"] = << >> PROVE prg = m.prg
    <3>1. opts["seed"] = IF m.prg = 0 THEN << >> ELSE <<m.prg>> BY <1>5, <2>1, <2>3 DEF HeaderSays, h
    <3> QED BY <1>1, <3>1, ShortSeqs
  <2> QED BY <2>2, <2>3
<1>9. ASSUME NEW k \in {"fixed", "bits"}, NEW i \in DOMAIN opts[k] PROVE opts[k][i] = opts[k][1]
  BY DEF Disagree, Scalars
<1>10. ASSUME NEW k \in {"fixed", "bits"}, h[k] # << >>, Len(h[k]) <= 1 PROVE e[k] = h[k]
  <2>1. k \in Kinds /\ k \in Scalars /\ k # "inter" BY <1>10 DEF Kinds, Scalars
  <2>2. PICK i \in DOMAIN (user[k] \o h[k]) : (user[k] \o h[k])[i] = h[k][1] BY <1>1, <1>10, <2>1, JoinedSeqs, ZenonT(60)
  <2>3. opts[k] = user[k] \o h[k] BY <1>2, <2>1
  <2>4. opts[k][1] = h[k][1] BY <1>9, <1>10, <2>2, <2>3, ZenonT(60)
  <2>5. opts[k] # << >>
    <3>1. DOMAIN << >> = {} OBVIOUS
    <3> QED BY <2>2, <2>3, <3>1
  <2>6. e[k] = <<h[k][1]>> BY <1>6, <2>1, <2>4, <2>5
  <2>7. h[k] = <<h[k][1]>> BY <1>1, <1>7, <1>10, <2>1
  <2> QED BY <2>6, <2>7
<1>11. m.trainedWith["bits"] = << >> \/ e["bits"] = m.trainedWith["bits"]
  <2>1. Len(h["bits"]) = 1 /\ h["bits"] \in Seq(Nat) BY <1>1 DEF HeaderSays, h, Kinds, Scalars
  <2>2. h["bits"] # << >> /\ Len(h["bits"]) <= 1
    <3>1. Len(<< >>) # 1 OBVIOUS
    <3>2. 1 <= 1 OBVIOUS
    <3> QED BY <2>1, <3>1, <3>2
  <2>3. e["bits"] = h["bits"] BY <1>10, <2>2
  <2> QED BY <2>3 DEF HeaderSays, h
<1>12. ToSet(e["ignore"]) = ToSet(user["ignore"]) \union ToSet(m.trainedWith["ignore"])
  <2>1. "ignore" \in Kinds /\ "ignore" \in Lists BY DEF Kinds, Lists
  <2>2. e["ignore"] = user["ignore"] \o h["ignore"] BY <1>2, <1>6, <2>1
  <2>3. ToSet(e["ignore"]) = ToSet(user["ignore"]) \union ToSet(h["ignore"]) BY <1>1, <2>1, <2>2, JoinedSeqs
  <2> QED BY <2>3 DEF HeaderSays, h
<1>13. user["ignore"] = << >> => ToSet(e["ignore"]) = ToSet(m.trainedWith["ignore"])
  <2>1. ToSet(<< >>) = {} BY DEF ToSet
  <2> QED BY <1>12, <2>1
<1>14. ASSUME NEW k \in {"fixed", "override", "many", "inter"}, user[k] = << >> PROVE e[k] = m.trainedWith[k]
  <2>1. opts[k] = h[k] /\ h[k] = m.trainedWith[k] /\ h[k] \in Seq(Nat)
    BY <1>1, <1>5, <1>14 DEF Kinds, Scalars, Lists, HeaderSays, h
  <2>2. CASE k \in Lists BY <1>6, <2>1, <2>2
  <2>3. CASE k \in {"fixed", "override"}
    <3>1. k \in Scalars /\ Len(h[k]) <= 1 BY <2>3 DEF Scalars, HeaderSays, h
    <3> QED BY <1>6, <1>7, <2>1, <3>1
  <2> QED BY <2>2, <2>3 DEF Lists
<1>15. ASSUME NEW k \in {"override", "inter"}, user[k] # << >> PROVE e[k] = user[k]
  <2>1. CASE k = "inter" BY <1>2, <1>6, <1>15, <2>1 DEF Lists
  <2>2. CASE k = "override"
    <3>1. k \in Kinds /\ k \in Scalars /\ k # "inter" BY <2>2 DEF Kinds, Scalars
    <3>2. user[k] \in Seq(Nat) /\ h[k] \in Seq(Nat) /\ opts[k] = user[k] \o h[k] BY <1>1, <1>2, <3>1
    <3>3. opts[k] # << >> /\ opts[k][1] = user[k][1] BY <1>15, <3>2, JoinedFirst
    <3>4. user[k] = <<user[k][1]>> BY <1>1, <1>7, <1>15, <3>1
    <3> QED BY <1>6, <3>1, <3>3, <3>4
  <2> QED BY <2>1, <2>2
<1>16. ASSUME user["many"] # << >> PROVE ToSet(e["many"]) = ToSet(user["many"]) \union ToSet(m.trainedWith["many"])
  <2>1. "many" \in Kinds /\ "many" \in Lists BY DEF Kinds, Lists
  <2>2. e["many"] = user["many"] \o h["many"] BY <1>2, <1>6, <2>1
  <2>3. ToSet(e["many"]) = ToSet(user["many"]) \union ToSet(h["many"]) BY <1>1, <2>1, <2>2, JoinedSeqs
  <2> QED BY <2>3 DEF HeaderSays, h
<1>17. ASSUME user["fixed"] # << >> PROVE ToSet(e["fixed"]) = ToSet(user["fixed"]) \union ToSet(m.trainedWith["fixed"])
  <2> DEFINE u == user["fixed"]
             f == h["fixed"]
  <2>1. "fixed" \in Kinds /\ "fixed" \in Scalars BY DEF Kinds, Scalars
  <2>2. u \in Seq(Nat) /\ Len(u) <= 1 /\ f \in Seq(Nat) /\ Len(f) <= 1 /\ f = m.trainedWith["fixed"]
    BY <1>1, <2>1 DEF HeaderSays, h
  <2>3. opts["fixed"] = u \o f BY <1>2, <2>1
  <2>4. opts["fixed"] # << >> /\ opts["fixed"][1] = u[1]
    <3> HIDE DEF u, f
    <3>1. u # << >> BY <1>17 DEF u
    <3> QED BY <3>1, <2>2, <2>3, JoinedFirst
  <2>5. e["fixed"] = <<u[1]>> /\ u = <<u[1]>> BY <1>6, <1>7, <1>17, <2>1, <2>2, <2>4
  <2>6. f = << >> \/ f = u
    <3> SUFFICES ASSUME f # << >> PROVE f = u OBVIOUS
    <3>1. e["fixed"] = f BY <1>10, <2>2
    <3> QED BY <2>5, <3>1
  <2> QED BY <2>2, <2>5, <2>6 DEF ToSet
<1> QED BY <1>4, <1>8, <1>11, <1>12, <1>13, <1>14, <1>15, <1>16, <1>17 DEF e, LoadedWell

-----------------------------------------------------------------------------
(* The kinds of files and of processes are told apart by their fields.     *)
LEMMA Told ==
  /\ ~Whole(Absent) /\ ~Whole(Torn) /\ Absent # Torn /\ NoProc.at = "none" /\ Absent \in Files /\ Torn \in Files
  /\ \A m \in Models : Whole(m) /\ m # Torn /\ m \in Files
  /\ \A f \in Files : Whole(f) => f \in Models
  /\ \A p \in Runs : p.at \in Ats /\ p.at # "none" /\ p # NoProc
BY DEF Absent, Torn, NoProc, Models, Files, Whole, Runs, Ats

(* A run that has just loaded a model has what LoadedAsSaved promises.     *)
LEMMA StartedWell ==
  ASSUME NEW f \in Models, HeaderSays(f), NEW user \in CommandLines,
         Started(user, Merged(user, f.header), f)
  PROVE  (modelProc' = NoProc \/ (modelProc' \in Runs /\ modelProc'.at = "loaded")) /\ LoadedAsSaved'
<1> DEFINE opts == Merged(user, f.header)
           prg == IF opts["seed"] = << >> THEN 0 ELSE opts["seed"][1]
           p == [at |-> "loaded", opts |-> opts, user |-> user, from |-> f, prg |-> prg]
<1>1. modelProc' = IF Disagree(opts) THEN NoProc ELSE p BY DEF Started
<1>2. CASE Disagree(opts)
  <2>1. modelProc' = NoProc BY <1>1, <1>2
  <2> QED BY <2>1, Told DEF LoadedAsSaved
<1>3. CASE ~Disagree(opts)
  <2> DEFINE now == InEffect(opts)
  <2>0. LoadedWell(f, user, opts, prg)
    <3>1. opts = Merged(user, f.header) /\ (prg = IF opts["seed"] = << >> THEN 0 ELSE opts["seed"][1]) OBVIOUS
    <3> HIDE DEF opts, prg
    <3> QED BY <1>3, <3>1, LoadsWell
  <2>2. user \in Settings BY GivenOnce
  <2> HIDE DEF opts, prg
  <2>1. /\ opts \in Settings /\ prg \in Nat
        /\ user["seed"] = << >> => prg = f.prg
        /\ f.trainedWith["bits"] = << >> \/ now["bits"] = f.trainedWith["bits"]
        /\ ToSet(now["ignore"]) = ToSet(user["ignore"]) \union ToSet(f.trainedWith["ignore"])
        /\ user["ignore"] = << >> => ToSet(now["ignore"]) = ToSet(f.trainedWith["ignore"])
        /\ \A k \in {"fixed", "override", "many", "inter"} :
             user[k] = << >> => now[k] = f.trainedWith[k]
        /\ \A k \in {"override", "inter"} : user[k] # << >> => now[k] = user[k]
        /\ \A k \in {"fixed", "many"} : user[k] # << >> =>
             ToSet(now[k]) = ToSet(user[k]) \union ToSet(f.trainedWith[k])
    BY <2>0 DEF LoadedWell
  <2>3. modelProc' = p BY <1>1, <1>3
  <2>4. p \in Runs BY <2>1, <2>2, Told DEF Runs, Ats
  <2>5. /\ modelProc'.at = "loaded" /\ modelProc'.opts = opts /\ modelProc'.user = user
        /\ modelProc'.from = f /\ modelProc'.prg = prg
    BY <2>3
  <2> HIDE DEF p, now
  <2>6. LoadedAsSaved'
    <3> SUFFICES ASSUME NEW k \in Kinds \ (NotKept \union {"seed"})
                 PROVE  CASE k = "bits" -> f.trainedWith[k] = << >> \/ now[k] = f.trainedWith[k]
                          [] k = "ignore" /\ ~(user[k] # << >>) -> ToSet(now[k]) = ToSet(f.trainedWith[k])
                          [] k \notin {"bits", "ignore"} /\ ~(user[k] # << >>) -> now[k] = f.trainedWith[k]
                          [] k \in {"override", "inter"} /\ user[k] # << >> -> now[k] = user[k]
                          [] OTHER -> ToSet(now[k]) = ToSet(user[k]) \union ToSet(f.trainedWith[k])
      BY <2>1, <2>5 DEF LoadedAsSaved, now
    <3>1. k \in {"fixed", "override", "bits", "many", "inter", "ignore"} BY DEF Kinds, Scalars, Lists, NotKept
    <3>2. CASE k = "bits" BY <2>1, <3>2
    <3>3. CASE k = "ignore" /\ user[k] = << >> BY <2>1, <3>3
    <3>4. CASE k = "ignore" /\ user[k] # << >> BY <2>1, <3>4
    <3>5. CASE k \in {"fixed", "override", "many", "inter"} /\ user[k] = << >> BY <2>1, <3>5
    <3>6. CASE k \in {"override", "inter"} /\ user[k] # << >> BY <2>1, <3>6
    <3>7. CASE k \in {"fixed", "many"} /\ user[k] # << >> BY <2>1, <3>7
    <3> QED BY <3>1, <3>2, <3>3, <3>4, <3>5, <3>6, <3>7
  <2> QED BY <2>3, <2>4, <2>5, <2>6
<1> QED BY <1>2, <1>3

(* A fresh run starts from no model.                                       *)
LEMMA FreshWell ==
  ASSUME NEW user \in CommandLines, Started(user, user, Absent)
  PROVE  (modelProc' = NoProc \/ (modelProc' \in Runs /\ modelProc'.at = "loaded")) /\ LoadedAsSaved'
<1> DEFINE prg == IF user["seed"] = << >> THEN 0 ELSE user["seed"][1]
           p == [at |-> "loaded", opts |-> user, user |-> user, from |-> Absent, prg |-> prg]
<1>1. modelProc' = IF Disagree(user) THEN NoProc ELSE p BY DEF Started
<1>2. user \in Settings BY GivenOnce
<1>3. prg \in Nat
  <2>1. user["seed"] \in Seq(Nat) BY <1>2 DEF Settings, Kinds, Scalars
  <2>2. user["seed"] # << >> => user["seed"][1] \in Nat BY <2>1
  <2> QED BY <2>2
<1> HIDE DEF prg
<1>4. p \in Runs /\ p.at = "loaded" /\ p.from = Absent BY <1>2, <1>3, Told DEF Runs, Ats
<1> HIDE DEF p
<1> QED BY <1>1, <1>4, Told DEF LoadedAsSaved

(* Every run of the program leaves the files and the process as the        *)
(* invariant says.                                                         *)
LEMMA ModelStep == ASSUME ModelInv, [ModelNext]_modelVars PROVE ModelInv'
<1> USE Told
<1>1. CASE StartFresh
  <2>1. PICK user \in CommandLines : Started(user, user, Absent) BY <1>1 DEF StartFresh
  <2>2. (modelProc' = NoProc \/ (modelProc' \in Runs /\ modelProc'.at = "loaded")) /\ LoadedAsSaved' BY <2>1, FreshWell
  <2>3. modelProc = NoProc /\ UNCHANGED <<modelName, modelWriting, crashCount, everSaved>> BY <1>1 DEF StartFresh
  <2> QED BY <2>2, <2>3 DEF ModelInv, GoodFile
<1>2. CASE StartLoading
  <2>1. PICK user \in CommandLines : Started(user, Merged(user, modelName.header), modelName) BY <1>2 DEF StartLoading
  <2>2. modelProc = NoProc /\ UNCHANGED <<modelName, modelWriting, crashCount, everSaved>> /\ Whole(modelName) BY <1>2 DEF StartLoading
  <2>3. modelName \in Models /\ HeaderSays(modelName) BY <2>2 DEF ModelInv, GoodFile
  <2>4. (modelProc' = NoProc \/ (modelProc' \in Runs /\ modelProc'.at = "loaded")) /\ LoadedAsSaved'
    BY <2>1, <2>3, StartedWell
  <2> QED BY <2>2, <2>4 DEF ModelInv, GoodFile
<1>3. CASE Train
  <2>1. PICK drawn \in Seeds : modelProc' = [modelProc EXCEPT !.at = "trained", !.prg = drawn] BY <1>3 DEF Train
  <2>2. modelProc.at = "loaded" /\ UNCHANGED <<modelName, modelWriting, crashCount, everSaved>> BY <1>3 DEF Train
  <2>3. modelProc \in Runs /\ drawn \in Nat BY <2>2, KindsAssumption DEF ModelInv
  <2>4. modelProc' \in Runs /\ modelProc'.at = "trained" BY <2>1, <2>3 DEF Runs, Ats
  <2>5. LoadedAsSaved' BY <2>4 DEF LoadedAsSaved
  <2> QED BY <2>2, <2>4, <2>5 DEF ModelInv, GoodFile
<1>4. CASE OpenWriting
  <2>1. modelProc.at = "trained" /\ modelWriting' = Torn /\ UNCHANGED <<modelName, crashCount, everSaved>> BY <1>4 DEF OpenWriting
  <2>2. modelProc \in Runs BY <2>1 DEF ModelInv
  <2>3. modelProc' \in Runs /\ modelProc'.at = "opened" BY <1>4, <2>2 DEF OpenWriting, Runs, Ats
  <2>4. LoadedAsSaved' BY <2>3 DEF LoadedAsSaved
  <2> QED BY <2>1, <2>3, <2>4 DEF ModelInv, GoodFile
<1>5. CASE WriteModel
  <2>1. modelProc.at = "opened" /\ modelWriting' = ModelOf(modelProc) /\ UNCHANGED <<modelName, crashCount, everSaved>> BY <1>5 DEF WriteModel
  <2>2. modelProc \in Runs BY <2>1 DEF ModelInv
  <2>3. modelProc' \in Runs /\ modelProc'.at = "written" BY <1>5, <2>2 DEF WriteModel, Runs, Ats
  <2>4. LoadedAsSaved' BY <2>3 DEF LoadedAsSaved
  <2>5. modelWriting' \in Models /\ HeaderSays(modelWriting') BY <2>1, <2>2, SavedSays
  <2> QED BY <2>1, <2>3, <2>4, <2>5 DEF ModelInv, GoodFile
<1>6. CASE RemoveOldModel
  <2>1. modelProc.at = "written" /\ modelName' = Absent /\ UNCHANGED <<modelWriting, crashCount, everSaved>>
    BY <1>6 DEF RemoveOldModel, RemovesAt
  <2>2. modelProc \in Runs BY <2>1 DEF ModelInv
  <2>3. modelProc' \in Runs /\ modelProc'.at = "removed" BY <1>6, <2>2 DEF RemoveOldModel, Runs, Ats
  <2>4. LoadedAsSaved' BY <2>3 DEF LoadedAsSaved
  <2> QED BY <2>1, <2>3, <2>4 DEF ModelInv, GoodFile
<1>7. CASE RenameNewModel
  <2>1. /\ modelProc.at = "removed" /\ modelName' = modelWriting /\ modelWriting' = Absent
        /\ modelProc' = NoProc /\ UNCHANGED crashCount
    BY <1>7 DEF RenameNewModel
  <2>2. LoadedAsSaved' BY <2>1 DEF LoadedAsSaved
  <2> QED BY <2>1, <2>2 DEF ModelInv, GoodFile
<1>8. CASE CrashRun
  <2>1. modelProc' = NoProc /\ crashCount' = crashCount + 1 /\ UNCHANGED <<modelName, modelWriting, everSaved>> BY <1>8 DEF CrashRun
  <2>2. LoadedAsSaved' BY <2>1 DEF LoadedAsSaved
  <2>3. crashCount' \in Nat /\ crashCount' # 0 BY <2>1 DEF ModelInv
  <2> QED BY <2>1, <2>2, <2>3 DEF ModelInv, GoodFile
<1>9. CASE UNCHANGED modelVars BY <1>9 DEF ModelInv, GoodFile, LoadedAsSaved, modelVars
<1> QED BY <1>1, <1>2, <1>3, <1>4, <1>5, <1>6, <1>7, <1>8, <1>9 DEF ModelNext

(* Over any chain of runs, with a process ending at any point of any save, *)
(* the file under the model's name is never a partial one, a whole model   *)
(* stays on disk, and a run that loads it trains with what it was saved    *)
(* with (save_load_header, dump_regressor).                                *)
THEOREM ModelAsSaved == ModelSpec => []ModelFaithful
<1>1. ModelInit => ModelInv BY Told DEF ModelInit, ModelInv, GoodFile, LoadedAsSaved
<1>2. ModelInv /\ [ModelNext]_modelVars => ModelInv' BY ModelStep
<1>3. ModelInv => ModelFaithful BY Told DEF ModelInv, ModelFaithful, ModelOnDisk
<1> QED BY <1>1, <1>2, <1>3, PTL DEF ModelSpec
=============================================================================
