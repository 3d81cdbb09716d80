----------------------------- MODULE CacheFiles -----------------------------
(***************************************************************************)
(* The cache file of vw processes that read the same data (parse_cache,    *)
(* make_write_cache and reset_source, parser.cc).  A process uses the      *)
(* cache that is there, or writes name.writing in its first pass, removes  *)
(* name, renames name.writing to name, and reads it in the other passes.   *)
(*                                                                         *)
(* A file is an inode that names and open descriptors refer to.  Processes *)
(* may be killed between any two system calls, and others started.         *)
(***************************************************************************)
EXTENDS Integers, FiniteSets

CONSTANTS
  Proc,        \* the processes, in the order in which they may begin
  Bits,        \* the values of -b in use
  NumExamples, \* examples in the data
  NumPasses    \* --passes

ASSUME CacheAssumption ==
  /\ IsFiniteSet(Proc) /\ Bits \subseteq Nat /\ NumExamples \in Nat /\ NumPasses \in Nat \ {0}

Nothing == 0
Inode == 1 .. 2 * Cardinality(Proc)
Names == {"name", "name.writing"}

VARIABLES
  dir,        \* dir[n]: the inode of a name, or Nothing
  file,       \* file[i]: [bits, examples] that have reached the file
  clash,      \* two processes have been between creating and renaming at once
  cpc,        \* where each process is
  num_bits,   \* its -b
  infile,     \* the inode it reads its examples from; Nothing: the data itself
  outnode,    \* the inode it writes, or Nothing
  unflushed,  \* examples it has written that are still in its buffer
  learned,    \* examples learned in this pass
  passes      \* passes begun

cacheVars == <<dir, file, clash, cpc, num_bits, infile, outnode, unflushed, learned, passes>>

CacheInit ==
  /\ dir = [n \in Names |-> Nothing]
  /\ file = [i \in Inode |-> [bits |-> 0, examples |-> 0]]
  /\ clash = FALSE /\ cpc = [p \in Proc |-> "start"]
  /\ num_bits = [p \in Proc |-> 0] /\ infile = [p \in Proc |-> Nothing]
  /\ outnode = [p \in Proc |-> Nothing] /\ unflushed = [p \in Proc |-> 0]
  /\ learned = [p \in Proc |-> 0] /\ passes = [p \in Proc |-> 1]

Writes(p) == outnode[p] # Nothing
Claims(p) == Writes(p) \/ cpc[p] = "rename"
InUse(i) == (\E n \in Names : dir[n] = i) \/ (\E p \in Proc : infile[p] = i \/ outnode[p] = i)
NewInode == CHOOSE i \in Inode : ~InUse(i)
Goto(p, label) == cpc' = [cpc EXCEPT ![p] = label]

-----------------------------------------------------------------------------
(* parse_cache: the cache that is there is used unless kill_cache is given *)
(* or it was made with fewer bits.                                         *)
Usable_Slip(i, bits) == file[i].bits <= bits
Usable(i, bits) == file[i].bits >= bits

OpenCache(p) ==
  /\ cpc[p] = "start"
  /\ \E bits \in Bits, kill_cache \in BOOLEAN :
       /\ num_bits' = [num_bits EXCEPT ![p] = bits]
       /\ IF ~kill_cache /\ dir["name"] # Nothing /\ Usable(dir["name"], bits)
          THEN infile' = [infile EXCEPT ![p] = dir["name"]] /\ Goto(p, "learn")
          ELSE Goto(p, "create") /\ UNCHANGED infile
  /\ UNCHANGED <<dir, file, clash, outnode, unflushed, learned, passes>>

(* make_write_cache opens name.writing, or empties the one that is there,  *)
(* and writes the header.                                                  *)
CreateCache(p) ==
  /\ cpc[p] = "create"
  /\ LET i == IF dir["name.writing"] = Nothing THEN NewInode ELSE dir["name.writing"]
     IN /\ dir' = [dir EXCEPT !["name.writing"] = i]
        /\ outnode' = [outnode EXCEPT ![p] = i]
        /\ file' = [file EXCEPT ![i] = [bits |-> num_bits[p], examples |-> 0]]
        /\ clash' = (clash \/ \E q \in Proc \ {p} : Claims(q))
  /\ Goto(p, "learn")
  /\ UNCHANGED <<num_bits, infile, unflushed, learned, passes>>

(* Without a cache file there is only one pass.                            *)
CannotCreate(p) ==
  /\ cpc[p] = "create" /\ Goto(p, IF NumPasses > 1 THEN "threw" ELSE "learn")
  /\ UNCHANGED <<dir, file, clash, num_bits, infile, outnode, unflushed, learned, passes>>

Size(p) == IF infile[p] = Nothing THEN NumExamples ELSE file[infile[p]].examples

(* An example is read and, in the first pass, written to the cache.        *)
LearnExample(p) ==
  /\ cpc[p] = "learn" /\ learned[p] < Size(p)
  /\ learned' = [learned EXCEPT ![p] = @ + 1]
  /\ unflushed' = [unflushed EXCEPT ![p] = IF Writes(p) THEN @ + 1 ELSE 0]
  /\ UNCHANGED <<dir, file, clash, cpc, num_bits, infile, outnode, passes>>

(* The buffer is flushed when it is full, and at the end of the pass.      *)
FlushTo(p) == [file EXCEPT ![outnode[p]].examples = @ + unflushed[p]]
BufferFull(p) ==
  /\ cpc[p] = "learn" /\ Writes(p) /\ unflushed[p] > 0
  /\ file' = FlushTo(p) /\ unflushed' = [unflushed EXCEPT ![p] = 0]
  /\ UNCHANGED <<dir, clash, cpc, num_bits, infile, outnode, learned, passes>>

-----------------------------------------------------------------------------
(* reset_source at the end of a pass.                                      *)
FlushedAtEnd_Slip(p) == file
FlushedAtEnd(p) == FlushTo(p)

EndPass(p) ==
  /\ cpc[p] = "learn" /\ learned[p] = Size(p)
  /\ IF Writes(p)
     THEN /\ file' = FlushedAtEnd(p) /\ unflushed' = [unflushed EXCEPT ![p] = 0]
          /\ Goto(p, "remove")
     ELSE Goto(p, "check") /\ UNCHANGED <<file, unflushed>>
  /\ UNCHANGED <<dir, clash, num_bits, infile, outnode, learned, passes>>

RemoveOld(p) ==
  /\ cpc[p] = "remove" /\ Goto(p, "rename")
  /\ dir' = [dir EXCEPT !["name"] = Nothing]
  /\ outnode' = [outnode EXCEPT ![p] = Nothing]
  /\ UNCHANGED <<file, clash, num_bits, infile, unflushed, learned, passes>>

RenameNew(p) ==
  /\ cpc[p] = "rename"
  /\ \/ /\ dir["name.writing"] # Nothing
        /\ dir' = [n \in Names |-> IF n = "name" THEN dir["name.writing"] ELSE Nothing]
        /\ Goto(p, "reopen")
     \/ dir["name.writing"] = Nothing /\ Goto(p, "threw") /\ UNCHANGED dir
  /\ UNCHANGED <<file, clash, num_bits, infile, outnode, unflushed, learned, passes>>

Reopen(p) ==
  /\ cpc[p] = "reopen"
  /\ infile' = [infile EXCEPT ![p] = dir["name"]]
  /\ Goto(p, IF dir["name"] = Nothing THEN "threw" ELSE "check")
  /\ UNCHANGED <<dir, file, clash, num_bits, outnode, unflushed, learned, passes>>

(* The header is read again before every pass.                             *)
BitsChecked_Slip(p) == TRUE
BitsChecked(p) == infile[p] = Nothing \/ file[infile[p]].bits >= num_bits[p]

CheckBits(p) ==
  /\ cpc[p] = "check"
  /\ Goto(p, IF ~BitsChecked(p) THEN "threw"
           ELSE IF passes[p] < NumPasses THEN "learn" ELSE "done")
  /\ passes' = [passes EXCEPT ![p] = IF BitsChecked(p) /\ @ < NumPasses THEN @ + 1 ELSE @]
  /\ learned' = [learned EXCEPT ![p] =
                   IF BitsChecked(p) /\ passes[p] < NumPasses THEN 0 ELSE @]
  /\ UNCHANGED <<dir, file, clash, num_bits, infile, outnode, unflushed>>

(* The process ends and its descriptors are closed.                        *)
Over == {"done", "threw", "killed"}
KillProcess(p) ==
  /\ cpc[p] \notin Over \union {"start"} /\ Goto(p, "killed")
  /\ outnode' = [outnode EXCEPT ![p] = Nothing]
  /\ infile' = [infile EXCEPT ![p] = Nothing]
  /\ unflushed' = [unflushed EXCEPT ![p] = 0]
  /\ UNCHANGED <<dir, file, clash, num_bits, learned, passes>>

CacheStep(p) ==
  \/ OpenCache(p) \/ CreateCache(p) \/ CannotCreate(p) \/ LearnExample(p) \/ BufferFull(p)
  \/ EndPass(p) \/ RemoveOld(p) \/ RenameNew(p) \/ Reopen(p) \/ CheckBits(p)

CacheNext == \E p \in Proc : CacheStep(p) \/ KillProcess(p)

CacheSpec == CacheInit /\ [][CacheNext]_cacheVars

-----------------------------------------------------------------------------
(* As long as two processes have not written the cache at the same time,   *)
(* the file under its final name is a whole cache, whoever was killed      *)
(* where: a reader never takes the beginning of the data for all of it.    *)
CacheWhole ==
  ~clash /\ dir["name"] # Nothing => file[dir["name"]].examples = NumExamples

(* Every pass of a process learns all examples, also while another process *)
(* removes the cache it reads and puts a new one in its place.             *)
EveryPassWhole ==
  ~clash => \A p \in Proc : cpc[p] \in {"check", "done"} => learned[p] = NumExamples

(* No process learns from a cache whose hashes have fewer bits than it     *)
(* was asked for, although the file may have been replaced by a process    *)
(* with another -b between its rename and its open.                        *)
EnoughBits ==
  \A p \in Proc : cpc[p] = "learn" /\ infile[p] # Nothing =>
    file[infile[p]].bits >= num_bits[p]

(* A cache that is found under its final name is whole and was made with   *)
(* enough bits, for every pass of every process that uses it, as long as   *)
(* no two processes write it at once, whoever is killed between the file   *)
(* operations of make_write_cache, parse_cache and reset_source.           *)
CacheSafe ==
  /\ CacheWhole
  /\ EveryPassWhole
  /\ EnoughBits
=============================================================================
