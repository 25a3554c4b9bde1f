---------------------------- MODULE SessionStore ----------------------------
(***************************************************************************)
(* One session of the storage-jsonl store (session.rs) and the CLI routes  *)
(* that use it (cli/src/session.rs): a data file `<id>.jsonl`, its lock    *)
(* sibling `<id>.jsonl.lock`, and processes that mint, fork into, resume,  *)
(* copy, compact and remove the session, or die doing so.                  *)
(*                                                                         *)
(* What the code relies on is that the lock is on an inode and the session *)
(* is a pair of names.  So both names lead to inodes here: a name that was *)
(* unlinked leaves its inode to whoever has it open.  Every system call    *)
(* that another process can see, or whose answer another process can       *)
(* change, is one action; what runs under the flock with nothing but the   *)
(* holder's own effects is one action.                                     *)
(***************************************************************************)
EXTENDS Naturals, FiniteSets, Sequences, SequencesExt

CONSTANTS
  Procs,         \* processes; each makes one store call at a time
  Environments,  \* what may happen in one behaviour: sets of Hazard, see below
  MaxInodes,     \* bound on the inodes each name ever leads to
  MaxWrites,     \* bound on the record lines ever written
  Copied         \* how many records create_fork copies

(* create: a process may make the session (a mint, or a fork into it).     *)
(* remove: `sessions rm`.  compact: SessionStore::compact.  unmount: the   *)
(* mount after a route's open may fail.  crash: a process may die at any   *)
(* point.  cut: a write may fail part-way (ENOSPC, EIO).  early: others    *)
(* name the session before its creator has its lock.  alone: one process   *)
(* at a time.                                                              *)
Hazard == {"create", "remove", "compact", "unmount", "crash", "cut", "early", "alone"}

Nobody == "nobody"

ASSUME SessionStoreAssumption ==
  /\ Environments \subseteq SUBSET Hazard
  /\ Nobody \notin Procs
  /\ MaxInodes \in Nat \ {0} /\ MaxWrites \in Nat /\ Copied \in 0..MaxWrites

VARIABLES
  env,      \* what may happen in this behaviour; never changes
  name,     \* the data inode `<id>.jsonl` leads to, 0 when it is missing
  sib,      \* the lock inode the sibling leads to, 0 when it is missing
  file,     \* content of each data inode
  flock,    \* who holds the flock of each lock inode
  inodes,   \* how many data and lock inodes were made
  writes,   \* how many record lines were written
  pc,       \* where each process is
  goal,     \* the call it is in
  lfd,      \* the lock inode it has open, 0 for none
  dfd,      \* the data inode it has open, 0 for none
  log,      \* the records in its memory (StoredLog, then SessionLog)
  acked     \* history: the record lines whose append returned Ok

names == <<name, sib>>
vars == <<env, name, sib, file, flock, inodes, writes, pc, goal, lfd, dfd, log, acked>>

DataInodes == 1..MaxInodes
LockInodes == 1..MaxInodes

(* A record line: the position the log gave it, which write it was, whose. *)
Line == [pos : 0..MaxWrites, id : 1..MaxWrites, by : Procs \cup {Nobody}]

(* torn: an unterminated segment at the end.  bad: a terminated line that  *)
(* does not parse, so that every load is session-corrupt.                  *)
Content == [lines : Seq(Line), torn : BOOLEAN, bad : BOOLEAN]
Empty   == [lines |-> <<>>, torn |-> FALSE, bad |-> FALSE]

Goal == {"mint", "fork", "resume", "copy", "compact", "rm", "none"}

(* Mounted: the process owns a SessionWriter. *)
WriterPc == {"fill", "mounting", "writing"}
Pc == WriterPc \cup {"idle", "load", "exists", "open", "flock", "inspect",
        "read", "rewrite", "rename", "probe", "fence", "stat", "reprobe", "refence",
        "unlinkSib", "unlinkData", "dropData", "dropSib"}

TypeOK ==
  /\ env \in Environments
  /\ name \in 0..MaxInodes /\ sib \in 0..MaxInodes
  /\ \A d \in DataInodes : file[d] \in Content
  /\ flock \in [LockInodes -> Procs \cup {Nobody}]
  /\ inodes \in [data : 0..MaxInodes, lock : 0..MaxInodes]
  /\ writes \in 0..MaxWrites
  /\ pc \in [Procs -> Pc] /\ goal \in [Procs -> Goal]
  /\ lfd \in [Procs -> 0..MaxInodes] /\ dfd \in [Procs -> 0..MaxInodes]
  /\ \A p \in Procs : log[p] \in Seq(Line)
  /\ acked \subseteq 1..MaxWrites

(* A session at rest that an earlier run created and closed. *)
AtRest == [Empty EXCEPT !.lines = [i \in 1..Copied |->
                                        [pos |-> i - 1, id |-> i, by |-> Nobody]]]

Init ==
  /\ env \in Environments
  /\ \/ /\ "create" \in env
        /\ name = 0 /\ sib = 0
        /\ file = [d \in DataInodes |-> Empty]
        /\ inodes = [data |-> 0, lock |-> 0]
        /\ writes = 0
     \/ /\ name = 1 /\ sib = 1
        /\ file = [d \in DataInodes |-> IF d = 1 THEN AtRest ELSE Empty]
        /\ inodes = [data |-> 1, lock |-> 1]
        /\ writes = Copied
  /\ flock = [l \in LockInodes |-> Nobody]
  /\ pc = [p \in Procs |-> "idle"]
  /\ goal = [p \in Procs |-> "none"]
  /\ lfd = [p \in Procs |-> 0]
  /\ dfd = [p \in Procs |-> 0]
  /\ log = [p \in Procs |-> <<>>]
  /\ acked = {}

----------------------------------------------------------------------------
(* Steps of a process.                                                     *)

Goto(p, l) == pc' = [pc EXCEPT ![p] = l]

(* The call returns: its descriptors are dropped, and with them its flock. *)
Release(p) ==
  [l \in LockInodes |-> IF flock[l] = p THEN Nobody ELSE flock[l]]

Return(p) ==
  /\ Goto(p, "idle")
  /\ flock' = Release(p)
  /\ goal' = [goal EXCEPT ![p] = "none"]
  /\ lfd' = [lfd EXCEPT ![p] = 0]
  /\ dfd' = [dfd EXCEPT ![p] = 0]
  /\ log' = [log EXCEPT ![p] = <<>>]

(* The step changes nothing of p but its place. *)
Walk(p, l) == Goto(p, l) /\ UNCHANGED <<flock, goal, lfd, dfd, log>>

Begin(p, g, l) ==
  /\ pc[p] = "idle"
  /\ "alone" \in env => \A q \in Procs : pc[q] = "idle"
  /\ goal' = [goal EXCEPT ![p] = g]
  /\ Goto(p, l)

Disk == <<name, sib, file, inodes, writes, acked>>

(* load_tolerant: a missing file is None, a bad line is session-corrupt;   *)
(* load also refuses a torn tail.                                          *)
Parses == name # 0 /\ ~file[name].bad
Loads  == Parses /\ ~file[name].torn

----------------------------------------------------------------------------
(* FileLock::acquire                                                       *)

(* open(create): the sibling is made when it is missing.  With no inode    *)
(* left (MaxInodes) the open fails.                                        *)
OpenSibling(p) ==
  /\ pc[p] = "open"
  /\ \/ /\ sib # 0
        /\ lfd' = [lfd EXCEPT ![p] = sib]
        /\ Goto(p, "flock")
        /\ UNCHANGED <<sib, inodes, flock, goal, dfd, log>>
     \/ /\ sib = 0 /\ inodes.lock < MaxInodes
        /\ inodes' = [inodes EXCEPT !.lock = @ + 1]
        /\ sib' = inodes.lock + 1
        /\ lfd' = [lfd EXCEPT ![p] = inodes.lock + 1]
        /\ Goto(p, "flock")
        /\ UNCHANGED <<flock, goal, dfd, log>>
     \/ /\ sib = 0 /\ inodes.lock = MaxInodes
        /\ Return(p)
        /\ UNCHANGED <<sib, inodes>>
  /\ UNCHANGED <<name, file, writes, acked>>

(* Where a call goes on once it has the lock. *)
Locked(g) ==
  CASE g = "mint"    -> "mounting"
    [] g = "fork"    -> "fill"
    [] g = "resume"  -> "inspect"
    [] g = "copy"    -> "read"
    [] g = "compact" -> "rewrite"

(* A plausible slip: the would-block is not an error. *)
TakeFlockAnyway(p) ==
  /\ pc[p] = "flock"
  /\ flock' = [flock EXCEPT ![lfd[p]] = p]
  /\ Goto(p, Locked(goal[p]))
  /\ UNCHANGED <<goal, lfd, dfd, log>> /\ UNCHANGED Disk

(* flock(LOCK_EX | LOCK_NB) on the inode that was opened. *)
TakeFlock(p) ==
  /\ pc[p] = "flock"
  /\ IF flock[lfd[p]] = Nobody
     THEN /\ flock' = [flock EXCEPT ![lfd[p]] = p]
          /\ Goto(p, Locked(goal[p]))
          /\ UNCHANGED <<goal, lfd, dfd, log>>
     ELSE Return(p)
  /\ UNCHANGED Disk

----------------------------------------------------------------------------
(* create_new and create_fork                                              *)

(* O_EXCL create of a freshly minted id; the id was never used before. *)
Create(p, g) ==
  /\ "create" \in env /\ g \in {"mint", "fork"}
  /\ name = 0 /\ inodes.data = 0
  /\ Begin(p, g, "open")
  /\ inodes' = [inodes EXCEPT !.data = 1]
  /\ name' = 1
  /\ dfd' = [dfd EXCEPT ![p] = 1]
  /\ UNCHANGED <<sib, file, flock, writes, lfd, log, acked>>

NextLine(p) == [pos |-> Len(log[p]), id |-> writes + 1, by |-> p]

(* A line at the end of the file; after a torn segment it closes it.       *)
AddLine(c, line) ==
  IF c.torn THEN [c EXCEPT !.torn = FALSE, !.bad = TRUE]
            ELSE [c EXCEPT !.lines = Append(@, line)]

(* create_new does not open for append: its writer goes on where its own   *)
(* last line ended, over whatever someone else put there.                  *)
Overwrites(p) ==
  /\ goal[p] \in {"mint", "fork"}
  /\ \E i \in DOMAIN file[dfd[p]].lines : file[dfd[p]].lines[i].by # p

PutLine(p) ==
  IF Overwrites(p)
  THEN \E broken \in BOOLEAN :
         file' = [file EXCEPT
           ![dfd[p]].lines = Append(SelectSeq(@, LAMBDA l : l.by = p), NextLine(p)),
           ![dfd[p]].bad = broken]
  ELSE file' = [file EXCEPT ![dfd[p]] = AddLine(@, NextLine(p))]

(* write_line that succeeds: write_all, flush, sync_all. *)
WriteLine(p) ==
  /\ writes < MaxWrites
  /\ writes' = writes + 1
  /\ PutLine(p)
  /\ log' = [log EXCEPT ![p] = Append(@, NextLine(p))]

(* write_line cut short, by an error or by the end of the process: nothing *)
(* reached the file, or part of a line, or the line without its sync.      *)
CutLine(p) ==
  \/ UNCHANGED <<file, writes>>
  \/ file' = [file EXCEPT ![dfd[p]].torn = TRUE] /\ UNCHANGED writes
  \/ /\ writes < MaxWrites
     /\ writes' = writes + 1
     /\ PutLine(p)

(* create_fork copies the source's records and the boundary; an error is   *)
(* passed up and only drops the writer.                                    *)
FillFork(p) ==
  /\ pc[p] = "fill" /\ Len(log[p]) < Copied
  /\ WriteLine(p)
  /\ UNCHANGED <<name, sib, flock, inodes, pc, goal, lfd, dfd, acked>>

FillFails(p) ==
  /\ "cut" \in env /\ pc[p] = "fill" /\ Len(log[p]) < Copied
  /\ CutLine(p) /\ Return(p)
  /\ UNCHANGED <<name, sib, inodes, acked>>

(* The fork route seeds itself from the target's own file. *)
FillDone(p) ==
  /\ pc[p] = "fill" /\ Len(log[p]) = Copied
  /\ IF Loads
     THEN /\ log' = [log EXCEPT ![p] = file[name].lines]
          /\ Goto(p, "mounting")
          /\ UNCHANGED <<flock, goal, lfd, dfd>>
     ELSE Return(p)
  /\ UNCHANGED Disk

----------------------------------------------------------------------------
(* The routes that open an existing session                                *)

(* An id is known to others once its mint is done, or earlier from the     *)
(* directory.                                                              *)
Known ==
  \/ "early" \in env
  \/ /\ inodes.data # 0
     /\ \A q \in Procs :
          goal[q] \in {"mint", "fork"} => pc[q] \notin {"open", "flock"}

(* A resume starts with the unlocked load; read_locked (a fork's source)   *)
(* and compact start with the check that the file is there.                *)
CallExisting(p, g) ==
  /\ g \in {"resume", "copy"} \/ (g = "compact" /\ "compact" \in env)
  /\ Known
  /\ Begin(p, g, IF g = "resume" THEN "load" ELSE "exists")
  /\ UNCHANGED <<flock, lfd, dfd, log>> /\ UNCHANGED Disk

(* open_session(resume): store.load before any lock is taken. *)
ResumeLoad(p) ==
  /\ pc[p] = "load"
  /\ IF Loads
     THEN /\ log' = [log EXCEPT ![p] = file[name].lines]
          /\ Goto(p, "exists")
          /\ UNCHANGED <<flock, goal, lfd, dfd>>
     ELSE Return(p)
  /\ UNCHANGED Disk

(* path.exists(), before the lock. *)
Exists(p) ==
  /\ pc[p] = "exists"
  /\ IF name # 0 THEN Walk(p, "open") ELSE Return(p)
  /\ UNCHANGED Disk

(* A plausible slip: the torn tail is not truncated. *)
InspectOnly(p) ==
  /\ pc[p] = "inspect"
  /\ IF Parses
     THEN /\ dfd' = [dfd EXCEPT ![p] = name]
          /\ Goto(p, "mounting")
          /\ UNCHANGED <<flock, goal, lfd, log>>
     ELSE Return(p)
  /\ UNCHANGED Disk

(* open_existing under the lock: load_tolerant by name, open for append by *)
(* name, truncate to the good prefix.                                      *)
Inspect(p) ==
  /\ pc[p] = "inspect"
  /\ IF Parses
     THEN /\ dfd' = [dfd EXCEPT ![p] = name]
          /\ file' = [file EXCEPT ![name].torn = FALSE]
          /\ Goto(p, "mounting")
          /\ UNCHANGED <<flock, goal, lfd, log>>
     ELSE Return(p) /\ UNCHANGED file
  /\ UNCHANGED <<name, sib, inodes, writes, acked>>

(* read_locked: load under the lock, then the guard goes. *)
Read(p) == pc[p] = "read" /\ Return(p) /\ UNCHANGED Disk

(* compact: load under the lock and write the snapshot beside the file,    *)
(* which fails when no inode is left ...                                   *)
Rewrite(p) ==
  /\ pc[p] = "rewrite"
  /\ IF Loads /\ inodes.data < MaxInodes
     THEN /\ log' = [log EXCEPT ![p] = file[name].lines]
          /\ Goto(p, "rename")
          /\ UNCHANGED <<flock, goal, lfd, dfd>>
     ELSE Return(p)
  /\ UNCHANGED Disk

(* ... and rename it over the name: the name leads to a new inode. *)
Rename(p) ==
  /\ pc[p] = "rename" /\ inodes.data < MaxInodes
  /\ inodes' = [inodes EXCEPT !.data = @ + 1]
  /\ name' = inodes.data + 1
  /\ file' = [file EXCEPT ![inodes.data + 1] = [Empty EXCEPT !.lines = log[p]]]
  /\ Return(p)
  /\ UNCHANGED <<sib, writes, acked>>

----------------------------------------------------------------------------
(* The mounted writer                                                      *)

MountOk(p) ==
  /\ pc[p] = "mounting"
  /\ Walk(p, "writing")
  /\ UNCHANGED Disk

(* A resumed file is left alone: the writer is dropped. *)
MountFailsOnResume(p) ==
  /\ "unmount" \in env /\ pc[p] = "mounting" /\ goal[p] = "resume"
  /\ Return(p) /\ UNCHANGED Disk

(* A plausible slip: the created file is left alone, like a resumed one. *)
MountFailsOnCreatedKept(p) ==
  /\ "unmount" \in env /\ pc[p] = "mounting" /\ goal[p] \in {"mint", "fork"}
  /\ Return(p) /\ UNCHANGED Disk

(* A created file is abandoned: by SessionWriter::abandon, which drops the *)
(* lock first, when the mount never took the writer, or by id after the    *)
(* mirror closed it.                                                       *)
MountFailsOnCreated(p) ==
  /\ "unmount" \in env /\ pc[p] = "mounting" /\ goal[p] \in {"mint", "fork"}
  /\ flock' = Release(p)
  /\ lfd' = [lfd EXCEPT ![p] = 0]
  /\ dfd' = [dfd EXCEPT ![p] = 0]
  /\ Goto(p, "dropData") \/ Goto(p, "reprobe")
  /\ UNCHANGED <<goal, log>> /\ UNCHANGED Disk

(* SessionLog::append_with: the mirror's line, then the record. *)
AppendRecord(p) ==
  /\ pc[p] = "writing"
  /\ WriteLine(p)
  /\ acked' = acked \cup {writes + 1}
  /\ UNCHANGED <<name, sib, flock, inodes, pc, goal, lfd, dfd>>

(* The mirror failed: the append is refused and the log stays as it was;   *)
(* the writer stays open and the next append goes on.                      *)
AppendFails(p) ==
  /\ "cut" \in env /\ pc[p] = "writing"
  /\ CutLine(p)
  /\ UNCHANGED <<name, sib, flock, inodes, pc, goal, lfd, dfd, log, acked>>

(* MirroringLog::close. *)
Close(p) == pc[p] = "writing" /\ Return(p) /\ UNCHANGED Disk

(* SessionWriter::abandon, its lock already gone: the file, then the       *)
(* sibling.  The CLI route may go on to the by-id abandon.                 *)
DropData(p) ==
  /\ pc[p] = "dropData"
  /\ name' = 0
  /\ Walk(p, "dropSib")
  /\ UNCHANGED <<sib, file, inodes, writes, acked>>

DropSib(p) ==
  /\ pc[p] = "dropSib"
  /\ sib' = 0
  /\ Return(p) \/ Walk(p, "reprobe")
  /\ UNCHANGED <<name, file, inodes, writes, acked>>

----------------------------------------------------------------------------
(* remove_ids (`sessions rm`) and SessionStore::abandon                    *)

CallRemove(p) ==
  /\ "remove" \in env /\ Known
  /\ Begin(p, "rm", "probe")
  /\ UNCHANGED <<flock, lfd, dfd, log>> /\ UNCHANGED Disk

(* The open without create, by probe_lock and again by abandon(id, None):  *)
(* no sibling, no fence.                                                   *)
OpenFence(p) ==
  /\ pc[p] \in {"probe", "reprobe"}
  /\ lfd' = [lfd EXCEPT ![p] = sib]
  /\ Goto(p, CASE sib # 0 /\ pc[p] = "probe"   -> "fence"
               [] sib # 0 /\ pc[p] = "reprobe" -> "refence"
               [] sib = 0 /\ pc[p] = "probe"   -> "stat"
               [] sib = 0 /\ pc[p] = "reprobe" -> "unlinkSib")
  /\ UNCHANGED <<flock, goal, dfd, log>> /\ UNCHANGED Disk

TakeFence(p) ==
  /\ pc[p] \in {"fence", "refence"}
  /\ IF flock[lfd[p]] = Nobody
     THEN /\ flock' = [flock EXCEPT ![lfd[p]] = p]
          /\ Goto(p, IF pc[p] = "fence" THEN "stat" ELSE "unlinkSib")
          /\ UNCHANGED <<goal, lfd, dfd, log>>
     ELSE Return(p)
  /\ UNCHANGED Disk

(* try_exists on the session file; abandon takes the guard in, or probes   *)
(* for itself when there was none.                                         *)
Stat(p) ==
  /\ pc[p] = "stat"
  /\ IF name = 0 THEN Return(p)
     ELSE Walk(p, IF lfd[p] # 0 THEN "unlinkSib" ELSE "reprobe")
  /\ UNCHANGED Disk

(* remove_pair: sibling first, file last. *)
UnlinkSib(p) ==
  /\ pc[p] = "unlinkSib"
  /\ sib' = 0
  /\ Walk(p, "unlinkData")
  /\ UNCHANGED <<name, file, inodes, writes, acked>>

UnlinkData(p) ==
  /\ pc[p] = "unlinkData"
  /\ name' = 0
  /\ Return(p)
  /\ UNCHANGED <<sib, file, inodes, writes, acked>>

----------------------------------------------------------------------------

(* The process dies: its flock goes with it, a write may have been cut.    *)
Crash(p) ==
  /\ "crash" \in env /\ pc[p] # "idle"
  /\ Return(p)
  /\ IF pc[p] = "writing" \/ (pc[p] = "fill" /\ Len(log[p]) < Copied)
     THEN CutLine(p) ELSE UNCHANGED <<file, writes>>
  /\ UNCHANGED <<name, sib, inodes, acked>>

Step(p) ==
  \/ OpenSibling(p) \/ TakeFlock(p)
  \/ FillFork(p) \/ FillFails(p) \/ FillDone(p)
  \/ ResumeLoad(p) \/ Exists(p) \/ Inspect(p)
  \/ Read(p) \/ Rewrite(p) \/ Rename(p)
  \/ MountOk(p) \/ MountFailsOnResume(p) \/ MountFailsOnCreated(p)
  \/ AppendRecord(p) \/ AppendFails(p) \/ Close(p)
  \/ DropData(p) \/ DropSib(p)
  \/ OpenFence(p) \/ TakeFence(p) \/ Stat(p) \/ UnlinkSib(p) \/ UnlinkData(p)

Call(p) ==
  \/ \E g \in Goal : Create(p, g) \/ CallExisting(p, g)
  \/ CallRemove(p)

Next == UNCHANGED env /\ \E p \in Procs : Call(p) \/ Step(p) \/ Crash(p)

Spec == Init /\ [][Next]_vars

----------------------------------------------------------------------------
(* Properties                                                              *)

HasWriter(p) == pc[p] \in WriterPc

(* Two writers are never open on one session: a writer holds the lock for  *)
(* its life (session.rs:372-378, 909-911).  A removal that found no        *)
(* sibling takes no lock: two of them can unlink the sibling of a live     *)
(* writer and let a second one in, which takes four processes.             *)
SingleWriter ==
  \A p, q \in Procs : HasWriter(p) /\ HasWriter(q) => p = q

(* The file a live writer appends to is the one the session's name leads   *)
(* to: a compaction refuses rather than renaming over it                   *)
(* (session.rs:648-650).  (A removal does not: it may have looked for the  *)
(* sibling before the writer made it.)                                     *)
LiveWriterIsNamed ==
  env \cap {"remove", "unmount"} = {} => \A p \in Procs : HasWriter(p) => dfd[p] = name

(* A write that an I/O error cut short leaves its writer open: the next    *)
(* append ends the torn segment inside the file and is lost with it,       *)
(* acknowledged or not (session.rs:999-1003).  The properties of a file's  *)
(* content are about the executions in which no write is cut.              *)
NoCut == "cut" \notin env

(* Every append that was acknowledged is in the session's file, unless the *)
(* session was removed: an append is durable before it returns             *)
(* (session.rs:979-980), and no repair, compaction or later writer loses   *)
(* it.                                                                     *)
AckedIsDurable ==
  NoCut /\ name # 0 =>
    acked \subseteq {file[name].lines[i].id : i \in DOMAIN file[name].lines}

(* Torn bytes never become a mid-file line (session.rs:522-526), whoever   *)
(* crashes, repairs or resumes.                                            *)
TornNeverMidFile == NoCut => \A d \in DataInodes : ~file[d].bad

(* The records of a file are at positions 0, 1, 2, ... (session.rs:589-595)*)
(* and what a mounted writer has in memory is its file, seed and appends   *)
(* (cli session.rs:124-126, 158-161): with the session to itself a process *)
(* always resumes what it, or a process that died, left.                   *)
MemoryIsFile ==
  "alone" \in env =>
    \A p \in Procs : pc[p] \in {"mounting", "writing"} =>
      /\ log[p] = file[name].lines
      /\ \A i \in DOMAIN log[p] : log[p][i].pos = i - 1

(* The tail that a crash tore is repaired by resuming the session: a       *)
(* resume is not turned away from a file whose only fault is its tail      *)
(* (session.rs:349).                                                       *)
ResumeTakesTornTail ==
  [][\A p \in Procs :
       (pc[p] = "load" /\ Parses /\ UNCHANGED Disk) => pc'[p] # "idle"]_vars

(* A mint or a fork target whose mount fails leaves no session file and no *)
(* lock sibling behind (cli session.rs:107-110, 175-181).                  *)
FailedMountLeavesNothing ==
  [][\A p \in Procs :
       (/\ "alone" \in env /\ "crash" \notin env
        /\ goal[p] \in {"mint", "fork"} /\ pc[p] # "writing" /\ pc'[p] = "idle")
         => name' = 0 /\ sib' = 0]_vars

(* One process writes a session at a time, and into the file that its name *)
(* leads to (session.rs:367-370).                                          *)
WriterIsSingle == SingleWriter /\ LiveWriterIsNamed

(* The file is the session: it holds every acknowledged record, whole, at  *)
(* its place, and a mounted writer has what it holds.                      *)
FileIsTheSession == TypeOK /\ AckedIsDurable /\ TornNeverMidFile /\ MemoryIsFile
=============================================================================
