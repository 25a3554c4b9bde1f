------------------------ MODULE SessionStoreProofs --------------------------
(***************************************************************************)
(* Proofs about SessionStore, for every set of processes, every bound on   *)
(* inodes and writes, and every choice of environments.                    *)
(*                                                                         *)
(* The lock is on an inode and a session is a name.  That a writer is      *)
(* alone is so a matter of which inodes are open: as long as the session   *)
(* is named, whoever has a lock sibling open has the one its name leads    *)
(* to, or the one that a failed mount unlinked under its own lock.         *)
(***************************************************************************)
EXTENDS SessionStore, SequenceTheorems, FiniteSetTheorems, TLAPS

(* The environments in which the lock protocol stands, for any number of   *)
(* processes.  Each that is left out breaks it: a remover that finds no    *)
(* sibling goes on without a lock, a creator that dies between its unlinks *)
(* or after its lock is gone leaves the name to the next opener, and so    *)
(* does a compaction that renames over it.                                 *)
Steady(e) ==
  \/ "alone" \in e
  \/ /\ "remove" \notin e
     /\ {"create", "unmount"} \subseteq e => e \cap {"compact", "crash"} = {}
     /\ ~ {"create", "early", "compact"} \subseteq e

Creator(p) == goal[p] \in {"mint", "fork"}

(* The places under the lock, and those with no descriptor of it.          *)
Holding == {"fill", "mounting", "writing", "inspect", "read", "rewrite", "rename"}
Lockless == {"idle", "load", "exists", "open", "probe", "reprobe", "dropData", "dropSib"}
Starting == {"open", "flock"}
Removing == {"reprobe", "refence", "unlinkSib", "unlinkData", "dropData", "dropSib"}

(* The calls a place belongs to.                                           *)
GoalsAt(l) ==
  CASE l = "idle" -> {"none"}
    [] l \in {"load", "inspect"} -> {"resume"}
    [] l = "exists" -> {"resume", "copy", "compact"}
    [] l \in Starting -> {"mint", "fork", "resume", "copy", "compact"}
    [] l = "fill" -> {"fork"}
    [] l = "read" -> {"copy"}
    [] l \in {"rewrite", "rename"} -> {"compact"}
    [] l \in {"mounting", "writing"} -> {"mint", "fork", "resume"}
    [] l \in {"probe", "fence", "stat"} -> {"rm"}
    [] l \in {"dropData", "dropSib"} -> {"mint", "fork"}
    [] OTHER -> {"rm", "mint", "fork"}

(* What a process has open where, and what its environment let it do.      *)
PlaceOf(p) ==
  /\ goal[p] \in GoalsAt(pc[p])
  /\ pc[p] \in Lockless => lfd[p] = 0
  /\ pc[p] \in {"flock", "fence", "refence"} \cup Holding => lfd[p] # 0
  /\ dfd[p] # 0 <=> pc[p] \in WriterPc \/ (Creator(p) /\ pc[p] \in Starting)
  /\ Creator(p) => "create" \in env
  /\ Creator(p) \/ pc[p] \in Starting => inodes.data # 0
  /\ goal[p] = "rm" => "remove" \in env
  /\ goal[p] = "compact" => "compact" \in env
  /\ Creator(p) /\ pc[p] \in Removing => "unmount" \in env
Places == \A p \in Procs : PlaceOf(p)

(* Who is under the lock has it, and nobody has another.                   *)
LocksHeld ==
  /\ \A p \in Procs : pc[p] \in Holding => flock[lfd[p]] = p
  /\ \A p \in Procs : pc[p] \in {"stat", "unlinkSib", "unlinkData"} => lfd[p] = 0 \/ flock[lfd[p]] = p
  /\ \A l \in LockInodes : flock[l] # Nobody => lfd[flock[l]] = l

InodesMade ==
  /\ name <= inodes.data /\ sib <= inodes.lock
  /\ \A p \in Procs : lfd[p] <= inodes.lock /\ dfd[p] <= inodes.data

(* The session is created once, and nobody comes while it is.              *)
CreatedOnce ==
  /\ \A p, q \in Procs : Creator(p) /\ Creator(q) => p = q
  /\ "early" \notin env =>
       /\ \A p, q \in Procs : Creator(p) /\ pc[p] \in Starting /\ p # q => pc[q] = "idle"
       /\ inodes.data = 0 => \A p \in Procs : pc[p] = "idle"
  /\ inodes.data # 0 /\ name = 0 => "remove" \in env \/ {"create", "unmount"} \subseteq env

Solo == "alone" \in env => \A p, q \in Procs : pc[p] # "idle" /\ pc[q] # "idle" => p = q

(* As long as the session is named, the sibling in use is the one its name *)
(* leads to ...                                                            *)
SiblingInUse ==
  /\ \A p \in Procs : lfd[p] \in {0, sib} /\ pc[p] # "unlinkData"
  /\ \A p \in Procs : pc[p] \in Removing => sib # 0
  /\ \A p \in Procs : pc[p] = "unlinkSib" => lfd[p] # 0
(* ... or was, and the creator whose mount failed holds the lock on it.    *)
SiblingUnlinked ==
  \E c \in Procs :
    /\ pc[c] = "unlinkData" /\ lfd[c] \notin {0, sib}
    /\ \A p \in Procs : lfd[p] \in {0, sib, lfd[c]} /\ (p # c => pc[p] \notin Removing)

SiblingInv ==
  "alone" \notin env =>
    /\ name # 0 => SiblingInUse \/ SiblingUnlinked
    /\ name = 0 /\ inodes.data = 0 => sib = 0 /\ \A p \in Procs : lfd[p] = 0
    /\ name = 0 => \A p \in Procs : Creator(p) => pc[p] \in Removing \ {"dropData"}
    /\ \A p \in Procs : pc[p] = "dropSib" => name = 0

(* What a process has open to write is what the name leads to.             *)
DataInUse ==
  \A p \in Procs : dfd[p] # 0 => name = dfd[p] \/ (name = 0 /\ "alone" \notin env)

(* What the locks are a matter of.                                         *)
LockTyped ==
  /\ env \in Environments
  /\ name \in 0..MaxInodes /\ sib \in 0..MaxInodes
  /\ flock \in [LockInodes -> Procs \cup {Nobody}]
  /\ inodes \in [data : 0..MaxInodes, lock : 0..MaxInodes]
  /\ pc \in [Procs -> Pc] /\ goal \in [Procs -> Goal]
  /\ lfd \in [Procs -> 0..MaxInodes] /\ dfd \in [Procs -> 0..MaxInodes]

Base == LockTyped /\ Places /\ LocksHeld /\ InodesMade /\ CreatedOnce /\ Solo

LockInv == Steady(env) => SingleWriter /\ SiblingInv /\ DataInUse

----------------------------------------------------------------------------
(* A call that returns.                                                    *)

(* What returns has left the disk's names alone; only a crash leaves a     *)
(* removal before its last unlink.                                         *)
Left(p) ==
  /\ Return(p)
  /\ UNCHANGED <<env, name, sib, inodes>>
  /\ pc[p] \in Removing \ {"reprobe", "refence"} => "crash" \in env

LEMMA ReleaseKeeps ==
  ASSUME LockTyped, LocksHeld, NEW p \in Procs
  PROVE /\ Release(p) \in [LockInodes -> Procs \cup {Nobody}]
        /\ \A l \in LockInodes : Release(p)[l] # p
        /\ \A l \in LockInodes : flock[l] # p => Release(p)[l] = flock[l]
        /\ \A l \in LockInodes : Release(p)[l] # Nobody => Release(p)[l] = flock[l]
BY SessionStoreAssumption DEF LockTyped, Release

LEMMA LeftBase ==
  ASSUME Base, NEW p \in Procs, Left(p)
  PROVE  Base'
<1> USE DEF Left, Return, Goto
<1>r. /\ flock' \in [LockInodes -> Procs \cup {Nobody}]
      /\ \A l \in LockInodes : flock'[l] # p
      /\ \A l \in LockInodes : flock[l] # p => flock'[l] = flock[l]
      /\ \A l \in LockInodes : flock'[l] # Nobody => flock'[l] = flock[l]
  BY ReleaseKeeps DEF Base
<1>1. LockTyped'
  BY <1>r, SessionStoreAssumption DEF Base, LockTyped, Pc, WriterPc, Goal
<1>o. /\ \A q \in Procs \ {p} : pc'[q] = pc[q] /\ goal'[q] = goal[q] /\ lfd'[q] = lfd[q] /\ dfd'[q] = dfd[q]
      /\ pc'[p] = "idle" /\ goal'[p] = "none" /\ lfd'[p] = 0 /\ dfd'[p] = 0
  BY DEF Base, LockTyped
<1>2. Places'
  BY <1>o DEF Base, Places, PlaceOf, GoalsAt, Creator, Lockless, Holding, WriterPc, Starting, Removing
<1>3. LocksHeld'
  BY <1>o, <1>r, SessionStoreAssumption DEF Base, LockTyped, LocksHeld, Holding, LockInodes, Places, PlaceOf
<1>4. InodesMade'
  BY <1>o, SessionStoreAssumption DEF Base, LockTyped, InodesMade
<1>5. CreatedOnce' /\ Solo'
  BY <1>o DEF Base, CreatedOnce, Creator, Starting, Solo
<1> QED
  BY <1>1, <1>2, <1>3, <1>4, <1>5 DEF Base

(* A lock inode has one holder, and while the session is named its writers *)
(* hold the sibling's.                                                     *)
LEMMA NamedIsSingle ==
  ASSUME Base, SiblingInv, "alone" \notin env => name # 0
  PROVE  SingleWriter
<1>1. ASSUME NEW p \in Procs, NEW q \in Procs, HasWriter(p), HasWriter(q) PROVE p = q
  <2>1. CASE "alone" \in env
    BY <1>1, <2>1 DEF Base, Solo, HasWriter, WriterPc
  <2>2. CASE "alone" \notin env
    <3>1. /\ lfd[p] # 0 /\ flock[lfd[p]] = p /\ pc[p] # "unlinkData"
          /\ lfd[q] # 0 /\ flock[lfd[q]] = q /\ pc[q] # "unlinkData"
      BY <1>1 DEF Base, Places, PlaceOf, LocksHeld, HasWriter, WriterPc, Holding
    <3>2. CASE SiblingInUse
      BY <3>1, <3>2 DEF SiblingInUse
    <3>3. CASE SiblingUnlinked
      <4>1. PICK c \in Procs :
              /\ pc[c] = "unlinkData" /\ lfd[c] \notin {0, sib}
              /\ \A r \in Procs : lfd[r] \in {0, sib, lfd[c]}
        BY <3>3 DEF SiblingUnlinked
      <4>2. flock[lfd[c]] = c
        BY <4>1 DEF Base, LocksHeld
      <4> QED BY <3>1, <4>1, <4>2
    <3> QED BY <2>2, <3>2, <3>3 DEF SiblingInv
  <2> QED BY <2>1, <2>2
<1> QED BY <1>1 DEF SingleWriter

LEMMA NamedIsSingleNext ==
  Base' /\ SiblingInv' /\ ("alone" \notin env => name # 0)' => SingleWriter'
<1>1. Base /\ SiblingInv /\ ("alone" \notin env => name # 0) => SingleWriter
  BY NamedIsSingle
<1> QED BY <1>1, PTL

LEMMA LeftLock ==
  ASSUME Base, LockInv, NEW p \in Procs, Left(p)
  PROVE  LockInv'
<1> SUFFICES ASSUME Steady(env)' PROVE (SingleWriter /\ SiblingInv /\ DataInUse)'
  BY DEF LockInv
<1> USE DEF Left, Return, Goto
<1>1. Steady(env) /\ SingleWriter /\ SiblingInv /\ DataInUse
  BY DEF LockInv, Steady
<1>o. /\ \A q \in Procs \ {p} : pc'[q] = pc[q] /\ goal'[q] = goal[q] /\ lfd'[q] = lfd[q] /\ dfd'[q] = dfd[q]
      /\ pc'[p] = "idle" /\ goal'[p] = "none" /\ lfd'[p] = 0 /\ dfd'[p] = 0
      /\ env' = env /\ name' = name /\ sib' = sib /\ inodes' = inodes
  BY DEF Base, LockTyped
<1>2. SingleWriter'
  BY <1>1, <1>o DEF SingleWriter, HasWriter, WriterPc
<1>3. DataInUse'
  BY <1>1, <1>o DEF DataInUse
<1>4. ASSUME "alone" \notin env, name # 0 PROVE (SiblingInUse \/ SiblingUnlinked)'
  <2>1. CASE SiblingInUse
    BY <1>o, <2>1 DEF SiblingInUse, Removing
  <2>2. ASSUME SiblingUnlinked PROVE SiblingUnlinked'
    <3>1. PICK c \in Procs :
            /\ pc[c] = "unlinkData" /\ lfd[c] \notin {0, sib}
            /\ \A q \in Procs : lfd[q] \in {0, sib, lfd[c]} /\ (q # c => pc[q] \notin Removing)
      BY <2>2 DEF SiblingUnlinked
    <3>2. c # p
      <4>1. Creator(c) => "create" \in env /\ "unmount" \in env
        BY <3>1 DEF Base, Places, PlaceOf, Removing
      <4>2. ~ Creator(c) => "remove" \in env
        BY <3>1 DEF Base, Places, PlaceOf, GoalsAt, Creator, Starting
      <4> QED BY <1>1, <1>4, <3>1, <4>1, <4>2 DEF Steady, Removing
    <3> QED BY <1>o, <3>1, <3>2 DEF SiblingUnlinked, Removing
  <2> QED BY <1>1, <1>4, <2>1, <2>2 DEF SiblingInv
<1>5. SiblingInv'
  BY <1>1, <1>o, <1>4 DEF SiblingInv, Creator, Removing
<1> QED BY <1>2, <1>3, <1>5

----------------------------------------------------------------------------
(* A call that goes on, opens or locks nothing and unlinks nothing.        *)

Walked(p, l) ==
  /\ Goto(p, l)
  /\ UNCHANGED <<env, name, sib, inodes, flock, goal, lfd, dfd>>
  /\ l = "open" => name # 0
  /\ \/ <<pc[p], l>> \in {<<"fill", "mounting">>, <<"load", "exists">>, <<"exists", "open">>,
                          <<"rewrite", "rename">>, <<"mounting", "writing">>}
     \/ pc[p] = "stat" /\ lfd[p] # 0 /\ l = "unlinkSib"
     \/ pc[p] = "stat" /\ lfd[p] = 0 /\ l = "reprobe"

LEMMA WalkedBase ==
  ASSUME Base, NEW p \in Procs, NEW l, Walked(p, l)
  PROVE  Base'
<1> USE DEF Walked, Goto
<1>o. /\ \A q \in Procs \ {p} : pc'[q] = pc[q]
      /\ pc'[p] = l /\ pc[p] # "idle" /\ l # "idle"
      /\ goal' = goal /\ lfd' = lfd /\ dfd' = dfd /\ flock' = flock /\ inodes' = inodes
      /\ env' = env /\ name' = name /\ sib' = sib
  BY DEF Base, LockTyped
<1>1. LockTyped'
  BY DEF Base, LockTyped, Pc, WriterPc
<1>2. ASSUME NEW q \in Procs PROVE PlaceOf(q)'
  <2>1. PlaceOf(q)
    BY DEF Base, Places
  <2>2. CASE q # p
    BY <1>o, <2>1, <2>2 DEF PlaceOf, Creator
  <2>3. CASE q = p
    BY <1>o, <2>1, <2>3, SessionStoreAssumption DEF Base, LockTyped, InodesMade, PlaceOf, Creator, GoalsAt, Lockless, Holding, WriterPc, Starting, Removing
  <2> QED BY <2>2, <2>3
<1>3. LocksHeld'
  BY <1>o DEF Base, LocksHeld, Holding
<1>4. InodesMade'
  BY <1>o DEF Base, InodesMade
<1>5. CreatedOnce' /\ Solo'
  <2>1. CreatedOnce'
    BY <1>o DEF Base, CreatedOnce, Creator, Starting, Places, PlaceOf, GoalsAt
  <2>2. Solo'
    BY <1>o DEF Base, Solo
  <2> QED BY <2>1, <2>2
<1> QED BY <1>1, <1>2, <1>3, <1>4, <1>5 DEF Base, Places

LEMMA WalkedLock ==
  ASSUME Base, LockInv, NEW p \in Procs, NEW l, Walked(p, l)
  PROVE  LockInv'
<1> SUFFICES ASSUME Steady(env)' PROVE (SingleWriter /\ SiblingInv /\ DataInUse)'
  BY DEF LockInv
<1> USE DEF Walked, Goto
<1>1. Steady(env) /\ SingleWriter /\ SiblingInv /\ DataInUse
  BY DEF LockInv, Steady
<1>o. /\ \A q \in Procs \ {p} : pc'[q] = pc[q]
      /\ pc'[p] = l
      /\ goal' = goal /\ lfd' = lfd /\ dfd' = dfd /\ flock' = flock /\ inodes' = inodes
      /\ env' = env /\ name' = name /\ sib' = sib
  BY DEF Base, LockTyped
<1>2. SingleWriter'
  BY <1>1, <1>o DEF SingleWriter, HasWriter, WriterPc
<1>3. DataInUse'
  BY <1>1, <1>o DEF DataInUse
<1>4. SiblingInv'
  <2>1. SUFFICES ASSUME "alone" \notin env PROVE SiblingInv'
    BY <1>o DEF SiblingInv
  <2>2. l \notin Removing /\ pc[p] \notin Removing
    <3>1. pc[p] = "stat" => "remove" \in env
      BY DEF Base, Places, PlaceOf, GoalsAt, Starting
    <3> QED BY <1>1, <2>1, <3>1 DEF Steady, Removing
  <2>3. SiblingInUse => SiblingInUse'
    BY <1>o, <2>2 DEF SiblingInUse, Removing
  <2>4. SiblingUnlinked => SiblingUnlinked'
    BY <1>o, <2>2 DEF SiblingUnlinked, Removing
  <2> QED BY <1>1, <1>o, <2>1, <2>2, <2>3, <2>4 DEF SiblingInv, Creator
<1> QED BY <1>2, <1>3, <1>4

----------------------------------------------------------------------------
(* The opens of the sibling.                                               *)

Opened(p) ==
  /\ pc[p] = "open" /\ Goto(p, "flock")
  /\ \/ sib # 0 /\ UNCHANGED <<sib, inodes>>
     \/ sib = 0 /\ sib' = inodes.lock + 1 /\ inodes' = [inodes EXCEPT !.lock = @ + 1]
  /\ sib' <= MaxInodes
  /\ lfd' = [lfd EXCEPT ![p] = sib']
  /\ UNCHANGED <<env, name, flock, goal, dfd>>

LEMMA OpenHoldsNothing ==
  ASSUME LockTyped, LocksHeld, NEW p \in Procs, lfd[p] = 0
  PROVE  \A k \in LockInodes : flock[k] # p
BY SessionStoreAssumption DEF LocksHeld, LockTyped, LockInodes

LEMMA OpenedBase ==
  ASSUME Base, NEW p \in Procs, Opened(p)
  PROVE  Base'
<1> USE DEF Opened, Goto
<1>o. /\ \A q \in Procs \ {p} : pc'[q] = pc[q] /\ lfd'[q] = lfd[q]
      /\ pc[p] = "open" /\ pc'[p] = "flock" /\ lfd[p] = 0 /\ lfd'[p] = sib' /\ sib' # 0
      /\ sib' \in 0..MaxInodes /\ sib <= sib' /\ sib' <= inodes'.lock
      /\ inodes'.data = inodes.data /\ inodes.lock <= inodes'.lock
      /\ goal' = goal /\ dfd' = dfd /\ flock' = flock /\ env' = env /\ name' = name
  <2>1. inodes'.data = inodes.data /\ inodes'.lock \in {inodes.lock, inodes.lock + 1}
    BY DEF Base, LockTyped
  <2>2. sib' # 0 /\ sib' \in 0..MaxInodes /\ sib <= sib' /\ sib' <= inodes'.lock /\ inodes.lock <= inodes'.lock
    BY SessionStoreAssumption, <2>1 DEF Base, LockTyped, InodesMade
  <2> QED BY <2>1, <2>2 DEF Base, LockTyped, Places, PlaceOf, Lockless
<1>1. LockTyped'
  <2>1. inodes' \in [data : 0..MaxInodes, lock : 0..MaxInodes]
    BY SessionStoreAssumption DEF Base, LockTyped, InodesMade
  <2> QED BY <1>o, <2>1 DEF Base, LockTyped, Pc, WriterPc
<1>2. ASSUME NEW q \in Procs PROVE PlaceOf(q)'
  <2>1. PlaceOf(q)
    BY DEF Base, Places
  <2>2. CASE q # p
    BY <1>o, <2>1, <2>2 DEF PlaceOf, Creator
  <2>3. CASE q = p
    BY <1>o, <2>1, <2>3 DEF PlaceOf, Creator, GoalsAt, Lockless, Holding, WriterPc, Starting, Removing
  <2> QED BY <2>2, <2>3
<1>3. LocksHeld'
  <2>1. \A k \in LockInodes : flock[k] # p
    BY OpenHoldsNothing DEF Base, Places, PlaceOf, Lockless
  <2> QED BY <1>o, <2>1 DEF Base, LocksHeld, LockTyped, Holding
<1>4. InodesMade'
  BY <1>o, SessionStoreAssumption DEF Base, LockTyped, InodesMade
<1>5. CreatedOnce' /\ Solo'
  BY <1>o DEF Base, CreatedOnce, Creator, Starting, Solo
<1> QED BY <1>1, <1>2, <1>3, <1>4, <1>5 DEF Base, Places

LEMMA OpenedLock ==
  ASSUME Base, LockInv, NEW p \in Procs, Opened(p)
  PROVE  LockInv'
<1> SUFFICES ASSUME Steady(env)' PROVE (SingleWriter /\ SiblingInv /\ DataInUse)'
  BY DEF LockInv
<1> USE DEF Opened, Goto
<1>1. Steady(env) /\ SingleWriter /\ SiblingInv /\ DataInUse
  BY DEF LockInv, Steady
<1>o. /\ \A q \in Procs \ {p} : pc'[q] = pc[q] /\ lfd'[q] = lfd[q]
      /\ pc[p] = "open" /\ pc'[p] = "flock" /\ lfd[p] = 0 /\ lfd'[p] = sib'
      /\ goal' = goal /\ dfd' = dfd /\ env' = env /\ name' = name /\ inodes'.data = inodes.data
      /\ sib' # 0 /\ (sib # 0 => sib' = sib) /\ (sib = 0 => \A q \in Procs : lfd[q] # sib')
  BY SessionStoreAssumption DEF Base, LockTyped, InodesMade, Places, PlaceOf, Lockless
<1>2. SingleWriter'
  BY <1>1, <1>o DEF SingleWriter, HasWriter, WriterPc
<1>3. DataInUse'
  BY <1>1, <1>o DEF DataInUse
<1>4. SiblingInUse => SiblingInUse'
  BY <1>o DEF SiblingInUse, Removing
<1>5. SiblingUnlinked => SiblingUnlinked'
  BY <1>o DEF SiblingUnlinked, Removing
<1>6. inodes.data # 0
  BY <1>o DEF Base, Places, PlaceOf, Starting
<1>7. SiblingInv'
  BY <1>1, <1>o, <1>4, <1>5, <1>6 DEF SiblingInv, Creator, Removing
<1> QED BY <1>2, <1>3, <1>7

(* The open without create, of a removal.                                  *)
LEMMA FencedBase ==
  ASSUME Base, NEW p \in Procs, OpenFence(p), env' = env
  PROVE  Base'
<1> USE DEF OpenFence, Goto, Disk
<1>o. /\ \A q \in Procs \ {p} : pc'[q] = pc[q] /\ lfd'[q] = lfd[q]
      /\ lfd[p] = 0 /\ lfd'[p] = sib
      /\ pc[p] = "probe" => pc'[p] = IF sib # 0 THEN "fence" ELSE "stat"
      /\ pc[p] = "reprobe" => pc'[p] = IF sib # 0 THEN "refence" ELSE "unlinkSib"
      /\ pc[p] \in {"probe", "reprobe"}
      /\ goal' = goal /\ dfd' = dfd /\ flock' = flock /\ env' = env /\ name' = name
      /\ sib' = sib /\ inodes' = inodes
  BY DEF Base, LockTyped, Places, PlaceOf, Lockless
<1>1. LockTyped'
  BY <1>o DEF Base, LockTyped, Pc, WriterPc
<1>2. ASSUME NEW q \in Procs PROVE PlaceOf(q)'
  <2>1. PlaceOf(q)
    BY DEF Base, Places
  <2>2. CASE q # p
    BY <1>o, <2>1, <2>2 DEF PlaceOf, Creator
  <2>3. CASE q = p
    BY <1>o, <2>1, <2>3 DEF PlaceOf, Creator, GoalsAt, Lockless, Holding, WriterPc, Starting, Removing
  <2> QED BY <2>2, <2>3
<1>3. LocksHeld'
  <2>1. \A k \in LockInodes : flock[k] # p
    BY OpenHoldsNothing DEF Base, Places, PlaceOf, Lockless
  <2> QED BY <1>o, <2>1 DEF Base, LocksHeld, LockTyped, Holding
<1>4. InodesMade'
  BY <1>o DEF Base, LockTyped, InodesMade
<1>5. CreatedOnce' /\ Solo'
  BY <1>o DEF Base, CreatedOnce, Creator, Starting, Solo
<1> QED BY <1>1, <1>2, <1>3, <1>4, <1>5 DEF Base, Places

LEMMA FencedLock ==
  ASSUME Base, LockInv, NEW p \in Procs, OpenFence(p), env' = env
  PROVE  LockInv'
<1> SUFFICES ASSUME Steady(env)' PROVE (SingleWriter /\ SiblingInv /\ DataInUse)'
  BY DEF LockInv
<1> USE DEF OpenFence, Goto, Disk
<1>1. Steady(env) /\ SingleWriter /\ SiblingInv /\ DataInUse
  BY DEF LockInv, Steady
<1>o. /\ \A q \in Procs \ {p} : pc'[q] = pc[q] /\ lfd'[q] = lfd[q]
      /\ lfd'[p] = sib
      /\ pc[p] = "probe" => pc'[p] = IF sib # 0 THEN "fence" ELSE "stat"
      /\ pc[p] = "reprobe" => pc'[p] = IF sib # 0 THEN "refence" ELSE "unlinkSib"
      /\ pc[p] \in {"probe", "reprobe"}
      /\ goal' = goal /\ dfd' = dfd /\ flock' = flock /\ env' = env /\ name' = name
      /\ sib' = sib /\ inodes' = inodes
  BY DEF Base, LockTyped
<1>2. SingleWriter'
  BY <1>1, <1>o DEF SingleWriter, HasWriter, WriterPc
<1>3. DataInUse'
  BY <1>1, <1>o DEF DataInUse
<1>4. SiblingInv'
  <2>1. SUFFICES ASSUME "alone" \notin env PROVE SiblingInv'
    BY <1>o DEF SiblingInv
  <2>2. pc[p] = "reprobe" /\ Creator(p) /\ inodes.data # 0
    <3>1. "remove" \notin env
      BY <1>1, <2>1 DEF Steady
    <3>2. goal[p] # "rm"
      BY <3>1 DEF Base, Places, PlaceOf
    <3> QED BY <1>o, <3>2 DEF Base, Places, PlaceOf, GoalsAt, Starting, Creator
  <2>3. SiblingInUse => SiblingInUse'
    BY <1>o, <2>2 DEF SiblingInUse, Removing
  <2>4. ~ SiblingUnlinked
    BY <2>2 DEF SiblingUnlinked, Removing
  <2> QED BY <1>1, <1>o, <2>1, <2>2, <2>3, <2>4 DEF SiblingInv, Creator, Removing
<1> QED BY <1>2, <1>3, <1>4

----------------------------------------------------------------------------
(* The locks.                                                              *)

Took(p, l) ==
  /\ flock[lfd[p]] = Nobody /\ flock' = [flock EXCEPT ![lfd[p]] = p]
  /\ Goto(p, l)
  /\ \/ pc[p] = "flock" /\ l = Locked(goal[p])
     \/ pc[p] = "fence" /\ l = "stat"
     \/ pc[p] = "refence" /\ l = "unlinkSib"
  /\ UNCHANGED <<env, name, sib, inodes, goal, lfd, dfd>>

LEMMA TookBase ==
  ASSUME Base, NEW p \in Procs, NEW l, Took(p, l)
  PROVE  Base'
<1> USE DEF Took, Goto
<1>g. pc[p] = "flock" => goal[p] \in {"mint", "fork", "resume", "copy", "compact"}
  BY DEF Base, Places, PlaceOf, GoalsAt, Starting
<1>l. l \in Holding \cup {"stat", "unlinkSib"}
  BY <1>g DEF Locked, Holding
<1>k. /\ lfd[p] \in LockInodes
      /\ \A q \in Procs \ {p} : pc[q] \in Holding => lfd[q] # lfd[p]
  BY SessionStoreAssumption
     DEF Base, LockTyped, LockInodes, Places, PlaceOf, LocksHeld
<1>o. /\ \A q \in Procs \ {p} : pc'[q] = pc[q]
      /\ pc'[p] = l /\ pc[p] # "idle" /\ l # "idle"
      /\ flock'[lfd[p]] = p
      /\ \A k \in LockInodes \ {lfd[p]} : flock'[k] = flock[k]
      /\ goal' = goal /\ lfd' = lfd /\ dfd' = dfd /\ inodes' = inodes
      /\ env' = env /\ name' = name /\ sib' = sib
  BY <1>g, <1>k, SessionStoreAssumption DEF Base, LockTyped, Locked
<1>1. LockTyped'
  BY <1>o, <1>l DEF Base, LockTyped, Pc, WriterPc, Holding
<1>2. ASSUME NEW q \in Procs PROVE PlaceOf(q)'
  <2>1. PlaceOf(q)
    BY DEF Base, Places
  <2>2. CASE q # p
    BY <1>o, <2>1, <2>2 DEF PlaceOf, Creator
  <2>3. CASE q = p
    <3>1. CASE pc[p] = "flock"
      <4>1. goal[p] \in GoalsAt(l) /\ lfd[p] # 0 /\ l \in Holding
        BY <1>g, <2>1, <2>3, <3>1 DEF PlaceOf, Locked, GoalsAt, Holding, Starting
      <4>2. dfd[p] # 0 <=> l \in WriterPc
        BY <1>g, <2>1, <2>3, <3>1 DEF PlaceOf, Locked, WriterPc, Starting, Creator
      <4> QED BY <1>o, <2>1, <2>3, <3>1, <4>1, <4>2
           DEF PlaceOf, Creator, Lockless, Holding, Starting, Removing
    <3>2. CASE pc[p] # "flock"
      BY <1>o, <2>1, <2>3, <3>2 DEF PlaceOf, Creator, GoalsAt, Lockless, Holding, WriterPc, Starting, Removing
    <3> QED BY <3>1, <3>2
  <2> QED BY <2>2, <2>3
<1>3. LocksHeld'
  <2>1. \A q \in Procs : q # p /\ lfd[q] # 0 /\ flock[lfd[q]] = q => flock'[lfd[q]] = q
    BY <1>o, SessionStoreAssumption DEF Base, LockTyped, LockInodes
  <2>2. \A k \in LockInodes : flock'[k] # Nobody => lfd'[flock'[k]] = k
    BY <1>o DEF Base, LocksHeld
  <2>3. \A q \in Procs : pc[q] \in Holding => lfd[q] # 0
    BY DEF Base, Places, PlaceOf
  <2> QED BY <1>o, <2>1, <2>2, <2>3 DEF Base, LocksHeld
<1>4. InodesMade'
  BY <1>o DEF Base, InodesMade
<1>5. CreatedOnce'
  BY <1>o, <1>l DEF Base, CreatedOnce, Creator, Starting, Holding
<1>6. Solo'
  BY <1>o DEF Base, Solo
<1> QED BY <1>1, <1>2, <1>3, <1>4, <1>5, <1>6 DEF Base, Places

LEMMA TookLock ==
  ASSUME Base, LockInv, NEW p \in Procs, NEW l, Took(p, l)
  PROVE  LockInv'
<1> SUFFICES ASSUME Steady(env)' PROVE (SingleWriter /\ SiblingInv /\ DataInUse)'
  BY DEF LockInv
<1> USE DEF Took, Goto
<1>b. Base'
  BY TookBase
<1>1. Steady(env) /\ SingleWriter /\ SiblingInv /\ DataInUse
  BY DEF LockInv, Steady
<1>g. pc[p] = "flock" => goal[p] \in {"mint", "fork", "resume", "copy", "compact"}
  BY DEF Base, Places, PlaceOf, GoalsAt, Starting
<1>o. /\ \A q \in Procs \ {p} : pc'[q] = pc[q]
      /\ pc'[p] = l /\ l \notin {"dropData", "dropSib", "unlinkData"}
      /\ goal' = goal /\ lfd' = lfd /\ dfd' = dfd /\ inodes' = inodes
      /\ env' = env /\ name' = name /\ sib' = sib
  BY <1>g DEF Base, LockTyped, Locked
<1>r. "alone" \notin env => (l \in Removing <=> pc[p] \in Removing)
  <2>1. pc[p] \in {"fence"} => "remove" \in env
    BY DEF Base, Places, PlaceOf, GoalsAt, Starting
  <2> QED BY <1>1, <1>g, <2>1 DEF Steady, Removing, Locked
<1>p. lfd[p] # 0
  BY DEF Base, Places, PlaceOf
<1>2. DataInUse'
  BY <1>1, <1>o DEF DataInUse
<1>3. SiblingInv'
  <2>1. SUFFICES ASSUME "alone" \notin env PROVE SiblingInv'
    BY <1>o DEF SiblingInv
  <2>2. pc[p] # "unlinkData"
    OBVIOUS
  <2>3. SiblingInUse => SiblingInUse'
    BY <1>o, <1>r, <1>p, <2>1, <2>2 DEF SiblingInUse
  <2>4. SiblingUnlinked => SiblingUnlinked'
    BY <1>o, <1>r, <2>1, <2>2 DEF SiblingUnlinked
  <2> QED BY <1>1, <1>o, <1>r, <2>1, <2>3, <2>4 DEF SiblingInv, Creator
<1>4. SingleWriter'
  <2>1. CASE "alone" \in env \/ name # 0
    BY <1>b, <1>o, <1>3, <2>1, NamedIsSingleNext
  <2>2. CASE "alone" \notin env /\ name = 0
    <3>1. ~ HasWriter(p)'
      BY <1>1, <1>g, <1>o, <2>2 DEF HasWriter, WriterPc, Locked, SiblingInv, Creator, Removing
    <3> QED BY <1>1, <1>o, <3>1 DEF SingleWriter, HasWriter
  <2> QED BY <2>1, <2>2
<1> QED BY <1>4, <1>2, <1>3

----------------------------------------------------------------------------
(* The calls.                                                              *)

LEMMA CreateBase ==
  ASSUME Base, NEW p \in Procs, NEW g, Create(p, g), env' = env
  PROVE  Base'
<1> USE DEF Create, Begin, Goto
<1>o. /\ \A q \in Procs \ {p} : pc'[q] = pc[q] /\ goal'[q] = goal[q] /\ dfd'[q] = dfd[q] /\ ~ Creator(q)
      /\ pc[p] = "idle" /\ pc'[p] = "open" /\ goal'[p] = g /\ g \in {"mint", "fork"} /\ dfd'[p] = 1
      /\ "alone" \in env => \A q \in Procs : pc[q] = "idle"
      /\ "early" \notin env => \A q \in Procs : pc[q] = "idle"
      /\ "create" \in env /\ name' = 1 /\ inodes.data = 0 /\ inodes'.data = 1 /\ inodes'.lock = inodes.lock
      /\ lfd' = lfd /\ flock' = flock /\ env' = env /\ sib' = sib
  BY DEF Base, LockTyped, Places, PlaceOf, CreatedOnce
<1>1. LockTyped'
  BY <1>o, SessionStoreAssumption DEF Base, LockTyped, Pc, WriterPc, Goal
<1>2. ASSUME NEW q \in Procs PROVE PlaceOf(q)'
  <2>1. PlaceOf(q)
    BY DEF Base, Places
  <2>2. CASE q # p
    BY <1>o, <2>1, <2>2 DEF PlaceOf, Creator
  <2>3. CASE q = p
    BY <1>o, <2>1, <2>3 DEF PlaceOf, Creator, GoalsAt, Lockless, Holding, WriterPc, Starting, Removing
  <2> QED BY <2>2, <2>3
<1>3. LocksHeld'
  BY <1>o DEF Base, LocksHeld, Holding
<1>4. InodesMade'
  BY <1>o, SessionStoreAssumption DEF Base, LockTyped, InodesMade
<1>5. CreatedOnce' /\ Solo'
  BY <1>o DEF Base, CreatedOnce, Creator, Starting, Solo
<1> QED BY <1>1, <1>2, <1>3, <1>4, <1>5 DEF Base, Places

LEMMA CreateLock ==
  ASSUME Base, LockInv, NEW p \in Procs, NEW g, Create(p, g), env' = env
  PROVE  LockInv'
<1> SUFFICES ASSUME Steady(env)' PROVE (SingleWriter /\ SiblingInv /\ DataInUse)'
  BY DEF LockInv
<1> USE DEF Create, Begin, Goto
<1>1. Steady(env) /\ SingleWriter /\ SiblingInv /\ DataInUse
  BY DEF LockInv, Steady
<1>o. /\ \A q \in Procs \ {p} : pc'[q] = pc[q] /\ dfd'[q] = dfd[q]
      /\ pc'[p] = "open" /\ dfd'[p] = 1 /\ name = 0 /\ name' = 1 /\ inodes.data = 0
      /\ lfd' = lfd /\ env' = env /\ sib' = sib
  BY DEF Base, LockTyped
<1>n. \A q \in Procs : dfd[q] = 0 /\ ~ Creator(q)
  BY SessionStoreAssumption DEF Base, LockTyped, InodesMade, Places, PlaceOf
<1>2. SingleWriter'
  BY <1>1, <1>o DEF SingleWriter, HasWriter, WriterPc
<1>3. DataInUse'
  BY <1>n, <1>o DEF DataInUse
<1>4. SiblingInv'
  <2>1. SUFFICES ASSUME "alone" \notin env PROVE SiblingInv'
    BY <1>o DEF SiblingInv
  <2>2. \A q \in Procs : pc[q] \notin Removing
    <3>1. "remove" \notin env
      BY <1>1, <2>1 DEF Steady
    <3> QED BY <1>n, <3>1 DEF Base, Places, PlaceOf, GoalsAt, Removing, Creator, Starting
  <2>3. SiblingInUse'
    BY <1>1, <1>o, <2>1, <2>2 DEF SiblingInv, SiblingInUse, Removing
  <2> QED BY <1>o, <2>2, <2>3 DEF SiblingInv, Removing
<1> QED BY <1>2, <1>3, <1>4

(* A call on a session that others know.                                   *)
Called(p, g, l) ==
  /\ Known /\ Begin(p, g, l)
  /\ UNCHANGED <<env, name, sib, inodes, flock, lfd, dfd>>
  /\ \/ g = "resume" /\ l = "load"
     \/ g \in {"copy", "compact"} /\ l = "exists"
     \/ g = "rm" /\ l = "probe"
  /\ g = "rm" => "remove" \in env
  /\ g = "compact" => "compact" \in env

LEMMA CalledBase ==
  ASSUME Base, NEW p \in Procs, NEW g, NEW l, Called(p, g, l)
  PROVE  Base'
<1> USE DEF Called, Begin, Goto
<1>o. /\ \A q \in Procs \ {p} : pc'[q] = pc[q] /\ goal'[q] = goal[q]
      /\ pc[p] = "idle" /\ pc'[p] = l /\ goal'[p] = g /\ l \notin {"idle", "open", "flock"}
      /\ g \notin {"mint", "fork"}
      /\ "alone" \in env => \A q \in Procs : pc[q] = "idle"
      /\ "early" \notin env => inodes.data # 0 /\ \A q \in Procs : Creator(q) => pc[q] \notin Starting
      /\ dfd' = dfd /\ inodes' = inodes /\ name' = name
      /\ lfd' = lfd /\ flock' = flock /\ env' = env /\ sib' = sib
  BY DEF Base, LockTyped, Known, Creator, Starting
<1>1. LockTyped'
  BY <1>o DEF Base, LockTyped, Pc, WriterPc, Goal
<1>2. ASSUME NEW q \in Procs PROVE PlaceOf(q)'
  <2>1. PlaceOf(q)
    BY DEF Base, Places
  <2>2. CASE q # p
    BY <1>o, <2>1, <2>2 DEF PlaceOf, Creator
  <2>3. CASE q = p
    BY <1>o, <2>1, <2>3 DEF PlaceOf, Creator, GoalsAt, Lockless, Holding, WriterPc, Starting, Removing
  <2> QED BY <2>2, <2>3
<1>3. LocksHeld'
  BY <1>o DEF Base, LocksHeld, Holding
<1>4. InodesMade'
  BY <1>o DEF Base, InodesMade
<1>5. CreatedOnce'
  BY <1>o DEF Base, CreatedOnce, Creator, Starting
<1>6. Solo'
  BY <1>o DEF Base, Solo
<1> QED BY <1>1, <1>2, <1>3, <1>4, <1>5, <1>6 DEF Base, Places

LEMMA CalledLock ==
  ASSUME Base, LockInv, NEW p \in Procs, NEW g, NEW l, Called(p, g, l)
  PROVE  LockInv'
<1> SUFFICES ASSUME Steady(env)' PROVE (SingleWriter /\ SiblingInv /\ DataInUse)'
  BY DEF LockInv
<1> USE DEF Called, Begin, Goto
<1>1. Steady(env) /\ SingleWriter /\ SiblingInv /\ DataInUse
  BY DEF LockInv, Steady
<1>o. /\ \A q \in Procs \ {p} : pc'[q] = pc[q] /\ goal'[q] = goal[q]
      /\ pc[p] = "idle" /\ pc'[p] = l /\ goal'[p] = g
      /\ l \in {"load", "exists", "probe"} /\ g \notin {"mint", "fork"}
      /\ dfd' = dfd /\ inodes' = inodes /\ name' = name
      /\ lfd' = lfd /\ env' = env /\ sib' = sib
  BY DEF Base, LockTyped
<1>2. SingleWriter'
  BY <1>1, <1>o DEF SingleWriter, HasWriter, WriterPc
<1>3. DataInUse'
  BY <1>1, <1>o DEF DataInUse
<1>4. SiblingInUse => SiblingInUse'
  BY <1>o DEF SiblingInUse, Removing
<1>5. SiblingUnlinked => SiblingUnlinked'
  BY <1>o DEF SiblingUnlinked, Removing
<1>6. SiblingInv'
  BY <1>1, <1>o, <1>4, <1>5 DEF SiblingInv, Creator
<1> QED BY <1>2, <1>3, <1>6

----------------------------------------------------------------------------
(* The steps that open the data file, give it another inode, or take names *)
(* away.                                                                   *)

(* With other processes about, only a failed mount of the creator's is     *)
(* ever removing.                                                          *)
LEMMA RemovingIsCreator ==
  ASSUME Base, Steady(env), "alone" \notin env, NEW p \in Procs, pc[p] \in Removing
  PROVE  /\ Creator(p) /\ inodes.data # 0
         /\ {"create", "unmount"} \subseteq env /\ "crash" \notin env /\ "compact" \notin env
         /\ \A q \in Procs \ {p} : pc[q] \notin Removing
<1>1. "remove" \notin env
  BY DEF Steady
<1>2. \A q \in Procs : pc[q] \in Removing => Creator(q)
  BY <1>1 DEF Base, Places, PlaceOf, GoalsAt, Removing, Creator, Starting
<1>3. {"create", "unmount"} \subseteq env /\ inodes.data # 0
  BY <1>2 DEF Base, Places, PlaceOf
<1> QED BY <1>2, <1>3 DEF Steady, Base, CreatedOnce

Inspected(p) ==
  /\ pc[p] = "inspect" /\ Goto(p, "mounting") /\ name # 0
  /\ dfd' = [dfd EXCEPT ![p] = name]
  /\ UNCHANGED <<env, name, sib, inodes, flock, goal, lfd>>

LEMMA InspectedBase ==
  ASSUME Base, NEW p \in Procs, Inspected(p)
  PROVE  Base'
<1> USE DEF Inspected, Goto
<1>o. /\ \A q \in Procs \ {p} : pc'[q] = pc[q] /\ dfd'[q] = dfd[q]
      /\ pc[p] = "inspect" /\ pc'[p] = "mounting" /\ dfd'[p] = name /\ name # 0
      /\ goal' = goal /\ inodes' = inodes /\ name' = name
      /\ lfd' = lfd /\ flock' = flock /\ env' = env /\ sib' = sib
  BY DEF Base, LockTyped
<1>1. LockTyped'
  BY <1>o DEF Base, LockTyped, Pc, WriterPc
<1>2. ASSUME NEW q \in Procs PROVE PlaceOf(q)'
  <2>1. PlaceOf(q)
    BY DEF Base, Places
  <2>2. CASE q # p
    BY <1>o, <2>1, <2>2 DEF PlaceOf, Creator
  <2>3. CASE q = p
    BY <1>o, <2>1, <2>3 DEF PlaceOf, Creator, GoalsAt, Lockless, Holding, WriterPc, Starting, Removing
  <2> QED BY <2>2, <2>3
<1>3. LocksHeld'
  BY <1>o DEF Base, LocksHeld, Holding
<1>4. InodesMade'
  BY <1>o DEF Base, InodesMade
<1>5. CreatedOnce' /\ Solo'
  BY <1>o DEF Base, CreatedOnce, Creator, Starting, Solo
<1> QED BY <1>1, <1>2, <1>3, <1>4, <1>5 DEF Base, Places

LEMMA InspectedLock ==
  ASSUME Base, LockInv, NEW p \in Procs, Inspected(p)
  PROVE  LockInv'
<1> SUFFICES ASSUME Steady(env)' PROVE (SingleWriter /\ SiblingInv /\ DataInUse)'
  BY DEF LockInv
<1> USE DEF Inspected, Goto
<1>1. Steady(env) /\ SingleWriter /\ SiblingInv /\ DataInUse
  BY DEF LockInv, Steady
<1>o. /\ \A q \in Procs \ {p} : pc'[q] = pc[q] /\ dfd'[q] = dfd[q]
      /\ pc[p] = "inspect" /\ pc'[p] = "mounting" /\ dfd'[p] = name /\ name # 0
      /\ goal' = goal /\ inodes' = inodes /\ name' = name
      /\ lfd' = lfd /\ env' = env /\ sib' = sib
  BY DEF Base, LockTyped
<1>2. DataInUse'
  BY <1>1, <1>o DEF DataInUse
<1>3. SiblingInUse => SiblingInUse'
  BY <1>o DEF SiblingInUse, Removing
<1>4. SiblingUnlinked => SiblingUnlinked'
  BY <1>o DEF SiblingUnlinked, Removing
<1>5. SiblingInv'
  BY <1>1, <1>o, <1>3, <1>4 DEF SiblingInv
<1>6. SingleWriter'
  BY <1>5, <1>o, InspectedBase, NamedIsSingleNext
<1> QED BY <1>6, <1>2, <1>5

(* A compaction at its rename has the lock that every opener wants.        *)
LEMMA RenamerIsAlone ==
  ASSUME Base, Steady(env), SiblingInv, NEW p \in Procs, pc[p] = "rename"
  PROVE  /\ \A q \in Procs : dfd[q] = 0
         /\ \A q \in Procs : pc[q] = "rename" => q = p
         /\ "alone" \notin env => /\ \A q \in Procs : pc[q] \notin Removing
                                /\ name # 0 /\ SiblingInUse
<1>p. lfd[p] # 0 /\ flock[lfd[p]] = p /\ goal[p] = "compact" /\ "compact" \in env
  BY DEF Base, Places, PlaceOf, LocksHeld, Holding, GoalsAt, Starting
<1>u. ASSUME "alone" \notin env
      PROVE  /\ \A q \in Procs : pc[q] \notin Removing
             /\ name # 0 /\ SiblingInUse
  <2>1. \A q \in Procs : pc[q] \notin Removing
    BY <1>u, <1>p, RemovingIsCreator
  <2>2. name # 0
    BY <1>u, <1>p DEF Steady, Base, CreatedOnce, SiblingInv
  <2>3. ~ SiblingUnlinked
    BY <2>1 DEF SiblingUnlinked, Removing
  <2> QED BY <1>u, <2>1, <2>2, <2>3 DEF SiblingInv
<1>1. ASSUME NEW q \in Procs, q # p, pc[q] \in WriterPc \cup {"rename"} PROVE FALSE
  <2>1. CASE "alone" \in env
    BY <1>1, <2>1 DEF Base, Solo, WriterPc
  <2>2. CASE "alone" \notin env
    <3>1. lfd[q] # 0 /\ flock[lfd[q]] = q
      BY <1>1 DEF Base, Places, PlaceOf, LocksHeld, Holding, WriterPc
    <3> QED BY <1>p, <1>u, <1>1, <2>2, <3>1 DEF SiblingInUse
  <2> QED BY <2>1, <2>2
<1>2. ASSUME NEW q \in Procs, Creator(q), pc[q] \in Starting PROVE FALSE
  <2>1. CASE "alone" \in env
    BY <1>2, <2>1 DEF Base, Solo, Starting
  <2>2. CASE "alone" \notin env
    <3>1. "create" \in env
      BY <1>2 DEF Base, Places, PlaceOf
    <3>2. "early" \notin env
      BY <1>p, <2>2, <3>1 DEF Steady
    <3> QED BY <1>2, <3>2 DEF Base, CreatedOnce, Starting
  <2> QED BY <2>1, <2>2
<1> QED BY <1>u, <1>1, <1>2 DEF Base, Places, PlaceOf, WriterPc, LockTyped

Renamed(p) ==
  /\ pc[p] = "rename" /\ inodes.data < MaxInodes /\ Return(p)
  /\ inodes' = [inodes EXCEPT !.data = @ + 1]
  /\ name' = inodes.data + 1
  /\ UNCHANGED <<env, sib>>

LEMMA RenamedBase ==
  ASSUME Base, NEW p \in Procs, Renamed(p)
  PROVE  Base'
<1> USE DEF Renamed, Return, Goto
<1>r. /\ flock' \in [LockInodes -> Procs \cup {Nobody}]
      /\ \A l \in LockInodes : flock'[l] # p
      /\ \A l \in LockInodes : flock[l] # p => flock'[l] = flock[l]
      /\ \A l \in LockInodes : flock'[l] # Nobody => flock'[l] = flock[l]
  BY ReleaseKeeps DEF Base
<1>o. /\ \A q \in Procs \ {p} : pc'[q] = pc[q] /\ goal'[q] = goal[q] /\ lfd'[q] = lfd[q] /\ dfd'[q] = dfd[q]
      /\ pc'[p] = "idle" /\ goal'[p] = "none" /\ lfd'[p] = 0 /\ dfd'[p] = 0
      /\ inodes'.lock = inodes.lock /\ inodes'.data = inodes.data + 1 /\ name' = inodes'.data
      /\ inodes.data \in Nat /\ inodes'.data # 0 /\ env' = env /\ sib' = sib
  BY SessionStoreAssumption DEF Base, LockTyped
<1>1. LockTyped'
  <2>1. inodes' \in [data : 0..MaxInodes, lock : 0..MaxInodes] /\ name' \in 0..MaxInodes
    <3>1. inodes.data + 1 \in 0..MaxInodes
      BY SessionStoreAssumption DEF Base, LockTyped
    <3>2. inodes' = [data |-> inodes.data + 1, lock |-> inodes.lock]
      BY DEF Base, LockTyped
    <3> QED BY <3>1, <3>2 DEF Base, LockTyped
  <2>2. /\ env' \in Environments /\ sib' \in 0..MaxInodes
        /\ pc' \in [Procs -> Pc] /\ goal' \in [Procs -> Goal]
        /\ lfd' \in [Procs -> 0..MaxInodes] /\ dfd' \in [Procs -> 0..MaxInodes]
    BY SessionStoreAssumption DEF Base, LockTyped, Pc, WriterPc, Goal
  <2> QED BY <1>r, <2>1, <2>2 DEF LockTyped
<1>2. Places'
  BY <1>o DEF Base, Places, PlaceOf, GoalsAt, Creator, Lockless, Holding, WriterPc, Starting, Removing
<1>3. LocksHeld'
  BY <1>o, <1>r, SessionStoreAssumption DEF Base, LockTyped, LocksHeld, Holding, LockInodes, Places, PlaceOf
<1>4. InodesMade'
  BY <1>o, SessionStoreAssumption DEF Base, LockTyped, InodesMade
<1>5. CreatedOnce' /\ Solo'
  BY <1>o DEF Base, CreatedOnce, Creator, Starting, Solo
<1> QED BY <1>1, <1>2, <1>3, <1>4, <1>5 DEF Base

LEMMA RenamedLock ==
  ASSUME Base, LockInv, NEW p \in Procs, Renamed(p)
  PROVE  LockInv'
<1> SUFFICES ASSUME Steady(env)' PROVE (SingleWriter /\ SiblingInv /\ DataInUse)'
  BY DEF LockInv
<1> USE DEF Renamed, Return, Goto
<1>1. Steady(env) /\ SingleWriter /\ SiblingInv /\ DataInUse
  BY DEF LockInv, Steady
<1>o. /\ \A q \in Procs \ {p} : pc'[q] = pc[q] /\ goal'[q] = goal[q] /\ lfd'[q] = lfd[q] /\ dfd'[q] = dfd[q]
      /\ pc'[p] = "idle" /\ goal'[p] = "none" /\ lfd'[p] = 0 /\ dfd'[p] = 0
      /\ inodes'.data # 0 /\ name' # 0 /\ env' = env /\ sib' = sib
  BY SessionStoreAssumption DEF Base, LockTyped
<1>u. ASSUME "alone" \notin env
      PROVE  /\ \A q \in Procs : pc[q] \notin Removing
             /\ name # 0 /\ SiblingInUse
  BY <1>1, <1>u, RenamerIsAlone
<1>2. SingleWriter'
  BY <1>1, <1>o DEF SingleWriter, HasWriter, WriterPc
<1>3. ASSUME NEW q \in Procs PROVE dfd'[q] = 0
  BY <1>1, <1>o, RenamerIsAlone
<1>4. DataInUse'
  BY <1>3 DEF DataInUse
<1>5. SiblingInv'
  <2>1. SUFFICES ASSUME "alone" \notin env PROVE SiblingInv'
    BY <1>o DEF SiblingInv
  <2>2. SiblingInUse'
    BY <1>o, <1>u, <2>1 DEF SiblingInUse, Removing
  <2> QED BY <1>o, <1>u, <2>1, <2>2 DEF SiblingInv, Removing
<1> QED BY <1>2, <1>4, <1>5

(* A created session that is not mounted.                                  *)
LEMMA UnmountedBase ==
  ASSUME Base, NEW p \in Procs, MountFailsOnCreated(p), env' = env
  PROVE  Base'
<1> USE DEF MountFailsOnCreated, Goto, Disk
<1>r. /\ flock' \in [LockInodes -> Procs \cup {Nobody}]
      /\ \A l \in LockInodes : flock'[l] # p
      /\ \A l \in LockInodes : flock[l] # p => flock'[l] = flock[l]
      /\ \A l \in LockInodes : flock'[l] # Nobody => flock'[l] = flock[l]
  BY ReleaseKeeps DEF Base
<1>o. /\ \A q \in Procs \ {p} : pc'[q] = pc[q] /\ lfd'[q] = lfd[q] /\ dfd'[q] = dfd[q]
      /\ pc[p] = "mounting" /\ Creator(p) /\ "unmount" \in env
      /\ pc'[p] \in {"dropData", "reprobe"} /\ lfd'[p] = 0 /\ dfd'[p] = 0
      /\ goal' = goal /\ inodes' = inodes /\ env' = env /\ sib' = sib /\ name' = name
  BY DEF Base, LockTyped, Creator
<1>1. LockTyped'
  <2>1. /\ pc' \in [Procs -> Pc]
        /\ lfd' \in [Procs -> 0..MaxInodes] /\ dfd' \in [Procs -> 0..MaxInodes]
    BY SessionStoreAssumption DEF Base, LockTyped, Pc, WriterPc
  <2> QED BY <1>o, <1>r, <2>1 DEF Base, LockTyped
<1>2. ASSUME NEW q \in Procs PROVE PlaceOf(q)'
  <2>1. PlaceOf(q)
    BY DEF Base, Places
  <2>2. CASE q # p
    BY <1>o, <2>1, <2>2 DEF PlaceOf, Creator
  <2>3. CASE q = p
    BY <1>o, <2>1, <2>3 DEF PlaceOf, Creator, GoalsAt, Lockless, Holding, WriterPc, Starting, Removing
  <2> QED BY <2>2, <2>3
<1>3. LocksHeld'
  BY <1>o, <1>r, SessionStoreAssumption DEF Base, LockTyped, LocksHeld, Holding, LockInodes, Places, PlaceOf
<1>4. InodesMade'
  BY <1>o, SessionStoreAssumption DEF Base, LockTyped, InodesMade
<1>5. CreatedOnce' /\ Solo'
  BY <1>o DEF Base, CreatedOnce, Creator, Starting, Solo
<1> QED BY <1>1, <1>2, <1>3, <1>4, <1>5 DEF Base, Places

LEMMA UnmountedLock ==
  ASSUME Base, LockInv, NEW p \in Procs, MountFailsOnCreated(p), env' = env
  PROVE  LockInv'
<1> SUFFICES ASSUME Steady(env)' PROVE (SingleWriter /\ SiblingInv /\ DataInUse)'
  BY DEF LockInv
<1> USE DEF MountFailsOnCreated, Goto, Disk
<1>1. Steady(env) /\ SingleWriter /\ SiblingInv /\ DataInUse
  BY DEF LockInv, Steady
<1>o. /\ \A q \in Procs \ {p} : pc'[q] = pc[q] /\ lfd'[q] = lfd[q] /\ dfd'[q] = dfd[q]
      /\ pc[p] = "mounting" /\ Creator(p)
      /\ pc'[p] \in {"dropData", "reprobe"} /\ lfd'[p] = 0 /\ dfd'[p] = 0
      /\ goal' = goal /\ inodes' = inodes /\ env' = env /\ sib' = sib /\ name' = name
  BY DEF Base, LockTyped, Creator
<1>2. SingleWriter'
  BY <1>1, <1>o DEF SingleWriter, HasWriter, WriterPc
<1>3. DataInUse'
  BY <1>1, <1>o DEF DataInUse
<1>4. SiblingInv'
  <2>1. SUFFICES ASSUME "alone" \notin env PROVE SiblingInv'
    BY <1>o DEF SiblingInv
  <2>2. name # 0
    BY <1>1, <1>o, <2>1 DEF SiblingInv, Removing
  <2>3. ~ SiblingUnlinked
    <3>1. ASSUME NEW c \in Procs, pc[c] = "unlinkData" PROVE FALSE
      <4>1. Creator(c)
        BY <1>1, <2>1, <3>1, RemovingIsCreator DEF Removing
      <4> QED BY <1>o, <3>1, <4>1 DEF Base, CreatedOnce
    <3> QED BY <3>1 DEF SiblingUnlinked
  <2>4. lfd[p] # 0
    BY <1>o DEF Base, Places, PlaceOf, Holding
  <2>5. SiblingInUse'
    BY <1>1, <1>o, <2>1, <2>2, <2>3, <2>4 DEF SiblingInv, SiblingInUse, Removing
  <2> QED BY <1>1, <1>o, <2>1, <2>2, <2>5 DEF SiblingInv
<1> QED BY <1>2, <1>3, <1>4

(* The unlinks that are followed by a step of the same removal.            *)
Unlinked(p, l) ==
  /\ Goto(p, l)
  /\ \/ pc[p] = "dropData" /\ l = "dropSib" /\ name' = 0 /\ sib' = sib
     \/ pc[p] = "dropSib" /\ l = "reprobe" /\ sib' = 0 /\ name' = name
     \/ pc[p] = "unlinkSib" /\ l = "unlinkData" /\ sib' = 0 /\ name' = name
  /\ UNCHANGED <<env, inodes, flock, goal, lfd, dfd>>

LEMMA UnlinkedBase ==
  ASSUME Base, NEW p \in Procs, NEW l, Unlinked(p, l)
  PROVE  Base'
<1> USE DEF Unlinked, Goto
<1>o. /\ \A q \in Procs \ {p} : pc'[q] = pc[q]
      /\ <<pc[p], l>> \in {<<"dropData", "dropSib">>, <<"dropSib", "reprobe">>, <<"unlinkSib", "unlinkData">>}
      /\ pc'[p] = l /\ name' \in {0, name} /\ sib' \in {0, sib} /\ (name' # name => pc[p] = "dropData")
      /\ flock' = flock /\ lfd' = lfd /\ dfd' = dfd /\ goal' = goal /\ inodes' = inodes /\ env' = env
  BY DEF Base, LockTyped
<1>1. LockTyped'
  BY <1>o, SessionStoreAssumption DEF Base, LockTyped, Pc, WriterPc
<1>2. ASSUME NEW q \in Procs PROVE PlaceOf(q)'
  <2>1. PlaceOf(q)
    BY DEF Base, Places
  <2>2. CASE q # p
    BY <1>o, <2>1, <2>2 DEF PlaceOf, Creator
  <2>3. CASE q = p
    BY <1>o, <2>1, <2>3 DEF PlaceOf, Creator, GoalsAt, Lockless, Holding, WriterPc, Starting, Removing
  <2> QED BY <2>2, <2>3
<1>3. LocksHeld'
  BY <1>o DEF Base, LocksHeld, Holding
<1>4. InodesMade'
  BY <1>o, SessionStoreAssumption DEF Base, LockTyped, InodesMade
<1>5. CreatedOnce'
  <2>1. pc[p] = "dropData" => {"create", "unmount"} \subseteq env
    BY DEF Base, Places, PlaceOf, GoalsAt, Creator, Starting, Removing
  <2> QED BY <1>o, <2>1 DEF Base, CreatedOnce, Creator, Starting
<1>6. Solo'
  BY <1>o DEF Base, Solo
<1> QED BY <1>1, <1>2, <1>3, <1>4, <1>5, <1>6 DEF Base, Places

LEMMA UnlinkedLock ==
  ASSUME Base, LockInv, NEW p \in Procs, NEW l, Unlinked(p, l)
  PROVE  LockInv'
<1> SUFFICES ASSUME Steady(env)' PROVE (SingleWriter /\ SiblingInv /\ DataInUse)'
  BY DEF LockInv
<1> USE DEF Unlinked, Goto
<1>1. Steady(env) /\ SingleWriter /\ SiblingInv /\ DataInUse
  BY DEF LockInv, Steady
<1>o. /\ \A q \in Procs \ {p} : pc'[q] = pc[q]
      /\ pc'[p] = l /\ name' \in {0, name} /\ sib' \in {0, sib}
      /\ lfd' = lfd /\ dfd' = dfd /\ goal' = goal /\ inodes' = inodes /\ env' = env
      /\ l \in {"dropSib", "reprobe", "unlinkData"} /\ pc[p] \in Removing
  BY DEF Base, LockTyped, Removing
<1>2. SingleWriter'
  BY <1>1, <1>o DEF SingleWriter, HasWriter, WriterPc
<1>3. DataInUse'
  <2>1. CASE "alone" \in env
    <3>1. \A q \in Procs : dfd[q] = 0
      BY <1>o, <2>1 DEF Base, Solo, Places, PlaceOf, WriterPc, Starting, Removing
    <3> QED BY <1>o, <3>1 DEF DataInUse
  <2>2. CASE "alone" \notin env
    BY <1>1, <1>o, <2>2 DEF DataInUse
  <2> QED BY <2>1, <2>2
<1>4. SiblingInv'
  <2>1. SUFFICES ASSUME "alone" \notin env PROVE SiblingInv'
    BY <1>o DEF SiblingInv
  <2>2. Creator(p) /\ inodes.data # 0 /\ \A q \in Procs \ {p} : pc[q] \notin Removing
    BY <1>1, <1>o, <2>1, RemovingIsCreator
  <2>3. \A q \in Procs : Creator(q) => q = p
    BY <2>2 DEF Base, CreatedOnce
  <2>4. CASE l # "unlinkData"
    <3>1. name' = 0
      BY <1>1, <2>1, <2>4 DEF SiblingInv
    <3>2. \A q \in Procs : Creator(q)' => pc'[q] \in Removing \ {"dropData"}
      BY <1>o, <2>3 DEF Creator, Removing
    <3> QED BY <1>o, <2>2, <3>1, <3>2 DEF SiblingInv
  <2>5. CASE l = "unlinkData"
    <3>1. pc[p] = "unlinkSib" /\ sib' = 0 /\ name' = name
      BY <2>5
    <3>2. name # 0 => SiblingUnlinked'
      <4>1. SUFFICES ASSUME name # 0 PROVE SiblingUnlinked'
        OBVIOUS
      <4>2. SiblingInUse
        BY <1>1, <2>1, <2>2, <3>1, <4>1 DEF SiblingInv, SiblingUnlinked, Removing
      <4> QED BY <1>o, <2>2, <2>5, <3>1, <4>2 DEF SiblingInUse, SiblingUnlinked
    <3>3. name = 0 => \A q \in Procs : Creator(q)' => pc'[q] \in Removing \ {"dropData"}
      BY <1>o, <2>3, <2>5 DEF Creator, Removing
    <3>4. \A q \in Procs : pc'[q] = "dropSib" => name' = 0
      BY <1>1, <1>o, <2>1, <2>5, <3>1 DEF SiblingInv
    <3> QED BY <1>o, <2>2, <3>1, <3>2, <3>3, <3>4 DEF SiblingInv
  <2> QED BY <2>4, <2>5
<1> QED BY <1>2, <1>3, <1>4

(* The unlinks that end a removal.                                         *)
Removed(p) ==
  /\ Return(p)
  /\ \/ pc[p] = "dropSib" /\ sib' = 0 /\ name' = name
     \/ pc[p] = "unlinkData" /\ name' = 0 /\ sib' = sib
  /\ UNCHANGED <<env, inodes>>

LEMMA RemovedBase ==
  ASSUME Base, NEW p \in Procs, Removed(p)
  PROVE  Base'
<1> USE DEF Removed, Return, Goto
<1>r. /\ flock' \in [LockInodes -> Procs \cup {Nobody}]
      /\ \A l \in LockInodes : flock'[l] # p
      /\ \A l \in LockInodes : flock[l] # p => flock'[l] = flock[l]
      /\ \A l \in LockInodes : flock'[l] # Nobody => flock'[l] = flock[l]
  BY ReleaseKeeps DEF Base
<1>o. /\ \A q \in Procs \ {p} : pc'[q] = pc[q] /\ goal'[q] = goal[q] /\ lfd'[q] = lfd[q] /\ dfd'[q] = dfd[q]
      /\ pc'[p] = "idle" /\ goal'[p] = "none" /\ lfd'[p] = 0 /\ dfd'[p] = 0
      /\ name' \in {0, name} /\ sib' \in {0, sib} /\ (name' # name => pc[p] = "unlinkData")
      /\ inodes' = inodes /\ env' = env
  BY DEF Base, LockTyped
<1>1. LockTyped'
  BY <1>o, <1>r, SessionStoreAssumption DEF Base, LockTyped, Pc, WriterPc, Goal
<1>2. Places'
  BY <1>o DEF Base, Places, PlaceOf, GoalsAt, Creator, Lockless, Holding, WriterPc, Starting, Removing
<1>3. LocksHeld'
  BY <1>o, <1>r, SessionStoreAssumption DEF Base, LockTyped, LocksHeld, Holding, LockInodes, Places, PlaceOf
<1>4. InodesMade'
  BY <1>o, SessionStoreAssumption DEF Base, LockTyped, InodesMade
<1>5. CreatedOnce' /\ Solo'
  <2>1. pc[p] = "unlinkData" => "remove" \in env \/ {"create", "unmount"} \subseteq env
    BY DEF Base, Places, PlaceOf, GoalsAt, Creator, Starting, Removing
  <2> QED BY <1>o, <2>1 DEF Base, CreatedOnce, Creator, Starting, Solo
<1> QED BY <1>1, <1>2, <1>3, <1>4, <1>5 DEF Base

LEMMA RemovedLock ==
  ASSUME Base, LockInv, NEW p \in Procs, Removed(p)
  PROVE  LockInv'
<1> SUFFICES ASSUME Steady(env)' PROVE (SingleWriter /\ SiblingInv /\ DataInUse)'
  BY DEF LockInv
<1> USE DEF Removed, Return, Goto
<1>1. Steady(env) /\ SingleWriter /\ SiblingInv /\ DataInUse
  BY DEF LockInv, Steady
<1>o. /\ \A q \in Procs \ {p} : pc'[q] = pc[q] /\ goal'[q] = goal[q] /\ lfd'[q] = lfd[q] /\ dfd'[q] = dfd[q]
      /\ pc'[p] = "idle" /\ goal'[p] = "none" /\ lfd'[p] = 0 /\ dfd'[p] = 0
      /\ name' \in {0, name} /\ inodes' = inodes /\ env' = env /\ pc[p] \in Removing
  BY DEF Base, LockTyped, Removing
<1>2. SingleWriter'
  BY <1>1, <1>o DEF SingleWriter, HasWriter, WriterPc
<1>3. DataInUse'
  <2>1. CASE "alone" \in env
    <3>1. \A q \in Procs : dfd'[q] = 0
      BY <1>o, <2>1 DEF Base, Solo, Places, PlaceOf, WriterPc, Starting, Removing
    <3> QED BY <3>1 DEF DataInUse
  <2>2. CASE "alone" \notin env
    BY <1>1, <1>o, <2>2 DEF DataInUse
  <2> QED BY <2>1, <2>2
<1>4. SiblingInv'
  <2>1. SUFFICES ASSUME "alone" \notin env PROVE SiblingInv'
    BY <1>o DEF SiblingInv
  <2>2. Creator(p) /\ inodes.data # 0
    BY <1>1, <1>o, <2>1, RemovingIsCreator
  <2>3. \A q \in Procs : ~ Creator(q)'
    BY <1>o, <2>2 DEF Base, CreatedOnce, Creator
  <2>4. name' = 0
    BY <1>1, <2>1 DEF SiblingInv
  <2> QED BY <1>o, <2>2, <2>3, <2>4 DEF SiblingInv
<1> QED BY <1>2, <1>3, <1>4

----------------------------------------------------------------------------
(* Every step is one of these.                                             *)

Still == UNCHANGED <<env, name, sib, inodes, flock, pc, goal, lfd, dfd>>

Effect(p) ==
  \/ Still \/ Left(p) \/ \E l : Walked(p, l)
  \/ Opened(p) \/ OpenFence(p) \/ \E l : Took(p, l)
  \/ \E g : Create(p, g)
  \/ \E g, l : Called(p, g, l)
  \/ Inspected(p) \/ Renamed(p) \/ MountFailsOnCreated(p)
  \/ \E l : Unlinked(p, l)
  \/ Removed(p)

LEMMA StepIsEffect ==
  ASSUME Base, Next, NEW p \in Procs, Call(p) \/ Step(p) \/ Crash(p)
  PROVE  env' = env /\ Effect(p)
<1>e. env' = env
  BY DEF Next
<1> USE DEF Disk, Walk
<1>1. CASE OpenSibling(p)
  <2>1. sib # 0 => sib <= MaxInodes
    BY DEF Base, LockTyped
  <2>2. inodes.lock < MaxInodes => inodes.lock + 1 <= MaxInodes
    BY SessionStoreAssumption DEF Base, LockTyped
  <2>3. CASE sib # 0
    BY <1>1, <1>e, <2>1, <2>3 DEF OpenSibling, Opened, Effect
  <2>4. CASE sib = 0 /\ inodes.lock < MaxInodes
    BY <1>1, <1>e, <2>2, <2>4, SessionStoreAssumption DEF Base, LockTyped, OpenSibling, Opened, Effect
  <2>5. CASE sib = 0 /\ ~ inodes.lock < MaxInodes
    BY <1>1, <1>e, <2>5 DEF OpenSibling, Left, Effect, Removing
  <2> QED BY <2>3, <2>4, <2>5
<1>2. CASE TakeFlock(p)
  BY <1>2, <1>e DEF TakeFlock, Took, Left, Effect, Removing
<1>3. CASE FillFork(p) \/ AppendRecord(p) \/ AppendFails(p)
  BY <1>3, <1>e DEF FillFork, AppendRecord, AppendFails, WriteLine, Still, Effect
<1>4. CASE FillFails(p)
  BY <1>4, <1>e DEF FillFails, Left, Effect, Removing
<1>5. CASE FillDone(p)
  BY <1>5, <1>e DEF FillDone, Left, Walked, Effect, Removing
<1>6. CASE ResumeLoad(p)
  BY <1>6, <1>e DEF ResumeLoad, Left, Walked, Effect, Removing
<1>7. CASE Exists(p)
  BY <1>7, <1>e DEF Exists, Left, Walked, Effect, Removing
<1>8. CASE Inspect(p)
  BY <1>8, <1>e DEF Inspect, Parses, Left, Inspected, Effect, Removing
<1>9. CASE Read(p) \/ Close(p)
  BY <1>9, <1>e DEF Read, Close, Left, Effect, Removing
<1>10. CASE Rewrite(p)
  BY <1>10, <1>e DEF Rewrite, Left, Walked, Effect, Removing
<1>11. CASE Rename(p)
  BY <1>11, <1>e DEF Rename, Renamed, Effect
<1>12. CASE MountOk(p)
  BY <1>12, <1>e DEF MountOk, Walked, Effect
<1>13. CASE MountFailsOnResume(p)
  BY <1>13, <1>e DEF MountFailsOnResume, Left, Effect, Removing
<1>14. CASE DropData(p)
  BY <1>14, <1>e DEF DropData, Unlinked, Effect
<1>15. CASE DropSib(p)
  BY <1>15, <1>e DEF DropSib, Unlinked, Removed, Effect
<1>16. CASE TakeFence(p)
  BY <1>16, <1>e DEF TakeFence, Took, Left, Effect, Removing
<1>17. CASE Stat(p)
  BY <1>17, <1>e DEF Stat, Walked, Left, Effect, Removing
<1>18. CASE UnlinkSib(p)
  BY <1>18, <1>e DEF UnlinkSib, Unlinked, Effect
<1>19. CASE UnlinkData(p)
  BY <1>19, <1>e DEF UnlinkData, Removed, Effect
<1>20. CASE Call(p)
  <2>1. ASSUME NEW g \in Goal, CallExisting(p, g) PROVE \E l : Called(p, g, l)
    BY <2>1, <1>e DEF CallExisting, Called
  <2>2. CASE CallRemove(p)
    BY <2>2, <1>e DEF CallRemove, Called, Effect
  <2> QED BY <1>20, <1>e, <2>1, <2>2 DEF Call, Effect
<1>21. CASE Crash(p)
  BY <1>21, <1>e DEF Crash, Left, Effect
<1> QED
  BY <1>e, <1>1, <1>2, <1>3, <1>4, <1>5, <1>6, <1>7, <1>8, <1>9, <1>10, <1>11, <1>12, <1>13,
     <1>14, <1>15, <1>16, <1>17, <1>18, <1>19, <1>20, <1>21 DEF Step, Effect

(* Steady only reads env, which stays.                                     *)
LEMMA StillBase ==
  ASSUME Base, Still
  PROVE  Base'
<1> USE DEF Still
<1>1. LockTyped'
  BY DEF Base, LockTyped
<1>2. Places'
  BY DEF Base, Places, PlaceOf, Creator
<1>3. LocksHeld' /\ InodesMade' /\ CreatedOnce' /\ Solo'
  BY DEF Base, LocksHeld, InodesMade, CreatedOnce, Solo, Creator
<1> QED BY <1>1, <1>2, <1>3 DEF Base

LEMMA StillLock ==
  ASSUME LockInv, Still
  PROVE  LockInv'
<1> USE DEF Still
<1>1. Steady(env)' => Steady(env)
  BY DEF Steady
<1>2. SingleWriter => SingleWriter'
  BY DEF SingleWriter, HasWriter
<1>3. DataInUse => DataInUse'
  BY DEF DataInUse
<1>4. SiblingInUse => SiblingInUse'
  BY DEF SiblingInUse
<1>5. SiblingUnlinked => SiblingUnlinked'
  BY DEF SiblingUnlinked
<1>6. SiblingInv => SiblingInv'
  BY <1>4, <1>5 DEF SiblingInv, Creator
<1> QED BY <1>1, <1>2, <1>3, <1>6 DEF LockInv

LEMMA EffectKeepsBase ==
  ASSUME Base, NEW p \in Procs, Effect(p), env' = env
  PROVE  Base'
BY StillBase, LeftBase, WalkedBase, OpenedBase, FencedBase, TookBase, CreateBase, CalledBase,
   InspectedBase, RenamedBase, UnmountedBase, UnlinkedBase, RemovedBase DEF Effect

LEMMA EffectKeepsLock ==
  ASSUME Base, LockInv, NEW p \in Procs, Effect(p), env' = env
  PROVE  LockInv'
BY StillLock, LeftLock, WalkedLock, OpenedLock, FencedLock, TookLock, CreateLock, CalledLock,
   InspectedLock, RenamedLock, UnmountedLock, UnlinkedLock, RemovedLock DEF Effect

LEMMA InitLock == Init => Base /\ LockInv
<1> SUFFICES ASSUME Init PROVE Base /\ LockInv
  OBVIOUS
<1>1. inodes \in [data : 0..MaxInodes, lock : 0..MaxInodes]
  BY SessionStoreAssumption DEF Init
<1>2. LockTyped
  BY <1>1, SessionStoreAssumption DEF Init, LockTyped, Pc, WriterPc, Goal
<1>3. Places
  BY DEF Init, Places, PlaceOf, GoalsAt, Creator, Lockless, Holding, WriterPc, Starting, Removing
<1>4. LocksHeld /\ InodesMade
  BY SessionStoreAssumption DEF Init, LocksHeld, InodesMade, Holding
<1>5. CreatedOnce /\ Solo
  BY DEF Init, CreatedOnce, Creator, Solo
<1>6. SingleWriter /\ DataInUse
  BY DEF Init, SingleWriter, HasWriter, WriterPc, DataInUse
<1>7. SiblingInv
  BY DEF Init, SiblingInv, SiblingInUse, Creator, Removing
<1> QED BY <1>2, <1>3, <1>4, <1>5, <1>6, <1>7 DEF Base, LockInv

LEMMA NextKeepsLock == Base /\ LockInv /\ [Next]_vars => Base' /\ LockInv'
<1> SUFFICES ASSUME Base, LockInv, [Next]_vars PROVE Base' /\ LockInv'
  OBVIOUS
<1>1. CASE Next
  <2>1. PICK p \in Procs : Call(p) \/ Step(p) \/ Crash(p)
    BY <1>1 DEF Next
  <2>2. env' = env /\ Effect(p)
    BY <1>1, <2>1, StepIsEffect
  <2> QED BY <2>2, EffectKeepsBase, EffectKeepsLock
<1>2. CASE UNCHANGED vars
  BY <1>2, StillBase, StillLock DEF Still, vars
<1> QED BY <1>1, <1>2

LEMMA LockInvariant == Spec => [](Base /\ LockInv)
BY InitLock, NextKeepsLock, PTL DEF Spec

(* Two writers are never open on one session, and the one there is writes  *)
(* to the file that the session's name leads to (session.rs:367-378,       *)
(* 909-911): in every environment that Steady describes, for every set of  *)
(* processes, whatever they create, resume, copy and compact, whoever dies,*)
(* whichever mount or write fails.                                         *)
THEOREM SessionWriterIsSingle == Spec => [](Steady(env) => WriterIsSingle)
<1>1. Base /\ LockInv => (Steady(env) => WriterIsSingle)
  <2> SUFFICES ASSUME Base, LockInv, Steady(env) PROVE WriterIsSingle
    OBVIOUS
  <2>1. SingleWriter /\ DataInUse
    BY DEF LockInv
  <2>2. LiveWriterIsNamed
    <3> SUFFICES ASSUME env \cap {"remove", "unmount"} = {}, NEW p \in Procs, HasWriter(p)
                 PROVE  dfd[p] = name
      BY DEF LiveWriterIsNamed
    <3>1. dfd[p] # 0
      BY DEF Base, Places, PlaceOf, HasWriter
    <3>2. inodes.data # 0
      BY <3>1, SessionStoreAssumption DEF Base, LockTyped, InodesMade
    <3>3. name # 0
      BY <3>2 DEF Base, CreatedOnce
    <3> QED BY <2>1, <3>1, <3>3 DEF DataInUse
  <2> QED BY <2>1, <2>2 DEF WriterIsSingle
<1> QED BY <1>1, LockInvariant, PTL

----------------------------------------------------------------------------
(* The content of the files.                                               *)

(* The environments in which the file is the session.  A session that      *)
(* others open before its creator has the lock is written over by it, and  *)
(* after a cut write the log of a writer is no longer what it wrote.       *)
Whole(e) ==
  /\ Steady(e)
  /\ IF "alone" \in e THEN "cut" \notin e ELSE ~ {"create", "early"} \subseteq e

Sized ==
  /\ file \in [DataInodes -> Content] /\ writes \in 0..MaxWrites
  /\ log \in [Procs -> Seq(Line)] /\ acked \subseteq 1..writes
  /\ \A d \in DataInodes : Len(file[d].lines) <= writes
  /\ \A p \in Procs : Len(log[p]) <= writes /\ (pc[p] = "idle" => log[p] = <<>>)

Unmade ==
  /\ \A d \in DataInodes : d > inodes.data => file[d] = Empty
  /\ inodes.data = 0 => acked = {}

(* A creator's file has its own lines only: it never writes over another's.*)
Mine ==
  \A p \in Procs : Creator(p) /\ dfd[p] # 0 =>
    \A i \in DOMAIN file[dfd[p]].lines : file[dfd[p]].lines[i].by = p

(* What a writer has open is not torn, so no line ends a torn segment.     *)
Unspoiled ==
  NoCut => /\ \A d \in DataInodes : ~ file[d].bad
           /\ \A p \in Procs : dfd[p] # 0 => ~ file[dfd[p]].torn

(* What a compaction renames over the file is what the file holds ...      *)
SnapshotIsFile ==
  \A p \in Procs : pc[p] = "rename" => name # 0 /\ log[p] = file[name].lines

(* ... and so is what a process alone has in memory, from its load on.     *)
SeedIsFile ==
  "alone" \in env => \A p \in Procs :
    goal[p] \in {"mint", "fork", "resume"} /\ pc[p] \notin Removing \cup {"load"} =>
      name # 0 /\ log[p] = file[name].lines

Positioned ==
  "alone" \in env =>
    \A d \in DataInodes : \A i \in DOMAIN file[d].lines : file[d].lines[i].pos = i - 1

Contents ==
  /\ Sized /\ Unmade /\ Mine /\ Unspoiled
  /\ AckedIsDurable /\ SnapshotIsFile /\ SeedIsFile /\ Positioned

ContentInv == Whole(env) => Contents

LEMMA WriterIsAlone ==
  ASSUME Base, SingleWriter, Whole(env), NEW p \in Procs, NEW q \in Procs, HasWriter(p), dfd[q] # 0
  PROVE  q = p
<1>1. CASE pc[q] \in WriterPc
  BY <1>1 DEF SingleWriter, HasWriter
<1>2. CASE Creator(q) /\ pc[q] \in Starting /\ q # p
  <2>1. CASE "alone" \in env
    BY <1>2, <2>1 DEF Base, Solo, Starting, HasWriter, WriterPc
  <2>2. CASE "alone" \notin env
    <3>1. "create" \in env
      BY <1>2 DEF Base, Places, PlaceOf
    <3>2. "early" \notin env
      BY <2>2, <3>1 DEF Whole
    <3> QED BY <1>2, <3>2 DEF Base, CreatedOnce, HasWriter, WriterPc
  <2> QED BY <2>1, <2>2
<1> QED BY <1>1, <1>2 DEF Base, Places, PlaceOf

LEMMA WriterHasFile ==
  ASSUME Base, NEW p \in Procs, HasWriter(p)
  PROVE  dfd[p] \in DataInodes /\ dfd[p] <= inodes.data /\ inodes.data # 0
BY SessionStoreAssumption DEF Base, LockTyped, InodesMade, Places, PlaceOf, HasWriter, DataInodes

----------------------------------------------------------------------------
(* A step that writes nothing.                                             *)

Quiet(p) ==
  /\ UNCHANGED <<env, file, writes, acked>> /\ inodes'.data = inodes.data
  /\ name' \in {0, name} /\ (name' # name => pc[p] \in Removing)
  /\ \A q \in Procs \ {p} : pc'[q] = pc[q] /\ goal'[q] = goal[q] /\ dfd'[q] = dfd[q]
  /\ dfd'[p] \in {0, dfd[p]} /\ (dfd'[p] # 0 => goal'[p] = goal[p])
  /\ \/ log' = log /\ (pc'[p] = "idle" => log[p] = <<>>)
     \/ log' = [log EXCEPT ![p] = <<>>]
     \/ name \in DataInodes /\ log' = [log EXCEPT ![p] = file[name].lines] /\ pc'[p] # "idle"
  /\ pc'[p] = "rename" =>
       name \in DataInodes /\ name' = name /\ log' = [log EXCEPT ![p] = file[name].lines]
  /\ goal'[p] \in {"mint", "fork", "resume"} /\ pc'[p] \notin Removing \cup {"load"} =>
       /\ name' = name
       /\ \/ name \in DataInodes /\ log' = [log EXCEPT ![p] = file[name].lines]
          \/ log' = log /\ goal'[p] = goal[p] /\ pc[p] \notin Removing \cup {"load"}

LEMMA QuietContents ==
  ASSUME Base, LockInv, Whole(env), Contents, NEW p \in Procs, Quiet(p)
  PROVE  Contents'
<1> USE DEF Quiet
<1>1. Sized'
  <2>1. /\ <<>> \in Seq(Line) /\ log \in [Procs -> Seq(Line)]
        /\ name \in DataInodes => file[name].lines \in Seq(Line) /\ Len(file[name].lines) <= writes
    BY DEF Contents, Sized, Content
  <2>2. log' \in [Procs -> Seq(Line)]
    BY <2>1
  <2>3. \A q \in Procs : Len(log'[q]) <= writes
    BY DEF Contents, Sized, Content
  <2>4. \A q \in Procs : pc'[q] = "idle" => log'[q] = <<>>
    BY DEF Contents, Sized
  <2> QED BY <2>2, <2>3, <2>4 DEF Contents, Sized
<1>2. Unmade'
  BY DEF Contents, Unmade
<1>3. Mine'
  BY DEF Contents, Mine, Creator
<1>4. Unspoiled'
  BY DEF Contents, Unspoiled, NoCut
<1>5. AckedIsDurable'
  BY DEF Contents, AckedIsDurable, NoCut
<1>6. SnapshotIsFile'
  <2>1. ASSUME NEW q \in Procs \ {p}, pc[q] = "rename" PROVE name' = name
    <3>1. SiblingInv /\ Steady(env)
      BY DEF LockInv, Whole
    <3>2. CASE "alone" \in env
      BY <2>1, <3>2 DEF Base, Solo, Removing
    <3>3. CASE "alone" \notin env
      BY <2>1, <3>1, <3>3, RenamerIsAlone
    <3> QED BY <3>2, <3>3
  <2>2. ASSUME NEW q \in Procs \ {p} PROVE log'[q] = log[q]
    BY DEF Contents, Sized
  <2>3. pc'[p] = "rename" => name' # 0 /\ log'[p] = file[name].lines /\ name' = name
    BY SessionStoreAssumption DEF Contents, Sized, DataInodes
  <2> QED BY <2>1, <2>2, <2>3 DEF Contents, SnapshotIsFile
<1>7. SeedIsFile'
  <2>1. SUFFICES ASSUME "alone" \in env, NEW q \in Procs,
                        goal'[q] \in {"mint", "fork", "resume"}, pc'[q] \notin Removing \cup {"load"}
                 PROVE  name' # 0 /\ log'[q] = file[name'].lines
    BY DEF SeedIsFile, Creator
  <2>2. CASE q = p
    BY <2>1, <2>2, SessionStoreAssumption DEF Contents, SeedIsFile, Sized, DataInodes
  <2>3. CASE q # p
    <3>1. pc[q] # "idle"
      BY <2>1, <2>3 DEF Base, Places, PlaceOf, GoalsAt, Starting
    <3>2. name' = name
      BY <2>1, <2>3, <3>1 DEF Base, Solo, Removing
    <3>3. log'[q] = log[q]
      BY <2>3 DEF Contents, Sized
    <3> QED BY <2>1, <2>3, <3>2, <3>3 DEF Contents, SeedIsFile
  <2> QED BY <2>2, <2>3
<1>8. Positioned'
  BY DEF Contents, Positioned
<1> QED BY <1>1, <1>2, <1>3, <1>4, <1>5, <1>6, <1>7, <1>8 DEF Contents

----------------------------------------------------------------------------
(* A step that writes: only its process has the file open, so the line     *)
(* goes at the end, and the file was not torn.                             *)

(* What a write leaves of the process: it goes on, or its call returns.    *)
Wrote(p) ==
  /\ HasWriter(p) /\ UNCHANGED <<env, name, inodes>>
  /\ \A q \in Procs \ {p} : pc'[q] = pc[q] /\ goal'[q] = goal[q] /\ dfd'[q] = dfd[q]
  /\ \/ UNCHANGED <<pc, goal, dfd>>
     \/ pc'[p] = "idle" /\ goal'[p] = "none" /\ dfd'[p] = 0

Put(p) ==
  /\ Wrote(p) /\ PutLine(p)
  /\ writes < MaxWrites /\ writes' = writes + 1
  /\ \/ /\ log' = [log EXCEPT ![p] = Append(@, NextLine(p))] /\ UNCHANGED <<pc, goal, dfd>>
        /\ acked' \in {acked, acked \cup {writes + 1}}
     \/ log' = log /\ acked' = acked /\ "cut" \in env /\ UNCHANGED <<pc, goal, dfd>>
     \/ log' = [log EXCEPT ![p] = <<>>] /\ acked' = acked /\ pc'[p] = "idle" /\ goal'[p] = "none"

LEMMA NextLineIsLine ==
  ASSUME Sized, NEW p \in Procs, writes < MaxWrites
  PROVE  NextLine(p) \in Line /\ NextLine(p).pos = Len(log[p]) /\ NextLine(p).by = p
         /\ NextLine(p).id = writes + 1
<1>1. Len(log[p]) \in Nat /\ Len(log[p]) <= writes /\ log[p] \in Seq(Line)
  BY DEF Sized
<1>2. Len(log[p]) \in 0..MaxWrites /\ writes + 1 \in 1..MaxWrites
  BY <1>1, SessionStoreAssumption DEF Sized
<1> QED BY <1>2 DEF NextLine, Line

(* What AddLine makes of a file c.                                         *)
Added(n, c, x) ==
  /\ n \in Content /\ Len(n.lines) <= Len(c.lines) + 1
  /\ \A i \in DOMAIN n.lines :
       \/ i \in DOMAIN c.lines /\ n.lines[i] = c.lines[i]
       \/ i = Len(c.lines) + 1 /\ n.lines[i] = x
  /\ \A i \in DOMAIN c.lines : i \in DOMAIN n.lines /\ n.lines[i] = c.lines[i]
  /\ ~ c.torn => /\ n.lines = Append(c.lines, x) /\ n.bad = c.bad /\ ~ n.torn
                 /\ Len(c.lines) + 1 \in DOMAIN n.lines /\ n.lines[Len(c.lines) + 1] = x

LEMMA AddLineIs ==
  ASSUME NEW c \in Content, NEW x \in Line
  PROVE  Added(AddLine(c, x), c, x)
<1>1. c.lines \in Seq(Line) /\ c.torn \in BOOLEAN /\ c.bad \in BOOLEAN
  BY DEF Content
<1>2. CASE c.torn
  <2>1. AddLine(c, x) = [lines |-> c.lines, torn |-> FALSE, bad |-> TRUE]
    BY <1>2 DEF AddLine, Content
  <2> QED BY <1>1, <1>2, <2>1 DEF Content, Added
<1>3. CASE ~ c.torn
  <2>1. AddLine(c, x) = [lines |-> Append(c.lines, x), torn |-> FALSE, bad |-> c.bad]
    BY <1>3, <1>1 DEF AddLine, Content
  <2>2. /\ Append(c.lines, x) \in Seq(Line) /\ Len(Append(c.lines, x)) = Len(c.lines) + 1
        /\ \A i \in 1..Len(c.lines) : Append(c.lines, x)[i] = c.lines[i]
        /\ Append(c.lines, x)[Len(c.lines) + 1] = x
    BY <1>1
  <2>3. DOMAIN c.lines = 1..Len(c.lines) /\ DOMAIN Append(c.lines, x) = 1..(Len(c.lines) + 1)
        /\ Len(c.lines) \in Nat
    BY <1>1, <2>2
  <2>4. AddLine(c, x) \in Content
    BY <1>1, <2>1, <2>2 DEF Content
  <2> QED BY <1>3, <2>1, <2>2, <2>3, <2>4 DEF Added
<1> QED BY <1>1, <1>2, <1>3

LEMMA PutContents ==
  ASSUME Base, LockInv, Whole(env), Contents, NEW p \in Procs, Put(p)
  PROVE  Contents'
<1> DEFINE k == dfd[p]
           c == file[k]
           x == NextLine(p)
<1>k. k \in DataInodes /\ k <= inodes.data /\ inodes.data # 0
  BY WriterHasFile DEF Put, Wrote
<1>c. c \in Content /\ file \in [DataInodes -> Content]
  BY <1>k DEF Contents, Sized
<1>x. x \in Line /\ x.pos = Len(log[p]) /\ x.by = p /\ x.id = writes + 1
  BY NextLineIsLine DEF Contents, Put
<1>w. \A q \in Procs : q # p => dfd[q] = 0 /\ dfd'[q] = 0
  BY WriterIsAlone DEF LockInv, Whole, Put, Wrote
<1>o. file' = [file EXCEPT ![k] = AddLine(@, x)]
  <2>1. ~ Overwrites(p)
    BY <1>k, SessionStoreAssumption DEF Overwrites, Contents, Mine, Creator, DataInodes
  <2> QED BY <2>1 DEF Put, PutLine
<1>l. AddLine(c, x) \in Content
  BY <1>c, <1>x, AddLineIs DEF Added
<1>f. /\ file' \in [DataInodes -> Content] /\ file'[k] = AddLine(c, x)
      /\ \A d \in DataInodes : d # k => file'[d] = file[d]
  BY <1>k, <1>c, <1>o, <1>l
<1>t. NoCut => ~ c.torn /\ ~ c.bad
  BY <1>k, SessionStoreAssumption DEF Contents, Unspoiled, DataInodes
<1>a. Added(file'[k], c, x)
  BY <1>c, <1>f, <1>x, AddLineIs
<1>s. env' = env /\ name' = name /\ inodes' = inodes /\ writes' = writes + 1 /\ writes < MaxWrites
  BY DEF Put, Wrote
<1>n. name = k \/ (name = 0 /\ "alone" \notin env)
  BY <1>k, SessionStoreAssumption DEF LockInv, Whole, DataInUse, DataInodes
<1>1. Sized'
  <2>1. writes' \in 0..MaxWrites /\ acked' \subseteq 1..writes'
    <3>1. writes \in Nat /\ MaxWrites \in Nat /\ acked \subseteq 1..writes
      BY SessionStoreAssumption DEF Contents, Sized
    <3>2. acked' \subseteq acked \cup {writes + 1}
      BY DEF Put
    <3> QED BY <1>s, <3>1, <3>2
  <2>2. /\ log[p] \in Seq(Line) /\ Append(log[p], x) \in Seq(Line) /\ <<>> \in Seq(Line)
        /\ Len(Append(log[p], x)) = Len(log[p]) + 1 /\ Len(log[p]) <= writes
    BY <1>x DEF Contents, Sized
  <2>3. log' \in [Procs -> Seq(Line)]
    BY <2>2 DEF Put, Contents, Sized
  <2>4. \A q \in Procs : Len(log'[q]) <= writes' /\ (pc'[q] = "idle" => log'[q] = <<>>)
    <3>1. ASSUME NEW q \in Procs, q # p PROVE log'[q] = log[q] /\ pc'[q] = pc[q]
      BY <3>1 DEF Put, Wrote, Contents, Sized
    <3>2. Len(log'[p]) <= writes' /\ (pc'[p] = "idle" => log'[p] = <<>>)
      <4>1. log'[p] \in {log[p], Append(log[p], x), <<>>}
        BY DEF Put, Contents, Sized
      <4>2. pc[p] # "idle"
        BY DEF Put, Wrote, HasWriter, WriterPc
      <4>3. pc'[p] = "idle" => log'[p] = <<>>
        BY <4>2 DEF Put, Contents, Sized
      <4>4. writes \in Nat
        BY SessionStoreAssumption DEF Contents, Sized
      <4> QED BY <1>s, <2>2, <4>1, <4>3, <4>4
    <3>3. writes \in Nat /\ \A q \in Procs : log[q] \in Seq(Line) /\ Len(log[q]) <= writes
      BY SessionStoreAssumption DEF Contents, Sized
    <3> QED BY <1>s, <3>1, <3>2, <3>3 DEF Contents, Sized
  <2>5. \A d \in DataInodes : Len(file'[d].lines) <= writes'
    <3>1. writes \in Nat /\ \A d \in DataInodes : Len(file[d].lines) \in Nat /\ Len(file[d].lines) <= writes
      BY SessionStoreAssumption DEF Contents, Sized, Content
    <3>2. Len(file'[k].lines) \in Nat
      BY <1>f, <1>k DEF Content
    <3> QED BY <1>a, <1>f, <1>k, <1>s, <3>1, <3>2 DEF Added
  <2> QED BY <1>f, <2>1, <2>3, <2>4, <2>5 DEF Sized
<1>2. Unmade'
  <2>1. \A d \in DataInodes : d > inodes.data => d # k
    BY <1>k, SessionStoreAssumption DEF Base, LockTyped, DataInodes
  <2> QED BY <1>f, <1>k, <1>s, <2>1 DEF Contents, Unmade
<1>3. Mine'
  <2>1. SUFFICES ASSUME Creator(p)', dfd'[p] # 0, NEW i \in DOMAIN file'[dfd'[p]].lines
                 PROVE  file'[dfd'[p]].lines[i].by = p
    BY <1>w DEF Mine
  <2>2. dfd'[p] = k /\ Creator(p)
    BY <2>1 DEF Put, Wrote, Creator
  <2>3. \A j \in DOMAIN c.lines : c.lines[j].by = p
    BY <1>k, <2>1, <2>2 DEF Contents, Mine
  <2>4. i \in DOMAIN file'[k].lines /\ file'[dfd'[p]].lines[i] = file'[k].lines[i]
    BY <2>1, <2>2
  <2> HIDE DEF k, c, x
  <2> QED BY <1>a, <1>x, <2>3, <2>4 DEF Added
<1>4. Unspoiled'
  <2>1. SUFFICES ASSUME NoCut PROVE /\ \A d \in DataInodes : ~ file'[d].bad
                                    /\ \A q \in Procs : dfd'[q] # 0 => ~ file'[dfd'[q]].torn
    BY <1>s DEF Unspoiled, NoCut
  <2>2. dfd'[p] \in {0, k}
    BY DEF Put, Wrote
  <2> QED BY <1>a, <1>f, <1>t, <1>w, <2>1, <2>2 DEF Contents, Unspoiled, Added
<1>5. AckedIsDurable'
  <2>1. SUFFICES ASSUME NoCut, name # 0, NEW a \in acked'
                 PROVE  \E i \in DOMAIN file'[name].lines : file'[name].lines[i].id = a
    BY <1>s DEF AckedIsDurable, NoCut
  <2>2. name = k /\ ~ c.torn
    BY <1>n, <1>t, <2>1
  <2>3. CASE a = writes + 1
    BY <1>a, <1>x, <2>2, <2>3 DEF Added
  <2>4. CASE a \in acked
    <3>1. PICK i \in DOMAIN c.lines : c.lines[i].id = a
      BY <2>1, <2>2, <2>4 DEF Contents, AckedIsDurable
    <3> QED BY <1>a, <2>2, <3>1 DEF Added
  <2> QED BY <2>1, <2>3, <2>4 DEF Put
<1>6. SnapshotIsFile'
  <2>1. ASSUME NEW q \in Procs PROVE pc'[q] # "rename"
    <3>1. pc[q] # "rename"
      BY RenamerIsAlone, <1>k, SessionStoreAssumption DEF LockInv, Whole, DataInodes
    <3> QED BY <3>1 DEF Put, Wrote
  <2> QED BY <2>1 DEF SnapshotIsFile
<1>7. SeedIsFile'
  <2>1. SUFFICES ASSUME "alone" \in env, NEW q \in Procs,
                        goal'[q] \in {"mint", "fork", "resume"}, pc'[q] \notin Removing \cup {"load"}
                 PROVE  name # 0 /\ log'[q] = file'[name].lines
    BY <1>s DEF SeedIsFile
  <2>2. q = p
    <3>1. SUFFICES ASSUME q # p PROVE FALSE
      OBVIOUS
    <3>2. pc[q] = "idle"
      BY <2>1, <3>1 DEF Put, Wrote, HasWriter, WriterPc, Base, Solo
    <3> QED BY <2>1, <3>1, <3>2 DEF Put, Wrote, Base, Places, PlaceOf, GoalsAt, Starting
  <2>3. NoCut /\ name = k
    BY <1>n, <2>1 DEF Whole, NoCut
  <2>4. UNCHANGED <<pc, goal, dfd>> /\ log' = [log EXCEPT ![p] = Append(@, x)]
    BY <2>1, <2>2, <2>3 DEF Put, NoCut
  <2>5. name # 0 /\ log[p] = file[name].lines
    BY <2>1, <2>2, <2>4 DEF Contents, SeedIsFile
  <2>6. log'[p] = Append(log[p], x)
    BY <2>4 DEF Contents, Sized
  <2> QED BY <1>a, <1>t, <2>2, <2>3, <2>5, <2>6 DEF Added
<1>8. Positioned'
  <2>1. SUFFICES ASSUME "alone" \in env, NEW i \in DOMAIN file'[k].lines PROVE file'[k].lines[i].pos = i - 1
    BY <1>f, <1>k, <1>s DEF Contents, Positioned
  <2>2. goal[p] \in {"mint", "fork", "resume"} /\ pc[p] \notin Removing \cup {"load"}
    BY DEF Put, Wrote, HasWriter, WriterPc, Base, Places, PlaceOf, GoalsAt, Removing, Starting
  <2>3. log[p] = c.lines
    BY <1>n, <2>1, <2>2 DEF Contents, SeedIsFile
  <2>4. \A j \in DOMAIN c.lines : c.lines[j].pos = j - 1
    BY <1>k, <2>1 DEF Contents, Positioned
  <2>5. Len(c.lines) \in Nat
    BY <1>c DEF Content
  <2> QED BY <1>a, <1>x, <2>3, <2>4, <2>5 DEF Added
<1> QED BY <1>1, <1>2, <1>3, <1>4, <1>5, <1>6, <1>7, <1>8 DEF Contents

Tore(p) ==
  /\ Wrote(p) /\ file' = [file EXCEPT ![dfd[p]].torn = TRUE] /\ UNCHANGED <<writes, acked>>
  /\ \/ log' = log /\ "cut" \in env /\ UNCHANGED <<pc, goal, dfd>>
     \/ log' = [log EXCEPT ![p] = <<>>] /\ pc'[p] = "idle" /\ goal'[p] = "none" /\ dfd'[p] = 0

LEMMA ToreContents ==
  ASSUME Base, LockInv, Whole(env), Contents, NEW p \in Procs, Tore(p)
  PROVE  Contents'
<1> DEFINE k == dfd[p]
<1>k. k \in DataInodes /\ k <= inodes.data /\ inodes.data # 0
  BY WriterHasFile DEF Tore, Wrote
<1>w. \A q \in Procs : q # p => dfd[q] = 0 /\ dfd'[q] = 0
  BY WriterIsAlone DEF LockInv, Whole, Tore, Wrote
<1>f. /\ file' \in [DataInodes -> Content]
      /\ \A d \in DataInodes : file'[d].lines = file[d].lines /\ file'[d].bad = file[d].bad
      /\ \A d \in DataInodes : d # k => file'[d] = file[d]
  BY <1>k DEF Tore, Contents, Sized, Content
<1>s. env' = env /\ name' = name /\ inodes' = inodes /\ writes' = writes /\ acked' = acked
  BY DEF Tore, Wrote
<1>p. pc[p] # "idle" /\ pc[p] # "rename"
  BY DEF Tore, Wrote, HasWriter, WriterPc
<1>1. Sized'
  <2>1. <<>> \in Seq(Line) /\ log \in [Procs -> Seq(Line)]
    BY DEF Contents, Sized
  <2>2. log' \in [Procs -> Seq(Line)]
    BY <2>1 DEF Tore
  <2>3. \A q \in Procs : Len(log'[q]) <= writes /\ (pc'[q] = "idle" => log'[q] = <<>>)
    BY <1>p DEF Tore, Wrote, Contents, Sized
  <2> QED BY <1>f, <1>s, <2>2, <2>3 DEF Contents, Sized
<1>2. Unmade'
  <2>1. \A d \in DataInodes : d > inodes.data => d # k
    BY <1>k, SessionStoreAssumption DEF Base, LockTyped, DataInodes
  <2> QED BY <1>f, <1>s, <2>1 DEF Contents, Unmade
<1>3. Mine'
  BY <1>f, <1>k, <1>w DEF Contents, Mine, Creator, Tore, Wrote
<1>4. Unspoiled'
  BY <1>f, <1>s, <1>w DEF Contents, Unspoiled, NoCut, Tore, Wrote
<1>5. AckedIsDurable'
  <2>1. name # 0 => name \in DataInodes
    BY SessionStoreAssumption DEF Base, LockTyped, DataInodes
  <2> QED BY <1>f, <1>s, <2>1 DEF Contents, AckedIsDurable, NoCut
<1>6. SnapshotIsFile'
  <2>1. \A q \in Procs : pc[q] # "rename"
    BY RenamerIsAlone, <1>k, SessionStoreAssumption DEF LockInv, Whole, DataInodes
  <2> QED BY <2>1 DEF SnapshotIsFile, Tore, Wrote
<1>7. SeedIsFile'
  <2>1. SUFFICES ASSUME "alone" \in env, NEW q \in Procs, goal'[q] \in {"mint", "fork", "resume"}
                 PROVE  FALSE
    BY <1>s DEF SeedIsFile
  <2>2. q # p
    BY <2>1 DEF Whole, Tore
  <2>3. pc[q] = "idle" /\ goal'[q] = goal[q]
    BY <1>p, <2>1, <2>2 DEF Tore, Wrote, Base, Solo
  <2> QED BY <2>1, <2>3 DEF Base, Places, PlaceOf, GoalsAt, Starting
<1>8. Positioned'
  BY <1>f, <1>s DEF Contents, Positioned
<1> QED BY <1>1, <1>2, <1>3, <1>4, <1>5, <1>6, <1>7, <1>8 DEF Contents

----------------------------------------------------------------------------
(* The steps that give a process a file, or the session another.           *)

LEMMA CreateContents ==
  ASSUME Base, LockInv, Whole(env), Contents, NEW p \in Procs, NEW g, Create(p, g), env' = env
  PROVE  Contents'
<1> USE DEF Create, Begin, Goto
<1>d. 1 \in DataInodes /\ file[1] = Empty /\ inodes.data = 0 /\ acked = {}
  BY SessionStoreAssumption DEF DataInodes, Contents, Unmade
<1>o. /\ \A q \in Procs \ {p} : pc'[q] = pc[q] /\ goal'[q] = goal[q] /\ dfd'[q] = dfd[q]
      /\ pc[p] = "idle" /\ pc'[p] = "open" /\ goal'[p] = g /\ dfd'[p] = 1
      /\ name = 0 /\ name' = 1 /\ inodes'.data = 1
      /\ file' = file /\ writes' = writes /\ log' = log /\ acked' = acked
      /\ "alone" \in env => \A q \in Procs : pc[q] = "idle"
  BY <1>d DEF Base, LockTyped
<1>n. \A q \in Procs : dfd[q] = 0
  BY <1>d, SessionStoreAssumption DEF Base, LockTyped, InodesMade
<1>1. Sized'
  BY <1>o DEF Contents, Sized
<1>2. Unmade'
  BY <1>d, <1>o, SessionStoreAssumption DEF Contents, Unmade, DataInodes
<1>3. Mine'
  BY <1>d, <1>o, <1>n DEF Mine, Creator, Empty
<1>4. Unspoiled'
  BY <1>d, <1>o, <1>n DEF Contents, Unspoiled, NoCut, Empty
<1>5. AckedIsDurable'
  BY <1>d, <1>o DEF AckedIsDurable
<1>6. SnapshotIsFile'
  BY <1>o DEF Contents, SnapshotIsFile
<1>7. SeedIsFile'
  <2>1. SUFFICES ASSUME "alone" \in env, NEW q \in Procs, goal'[q] \in {"mint", "fork", "resume"}
                 PROVE  name' # 0 /\ log'[q] = file'[name'].lines
    BY DEF SeedIsFile
  <2>2. q = p
    <3>1. SUFFICES ASSUME q # p PROVE FALSE
      OBVIOUS
    <3>2. pc[q] = "idle" /\ goal'[q] = goal[q]
      BY <1>o, <2>1, <3>1
    <3> QED BY <2>1, <3>2 DEF Base, Places, PlaceOf, GoalsAt, Starting
  <2>3. log[p] = <<>>
    BY <1>o DEF Contents, Sized
  <2> QED BY <1>d, <1>o, <2>2, <2>3 DEF Empty
<1>8. Positioned'
  BY <1>o DEF Contents, Positioned
<1> QED BY <1>1, <1>2, <1>3, <1>4, <1>5, <1>6, <1>7, <1>8 DEF Contents

LEMMA InspectContents ==
  ASSUME Base, LockInv, Whole(env), Contents, NEW p \in Procs, Inspect(p), Parses, env' = env
  PROVE  Contents'
<1> USE DEF Inspect, Goto
<1>k. name \in DataInodes /\ name # 0 /\ name <= inodes.data
  BY SessionStoreAssumption DEF Base, LockTyped, InodesMade, DataInodes, Parses
<1>f. /\ file' \in [DataInodes -> Content]
      /\ \A d \in DataInodes : file'[d].lines = file[d].lines /\ file'[d].bad = file[d].bad
      /\ \A d \in DataInodes : d # name => file'[d] = file[d]
      /\ ~ file'[name].torn
  <2>1. file' = [file EXCEPT ![name].torn = FALSE]
    OBVIOUS
  <2>2. file \in [DataInodes -> Content]
    BY DEF Contents, Sized
  <2> HIDE DEF Inspect
  <2> QED BY <1>k, <2>1, <2>2 DEF Content
<1>o. /\ \A q \in Procs \ {p} : pc'[q] = pc[q] /\ dfd'[q] = dfd[q]
      /\ pc[p] = "inspect" /\ pc'[p] = "mounting" /\ dfd'[p] = name
      /\ goal' = goal /\ name' = name /\ inodes' = inodes /\ writes' = writes
      /\ log' = log /\ acked' = acked
  BY DEF Base, LockTyped
<1>g. goal[p] = "resume"
  BY DEF Base, Places, PlaceOf, GoalsAt, Starting
<1>1. Sized'
  BY <1>f, <1>o DEF Contents, Sized
<1>2. Unmade'
  <2>1. \A d \in DataInodes : d > inodes.data => d # name
    BY <1>k, SessionStoreAssumption DEF Base, LockTyped, DataInodes
  <2> QED BY <1>f, <1>o, <2>1 DEF Contents, Unmade
<1>3. Mine'
  <2>1. \A q \in Procs : dfd[q] # 0 => dfd[q] \in DataInodes
    BY SessionStoreAssumption DEF Base, LockTyped, DataInodes
  <2>2. \A q \in Procs : Creator(q)' /\ dfd'[q] # 0 => q # p /\ Creator(q) /\ dfd'[q] = dfd[q]
    BY <1>g, <1>o DEF Creator
  <2> QED BY <1>f, <2>1, <2>2 DEF Contents, Mine
<1>4. Unspoiled'
  <2>1. \A q \in Procs : dfd[q] # 0 => dfd[q] \in DataInodes
    BY SessionStoreAssumption DEF Base, LockTyped, DataInodes
  <2> QED BY <1>f, <1>o, <2>1 DEF Contents, Unspoiled, NoCut
<1>5. AckedIsDurable'
  BY <1>f, <1>k, <1>o DEF Contents, AckedIsDurable, NoCut
<1>6. SnapshotIsFile'
  BY <1>f, <1>k, <1>o DEF Contents, SnapshotIsFile
<1>7. SeedIsFile'
  BY <1>f, <1>g, <1>k, <1>o DEF Contents, SeedIsFile, Removing
<1>8. Positioned'
  BY <1>f DEF Contents, Positioned
<1> QED BY <1>1, <1>2, <1>3, <1>4, <1>5, <1>6, <1>7, <1>8 DEF Contents

LEMMA RenameContents ==
  ASSUME Base, LockInv, Whole(env), Contents, NEW p \in Procs, Rename(p), env' = env
  PROVE  Contents'
<1> USE DEF Rename, Return, Goto
<1> DEFINE k == inodes.data + 1
<1>k. k \in DataInodes /\ inodes.data \in Nat
  BY SessionStoreAssumption DEF Base, LockTyped, DataInodes
<1>n. name \in DataInodes /\ name <= inodes.data /\ log[p] = file[name].lines
  BY SessionStoreAssumption DEF Base, LockTyped, InodesMade, DataInodes, Contents, SnapshotIsFile
<1>r. \A q \in Procs : dfd[q] = 0 /\ (pc[q] = "rename" => q = p)
  BY RenamerIsAlone DEF LockInv, Whole
<1>f. /\ file' \in [DataInodes -> Content] /\ file'[k] = [lines |-> log[p], torn |-> FALSE, bad |-> FALSE]
      /\ \A d \in DataInodes : d # k => file'[d] = file[d]
  BY <1>k DEF Contents, Sized, Content, Empty
<1>o. /\ \A q \in Procs \ {p} : pc'[q] = pc[q] /\ goal'[q] = goal[q] /\ dfd'[q] = dfd[q] /\ log'[q] = log[q]
      /\ pc'[p] = "idle" /\ goal'[p] = "none" /\ dfd'[p] = 0 /\ log'[p] = <<>>
      /\ name' = k /\ inodes'.data = k /\ writes' = writes /\ acked' = acked
  BY DEF Base, LockTyped, Contents, Sized
<1>1. Sized'
  <2>1. log' \in [Procs -> Seq(Line)]
    BY DEF Contents, Sized
  <2>2. \A q \in Procs : Len(log'[q]) <= writes /\ (pc'[q] = "idle" => log'[q] = <<>>)
    BY <1>o DEF Contents, Sized
  <2>3. \A d \in DataInodes : Len(file'[d].lines) <= writes
    BY <1>f DEF Contents, Sized
  <2> QED BY <1>f, <1>o, <2>1, <2>2, <2>3 DEF Contents, Sized
<1>2. Unmade'
  <2>1. \A d \in DataInodes : d > k => d # k /\ d > inodes.data
    BY <1>k, SessionStoreAssumption DEF DataInodes
  <2> QED BY <1>f, <1>k, <1>o, <2>1 DEF Contents, Unmade
<1>3. Mine'
  BY <1>o, <1>r DEF Mine
<1>4. Unspoiled'
  BY <1>f, <1>o, <1>r DEF Contents, Unspoiled, NoCut
<1>5. AckedIsDurable'
  <2>1. file'[name'].lines = file[name].lines /\ name # 0
    BY <1>f, <1>n, <1>o, SessionStoreAssumption DEF DataInodes
  <2> QED BY <1>o, <2>1 DEF Contents, AckedIsDurable, NoCut
<1>6. SnapshotIsFile'
  BY <1>o, <1>r DEF SnapshotIsFile
<1>7. SeedIsFile'
  <2>1. SUFFICES ASSUME "alone" \in env, NEW q \in Procs, goal'[q] \in {"mint", "fork", "resume"}
                 PROVE  FALSE
    BY DEF SeedIsFile
  <2>2. q # p
    BY <1>o, <2>1
  <2>3. pc[q] = "idle" /\ goal'[q] = goal[q]
    BY <1>o, <2>1, <2>2 DEF Base, Solo
  <2> QED BY <2>1, <2>3 DEF Base, Places, PlaceOf, GoalsAt, Starting
<1>8. Positioned'
  BY <1>f, <1>n DEF Contents, Positioned
<1> QED BY <1>1, <1>2, <1>3, <1>4, <1>5, <1>6, <1>7, <1>8 DEF Contents

----------------------------------------------------------------------------
(* Every step is one of these.                                             *)

LEMMA ReturnIsQuiet ==
  ASSUME Base, Contents, NEW p \in Procs, Return(p), UNCHANGED <<env, file, writes, acked>>,
         inodes'.data = inodes.data, name' \in {0, name}, name' # name => pc[p] \in Removing
  PROVE  Quiet(p)
BY DEF Return, Goto, Quiet, Base, LockTyped

(* A step within a call, that has loaded the session or left its log.      *)
LEMMA WalkIsQuiet ==
  ASSUME Base, Contents, NEW p \in Procs, NEW l, Goto(p, l), l # "idle", pc[p] # "idle",
         UNCHANGED <<env, file, writes, acked, goal>>,
         inodes'.data = inodes.data, name' \in {0, name}, name' # name => pc[p] \in Removing,
         dfd' \in {dfd, [dfd EXCEPT ![p] = 0]},
         \/ /\ log' = log /\ l # "rename"
            /\ pc[p] \in Removing \cup {"load"} => l \in Removing
            /\ name' # name => l \in Removing \/ goal[p] = "rm"
         \/ name # 0 /\ name' = name /\ log' = [log EXCEPT ![p] = file[name].lines]
  PROVE  Quiet(p)
<1>1. name # 0 => name \in DataInodes
  BY SessionStoreAssumption DEF Base, LockTyped, DataInodes
<1>2. pc'[p] = l /\ \A q \in Procs \ {p} : pc'[q] = pc[q] /\ dfd'[q] = dfd[q]
  BY DEF Goto, Base, LockTyped
<1>3. dfd'[p] \in {0, dfd[p]}
  BY DEF Base, LockTyped
<1> QED BY <1>1, <1>2, <1>3 DEF Quiet

LEMMA CutIs ==
  ASSUME Base, Contents, NEW p \in Procs, HasWriter(p), CutLine(p), UNCHANGED <<env, name, inodes, acked>>,
         \/ Return(p)
         \/ UNCHANGED <<pc, goal, dfd, log>> /\ "cut" \in env
  PROVE  Quiet(p) \/ Tore(p) \/ Put(p)
<1>1. Wrote(p)
  BY DEF Wrote, Return, Goto, Base, LockTyped
<1>2. CASE Return(p)
  <2>1. pc'[p] = "idle" /\ goal'[p] = "none" /\ dfd'[p] = 0 /\ log' = [log EXCEPT ![p] = <<>>]
    BY <1>2 DEF Return, Goto, Base, LockTyped
  <2>2. CASE UNCHANGED <<file, writes>>
    BY <1>2, <2>2, ReturnIsQuiet
  <2> QED BY <1>1, <2>1, <2>2 DEF CutLine, Tore, Put
<1>3. CASE UNCHANGED <<pc, goal, dfd, log>> /\ "cut" \in env
  <2>1. CASE UNCHANGED <<file, writes>>
    <3>1. pc[p] # "rename" /\ pc[p] # "idle" /\ pc[p] \notin Removing \cup {"load"}
      BY DEF HasWriter, WriterPc, Removing
    <3> QED BY <1>3, <2>1, <3>1 DEF Quiet
  <2> QED BY <1>1, <1>3, <2>1 DEF CutLine, Tore, Put
<1> QED BY <1>2, <1>3

LEMMA StepKeepsContents ==
  ASSUME Base, LockInv, Whole(env), Contents, env' = env, NEW p \in Procs, Call(p) \/ Step(p) \/ Crash(p)
  PROVE  Contents'
<1>q. Quiet(p) \/ Tore(p) \/ Put(p) => Contents'
  BY QuietContents, ToreContents, PutContents
<1>g. /\ pc[p] = "flock" => goal[p] \in {"mint", "fork", "resume", "copy", "compact"}
      /\ pc[p] \in {"fence", "stat", "probe"} => goal[p] = "rm"
      /\ pc[p] = "idle" => goal[p] = "none"
  BY DEF Base, Places, PlaceOf, GoalsAt, Starting
<1> USE DEF Disk, Walk
<1>1. CASE OpenSibling(p)
  <2>1. [inodes EXCEPT !.lock = @ + 1].data = inodes.data
    BY DEF Base, LockTyped
  <2>2. CASE Return(p) /\ UNCHANGED <<sib, inodes>>
    BY <1>1, <1>q, <2>2, ReturnIsQuiet DEF OpenSibling
  <2>3. CASE Goto(p, "flock") /\ UNCHANGED <<goal, dfd, log>> /\ inodes'.data = inodes.data
    <3>1. Quiet(p)
      BY <1>1, <2>3, WalkIsQuiet DEF OpenSibling, Removing
    <3> QED BY <1>q, <3>1
  <2> QED BY <1>1, <2>1, <2>2, <2>3 DEF OpenSibling
<1>2. CASE TakeFlock(p)
  <2>1. Locked(goal[p]) \notin {"idle", "rename"}
    BY <1>2, <1>g DEF TakeFlock, Locked
  <2>2. Quiet(p)
    BY <1>2, <2>1, WalkIsQuiet, ReturnIsQuiet DEF TakeFlock, Removing
  <2> QED BY <1>q, <2>2
<1>3. CASE FillFork(p)
  <2>1. Put(p)
    BY <1>3 DEF FillFork, WriteLine, Put, Wrote, HasWriter, WriterPc
  <2> QED BY <1>q, <2>1
<1>4. CASE AppendRecord(p)
  <2>1. Put(p)
    BY <1>4 DEF AppendRecord, WriteLine, Put, Wrote, HasWriter, WriterPc
  <2> QED BY <1>q, <2>1
<1>5. CASE AppendFails(p)
  BY <1>5, <1>q, CutIs DEF AppendFails, HasWriter, WriterPc
<1>6. CASE FillFails(p)
  BY <1>6, <1>q, CutIs DEF FillFails, HasWriter, WriterPc
<1>7. CASE FillDone(p)
  <2>1. Quiet(p)
    BY <1>7, WalkIsQuiet, ReturnIsQuiet DEF FillDone, Loads, Parses
  <2> QED BY <1>q, <2>1
<1>8. CASE ResumeLoad(p)
  <2>1. Quiet(p)
    BY <1>8, WalkIsQuiet, ReturnIsQuiet DEF ResumeLoad, Loads, Parses
  <2> QED BY <1>q, <2>1
<1>9. CASE Exists(p)
  <2>1. Quiet(p)
    BY <1>9, WalkIsQuiet, ReturnIsQuiet DEF Exists, Removing
  <2> QED BY <1>q, <2>1
<1>10. CASE Inspect(p)
  <2>1. CASE Parses
    BY <1>10, <2>1, InspectContents
  <2>2. CASE ~ Parses
    BY <1>10, <1>q, <2>2, ReturnIsQuiet DEF Inspect
  <2> QED BY <2>1, <2>2
<1>11. CASE Read(p) \/ Close(p) \/ MountFailsOnResume(p)
  BY <1>11, <1>q, ReturnIsQuiet DEF Read, Close, MountFailsOnResume
<1>12. CASE Rewrite(p)
  <2>1. Quiet(p)
    BY <1>12, WalkIsQuiet, ReturnIsQuiet DEF Rewrite, Loads, Parses
  <2> QED BY <1>q, <2>1
<1>13. CASE Rename(p)
  BY <1>13, RenameContents
<1>14. CASE MountOk(p)
  <2>1. Quiet(p)
    BY <1>14, WalkIsQuiet DEF MountOk, Removing
  <2> QED BY <1>q, <2>1
<1>15. CASE MountFailsOnCreated(p)
  <2>1. Quiet(p)
    BY <1>15, WalkIsQuiet DEF MountFailsOnCreated, Removing
  <2> QED BY <1>q, <2>1
<1>16. CASE DropData(p)
  <2>1. Quiet(p)
    BY <1>16, WalkIsQuiet DEF DropData, Removing
  <2> QED BY <1>q, <2>1
<1>17. CASE DropSib(p)
  <2>1. Quiet(p)
    BY <1>17, WalkIsQuiet, ReturnIsQuiet DEF DropSib, Removing
  <2> QED BY <1>q, <2>1
<1>18. CASE OpenFence(p)
  <2>1. CASE pc[p] = "probe"
    <3>1. UNCHANGED <<env, file, writes, acked, goal, dfd, log, name, inodes>> /\ goal[p] = "rm"
          /\ pc'[p] \in {"fence", "stat"} /\ \A q \in Procs \ {p} : pc'[q] = pc[q]
      BY <1>18, <1>g, <2>1 DEF OpenFence, Goto, Base, LockTyped
    <3>2. Quiet(p)
      BY <3>1 DEF Quiet, Base, LockTyped
    <3> QED BY <1>q, <3>2
  <2>2. CASE pc[p] = "reprobe"
    <3>1. UNCHANGED <<env, file, writes, acked, goal, dfd, log, name, inodes>>
          /\ pc'[p] \in {"refence", "unlinkSib"} /\ \A q \in Procs \ {p} : pc'[q] = pc[q]
      BY <1>18, <2>2 DEF OpenFence, Goto, Base, LockTyped
    <3>2. Quiet(p)
      BY <3>1 DEF Quiet, Removing
    <3> QED BY <1>q, <3>2
  <2> QED BY <1>18, <2>1, <2>2 DEF OpenFence
<1>19. CASE TakeFence(p)
  <2>1. Quiet(p)
    BY <1>19, WalkIsQuiet, ReturnIsQuiet DEF TakeFence, Removing
  <2> QED BY <1>q, <2>1
<1>20. CASE Stat(p)
  <2>1. Quiet(p)
    BY <1>20, WalkIsQuiet, ReturnIsQuiet DEF Stat, Removing
  <2> QED BY <1>q, <2>1
<1>21. CASE UnlinkSib(p)
  <2>1. Quiet(p)
    BY <1>21, WalkIsQuiet DEF UnlinkSib, Removing
  <2> QED BY <1>q, <2>1
<1>22. CASE UnlinkData(p)
  <2>1. Quiet(p)
    BY <1>22, ReturnIsQuiet DEF UnlinkData, Removing
  <2> QED BY <1>q, <2>1
<1>23. CASE CallRemove(p) \/ \E g \in Goal : CallExisting(p, g)
  <2>1. /\ UNCHANGED <<file, writes, acked, dfd, log, name, inodes>> /\ pc[p] = "idle"
        /\ \A q \in Procs \ {p} : pc'[q] = pc[q] /\ goal'[q] = goal[q]
        /\ \/ goal'[p] = "resume" /\ pc'[p] = "load"
           \/ goal'[p] \in {"copy", "compact"} /\ pc'[p] = "exists"
           \/ goal'[p] = "rm" /\ pc'[p] = "probe"
    BY <1>23 DEF CallRemove, CallExisting, Begin, Goto, Base, LockTyped
  <2>2. dfd[p] = 0
    BY <2>1 DEF Base, Places, PlaceOf, WriterPc, Starting
  <2>3. Quiet(p)
    BY <2>1, <2>2 DEF Quiet
  <2> QED BY <1>q, <2>3
<1>24. CASE \E g \in Goal : Create(p, g)
  BY <1>24, CreateContents
<1>25. CASE Crash(p)
  <2>1. CASE HasWriter(p) /\ CutLine(p)
    BY <1>25, <1>q, <2>1, CutIs DEF Crash
  <2>2. CASE UNCHANGED <<file, writes>>
    BY <1>25, <1>q, <2>2, ReturnIsQuiet DEF Crash
  <2> QED BY <1>25, <2>1, <2>2 DEF Crash, HasWriter, WriterPc
<1> QED
  BY <1>1, <1>2, <1>3, <1>4, <1>5, <1>6, <1>7, <1>8, <1>9, <1>10, <1>11, <1>12, <1>13, <1>14, <1>15,
     <1>16, <1>17, <1>18, <1>19, <1>20, <1>21, <1>22, <1>23, <1>24, <1>25 DEF Step, Call

LEMMA StillContents ==
  ASSUME Contents, UNCHANGED vars
  PROVE  Contents'
<1> USE DEF vars
<1>1. Sized' /\ Unmade'
  BY DEF Contents, Sized, Unmade
<1>2. Mine' /\ Unspoiled' /\ AckedIsDurable'
  BY DEF Contents, Mine, Unspoiled, AckedIsDurable, Creator, NoCut
<1>3. SnapshotIsFile' /\ SeedIsFile' /\ Positioned'
  BY DEF Contents, SnapshotIsFile, SeedIsFile, Positioned
<1> QED BY <1>1, <1>2, <1>3 DEF Contents

LEMMA InitContents == Init => Contents
<1> SUFFICES ASSUME Init PROVE Contents
  OBVIOUS
<1>1. /\ AtRest \in Content /\ Len(AtRest.lines) = Copied /\ ~ AtRest.bad /\ ~ AtRest.torn
      /\ \A i \in DOMAIN AtRest.lines : AtRest.lines[i].pos = i - 1
  <2> DEFINE s == [i \in 1..Copied |-> [pos |-> i - 1, id |-> i, by |-> Nobody]]
  <2>1. Copied \in Nat /\ \A i \in 1..Copied : i - 1 \in 0..MaxWrites /\ i \in 1..MaxWrites
    BY SessionStoreAssumption
  <2>2. \A i \in 1..Copied : s[i] \in Line
    BY <2>1 DEF Line
  <2>3. s \in [1..Copied -> Line]
    BY <2>2
  <2>4. s \in Seq(Line) /\ Len(s) = Copied
    BY <2>1, <2>3
  <2>5. AtRest = [lines |-> s, torn |-> FALSE, bad |-> FALSE]
    <3>1. Empty \in Content /\ Empty.torn = FALSE /\ Empty.bad = FALSE
      BY DEF Empty, Content
    <3>2. AtRest = [Empty EXCEPT !.lines = s]
      BY Zenon DEF AtRest
    <3> HIDE DEF s
    <3> QED BY <2>4, <3>1, <3>2 DEF Content
  <2> QED BY <2>4, <2>5 DEF Content
<1>2. Empty \in Content /\ Empty.lines = <<>> /\ ~ Empty.bad
  BY DEF Empty, Content
<1>3. CASE name = 0
  <2>1. file = [d \in DataInodes |-> Empty] /\ writes = 0 /\ inodes.data = 0
    BY <1>3 DEF Init
  <2>2. Sized
    BY <1>2, <2>1, SessionStoreAssumption DEF Init, Sized
  <2> QED BY <1>2, <1>3, <2>1, <2>2
       DEF Init, Contents, Unmade, Mine, Creator, Unspoiled, NoCut, AckedIsDurable, SnapshotIsFile,
           SeedIsFile, Positioned
<1>4. CASE name # 0
  <2>1. /\ name = 1 /\ inodes.data = 1 /\ writes = Copied
        /\ file = [d \in DataInodes |-> IF d = 1 THEN AtRest ELSE Empty]
    BY <1>4 DEF Init
  <2>2. Sized
    BY <1>1, <1>2, <2>1, SessionStoreAssumption DEF Init, Sized
  <2>3. Unmade /\ Unspoiled /\ Positioned
    BY <1>1, <1>2, <2>1, SessionStoreAssumption DEF Init, Unmade, Unspoiled, Positioned, NoCut, DataInodes
  <2> QED BY <2>2, <2>3
       DEF Init, Contents, Mine, Creator, AckedIsDurable, SnapshotIsFile, SeedIsFile
<1> QED BY <1>3, <1>4

LEMMA ContentInvariant == Spec => [](Base /\ LockInv /\ ContentInv)
<1>1. Init => ContentInv
  BY InitContents DEF ContentInv
<1>2. Base /\ LockInv /\ ContentInv /\ [Next]_vars => ContentInv'
  <2> SUFFICES ASSUME Base, LockInv, ContentInv, [Next]_vars, Whole(env)' PROVE Contents'
    BY DEF ContentInv
  <2>1. env' = env
    BY DEF Next, vars
  <2>2. Whole(env) /\ Contents
    BY <2>1 DEF Whole, Steady, ContentInv
  <2> QED BY <2>1, <2>2, StepKeepsContents, StillContents DEF Next
<1> QED BY <1>1, <1>2, LockInvariant, InitLock, NextKeepsLock, PTL DEF Spec

(* The file is the session (session.rs:372-378, 522-526, 589-595, 979-980; *)
(* cli session.rs:124-126, 158-161): in every environment that Whole       *)
(* describes, and however many processes, records and inodes, the file the *)
(* session's name leads to holds every acknowledged record, no torn        *)
(* segment was ever made a line, and a process alone with the session      *)
(* resumes exactly the records of the file, at positions 0, 1, 2, ...      *)
THEOREM SessionFileIsTheSession == Spec => [](Whole(env) => FileIsTheSession)
<1>1. Base /\ LockInv /\ ContentInv => (Whole(env) => FileIsTheSession)
  <2> SUFFICES ASSUME Base, ContentInv, Whole(env) PROVE FileIsTheSession
    OBVIOUS
  <2>1. Contents
    BY DEF ContentInv
  <2>2. TypeOK
    <3>1. acked \subseteq 1..MaxWrites
      BY <2>1, SessionStoreAssumption DEF Contents, Sized
    <3> QED BY <2>1, <3>1 DEF TypeOK, Contents, Sized, Base, LockTyped
  <2>3. AckedIsDurable
    BY <2>1 DEF Contents
  <2>4. TornNeverMidFile
    BY <2>1 DEF Contents, Unspoiled, TornNeverMidFile
  <2>5. MemoryIsFile
    <3> SUFFICES ASSUME "alone" \in env, NEW p \in Procs, pc[p] \in {"mounting", "writing"}
                 PROVE  /\ log[p] = file[name].lines
                        /\ \A i \in DOMAIN log[p] : log[p][i].pos = i - 1
      BY DEF MemoryIsFile
    <3>1. goal[p] \in {"mint", "fork", "resume"} /\ pc[p] \notin Removing \cup {"load"}
      BY DEF Base, Places, PlaceOf, GoalsAt, Removing, Starting
    <3>2. name # 0 /\ log[p] = file[name].lines
      BY <2>1, <3>1 DEF Contents, SeedIsFile
    <3>3. name \in DataInodes
      BY <3>2, SessionStoreAssumption DEF Base, LockTyped, DataInodes
    <3> QED BY <2>1, <3>2, <3>3 DEF Contents, Positioned
  <2> QED BY <2>2, <2>3, <2>4, <2>5 DEF FileIsTheSession
<1> QED BY <1>1, ContentInvariant, PTL

----------------------------------------------------------------------------
(* A failed mount of a process that has the session to itself.             *)

(* No lock inode is older than the session, a lock that is to be taken is  *)
(* free, and each unlink finds the other done.                             *)
AloneInv ==
  "alone" \in env =>
    /\ inodes.data = 0 => inodes.lock = 0
    /\ \A p \in Procs :
         /\ Creator(p) /\ pc[p] = "open" => inodes.lock = 0
         /\ pc[p] \in {"flock", "refence"} => \A l \in LockInodes : flock[l] # p
         /\ Creator(p) /\ pc[p] = "dropSib" => name = 0
         /\ Creator(p) /\ pc[p] = "unlinkData" => sib = 0

LEMMA EffectKeepsAlone ==
  ASSUME Base, AloneInv, NEW p \in Procs, Effect(p), env' = env
  PROVE  AloneInv'
<1> SUFFICES ASSUME "alone" \in env PROVE AloneInv'
  BY DEF AloneInv
<1>b. Base'
  BY EffectKeepsBase
<1>i. \A q \in Procs \ {p} : pc[p] # "idle" => pc[q] = "idle"
  BY DEF Base, Solo
<1>j. \A q \in Procs \ {p} : pc'[p] # "idle" => pc'[q] = "idle"
  BY <1>b DEF Base, Solo
<1>1. CASE Still
  BY <1>1 DEF Still, AloneInv, Creator
<1>2. CASE Left(p)
  <2>1. pc'[p] = "idle" /\ \A q \in Procs \ {p} : pc'[q] = pc[q] /\ Creator(q)' = Creator(q)
    BY <1>2 DEF Left, Return, Goto, Base, LockTyped, Creator
  <2>2. \A q \in Procs \ {p} : pc[q] \in {"flock", "refence"} => \A l \in LockInodes : flock'[l] # q
    BY <1>2, SessionStoreAssumption DEF Left, Return, Release, AloneInv
  <2> QED BY <1>2, <2>1, <2>2 DEF Left, AloneInv
<1>3. CASE \E l : Walked(p, l)
  <2>1. PICK l : Walked(p, l)
    BY <1>3
  <2>2. /\ pc[p] # "idle" /\ pc'[p] = l /\ goal' = goal /\ UNCHANGED <<name, sib, inodes, flock>>
        /\ l \notin {"idle", "flock", "refence", "dropSib", "unlinkData"}
        /\ l = "open" => pc[p] = "exists"
    BY <2>1 DEF Walked, Goto, Base, LockTyped
  <2>3. pc[p] = "exists" => ~ Creator(p)
    BY DEF Base, Places, PlaceOf, GoalsAt, Creator, Starting
  <2> QED BY <1>j, <2>2, <2>3 DEF AloneInv, Creator
<1>4. CASE Opened(p)
  <2>1. /\ pc[p] = "open" /\ pc'[p] = "flock" /\ flock' = flock /\ inodes'.data = inodes.data
    BY <1>4 DEF Opened, Goto, Base, LockTyped
  <2>2. \A l \in LockInodes : flock[l] # p
    BY <2>1, OpenHoldsNothing DEF Base, Places, PlaceOf, Lockless
  <2>3. inodes.data # 0
    BY <2>1 DEF Base, Places, PlaceOf, Starting
  <2> QED BY <1>j, <2>1, <2>2, <2>3 DEF AloneInv
<1>5. CASE OpenFence(p)
  <2>1. /\ pc[p] \in {"probe", "reprobe"} /\ pc'[p] \in {"fence", "refence", "stat", "unlinkSib"}
        /\ UNCHANGED <<name, sib, inodes, flock, goal>>
    BY <1>5 DEF OpenFence, Goto, Disk, Base, LockTyped
  <2>2. \A l \in LockInodes : flock[l] # p
    BY <2>1, OpenHoldsNothing DEF Base, Places, PlaceOf, Lockless
  <2> QED BY <1>j, <2>1, <2>2 DEF AloneInv
<1>6. CASE \E l : Took(p, l)
  <2>1. PICK l : Took(p, l)
    BY <1>6
  <2>2. pc[p] = "flock" => goal[p] \in {"mint", "fork", "resume", "copy", "compact"}
    BY DEF Base, Places, PlaceOf, GoalsAt, Starting
  <2>3. /\ UNCHANGED <<name, sib, inodes, goal>>
        /\ pc'[p] \notin {"idle", "open", "flock", "refence", "dropSib", "unlinkData"}
    BY <2>1, <2>2 DEF Took, Goto, Locked, Base, LockTyped
  <2> QED BY <1>j, <2>3 DEF AloneInv
<1>7. CASE \E g : Create(p, g)
  <2>1. inodes.data = 0 /\ inodes'.lock = inodes.lock /\ pc'[p] = "open" /\ inodes'.data # 0
    BY <1>7 DEF Create, Begin, Goto, Base, LockTyped
  <2> QED BY <1>j, <2>1 DEF AloneInv
<1>8. CASE \E g, l : Called(p, g, l)
  <2>1. /\ UNCHANGED inodes
        /\ pc'[p] \in {"load", "exists", "probe"}
    BY <1>8 DEF Called, Begin, Goto, Base, LockTyped
  <2> QED BY <1>j, <2>1 DEF AloneInv
<1>9. CASE Inspected(p)
  <2>1. pc'[p] = "mounting" /\ UNCHANGED inodes
    BY <1>9 DEF Inspected, Goto, Base, LockTyped
  <2> QED BY <1>j, <2>1 DEF AloneInv
<1>10. CASE Renamed(p)
  <2>1. inodes'.data # 0 /\ pc[p] = "rename" /\ pc'[p] = "idle" /\ \A q \in Procs \ {p} : pc'[q] = "idle"
    BY <1>10, <1>i, SessionStoreAssumption DEF Renamed, Return, Goto, Base, LockTyped
  <2> QED BY <2>1 DEF AloneInv
<1>11. CASE MountFailsOnCreated(p)
  <2>1. pc'[p] \in {"dropData", "reprobe"} /\ UNCHANGED inodes
    BY <1>11 DEF MountFailsOnCreated, Goto, Disk, Base, LockTyped
  <2> QED BY <1>j, <2>1 DEF AloneInv
<1>12. CASE \E l : Unlinked(p, l)
  <2>1. /\ UNCHANGED inodes /\ pc'[p] \in {"dropSib", "reprobe", "unlinkData"}
        /\ pc'[p] = "dropSib" => name' = 0
        /\ pc'[p] = "unlinkData" => sib' = 0
    BY <1>12 DEF Unlinked, Goto, Base, LockTyped
  <2> QED BY <1>j, <2>1 DEF AloneInv
<1>13. CASE Removed(p)
  <2>1. UNCHANGED inodes /\ pc[p] # "idle" /\ pc'[p] = "idle" /\ \A q \in Procs \ {p} : pc'[q] = "idle"
    BY <1>13, <1>i DEF Removed, Return, Goto, Base, LockTyped
  <2> QED BY <2>1 DEF AloneInv
<1> QED BY <1>1, <1>2, <1>3, <1>4, <1>5, <1>6, <1>7, <1>8, <1>9, <1>10, <1>11, <1>12, <1>13 DEF Effect

LEMMA AloneInvariant == Spec => []AloneInv
<1>1. Init => AloneInv
  BY DEF Init, AloneInv
<1>2. Base /\ AloneInv /\ [Next]_vars => AloneInv'
  <2> SUFFICES ASSUME Base, AloneInv, [Next]_vars PROVE AloneInv'
    OBVIOUS
  <2>1. CASE Next
    BY <2>1, StepIsEffect, EffectKeepsAlone DEF Next
  <2>2. CASE UNCHANGED vars
    BY <2>2 DEF vars, AloneInv, Creator
  <2> QED BY <2>1, <2>2
<1> QED BY <1>1, <1>2, LockInvariant, PTL DEF Spec

(* A mint or a fork target whose mount fails leaves no session file and no *)
(* lock sibling behind (cli session.rs:107-110, 175-181), with the session *)
(* to itself and unless it dies: whatever was created, removed and         *)
(* compacted before.  (A fork whose copy is cut short does leave them:     *)
(* create_fork only drops the writer.)                                     *)
THEOREM SessionFailedMountLeavesNothing == Spec /\ []NoCut => FailedMountLeavesNothing
<1> DEFINE Clean == \A p \in Procs :
       (/\ "alone" \in env /\ "crash" \notin env
        /\ goal[p] \in {"mint", "fork"} /\ pc[p] # "writing" /\ pc'[p] = "idle")
         => name' = 0 /\ sib' = 0
<1>1. Base /\ LockInv /\ ContentInv /\ AloneInv /\ NoCut /\ [Next]_vars => [Clean]_vars
  <2> SUFFICES ASSUME Base, LockInv, ContentInv, AloneInv, NoCut, Next,
                      NEW p \in Procs, "alone" \in env, "crash" \notin env,
                      goal[p] \in {"mint", "fork"}, pc[p] # "writing", pc'[p] = "idle"
               PROVE  name' = 0 /\ sib' = 0
    OBVIOUS
  <2>1. pc[p] # "idle" /\ Creator(p)
    BY DEF Base, Places, PlaceOf, GoalsAt, Creator, Starting
  <2>2. PICK q \in Procs : Call(q) \/ Step(q) \/ Crash(q)
    BY DEF Next
  <2>3. q = p
    <3>1. CASE Call(q)
      BY <2>1, <3>1 DEF Call, Create, CallExisting, CallRemove, Begin
    <3>2. CASE Step(q) \/ Crash(q)
      <4>1. SUFFICES ASSUME pc[q] = "idle" PROVE FALSE
        BY <2>1 DEF Base, Solo
      <4> QED BY <3>2, <4>1 DEF Step, Crash, OpenSibling, TakeFlock, FillFork, FillFails, FillDone,
              ResumeLoad, Exists, Inspect, Read, Rewrite, Rename, MountOk, MountFailsOnResume,
              MountFailsOnCreated, AppendRecord, AppendFails, Close, DropData, DropSib, OpenFence,
              TakeFence, Stat, UnlinkSib, UnlinkData
    <3> QED BY <2>2, <3>1, <3>2
  <2>4. /\ pc[p] = "open" => inodes.lock # MaxInodes
        /\ pc[p] \in {"flock", "refence"} => flock[lfd[p]] = Nobody
        /\ pc[p] = "fill" => Loads
    <3>1. pc[p] = "open" => inodes.lock # MaxInodes
      BY <2>1, SessionStoreAssumption DEF AloneInv
    <3>2. pc[p] \in {"flock", "refence"} => flock[lfd[p]] = Nobody
      <4> SUFFICES ASSUME pc[p] \in {"flock", "refence"}, flock[lfd[p]] # Nobody PROVE FALSE
        OBVIOUS
      <4>1. lfd[p] \in LockInodes
        BY SessionStoreAssumption DEF Base, LockTyped, LockInodes, Places, PlaceOf
      <4>2. flock[lfd[p]] \in Procs \ {p}
        BY <4>1 DEF AloneInv, Base, LockTyped
      <4>3. lfd[flock[lfd[p]]] = lfd[p] /\ lfd[p] # 0
        BY <4>1, SessionStoreAssumption DEF Base, LocksHeld, LockInodes
      <4>4. pc[flock[lfd[p]]] # "idle"
        BY <4>2, <4>3 DEF Base, Places, PlaceOf, Lockless
      <4> QED BY <2>1, <4>2, <4>4 DEF Base, Solo
    <3>3. pc[p] = "fill" => Loads
      <4> SUFFICES ASSUME pc[p] = "fill" PROVE Loads
        OBVIOUS
      <4>1. Whole(env)
        BY DEF Whole, Steady, NoCut
      <4>2. dfd[p] # 0
        BY DEF Base, Places, PlaceOf, WriterPc
      <4>3. name = dfd[p] /\ name \in DataInodes
        BY <4>1, <4>2, SessionStoreAssumption DEF LockInv, Whole, DataInUse, DataInodes, Base, LockTyped
      <4> QED BY <4>1, <4>2, <4>3 DEF Loads, Parses, ContentInv, Contents, Unspoiled
    <3> QED BY <3>1, <3>2, <3>3
  <2>5. Step(p)
    BY <2>1, <2>2, <2>3 DEF Call, Create, CallExisting, CallRemove, Begin, Crash
  <2>6. /\ \A l : Goto(p, l) => l = "idle"
        /\ pc[p] \notin {"load", "exists", "inspect", "read", "rewrite", "rename", "probe", "fence", "stat"}
    BY <2>1 DEF Goto, Base, LockTyped, Places, PlaceOf, GoalsAt, Creator, Starting
  <2>7. pc[p] = "flock" => Locked(goal[p]) # "idle"
    BY DEF Locked
  <2>8. pc[p] = "dropSib" => name = 0
    BY <2>1 DEF AloneInv
  <2>9. pc[p] = "unlinkData" => sib = 0
    BY <2>1 DEF AloneInv
  <2>10. DropSib(p) \/ UnlinkData(p)
    <3>1. ~ OpenSibling(p) /\ ~ TakeFlock(p)
      BY <2>4, <2>6, <2>7 DEF OpenSibling, TakeFlock
    <3>2. ~ FillFork(p) /\ ~ AppendRecord(p) /\ ~ AppendFails(p) /\ ~ Close(p)
      BY <2>1 DEF FillFork, AppendRecord, AppendFails, Close
    <3>3. ~ FillFails(p) /\ ~ FillDone(p)
      BY <2>4, <2>6 DEF FillFails, FillDone, NoCut
    <3>4. /\ ~ ResumeLoad(p) /\ ~ Exists(p) /\ ~ Inspect(p) /\ ~ Read(p) /\ ~ Rewrite(p) /\ ~ Rename(p)
          /\ ~ Stat(p) /\ ~ MountFailsOnResume(p)
      BY <2>6 DEF ResumeLoad, Exists, Inspect, Read, Rewrite, Rename, Stat, MountFailsOnResume
    <3>5. ~ MountOk(p) /\ ~ MountFailsOnCreated(p) /\ ~ DropData(p) /\ ~ UnlinkSib(p)
      BY <2>6 DEF MountOk, MountFailsOnCreated, DropData, UnlinkSib, Walk
    <3>6. ~ OpenFence(p)
      BY <2>6 DEF OpenFence
    <3>7. ~ TakeFence(p)
      BY <2>4, <2>6 DEF TakeFence
    <3> QED BY <2>5, <3>1, <3>2, <3>3, <3>4, <3>5, <3>6, <3>7 DEF Step
  <2> QED BY <2>8, <2>9, <2>10 DEF DropSib, UnlinkData
<1> QED BY <1>1, ContentInvariant, AloneInvariant, PTL DEF Spec, FailedMountLeavesNothing
=============================================================================
