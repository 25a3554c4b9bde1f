--------------------------- MODULE ProviderProofs ---------------------------
(***************************************************************************)
(* Proofs about the providers: CredentialStore, for every set of callers,  *)
(* references and processes and every choice of faults; SettingsFile, for  *)
(* every stack of layers and number of edits; ExecWorld, for every set of  *)
(* runs and process numbers and every environment; FsLocal, for every set  *)
(* of callers, instances and paths and every environment; JsonlStorage,    *)
(* for every set of callers and every finite set of keys.  They share no   *)
(* state.                                                                  *)
(*                                                                         *)
(* That a publication loses nobody's record is not inductive: the rename   *)
(* publishes whatever the temp file holds.  The strengthening follows the  *)
(* mutation from its re-read on: past the flock a job is its holder, so    *)
(* between its re-read and its rename nobody publishes or writes the temp  *)
(* file, and both differ from the record in the one reference of the job.  *)
(*                                                                         *)
(* An answer of the settings rests on what a call has read so far: all of  *)
(* it is of the call's beginning or all of it is of now.                   *)
(*                                                                         *)
(* That a command runs confined or not at all is not inductive: it rests   *)
(* on which runs can still be started (those whose verdict was no refusal) *)
(* and on what the spawner did to a run before its child is let go.  That  *)
(* a finished run's output is whole rests on every byte being kept,        *)
(* dropped or in the pipe, and on nobody being left to write once the      *)
(* readers have ended -- also when the run's process number is reused.     *)
(*                                                                         *)
(* That a version names what is in a file, and that a guarded mutation     *)
(* replaces what its caller saw, both rest on tokens: each is minted once  *)
(* in the lives of its instance, with its path and bytes, before the       *)
(* rename and long before the stamp, and everything that keeps a token     *)
(* keeps the bytes of its mint.                                            *)
(*                                                                         *)
(* What a get replays out of a hub's file is a fold over the lines of the  *)
(* file, which are a fold over its segments.  FoldFacts says what one more *)
(* segment does to each; that a compaction leaves every key its value is   *)
(* by induction on the keys the snapshot has listed.                       *)
(***************************************************************************)
EXTENDS CredentialStore, SettingsFile, ExecWorld, FsLocal, JsonlStorage,
        FiniteSetTheorems, SequenceTheorems, WellFoundedInduction, TLAPS

----------------------------------------------------------------------------
(* CREDENTIALS.  No record is lost.                                        *)

CredSpec == CredInit /\ [][CredNext]_credVars

Records == [Refs -> {NoRecord} \cup Jobs]

(* What the rest speaks about is well formed: where jobs are, and what     *)
(* they and the files hold.                                                *)
JobsAreTyped ==
  /\ record \in Records /\ temp \in Records
  /\ DOMAIN job = Jobs
  /\ \A j \in Jobs : /\ DOMAIN job[j] = {"pc", "by", "kind", "ref", "all"}
                     /\ job[j].all \in Records
                     /\ job[j].pc # "free" => job[j].ref \in Refs

(* A mutation between its flock and its rename holds the flock.            *)
InFileLock(j) == job[j].pc \in {"read", "write", "rename"}
FlockIsHeld == \A j \in Jobs : InFileLock(j) => fileLock = j

(* What a job is about to publish: the record, but for its own reference.  *)
ChangesOnly(all, j) ==
  /\ \A r \in Refs : r # job[j].ref => all[r] = record[r]
  /\ all[job[j].ref] \in {NoRecord, j}
PlanIsFresh ==
  \A j \in Jobs : /\ job[j].pc \in {"write", "rename"} => ChangesOnly(job[j].all, j)
                  /\ job[j].pc = "rename" => temp = job[j].all

CredInv == JobsAreTyped /\ FlockIsHeld /\ PlanIsFresh

----------------------------------------------------------------------------
LEMMA RecordWithOne ==
  ASSUME NEW rec \in Records, NEW r \in Refs, NEW v \in {NoRecord} \cup Jobs
  PROVE  [rec EXCEPT ![r] = v] \in Records
BY DEF Records

LEMMA NoRecordIsNoJob == \A j \in Jobs : j # 0 /\ j # NoRecord
BY CredAssumption DEF Jobs, NoRecord

LEMMA CredInitInv == CredInit => CredInv
<1>1. SUFFICES ASSUME NEW faults, CredFrom(faults) PROVE CredInv
  BY DEF CredInit
<1>2. Empty \in Records
  BY DEF Empty, Records
<1>3. JobsAreTyped
  BY <1>1, <1>2 DEF CredFrom, JobsAreTyped, NoJob
<1>4. FlockIsHeld /\ PlanIsFresh
  BY <1>1 DEF CredFrom, FlockIsHeld, PlanIsFresh, InFileLock, NoJob
<1>5. QED
  BY <1>3, <1>4 DEF CredInv

(* A step that moves one job along and leaves the files alone.             *)
LEMMA MoveKeeps ==
  ASSUME CredInv, NEW j \in Jobs, NEW l, job' = [job EXCEPT ![j].pc = l],
         l \notin {"free", "read", "write", "rename"},
         job[j].pc # "free",
         UNCHANGED <<record, temp>>,
         \A i \in Jobs : i # j /\ InFileLock(i) => fileLock' = i
  PROVE  CredInv'
<1>1. \A i \in Jobs : job'[i] = IF i = j THEN [job[j] EXCEPT !.pc = l] ELSE job[i]
  BY DEF CredInv, JobsAreTyped
<1>2. job'[j].pc = l /\ job'[j].ref = job[j].ref /\ job'[j].all = job[j].all
  BY <1>1 DEF CredInv, JobsAreTyped
<1>3. JobsAreTyped'
  BY <1>1, <1>2 DEF CredInv, JobsAreTyped
<1>4. FlockIsHeld'
  BY <1>1, <1>2 DEF FlockIsHeld, InFileLock
<1>5. PlanIsFresh'
  BY <1>1, <1>2 DEF CredInv, PlanIsFresh, ChangesOnly
<1>6. QED
  BY <1>3, <1>4, <1>5 DEF CredInv

(* A call takes a free job.                                                *)
LEMMA CallKeeps ==
  ASSUME CredInv, NEW c, NEW r \in Refs, NEW kind, NEW l \in {"process lock", "dance"}, NEW j \in FreshJobs,
         job' = [job EXCEPT ![j] = [NoJob EXCEPT !.pc = l, !.by = c, !.kind = kind, !.ref = r]],
         UNCHANGED <<record, temp, fileLock>>
  PROVE  CredInv'
<1>1. j \in Jobs /\ Empty \in Records
  BY DEF FreshJobs, Empty, Records
<1>2. \A i \in Jobs : i # j => job'[i] = job[i]
  BY <1>1 DEF CredInv, JobsAreTyped
<1>3. job'[j] = [NoJob EXCEPT !.pc = l, !.by = c, !.kind = kind, !.ref = r]
  BY <1>1 DEF CredInv, JobsAreTyped
<1>4. job'[j].pc = l /\ job'[j].ref = r /\ job'[j].all = Empty
       /\ DOMAIN job'[j] = {"pc", "by", "kind", "ref", "all"}
  BY <1>3 DEF NoJob
<1>5. JobsAreTyped'
  BY <1>1, <1>2, <1>4 DEF CredInv, JobsAreTyped
<1>6. FlockIsHeld'
  BY <1>1, <1>2, <1>4 DEF CredInv, FlockIsHeld, InFileLock
<1>7. PlanIsFresh'
  <2>1. job'[j].pc \notin {"write", "rename"}
    BY <1>4
  <2>2. ASSUME NEW i \in Jobs, i # j
        PROVE  /\ job[i].pc \in {"write", "rename"} => ChangesOnly(job[i].all, i)'
               /\ job[i].pc = "rename" => temp' = job[i].all
    <3>1. job'[i] = job[i]
      BY <1>2, <2>2
    <3>2. QED
      BY <2>2, <3>1 DEF CredInv, PlanIsFresh, ChangesOnly
  <2>3. QED
    BY <1>2, <2>1, <2>2 DEF PlanIsFresh
<1>8. QED
  BY <1>5, <1>6, <1>7 DEF CredInv

(* The flock is taken by one job at a time.                                *)
LEMMA TakeFileLockKeeps ==
  ASSUME CredInv, NEW j \in Jobs, TakeFileLock(j)
  PROVE  CredInv'
<1>1. \A i \in Jobs : i # j => job'[i] = job[i]
  BY DEF TakeFileLock, JobTo, CredInv, JobsAreTyped
<1>2. job'[j].pc = "read" /\ job'[j].ref = job[j].ref /\ job'[j].all = job[j].all
       /\ DOMAIN job'[j] = DOMAIN job[j] /\ job[j].pc = "file lock"
  BY DEF TakeFileLock, JobTo, JobAt, CredInv, JobsAreTyped
<1>3. \A i \in Jobs : ~InFileLock(i)
  BY NoRecordIsNoJob DEF TakeFileLock, CredInv, FlockIsHeld
<1>4. JobsAreTyped'
  BY <1>1, <1>2 DEF TakeFileLock, JobTo, CredInv, JobsAreTyped
<1>5. FlockIsHeld'
  BY <1>1, <1>2, <1>3 DEF TakeFileLock, FlockIsHeld, InFileLock
<1>6. PlanIsFresh'
  BY <1>1, <1>2 DEF TakeFileLock, CredInv, PlanIsFresh, ChangesOnly
<1>7. QED
  BY <1>4, <1>5, <1>6 DEF CredInv

(* The re-read plans a change of one reference of the record as it is.     *)
LEMMA ReadAllKeeps ==
  ASSUME CredInv, NEW j \in Jobs, ReadAll(j)
  PROVE  CredInv'
<1> DEFINE all == [record EXCEPT ![job[j].ref] = IF job[j].kind = "forget" THEN NoRecord ELSE j]
<1>1. \A i \in Jobs : i # j => job'[i] = job[i]
  BY DEF ReadAll, CredInv, JobsAreTyped
<1>2. job[j].pc = "read" /\ job[j].ref \in Refs
  BY DEF ReadAll, JobAt, CredInv, JobsAreTyped
<1>3. job'[j].pc = "write" /\ job'[j].ref = job[j].ref /\ job'[j].all = all
       /\ DOMAIN job'[j] = DOMAIN job[j]
  BY DEF ReadAll, CredInv, JobsAreTyped
<1>4. all \in Records
  BY <1>2, RecordWithOne DEF CredInv, JobsAreTyped
<1>5. JobsAreTyped'
  BY <1>1, <1>2, <1>3, <1>4 DEF ReadAll, CredInv, JobsAreTyped
<1>6. FlockIsHeld'
  BY <1>1, <1>2, <1>3 DEF ReadAll, CredInv, FlockIsHeld, InFileLock
<1>7. /\ \A r \in Refs : r # job[j].ref => all[r] = record[r]
      /\ all[job[j].ref] \in {NoRecord, j}
  BY <1>2 DEF CredInv, JobsAreTyped, Records
<1>8. PlanIsFresh'
  <2>1. UNCHANGED <<record, temp>>
    BY DEF ReadAll
  <2>2. ChangesOnly(job[j].all, j)'
    BY <1>3, <1>7, <2>1 DEF ChangesOnly
  <2>3. ASSUME NEW i \in Jobs, i # j
        PROVE  /\ job[i].pc \in {"write", "rename"} => ChangesOnly(job[i].all, i)'
               /\ job'[i].pc = "rename" => temp' = job'[i].all
    BY <1>1, <2>1, <2>3 DEF CredInv, PlanIsFresh, ChangesOnly
  <2>4. \A i \in Jobs : /\ job'[i].pc \in {"write", "rename"} => ChangesOnly(job[i].all, i)'
                        /\ job'[i].pc = "rename" => temp' = job'[i].all
    BY <1>1, <1>3, <2>2, <2>3
  <2>5. QED
    BY <2>4 DEF PlanIsFresh
<1>9. QED
  BY <1>5, <1>6, <1>8 DEF CredInv

LEMMA WriteTempKeeps ==
  ASSUME CredInv, NEW j \in Jobs, WriteTemp(j)
  PROVE  CredInv'
<1>1. \A i \in Jobs : i # j => job'[i] = job[i]
  BY DEF WriteTemp, JobTo, CredInv, JobsAreTyped
<1>2. job[j].pc = "write" /\ job'[j].pc = "rename" /\ job'[j].ref = job[j].ref
       /\ job'[j].all = job[j].all /\ DOMAIN job'[j] = DOMAIN job[j] /\ temp' = job[j].all
  BY DEF WriteTemp, JobTo, JobAt, CredInv, JobsAreTyped
<1>3. \A i \in Jobs : i # j => ~InFileLock(i)
  BY <1>2 DEF CredInv, FlockIsHeld, InFileLock
<1>4. JobsAreTyped'
  BY <1>1, <1>2 DEF WriteTemp, JobTo, CredInv, JobsAreTyped
<1>5. FlockIsHeld'
  BY <1>1, <1>2 DEF WriteTemp, CredInv, FlockIsHeld, InFileLock
<1>6. PlanIsFresh'
  BY <1>1, <1>2, <1>3 DEF WriteTemp, CredInv, PlanIsFresh, ChangesOnly, InFileLock
<1>7. QED
  BY <1>4, <1>5, <1>6 DEF CredInv

(* Nobody else is past the flock when a job publishes.                     *)
LEMMA PublishKeeps ==
  ASSUME CredInv, NEW j \in Jobs, Publish(j)
  PROVE  CredInv'
<1>1. \A i \in Jobs : i # j => job'[i] = job[i]
  BY DEF Publish, JobTo, CredInv, JobsAreTyped
<1>2. job[j].pc = "rename" /\ job'[j].pc = "stored" /\ job'[j].ref = job[j].ref
       /\ job'[j].all = job[j].all /\ DOMAIN job'[j] = DOMAIN job[j]
  BY DEF Publish, JobTo, JobAt, CredInv, JobsAreTyped
<1>3. \A i \in Jobs : i # j => ~InFileLock(i)
  BY <1>2 DEF CredInv, FlockIsHeld, InFileLock
<1>4. JobsAreTyped'
  BY <1>1, <1>2 DEF Publish, JobTo, CredInv, JobsAreTyped
<1>5. FlockIsHeld' /\ PlanIsFresh'
  BY <1>1, <1>2, <1>3 DEF FlockIsHeld, PlanIsFresh, InFileLock
<1>6. QED
  BY <1>4, <1>5 DEF CredInv

LEMMA CrashKeeps ==
  ASSUME CredInv, NEW p, CrashProcess(p)
  PROVE  CredInv'
<1> DEFINE dead(j) == ~JobAt(j, "free") /\ Of(j) = p
<1>1. \A j \in Jobs : job'[j] = IF dead(j) /\ ~JobAt(j, "stored") THEN [job[j] EXCEPT !.pc = "failed"] ELSE job[j]
  BY DEF CrashProcess
<1>2. \A j \in Jobs : /\ job'[j].ref = job[j].ref /\ job'[j].all = job[j].all /\ DOMAIN job'[j] = DOMAIN job[j]
                      /\ job'[j].pc # job[j].pc => job'[j].pc = "failed" /\ dead(j)
                      /\ InFileLock(j) /\ dead(j) => job'[j].pc = "failed"
                      /\ job[j].pc = "free" => job'[j].pc = "free"
  BY <1>1 DEF CredInv, JobsAreTyped, InFileLock, JobAt
<1>3. UNCHANGED <<record, temp>> /\ DOMAIN job' = Jobs
  BY DEF CrashProcess
<1>4. fileLock' = IF fileLock # 0 /\ dead(fileLock) THEN 0 ELSE fileLock
  BY DEF CrashProcess
<1>5. JobsAreTyped'
  BY <1>2, <1>3 DEF CredInv, JobsAreTyped
<1>6. FlockIsHeld'
  BY <1>2, <1>4 DEF CredInv, FlockIsHeld, InFileLock
<1>7. PlanIsFresh'
  BY <1>2, <1>3 DEF CredInv, PlanIsFresh, ChangesOnly
<1>8. QED
  BY <1>5, <1>6, <1>7 DEF CredInv

(* A step of a caller that touches no job and no file.                     *)
LEMMA CallerKeeps ==
  ASSUME CredInv, UNCHANGED <<record, temp, fileLock, job>>
  PROVE  CredInv'
BY DEF CredInv, JobsAreTyped, FlockIsHeld, PlanIsFresh, ChangesOnly, InFileLock, Records

LEMMA JobStepKeeps ==
  ASSUME CredInv, NEW j \in Jobs, JobStep(j) \/ MutateFails(j)
  PROVE  CredInv'
<1>1. \A i \in Jobs : i # j /\ InFileLock(i) => fileLock = i
  BY DEF CredInv, FlockIsHeld
<1>2. CASE TakeProcessLock(j)
  <2>1. /\ job' = [job EXCEPT ![j].pc = "file lock"] /\ job[j].pc # "free"
        /\ UNCHANGED <<record, temp, fileLock>>
    BY <1>2 DEF TakeProcessLock, JobTo, JobAt
  <2>2. QED
    BY <1>1, <2>1, MoveKeeps
<1>3. CASE TakeFileLock(j)
  BY <1>3, TakeFileLockKeeps
<1>4. CASE ReadAll(j)
  BY <1>4, ReadAllKeeps
<1>5. CASE WriteTemp(j)
  BY <1>5, WriteTempKeeps
<1>6. CASE Publish(j)
  BY <1>6, PublishKeeps
<1>7. CASE DanceDone(j)
  <2>1. /\ job[j].pc # "free" /\ UNCHANGED <<record, temp>>
        /\ \A i \in Jobs : i # j /\ InFileLock(i) => fileLock' = i
    BY <1>1, <1>7 DEF DanceDone, JobAt
  <2>2. CASE JobTo(j, "process lock")
    BY <2>1, <2>2, MoveKeeps DEF JobTo
  <2>3. CASE JobTo(j, "failed")
    BY <2>1, <2>3, MoveKeeps DEF JobTo
  <2>4. QED
    BY <1>7, <2>2, <2>3 DEF DanceDone
<1>8. CASE MutateFails(j)
  <2>1. \A i \in Jobs : i # j /\ InFileLock(i) => fileLock' = i
    BY <1>8 DEF MutateFails, Release, CredInv, FlockIsHeld
  <2>2. /\ job' = [job EXCEPT ![j].pc = "failed"] /\ job[j].pc # "free"
        /\ UNCHANGED <<record, temp>>
    BY <1>8 DEF MutateFails, JobTo, JobAt
  <2>3. QED
    BY <2>1, <2>2, MoveKeeps
<1>9. QED
  BY <1>2, <1>3, <1>4, <1>5, <1>6, <1>7, <1>8 DEF JobStep

LEMMA RequestKeeps ==
  ASSUME CredInv, NEW q \in CredRequests,
         IF q[2] = "authorize" THEN Authorize(q[1], q[3]) ELSE StoreCall(q[1], q[3], q[2])
  PROVE  CredInv'
<1>1. q[3] \in Refs
  BY CredAssumption DEF CredAssumption
<1>2. CASE StoreCall(q[1], q[3], q[2])
  <2>1. PICK j \in FreshJobs : job' = [job EXCEPT ![j] = [NoJob EXCEPT !.pc = "process lock", !.by = q[1], !.kind = q[2], !.ref = q[3]]]
    BY <1>2 DEF StoreCall
  <2>2. UNCHANGED <<record, temp, fileLock>>
    BY <1>2 DEF StoreCall
  <2>3. QED
    BY <1>1, <2>1, <2>2, CallKeeps
<1>3. CASE Authorize(q[1], q[3])
  <2>1. CASE UNCHANGED job
    BY <1>3, <2>1, CallerKeeps DEF Authorize
  <2>2. CASE ~UNCHANGED job
    <3>1. PICK j \in FreshJobs : job' = [job EXCEPT ![j] = [NoJob EXCEPT !.pc = "dance", !.by = q[1], !.kind = "dance", !.ref = q[3]]]
      BY <1>3, <2>2 DEF Authorize
    <3>2. UNCHANGED <<record, temp, fileLock>>
      BY <1>3 DEF Authorize
    <3>3. QED
      BY <1>1, <3>1, <3>2, CallKeeps
  <2>3. QED
    BY <2>1, <2>2
<1>4. QED
  BY <1>2, <1>3

LEMMA CredStepKeeps == CredInv /\ [CredNext]_credVars => CredInv'
<1>1. SUFFICES ASSUME CredInv, [CredNext]_credVars PROVE CredInv'
  OBVIOUS
<1>2. CASE UNCHANGED credVars
  BY <1>1, <1>2, CallerKeeps DEF credVars
<1>3. ASSUME NEW q \in CredRequests,
             IF q[2] = "authorize" THEN Authorize(q[1], q[3]) ELSE StoreCall(q[1], q[3], q[2])
      PROVE  CredInv'
  BY <1>1, <1>3, RequestKeeps
<1>4. ASSUME NEW j \in Jobs, JobStep(j) \/ MutateFails(j) PROVE CredInv'
  BY <1>1, <1>4, JobStepKeeps
<1>5. ASSUME NEW c \in CredCallers, CallerStep(c) \/ RunnerCancelled(c) PROVE CredInv'
  <2>1. UNCHANGED <<record, temp, fileLock, job>>
    BY <1>5 DEF CallerStep, RunnerCancelled, RunnerWakes, Settle, FreeKey, Notify, Listen, Check, Wake
  <2>2. QED
    BY <1>1, <2>1, CallerKeeps
<1>6. ASSUME NEW p \in Processes, CrashProcess(p) PROVE CredInv'
  BY <1>1, <1>6, CrashKeeps
<1>7. QED
  BY <1>1, <1>2, <1>3, <1>4, <1>5, <1>6 DEF CredNext

(* The re-read under both locks (mutate): between a job's flock and its    *)
(* rename nobody else is there, whichever processes fail and die.          *)
THEOREM CredFlockIsHeld == CredSpec => [](FlockIsHeld /\ PlanIsFresh)
<1>1. CredInv => FlockIsHeld /\ PlanIsFresh
  BY DEF CredInv
<1>2. QED
  BY CredInitInv, CredStepKeeps, <1>1, PTL DEF CredSpec

----------------------------------------------------------------------------
(* Only a rename changes the record.                                       *)
LEMMA OnlyPublishWrites ==
  ASSUME CredNext, record' # record
  PROVE  \E j \in Jobs : Publish(j)
<1>1. ASSUME NEW q \in CredRequests,
             IF q[2] = "authorize" THEN Authorize(q[1], q[3]) ELSE StoreCall(q[1], q[3], q[2])
      PROVE  FALSE
  BY <1>1 DEF Authorize, StoreCall
<1>2. ASSUME NEW j \in Jobs, JobStep(j) \/ MutateFails(j) PROVE Publish(j)
  BY <1>2 DEF JobStep, TakeProcessLock, TakeFileLock, ReadAll, WriteTemp, DanceDone, MutateFails
<1>3. ASSUME NEW c \in CredCallers, CallerStep(c) \/ RunnerCancelled(c) PROVE FALSE
  BY <1>3 DEF CallerStep, RunnerCancelled, RunnerWakes, Settle, FreeKey, Notify, Listen, Check, Wake
<1>4. ASSUME NEW p \in Processes, CrashProcess(p) PROVE FALSE
  BY <1>4 DEF CrashProcess
<1>5. QED
  BY <1>1, <1>2, <1>3, <1>4 DEF CredNext

LEMMA PublishLosesNothing ==
  ASSUME CredInv, NEW j \in Jobs, Publish(j)
  PROVE  /\ Cardinality({ r \in Refs : record'[r] # record[r] }) <= 1
         /\ \A r \in Refs : record'[r] # record[r] => job[j].ref = r /\ record'[r] \in {NoRecord, j}
<1> DEFINE changed == { r \in Refs : record'[r] # record[r] }
<1>1. record' = job[j].all /\ ChangesOnly(job[j].all, j)
  BY DEF Publish, JobAt, CredInv, PlanIsFresh
<1>2. changed \subseteq {job[j].ref}
  BY <1>1 DEF ChangesOnly
<1>3. IsFiniteSet({job[j].ref}) /\ Cardinality({job[j].ref}) = 1
  BY FS_Singleton
<1>4. Cardinality(changed) <= 1
  BY <1>2, <1>3, FS_Subset
<1>5. QED
  BY <1>1, <1>2, <1>4 DEF ChangesOnly

(* A publication changes the one record it is about and loses no other's,  *)
(* for any number of processes that write the file, fail and die.          *)
THEOREM CredNoLostRecord == CredSpec => NoLostRecord
<1>1. CredInv /\ [CredNext]_credVars =>
        [ Cardinality({ r \in Refs : record'[r] # record[r] }) <= 1
            /\ \A r \in Refs : record'[r] # record[r] =>
                 \E j \in Jobs : job[j].ref = r /\ record'[r] \in {NoRecord, j} ]_record
  <2>1. SUFFICES ASSUME CredInv, [CredNext]_credVars, record' # record
                 PROVE  /\ Cardinality({ r \in Refs : record'[r] # record[r] }) <= 1
                        /\ \A r \in Refs : record'[r] # record[r] =>
                             \E j \in Jobs : job[j].ref = r /\ record'[r] \in {NoRecord, j}
    OBVIOUS
  <2>2. PICK j \in Jobs : Publish(j)
    BY <2>1, OnlyPublishWrites DEF credVars
  <2>3. QED
    BY <2>1, <2>2, PublishLosesNothing
<1>2. QED
  BY <1>1, CredInitInv, CredStepKeeps, PTL DEF CredSpec, NoLostRecord

----------------------------------------------------------------------------
(***************************************************************************)
(* Proofs about the dances of CredentialStore, for every set of callers,   *)
(* references and processes and every choice of faults.                    *)
(*                                                                         *)
(* That nobody sleeps on is not inductive: a joiner parks because the slot *)
(* it looked at was not settled, so the strengthening says that a slot not *)
(* settled has a runner about to settle it, that a claim in the registry   *)
(* has its runner, and that a runner holds its claim until it frees it.    *)
(***************************************************************************)
Claiming == {"run", "settle", "free"}
Joining == {"listen", "check", "parked"}

(* What the rest speaks about is well formed.                              *)
DancesAreTyped ==
  /\ DOMAIN job = Jobs /\ DOMAIN slot = Jobs
  /\ \A j \in Jobs : /\ DOMAIN job[j] = {"pc", "by", "kind", "ref", "all"}
                     /\ job[j].pc # "free" => job[j].by \in CredCallers /\ job[j].ref \in Refs
  /\ DOMAIN caller = CredCallers
  /\ \A c \in CredCallers : DOMAIN caller[c] = {"pc", "job", "woken", "ok"}
  /\ DOMAIN inFlight = Processes
  /\ \A p \in Processes : DOMAIN inFlight[p] = Refs

(* A runner holds the claim of its dance; it frees it once it has settled. *)
RunnersClaim ==
  \A d \in CredCallers : caller[d].pc \in Claiming =>
    /\ caller[d].job \in Jobs /\ job[caller[d].job].pc # "free"
    /\ inFlight[Process[d]][job[caller[d].job].ref] = caller[d].job
    /\ caller[d].pc = "free" => slot[caller[d].job].done

(* A dance has one runner.                                                 *)
RunnersDiffer ==
  \A d, e \in CredCallers :
    caller[d].pc \in Claiming /\ caller[e].pc \in Claiming /\ caller[d].job = caller[e].job => d = e

(* A claim has its runner.                                                 *)
ClaimsAreRun ==
  \A p \in Processes, r \in Refs : inFlight[p][r] # 0 =>
    /\ inFlight[p][r] \in Jobs
    /\ job[inFlight[p][r]].pc # "free" /\ job[inFlight[p][r]].ref = r
    /\ \E d \in CredCallers : /\ Process[d] = p /\ caller[d].job = inFlight[p][r]
                              /\ caller[d].pc \in Claiming

(* Whoever joined a dance not settled yet has somebody who will settle it. *)
JoinersAreOwed ==
  \A c \in CredCallers : caller[c].pc \in Joining =>
    /\ caller[c].job \in Jobs
    /\ \/ slot[caller[c].job].done
       \/ \E d \in CredCallers : /\ Process[d] = Process[c] /\ caller[d].job = caller[c].job
                                 /\ caller[d].pc \in {"run", "settle"}

(* Unless callers are cancelled a dance has a runner that awaits it.       *)
DancesAreRun ==
  "cancel" \notin credFaults =>
    \A j \in Jobs : job[j].pc = "dance" =>
      \E d \in CredCallers : Process[d] = Of(j) /\ caller[d].job = j /\ caller[d].pc = "run"

DanceInv ==
  /\ DancesAreTyped /\ RunnersClaim /\ RunnersDiffer /\ ClaimsAreRun
  /\ JoinersAreOwed /\ NobodySleepsOn /\ DancesAreRun

----------------------------------------------------------------------------
LEMMA DanceInitInv == CredInit => DanceInv
<1>1. SUFFICES ASSUME NEW faults, CredFrom(faults) PROVE DanceInv
  BY DEF CredInit
<1>2. \A j \in Jobs : job[j] = NoJob
  BY <1>1 DEF CredFrom
<1>3. \A c \in CredCallers : caller[c].pc = "idle"
  BY <1>1 DEF CredFrom, AtRest
<1>4. \A p \in Processes, r \in Refs : inFlight[p][r] = 0
  BY <1>1 DEF CredFrom
<1>5. DancesAreTyped
  BY <1>1 DEF CredFrom, DancesAreTyped, NoJob, AtRest
<1>6. RunnersClaim /\ RunnersDiffer /\ JoinersAreOwed /\ NobodySleepsOn
  BY <1>3 DEF RunnersClaim, RunnersDiffer, JoinersAreOwed, NobodySleepsOn, Claiming, Joining
<1>7. ClaimsAreRun
  BY <1>4 DEF ClaimsAreRun
<1>8. DancesAreRun
  BY <1>2 DEF DancesAreRun, NoJob
<1>9. QED
  BY <1>5, <1>6, <1>7, <1>8 DEF DanceInv

(* A step of a job that no caller sees: it may end a dance, never start    *)
(* one.                                                                    *)
LEMMA QuietKeeps ==
  ASSUME DanceInv, UNCHANGED <<credFaults, slot, inFlight, caller>>,
         DOMAIN job' = Jobs,
         \A i \in Jobs : /\ DOMAIN job'[i] = {"pc", "by", "kind", "ref", "all"}
                         /\ job'[i].pc # "free" => job'[i].by \in CredCallers /\ job'[i].ref \in Refs
                         /\ job[i].pc # "free" => /\ job'[i].pc # "free"
                                                  /\ job'[i].by = job[i].by
                                                  /\ job'[i].ref = job[i].ref
                         /\ job'[i].pc = "dance" => job[i].pc = "dance"
  PROVE  DanceInv'
<1>1. DancesAreTyped'
  BY DEF DanceInv, DancesAreTyped
<1>2. RunnersClaim' /\ RunnersDiffer'
  BY DEF DanceInv, RunnersClaim, RunnersDiffer
<1>3. ClaimsAreRun'
  BY DEF DanceInv, ClaimsAreRun
<1>4. JoinersAreOwed' /\ NobodySleepsOn'
  BY DEF DanceInv, JoinersAreOwed, NobodySleepsOn
<1>5. DancesAreRun'
  BY DEF DanceInv, DancesAreRun, Of
<1>6. QED
  BY <1>1, <1>2, <1>3, <1>4, <1>5 DEF DanceInv

(* store and forget take a free job and no claim.                          *)
LEMMA StoreCallIsQuiet ==
  ASSUME DanceInv, NEW c \in CredCallers, NEW r \in Refs, NEW kind, StoreCall(c, r, kind)
  PROVE  DanceInv'
<1>1. PICK j \in FreshJobs :
        job' = [job EXCEPT ![j] = [NoJob EXCEPT !.pc = "process lock", !.by = c, !.kind = kind, !.ref = r]]
  BY DEF StoreCall
<1>2. j \in Jobs /\ job[j].pc = "free"
  BY DEF FreshJobs, JobAt
<1>3. \A i \in Jobs : i # j => job'[i] = job[i]
  BY <1>1, <1>2 DEF DanceInv, DancesAreTyped
<1>4. job'[j] = [NoJob EXCEPT !.pc = "process lock", !.by = c, !.kind = kind, !.ref = r]
  BY <1>1, <1>2 DEF DanceInv, DancesAreTyped
<1>5. /\ job'[j].pc = "process lock" /\ job'[j].by = c /\ job'[j].ref = r
      /\ DOMAIN job'[j] = {"pc", "by", "kind", "ref", "all"}
  BY <1>4 DEF NoJob
<1>6. DOMAIN job' = Jobs
  BY <1>1 DEF DanceInv, DancesAreTyped
<1>7. UNCHANGED <<credFaults, slot, inFlight, caller>>
  BY DEF StoreCall
<1>8. \A i \in Jobs :
        /\ DOMAIN job'[i] = {"pc", "by", "kind", "ref", "all"}
        /\ job'[i].pc # "free" => job'[i].by \in CredCallers /\ job'[i].ref \in Refs
        /\ job[i].pc # "free" => /\ job'[i].pc # "free"
                                 /\ job'[i].by = job[i].by
                                 /\ job'[i].ref = job[i].ref
        /\ job'[i].pc = "dance" => job[i].pc = "dance"
  BY <1>2, <1>3, <1>5 DEF DanceInv, DancesAreTyped
<1>9. QED
  BY <1>6, <1>7, <1>8, QuietKeeps

(* So does each step of a mutation, and the end of a dance.                *)
LEMMA JobIsQuiet ==
  ASSUME DanceInv, NEW j \in Jobs, JobStep(j) \/ MutateFails(j)
  PROVE  DanceInv'
<1>1. job[j].pc # "free"
  BY DEF JobStep, TakeProcessLock, TakeFileLock, ReadAll, WriteTemp, Publish, DanceDone, MutateFails, JobAt
<1>2. UNCHANGED <<credFaults, slot, inFlight, caller>>
  BY DEF JobStep, TakeProcessLock, TakeFileLock, ReadAll, WriteTemp, Publish, DanceDone, MutateFails
<1>3. /\ \A i \in Jobs : i # j => job'[i] = job[i]
      /\ job'[j].pc \in {"file lock", "read", "write", "rename", "stored", "failed", "process lock"}
      /\ job'[j].by = job[j].by /\ job'[j].ref = job[j].ref
      /\ DOMAIN job'[j] = DOMAIN job[j] /\ DOMAIN job' = Jobs
  <2>1. DOMAIN job = Jobs /\ DOMAIN job[j] = {"pc", "by", "kind", "ref", "all"}
    BY DEF DanceInv, DancesAreTyped
  <2>2. CASE TakeProcessLock(j)
    BY <2>1, <2>2 DEF TakeProcessLock, JobTo
  <2>3. CASE TakeFileLock(j)
    BY <2>1, <2>3 DEF TakeFileLock, JobTo
  <2>4. CASE ReadAll(j)
    BY <2>1, <2>4 DEF ReadAll
  <2>5. CASE WriteTemp(j)
    BY <2>1, <2>5 DEF WriteTemp, JobTo
  <2>6. CASE Publish(j)
    BY <2>1, <2>6 DEF Publish, JobTo
  <2>7. CASE DanceDone(j)
    BY <2>1, <2>7 DEF DanceDone, JobTo
  <2>8. CASE MutateFails(j)
    BY <2>1, <2>8 DEF MutateFails, JobTo
  <2>9. QED
    BY <2>2, <2>3, <2>4, <2>5, <2>6, <2>7, <2>8 DEF JobStep
<1>4. \A i \in Jobs :
        /\ DOMAIN job'[i] = {"pc", "by", "kind", "ref", "all"}
        /\ job'[i].pc # "free" => job'[i].by \in CredCallers /\ job'[i].ref \in Refs
        /\ job[i].pc # "free" => /\ job'[i].pc # "free"
                                 /\ job'[i].by = job[i].by
                                 /\ job'[i].ref = job[i].ref
        /\ job'[i].pc = "dance" => job[i].pc = "dance"
  BY <1>1, <1>3 DEF DanceInv, DancesAreTyped
<1>5. QED
  BY <1>2, <1>3, <1>4, QuietKeeps

(* A caller's step that touches neither jobs nor claims moves one caller.  *)
LEMMA RunnerSettlesKeeps ==
  ASSUME DanceInv, NEW c \in CredCallers, RunnerWakes(c) \/ RunnerCancelled(c)
  PROVE  DanceInv'
<1>1. caller[c].pc = "run" /\ UNCHANGED <<credFaults, job, slot, inFlight>>
  BY DEF RunnerWakes, RunnerCancelled
<1>2. \A d \in CredCallers : d # c => caller'[d] = caller[d]
  BY DEF RunnerWakes, RunnerCancelled, DanceInv, DancesAreTyped
<1>3. /\ caller'[c].pc = "settle" /\ caller'[c].job = caller[c].job
      /\ DOMAIN caller'[c] = DOMAIN caller[c] /\ DOMAIN caller' = CredCallers
  BY DEF RunnerWakes, RunnerCancelled, DanceInv, DancesAreTyped
<1>4. DancesAreTyped'
  BY <1>1, <1>2, <1>3 DEF DanceInv, DancesAreTyped
<1>5. RunnersClaim' /\ RunnersDiffer'
  BY <1>1, <1>2, <1>3 DEF DanceInv, RunnersClaim, RunnersDiffer, Claiming
<1>6. ClaimsAreRun'
  BY <1>1, <1>2, <1>3 DEF DanceInv, ClaimsAreRun, Claiming
<1>7. JoinersAreOwed'
  BY <1>1, <1>2, <1>3 DEF DanceInv, JoinersAreOwed, Joining
<1>8. NobodySleepsOn'
  BY <1>1, <1>2, <1>3 DEF DanceInv, NobodySleepsOn
<1>9. DancesAreRun'
  BY <1>1, <1>2 DEF RunnerWakes, RunnerCancelled, JobAt, DanceInv, DancesAreRun, Of
<1>10. QED
  BY <1>4, <1>5, <1>6, <1>7, <1>8, <1>9 DEF DanceInv

(* The slot is settled by the one runner of its dance.                     *)
LEMMA SettleKeeps ==
  ASSUME DanceInv, NEW c \in CredCallers, Settle(c)
  PROVE  DanceInv'
<1>1. caller[c].pc = "settle" /\ UNCHANGED <<credFaults, job, inFlight>>
  BY DEF Settle
<1>2. \A d \in CredCallers : d # c => caller'[d] = caller[d]
  BY DEF Settle, CallerTo, DanceInv, DancesAreTyped
<1>3. /\ caller'[c].pc = "free" /\ caller'[c].job = caller[c].job
      /\ DOMAIN caller'[c] = DOMAIN caller[c] /\ DOMAIN caller' = CredCallers
  BY DEF Settle, CallerTo, DanceInv, DancesAreTyped
<1>4. caller[c].job \in Jobs
  BY <1>1 DEF DanceInv, RunnersClaim, Claiming
<1>5. /\ DOMAIN slot' = Jobs /\ slot'[caller[c].job].done
      /\ \A j \in Jobs : slot[j].done => slot'[j].done
  BY <1>4 DEF Settle, DanceInv, DancesAreTyped
<1>6. DancesAreTyped'
  BY <1>1, <1>2, <1>3, <1>5 DEF DanceInv, DancesAreTyped
<1>7. RunnersClaim'
  BY <1>1, <1>2, <1>3, <1>4, <1>5 DEF DanceInv, RunnersClaim, Claiming
<1>8. RunnersDiffer'
  BY <1>1, <1>2, <1>3 DEF DanceInv, RunnersDiffer, Claiming
<1>9. ClaimsAreRun'
  BY <1>1, <1>2, <1>3 DEF DanceInv, ClaimsAreRun, Claiming
<1>10. JoinersAreOwed'
  <2>1. SUFFICES ASSUME NEW d \in CredCallers, caller'[d].pc \in Joining,
                        ~slot'[caller'[d].job].done
                 PROVE  /\ caller'[d].job \in Jobs
                        /\ \E e \in CredCallers : /\ Process[e] = Process[d] /\ caller'[e].job = caller'[d].job
                                                  /\ caller'[e].pc \in {"run", "settle"}
    <3>1. \A d \in CredCallers : caller'[d].pc \in Joining => caller'[d].job \in Jobs
      BY <1>2, <1>3 DEF DanceInv, JoinersAreOwed, Joining
    <3>2. QED
      BY <3>1 DEF JoinersAreOwed
  <2>2. caller'[d] = caller[d] /\ caller[d].job \in Jobs /\ caller[d].job # caller[c].job
    BY <1>2, <1>3, <1>5, <2>1 DEF DanceInv, JoinersAreOwed, Joining
  <2>3. ~slot[caller[d].job].done
    BY <1>5, <2>1, <2>2
  <2>4. PICK e \in CredCallers : /\ Process[e] = Process[d] /\ caller[e].job = caller[d].job
                                 /\ caller[e].pc \in {"run", "settle"}
    BY <2>1, <2>2, <2>3 DEF DanceInv, JoinersAreOwed
  <2>5. QED
    BY <1>2, <2>2, <2>4
<1>11. NobodySleepsOn'
  BY <1>1, <1>2, <1>3 DEF DanceInv, NobodySleepsOn
<1>12. DancesAreRun'
  BY <1>1, <1>2 DEF DanceInv, DancesAreRun, Of
<1>13. QED
  BY <1>6, <1>7, <1>8, <1>9, <1>10, <1>11, <1>12 DEF DanceInv

(* The claim goes with its runner, and nobody else's does.                 *)
LEMMA FreeKeyKeeps ==
  ASSUME DanceInv, NEW c \in CredCallers, FreeKey(c)
  PROVE  DanceInv'
<1> DEFINE k == job[caller[c].job].ref
<1>1. caller[c].pc = "free" /\ UNCHANGED <<credFaults, job, slot>>
  BY DEF FreeKey
<1>2. \A d \in CredCallers : d # c => caller'[d] = caller[d]
  BY DEF FreeKey, CallerTo, DanceInv, DancesAreTyped
<1>3. /\ caller'[c].pc = "notify" /\ caller'[c].job = caller[c].job
      /\ DOMAIN caller'[c] = DOMAIN caller[c] /\ DOMAIN caller' = CredCallers
  BY DEF FreeKey, CallerTo, DanceInv, DancesAreTyped
<1>4. /\ caller[c].job \in Jobs /\ job[caller[c].job].pc # "free"
      /\ inFlight[Process[c]][k] = caller[c].job
  BY <1>1 DEF DanceInv, RunnersClaim, Claiming
<1>5. k \in Refs /\ Process[c] \in Processes
  BY <1>4 DEF DanceInv, DancesAreTyped, Processes
<1>6. /\ DOMAIN inFlight' = Processes /\ \A p \in Processes : DOMAIN inFlight'[p] = Refs
      /\ inFlight'[Process[c]][k] = 0
      /\ \A p \in Processes, r \in Refs :
           p # Process[c] \/ r # k => inFlight'[p][r] = inFlight[p][r]
  BY <1>5 DEF FreeKey, DanceInv, DancesAreTyped
<1>7. DancesAreTyped'
  BY <1>1, <1>2, <1>3, <1>6 DEF DanceInv, DancesAreTyped
<1>8. RunnersClaim'
  <2>1. SUFFICES ASSUME NEW d \in CredCallers, caller'[d].pc \in Claiming
                 PROVE  /\ caller'[d].job \in Jobs /\ job'[caller'[d].job].pc # "free"
                        /\ inFlight'[Process[d]][job'[caller'[d].job].ref] = caller'[d].job
                        /\ caller'[d].pc = "free" => slot'[caller'[d].job].done
    BY DEF RunnersClaim
  <2>2. d # c /\ caller'[d] = caller[d]
    BY <1>2, <1>3, <2>1 DEF Claiming
  <2>3. /\ caller[d].job \in Jobs /\ job[caller[d].job].pc # "free"
        /\ inFlight[Process[d]][job[caller[d].job].ref] = caller[d].job
        /\ caller[d].pc = "free" => slot[caller[d].job].done
    BY <2>1, <2>2 DEF DanceInv, RunnersClaim
  <2>4. caller[d].job # caller[c].job
    BY <1>1, <2>1, <2>2 DEF DanceInv, RunnersDiffer, Claiming
  <2>5. Process[d] \in Processes /\ job[caller[d].job].ref \in Refs
    BY <2>3 DEF Processes, DanceInv, DancesAreTyped
  <2>6. Process[d] # Process[c] \/ job[caller[d].job].ref # k
    BY <1>4, <2>3, <2>4
  <2>7. QED
    BY <1>1, <1>6, <2>2, <2>3, <2>5, <2>6
<1>9. RunnersDiffer'
  BY <1>1, <1>2, <1>3 DEF DanceInv, RunnersDiffer, Claiming
<1>10. ClaimsAreRun'
  <2>1. SUFFICES ASSUME NEW p \in Processes, NEW r \in Refs, inFlight'[p][r] # 0
                 PROVE  /\ inFlight'[p][r] \in Jobs
                        /\ job'[inFlight'[p][r]].pc # "free" /\ job'[inFlight'[p][r]].ref = r
                        /\ \E d \in CredCallers : /\ Process[d] = p /\ caller'[d].job = inFlight'[p][r]
                                                  /\ caller'[d].pc \in Claiming
    BY DEF ClaimsAreRun
  <2>2. (p # Process[c] \/ r # k) /\ inFlight'[p][r] = inFlight[p][r]
    BY <1>6, <2>1
  <2>3. PICK d \in CredCallers : /\ Process[d] = p /\ caller[d].job = inFlight[p][r]
                                 /\ caller[d].pc \in Claiming
    BY <2>1, <2>2 DEF DanceInv, ClaimsAreRun
  <2>4. job[inFlight[p][r]].ref = r /\ inFlight[p][r] \in Jobs /\ job[inFlight[p][r]].pc # "free"
    BY <2>1, <2>2 DEF DanceInv, ClaimsAreRun
  <2>5. d # c
    BY <2>2, <2>3, <2>4
  <2>6. QED
    BY <1>1, <1>2, <2>2, <2>3, <2>4, <2>5
<1>11. JoinersAreOwed'
  BY <1>1, <1>2, <1>3 DEF DanceInv, JoinersAreOwed, Joining
<1>12. NobodySleepsOn'
  BY <1>1, <1>2, <1>3 DEF DanceInv, NobodySleepsOn
<1>13. DancesAreRun'
  BY <1>1, <1>2 DEF DanceInv, DancesAreRun, Of
<1>14. QED
  BY <1>7, <1>8, <1>9, <1>10, <1>11, <1>12, <1>13 DEF DanceInv

(* The notification reaches every joiner of the process that could be      *)
(* asleep.                                                                 *)
LEMMA NotifyKeeps ==
  ASSUME DanceInv, NEW c \in CredCallers, Notify(c)
  PROVE  DanceInv'
<1>1. caller[c].pc = "notify" /\ UNCHANGED <<credFaults, job, slot, inFlight>>
  BY DEF Notify
<1>2. DOMAIN caller' = CredCallers /\ caller'[c] = AtRest
  BY DEF Notify
<1>3. \A d \in CredCallers : d # c =>
        /\ DOMAIN caller'[d] = DOMAIN caller[d]
        /\ caller'[d].pc = caller[d].pc /\ caller'[d].job = caller[d].job
  BY DEF Notify, DanceInv, DancesAreTyped
<1>4. \A d \in CredCallers : d # c /\ caller[d].pc = "parked" =>
        IF Process[d] = Process[c] THEN caller'[d].woken ELSE caller'[d] = caller[d]
  BY DEF Notify, DanceInv, DancesAreTyped
<1>5. caller'[c].pc = "idle" /\ DOMAIN caller'[c] = {"pc", "job", "woken", "ok"}
  BY <1>2 DEF AtRest
<1>6. DancesAreTyped'
  BY <1>1, <1>2, <1>3, <1>5 DEF DanceInv, DancesAreTyped
<1>7. RunnersClaim' /\ RunnersDiffer'
  BY <1>1, <1>3, <1>5 DEF DanceInv, RunnersClaim, RunnersDiffer, Claiming
<1>8. ClaimsAreRun'
  BY <1>1, <1>3, <1>5 DEF DanceInv, ClaimsAreRun, Claiming
<1>9. JoinersAreOwed'
  BY <1>1, <1>3, <1>5 DEF DanceInv, JoinersAreOwed, Joining
<1>10. NobodySleepsOn'
  <2>1. SUFFICES ASSUME NEW d \in CredCallers, caller'[d].pc = "parked", ~caller'[d].woken
                 PROVE  \E e \in CredCallers : /\ Process[e] = Process[d] /\ caller'[e].job = caller'[d].job
                                               /\ caller'[e].pc \in {"run", "settle", "free", "notify"}
    BY DEF NobodySleepsOn
  <2>2. d # c /\ caller[d].pc = "parked"
    BY <1>3, <1>5, <2>1
  <2>3. Process[d] # Process[c] /\ caller'[d] = caller[d]
    BY <1>4, <2>1, <2>2
  <2>4. PICK e \in CredCallers : /\ Process[e] = Process[d] /\ caller[e].job = caller[d].job
                                 /\ caller[e].pc \in {"run", "settle", "free", "notify"}
    BY <2>1, <2>2, <2>3 DEF DanceInv, NobodySleepsOn
  <2>5. QED
    BY <1>3, <2>3, <2>4
<1>11. DancesAreRun'
  BY <1>1, <1>3, <1>5 DEF DanceInv, DancesAreRun, Of
<1>12. QED
  BY <1>6, <1>7, <1>8, <1>9, <1>10, <1>11 DEF DanceInv

(* A joiner parks before it has been woken only for a dance to be settled. *)
LEMMA JoinerKeeps ==
  ASSUME DanceInv, NEW c \in CredCallers, Listen(c) \/ Check(c) \/ Wake(c)
  PROVE  DanceInv'
<1>1. caller[c].pc \in Joining /\ UNCHANGED <<credFaults, job, slot, inFlight>>
  BY DEF Listen, Check, Wake, Joining
<1>2. DOMAIN caller' = CredCallers /\ \A d \in CredCallers : d # c => caller'[d] = caller[d]
  BY DEF Listen, Check, Wake, CallerTo, DanceInv, DancesAreTyped
<1>3. /\ DOMAIN caller'[c] = {"pc", "job", "woken", "ok"}
      /\ caller'[c].pc \in Joining \cup {"idle"}
      /\ caller'[c].pc \in Joining => caller'[c].job = caller[c].job
  BY DEF Listen, Check, Wake, CallerTo, DanceInv, DancesAreTyped, AtRest, Joining
<1>4. caller'[c].pc = "parked" => ~slot[caller[c].job].done
  BY DEF Listen, Check, Wake, CallerTo, DanceInv, DancesAreTyped, AtRest
<1>5. DancesAreTyped'
  BY <1>1, <1>2, <1>3 DEF DanceInv, DancesAreTyped
<1>6. RunnersClaim' /\ RunnersDiffer'
  BY <1>1, <1>2, <1>3 DEF DanceInv, RunnersClaim, RunnersDiffer, Claiming, Joining
<1>7. ClaimsAreRun'
  BY <1>1, <1>2, <1>3 DEF DanceInv, ClaimsAreRun, Claiming, Joining
<1>8. JoinersAreOwed'
  BY <1>1, <1>2, <1>3 DEF DanceInv, JoinersAreOwed, Joining
<1>9. NobodySleepsOn'
  BY <1>1, <1>2, <1>3, <1>4 DEF DanceInv, NobodySleepsOn, JoinersAreOwed, Joining
<1>10. DancesAreRun'
  BY <1>1, <1>2, <1>3 DEF DanceInv, DancesAreRun, Of, Joining
<1>11. QED
  BY <1>5, <1>6, <1>7, <1>8, <1>9, <1>10 DEF DanceInv

(* A caller joins the claim it finds.                                      *)
LEMMA JoinKeeps ==
  ASSUME DanceInv, NEW c \in CredCallers, NEW r \in Refs, Authorize(c, r),
         inFlight[Process[c]][r] # 0
  PROVE  DanceInv'
<1> DEFINE j == inFlight[Process[c]][r]
<1>1. UNCHANGED <<credFaults, job, slot, inFlight>> /\ caller[c].pc = "idle"
  BY DEF Authorize
<1>2. caller' = [caller EXCEPT ![c] = [AtRest EXCEPT !.pc = "listen", !.job = j]]
  BY DEF Authorize
<1>3. DOMAIN caller' = CredCallers /\ \A d \in CredCallers : d # c => caller'[d] = caller[d]
  BY <1>2 DEF DanceInv, DancesAreTyped
<1>4. /\ DOMAIN caller'[c] = {"pc", "job", "woken", "ok"}
      /\ caller'[c].pc = "listen" /\ caller'[c].job = j
  BY <1>2 DEF DanceInv, DancesAreTyped, AtRest
<1>5. Process[c] \in Processes
  BY DEF Processes
<1>6. PICK d \in CredCallers : /\ Process[d] = Process[c] /\ caller[d].job = j
                               /\ caller[d].pc \in Claiming
  BY <1>5 DEF DanceInv, ClaimsAreRun
<1>7. /\ j \in Jobs /\ d # c
      /\ slot[j].done \/ caller[d].pc \in {"run", "settle"}
  BY <1>1, <1>6 DEF DanceInv, RunnersClaim, Claiming
<1>8. DancesAreTyped'
  BY <1>1, <1>3, <1>4 DEF DanceInv, DancesAreTyped
<1>9. RunnersClaim' /\ RunnersDiffer'
  BY <1>1, <1>3, <1>4 DEF DanceInv, RunnersClaim, RunnersDiffer, Claiming
<1>10. ClaimsAreRun'
  BY <1>1, <1>3, <1>4 DEF DanceInv, ClaimsAreRun, Claiming
<1>11. JoinersAreOwed'
  <2>1. ASSUME NEW e \in CredCallers, e # c, caller'[e].pc \in Joining
        PROVE  /\ caller'[e].job \in Jobs
               /\ \/ slot'[caller'[e].job].done
                  \/ \E f \in CredCallers : /\ Process[f] = Process[e] /\ caller'[f].job = caller'[e].job
                                            /\ caller'[f].pc \in {"run", "settle"}
    BY <1>1, <1>3, <2>1 DEF DanceInv, JoinersAreOwed
  <2>2. caller'[d] = caller[d]
    BY <1>3, <1>7
  <2>3. /\ caller'[c].job \in Jobs
        /\ \/ slot'[caller'[c].job].done
           \/ \E f \in CredCallers : /\ Process[f] = Process[c] /\ caller'[f].job = caller'[c].job
                                     /\ caller'[f].pc \in {"run", "settle"}
    BY <1>1, <1>4, <1>6, <1>7, <2>2
  <2>4. QED
    BY <2>1, <2>3 DEF JoinersAreOwed
<1>12. NobodySleepsOn'
  BY <1>1, <1>3, <1>4 DEF DanceInv, NobodySleepsOn
<1>13. DancesAreRun'
  BY <1>1, <1>3 DEF DanceInv, DancesAreRun, Of
<1>14. QED
  BY <1>8, <1>9, <1>10, <1>11, <1>12, <1>13 DEF DanceInv

(* A caller claims a reference that is free, with a dance of its own.      *)
LEMMA ClaimKeeps ==
  ASSUME DanceInv, NEW c \in CredCallers, NEW r \in Refs, Authorize(c, r),
         inFlight[Process[c]][r] = 0
  PROVE  DanceInv'
<1>1. PICK j \in FreshJobs :
        /\ job' = [job EXCEPT ![j] = [NoJob EXCEPT !.pc = "dance", !.by = c, !.kind = "dance", !.ref = r]]
        /\ inFlight' = [inFlight EXCEPT ![Process[c]][r] = j]
        /\ caller' = [caller EXCEPT ![c] = [AtRest EXCEPT !.pc = "run", !.job = j]]
        /\ UNCHANGED slot
  BY DEF Authorize
<1>2. UNCHANGED <<credFaults, slot>> /\ caller[c].pc = "idle"
  BY <1>1 DEF Authorize
<1>3. j \in Jobs /\ job[j].pc = "free" /\ j # 0 /\ Process[c] \in Processes
  BY NoRecordIsNoJob DEF FreshJobs, JobAt, Processes
<1>4. DOMAIN job' = Jobs /\ \A i \in Jobs : i # j => job'[i] = job[i]
  BY <1>1, <1>3 DEF DanceInv, DancesAreTyped
<1>5. job'[j] = [NoJob EXCEPT !.pc = "dance", !.by = c, !.kind = "dance", !.ref = r]
  BY <1>1, <1>3 DEF DanceInv, DancesAreTyped
<1>6. /\ DOMAIN job'[j] = {"pc", "by", "kind", "ref", "all"}
      /\ job'[j].pc = "dance" /\ job'[j].by = c /\ job'[j].ref = r
  BY <1>5 DEF NoJob
<1>7. DOMAIN caller' = CredCallers /\ \A d \in CredCallers : d # c => caller'[d] = caller[d]
  BY <1>1 DEF DanceInv, DancesAreTyped
<1>8. /\ DOMAIN caller'[c] = {"pc", "job", "woken", "ok"}
      /\ caller'[c].pc = "run" /\ caller'[c].job = j
  BY <1>1 DEF DanceInv, DancesAreTyped, AtRest
<1>9. /\ DOMAIN inFlight' = Processes /\ \A p \in Processes : DOMAIN inFlight'[p] = Refs
      /\ inFlight'[Process[c]][r] = j
      /\ \A p \in Processes, s \in Refs : p # Process[c] \/ s # r => inFlight'[p][s] = inFlight[p][s]
  BY <1>1, <1>3 DEF DanceInv, DancesAreTyped
<1>10. \A d \in CredCallers : caller[d].pc \in Claiming =>
         /\ d # c /\ caller[d].job \in Jobs /\ caller[d].job # j /\ job[caller[d].job].pc # "free"
         /\ job[caller[d].job].ref \in Refs /\ Process[d] \in Processes
         /\ inFlight[Process[d]][job[caller[d].job].ref] = caller[d].job
         /\ caller[d].pc = "free" => slot[caller[d].job].done
         /\ Process[d] # Process[c] \/ job[caller[d].job].ref # r
  <2>1. SUFFICES ASSUME NEW d \in CredCallers, caller[d].pc \in Claiming
                 PROVE  /\ d # c /\ caller[d].job \in Jobs /\ caller[d].job # j /\ job[caller[d].job].pc # "free"
                        /\ job[caller[d].job].ref \in Refs /\ Process[d] \in Processes
                        /\ inFlight[Process[d]][job[caller[d].job].ref] = caller[d].job
                        /\ caller[d].pc = "free" => slot[caller[d].job].done
                        /\ Process[d] # Process[c] \/ job[caller[d].job].ref # r
    OBVIOUS
  <2>2. /\ d # c /\ caller[d].job \in Jobs /\ caller[d].job # j /\ job[caller[d].job].pc # "free"
        /\ inFlight[Process[d]][job[caller[d].job].ref] = caller[d].job
        /\ caller[d].pc = "free" => slot[caller[d].job].done
    BY <1>2, <1>3, <2>1 DEF DanceInv, RunnersClaim, Claiming
  <2>3. job[caller[d].job].ref \in Refs /\ Process[d] \in Processes /\ caller[d].job # 0
    BY <2>2, NoRecordIsNoJob DEF DanceInv, DancesAreTyped, Processes
  <2>4. QED
    BY <2>2, <2>3
<1>11. DancesAreTyped'
  BY <1>2, <1>4, <1>6, <1>7, <1>8, <1>9 DEF DanceInv, DancesAreTyped
<1>12. RunnersClaim'
  <2>1. ASSUME NEW d \in CredCallers, d # c, caller'[d].pc \in Claiming
        PROVE  /\ caller'[d].job \in Jobs /\ job'[caller'[d].job].pc # "free"
               /\ inFlight'[Process[d]][job'[caller'[d].job].ref] = caller'[d].job
               /\ caller'[d].pc = "free" => slot'[caller'[d].job].done
    BY <1>2, <1>4, <1>7, <1>9, <1>10, <2>1
  <2>2. /\ caller'[c].job \in Jobs /\ job'[caller'[c].job].pc # "free"
        /\ inFlight'[Process[c]][job'[caller'[c].job].ref] = caller'[c].job
        /\ caller'[c].pc = "free" => slot'[caller'[c].job].done
    BY <1>3, <1>6, <1>8, <1>9
  <2>3. QED
    BY <2>1, <2>2 DEF RunnersClaim
<1>13. RunnersDiffer'
  BY <1>7, <1>8, <1>10 DEF DanceInv, RunnersDiffer
<1>14. ClaimsAreRun'
  <2>1. SUFFICES ASSUME NEW p \in Processes, NEW s \in Refs, inFlight'[p][s] # 0
                 PROVE  /\ inFlight'[p][s] \in Jobs
                        /\ job'[inFlight'[p][s]].pc # "free" /\ job'[inFlight'[p][s]].ref = s
                        /\ \E d \in CredCallers : /\ Process[d] = p /\ caller'[d].job = inFlight'[p][s]
                                                  /\ caller'[d].pc \in Claiming
    BY DEF ClaimsAreRun
  <2>2. CASE p = Process[c] /\ s = r
    BY <1>3, <1>6, <1>8, <1>9, <2>2 DEF Claiming
  <2>3. CASE p # Process[c] \/ s # r
    <3>1. inFlight'[p][s] = inFlight[p][s]
      BY <1>9, <2>3
    <3>2. /\ inFlight[p][s] \in Jobs /\ job[inFlight[p][s]].pc # "free" /\ job[inFlight[p][s]].ref = s
      BY <2>1, <3>1 DEF DanceInv, ClaimsAreRun
    <3>3. PICK d \in CredCallers : /\ Process[d] = p /\ caller[d].job = inFlight[p][s]
                                   /\ caller[d].pc \in Claiming
      BY <2>1, <3>1 DEF DanceInv, ClaimsAreRun
    <3>4. caller'[d] = caller[d] /\ job'[inFlight[p][s]] = job[inFlight[p][s]]
      BY <1>3, <1>4, <1>7, <1>10, <3>2, <3>3
    <3>5. QED
      BY <3>1, <3>2, <3>3, <3>4
  <2>4. QED
    BY <2>2, <2>3
<1>15. JoinersAreOwed'
  BY <1>2, <1>7, <1>8 DEF DanceInv, JoinersAreOwed, Joining
<1>16. NobodySleepsOn'
  BY <1>2, <1>7, <1>8 DEF DanceInv, NobodySleepsOn
<1>17. DancesAreRun'
  <2>1. SUFFICES ASSUME "cancel" \notin credFaults, NEW i \in Jobs, job'[i].pc = "dance"
                 PROVE  \E d \in CredCallers : Process[d] = Process[job'[i].by] /\ caller'[d].job = i
                                               /\ caller'[d].pc = "run"
    BY <1>2 DEF DancesAreRun, Of
  <2>2. CASE i = j
    BY <1>6, <1>8, <2>2
  <2>3. CASE i # j
    <3>1. job'[i] = job[i]
      BY <1>4, <2>3
    <3>2. PICK d \in CredCallers : Process[d] = Process[job[i].by] /\ caller[d].job = i /\ caller[d].pc = "run"
      BY <2>1, <3>1 DEF DanceInv, DancesAreRun, Of
    <3>3. QED
      BY <1>2, <1>7, <3>1, <3>2
  <2>4. QED
    BY <2>2, <2>3
<1>18. QED
  BY <1>11, <1>12, <1>13, <1>14, <1>15, <1>16, <1>17 DEF DanceInv

(* A process takes its callers, claims and dances with it.                 *)
LEMMA DeathKeeps ==
  ASSUME DanceInv, NEW p \in Processes, CrashProcess(p)
  PROVE  DanceInv'
<1> DEFINE dead(j) == ~JobAt(j, "free") /\ Of(j) = p
<1>1. /\ UNCHANGED <<credFaults, slot>>
      /\ DOMAIN job' = Jobs /\ DOMAIN caller' = CredCallers
  BY DEF CrashProcess
<1>2. \A j \in Jobs : job'[j] = IF dead(j) /\ ~JobAt(j, "stored") THEN [job[j] EXCEPT !.pc = "failed"] ELSE job[j]
  BY DEF CrashProcess
<1>3. \A j \in Jobs : /\ DOMAIN job'[j] = DOMAIN job[j]
                      /\ job'[j].by = job[j].by /\ job'[j].ref = job[j].ref
                      /\ job'[j].pc = "free" <=> job[j].pc = "free"
                      /\ job'[j].pc = "dance" => job[j].pc = "dance" /\ Of(j) # p
  BY <1>2 DEF DanceInv, DancesAreTyped, JobAt
<1>4. \A c \in CredCallers : caller'[c] = IF Process[c] = p THEN AtRest ELSE caller[c]
  BY DEF CrashProcess
<1>5. \A c \in CredCallers : /\ DOMAIN caller'[c] = {"pc", "job", "woken", "ok"}
                             /\ Process[c] = p => caller'[c].pc = "idle"
                             /\ Process[c] # p => caller'[c] = caller[c]
  BY <1>4 DEF AtRest, DanceInv, DancesAreTyped
<1>6. /\ DOMAIN inFlight' = Processes /\ \A q \in Processes : DOMAIN inFlight'[q] = Refs
      /\ \A r \in Refs : inFlight'[p][r] = 0
      /\ \A q \in Processes : q # p => inFlight'[q] = inFlight[q]
  BY DEF CrashProcess, DanceInv, DancesAreTyped
<1>7. DancesAreTyped'
  BY <1>1, <1>3, <1>5, <1>6 DEF DanceInv, DancesAreTyped
<1>8. RunnersClaim'
  <2>1. SUFFICES ASSUME NEW d \in CredCallers, caller'[d].pc \in Claiming
                 PROVE  /\ caller'[d].job \in Jobs /\ job'[caller'[d].job].pc # "free"
                        /\ inFlight'[Process[d]][job'[caller'[d].job].ref] = caller'[d].job
                        /\ caller'[d].pc = "free" => slot'[caller'[d].job].done
    BY DEF RunnersClaim
  <2>2. Process[d] # p /\ caller'[d] = caller[d] /\ Process[d] \in Processes
    BY <1>5, <2>1 DEF Claiming, Processes
  <2>3. QED
    BY <1>1, <1>3, <1>6, <2>1, <2>2 DEF DanceInv, RunnersClaim
<1>9. RunnersDiffer'
  BY <1>5 DEF DanceInv, RunnersDiffer, Claiming
<1>10. ClaimsAreRun'
  <2>1. SUFFICES ASSUME NEW q \in Processes, NEW r \in Refs, inFlight'[q][r] # 0
                 PROVE  /\ inFlight'[q][r] \in Jobs
                        /\ job'[inFlight'[q][r]].pc # "free" /\ job'[inFlight'[q][r]].ref = r
                        /\ \E d \in CredCallers : /\ Process[d] = q /\ caller'[d].job = inFlight'[q][r]
                                                  /\ caller'[d].pc \in Claiming
    BY DEF ClaimsAreRun
  <2>2. q # p /\ inFlight'[q][r] = inFlight[q][r]
    BY <1>6, <2>1
  <2>3. QED
    BY <1>3, <1>5, <2>1, <2>2 DEF DanceInv, ClaimsAreRun
<1>11. JoinersAreOwed'
  BY <1>1, <1>5 DEF DanceInv, JoinersAreOwed, Joining
<1>12. NobodySleepsOn'
  BY <1>5 DEF DanceInv, NobodySleepsOn
<1>13. DancesAreRun'
  <2>1. SUFFICES ASSUME "cancel" \notin credFaults, NEW j \in Jobs, job'[j].pc = "dance"
                 PROVE  \E d \in CredCallers : Process[d] = Process[job'[j].by] /\ caller'[d].job = j
                                               /\ caller'[d].pc = "run"
    BY <1>1 DEF DancesAreRun, Of
  <2>2. PICK d \in CredCallers : Process[d] = Of(j) /\ caller[d].job = j /\ caller[d].pc = "run"
    BY <1>3, <2>1 DEF DanceInv, DancesAreRun
  <2>3. QED
    BY <1>3, <1>5, <2>1, <2>2 DEF Of
<1>14. QED
  BY <1>7, <1>8, <1>9, <1>10, <1>11, <1>12, <1>13 DEF DanceInv

----------------------------------------------------------------------------
LEMMA DanceStepKeeps == DanceInv /\ [CredNext]_credVars => DanceInv'
<1>1. SUFFICES ASSUME DanceInv, [CredNext]_credVars PROVE DanceInv'
  OBVIOUS
<1>2. CASE UNCHANGED credVars
  <2>1. UNCHANGED <<credFaults, job, slot, inFlight, caller>>
    BY <1>2 DEF credVars
  <2>2. QED
    BY <1>1, <2>1, QuietKeeps DEF DanceInv, DancesAreTyped
<1>3. ASSUME NEW q \in CredRequests,
             IF q[2] = "authorize" THEN Authorize(q[1], q[3]) ELSE StoreCall(q[1], q[3], q[2])
      PROVE  DanceInv'
  <2>1. q[1] \in CredCallers /\ q[3] \in Refs
    BY CredAssumption DEF CredAssumption
  <2>2. CASE Authorize(q[1], q[3])
    BY <1>1, <2>1, <2>2, JoinKeeps, ClaimKeeps
  <2>3. CASE StoreCall(q[1], q[3], q[2])
    BY <1>1, <2>1, <2>3, StoreCallIsQuiet
  <2>4. QED
    BY <1>3, <2>2, <2>3
<1>4. ASSUME NEW j \in Jobs, JobStep(j) \/ MutateFails(j) PROVE DanceInv'
  BY <1>1, <1>4, JobIsQuiet
<1>5. ASSUME NEW c \in CredCallers, CallerStep(c) \/ RunnerCancelled(c) PROVE DanceInv'
  BY <1>1, <1>5, RunnerSettlesKeeps, SettleKeeps, FreeKeyKeeps, NotifyKeeps, JoinerKeeps DEF CallerStep
<1>6. ASSUME NEW p \in Processes, CrashProcess(p) PROVE DanceInv'
  BY <1>1, <1>6, DeathKeeps
<1>7. QED
  BY <1>1, <1>2, <1>3, <1>4, <1>5, <1>6 DEF CredNext

(* Two dances for one reference would both be behind its one claim.        *)
LEMMA DanceInvShares == DanceInv => DanceIsShared
<1>1. SUFFICES ASSUME DanceInv PROVE OneDancePerKey
  BY DEF DanceIsShared, DanceInv
<1>2. SUFFICES ASSUME "cancel" \notin credFaults, NEW i \in Jobs, NEW j \in Jobs,
                      job[i].pc = "dance", job[j].pc = "dance", Of(i) = Of(j), job[i].ref = job[j].ref
               PROVE  i = j
  BY DEF OneDancePerKey, JobAt
<1>3. PICK d \in CredCallers : Process[d] = Of(i) /\ caller[d].job = i /\ caller[d].pc = "run"
  BY <1>1, <1>2 DEF DanceInv, DancesAreRun
<1>4. PICK e \in CredCallers : Process[e] = Of(j) /\ caller[e].job = j /\ caller[e].pc = "run"
  BY <1>1, <1>2 DEF DanceInv, DancesAreRun
<1>5. QED
  BY <1>1, <1>2, <1>3, <1>4 DEF DanceInv, RunnersClaim, Claiming

(* Callers for one reference share one dance and none of them sleeps on,   *)
(* for any number of callers and processes, however dances end and whoever *)
(* is cancelled or dies (authorize, await_inflight, RunnerGuard::drop).    *)
THEOREM CredDanceIsShared == CredSpec => []DanceIsShared
BY DanceInitInv, DanceStepKeeps, DanceInvShares, PTL DEF CredSpec

----------------------------------------------------------------------------
(* SETTINGS.  An answer is of a moment of its call.                        *)

SettingsSpec == SettingsInit /\ [][SettingsNext]_setVars

(* One edit apart: a declaration, or one layer replaced.                   *)
OneEdit(began) ==
  \/ layers = began.layers
  \/ /\ declared = began.declared
     /\ \E l \in Layers : layers = [began.layers EXCEPT ![l] = layers[l]]

(* Since a call began there was no edit, one, or more than it can bear.    *)
SinceBegan(g) ==
  \/ g.began.edits = edits /\ layers = g.began.layers /\ declared = g.began.declared
  \/ g.began.edits + 1 = edits /\ OneEdit(g.began)
  \/ g.began.edits + 1 < edits

(* What it has read is of the beginning or of now, all of it, and whole.   *)
HasRead(g) ==
  /\ g.next - 1 \in Layers \cup {0}
  /\ g.pc = "resolve" <=> g.next \notin Layers
  /\ \A l \in Layers : l < g.next => g.docs[l].file # "corrupt"
  /\ edits <= g.began.edits + 1 =>
       \/ \A l \in Layers : l < g.next => g.docs[l] = layers[l]
       \/ \A l \in Layers : l < g.next => g.docs[l] = g.began.layers[l]

AnyStack == [Layers -> Contents]

CallTyped(g) ==
  /\ DOMAIN g = {"pc", "op", "key", "next", "docs", "answer", "began"}
  /\ g.pc \in {"idle", "read", "resolve"} /\ g.next \in Nat \ {0}
  /\ g.docs \in AnyStack
  /\ g.began \in [layers : AnyStack, declared : SUBSET SettingKeys, edits : Nat]

SettingsInv ==
  /\ layers \in AnyStack /\ declared \subseteq SettingKeys /\ edits \in Nat
  /\ DOMAIN get = SettingsCallers
  /\ \A c \in SettingsCallers :
       CallTyped(get[c]) /\ (get[c].pc # "idle" => SinceBegan(get[c]) /\ HasRead(get[c]))

(* Layers are numbered without a gap: what is past the last one read is    *)
(* past them all.                                                          *)
LEMMA LayersBelow ==
  ASSUME NEW n \in Nat, n \notin Layers, n - 1 \in Layers
  PROVE  \A l \in Layers : l < n
<1> DEFINE Above == {l \in Layers : l > n}
<1>1. Layers \subseteq Nat \ {0}
  BY SettingsAssumption
<1>2. Above = {}
  <2> SUFFICES ASSUME Above # {} PROVE FALSE
    OBVIOUS
  <2>1. \E x \in Above : \A y \in Above : <<y, x>> \notin OpToRel(<, Nat)
    BY <1>1, NatLessThanWellFounded, WFMin
  <2>2. PICK x \in Above : \A y \in Above : <<y, x>> \notin OpToRel(<, Nat)
    BY <2>1
  <2>3. \A y \in Above : ~(y < x)
    BY <1>1, <2>2 DEF OpToRel
  <2>4. x \in Nat \ {0} /\ x > n /\ x # 1
    BY <1>1
  <2>5. x - 1 \in Layers
    BY <2>4, SettingsAssumption
  <2>6. x - 1 > n
    BY <2>4, <2>5
  <2>7. x - 1 \in Above
    BY <2>5, <2>6
  <2> QED BY <2>3, <2>4, <2>7
<1> QED BY <1>1, <1>2

LEMMA SettingsInitInv == SettingsInit => SettingsInv
<1> SUFFICES ASSUME SettingsInit PROVE SettingsInv
  OBVIOUS
<1>1. PICK ls \in Stacks : SettingsFrom(ls)
  BY DEF SettingsInit
<1>2. [l \in Layers |-> Missing] \in AnyStack
  BY DEF AnyStack, Contents
<1>3. ls \in AnyStack
  BY DEF Stacks, AnyStack, Contents
<1>4. CallTyped(NoGet) /\ NoGet.pc = "idle"
  BY <1>2 DEF NoGet, CallTyped
<1> QED BY <1>1, <1>3, <1>4 DEF SettingsFrom, SettingsInv

(* A call that begins has read nothing.                                    *)
LEMMA SettingsCallKeeps ==
  ASSUME SettingsInv, NEW c \in SettingsCallers, NEW op, NEW k, SettingsCall(c, op, k)
  PROVE  SettingsInv'
<1> DEFINE g == [NoGet EXCEPT !.pc = "read", !.op = op, !.key = k,
                   !.began = [layers |-> layers, declared |-> declared, edits |-> edits]]
<1>1. get' = [get EXCEPT ![c] = g] /\ UNCHANGED <<layers, declared, edits>>
  BY DEF SettingsCall
<1>2. [l \in Layers |-> Missing] \in AnyStack
  BY DEF AnyStack, Contents
<1>3. CallTyped(g)
  BY <1>2 DEF NoGet, CallTyped, SettingsInv
<1>4. g.pc = "read" /\ g.next = 1
      /\ g.began = [layers |-> layers, declared |-> declared, edits |-> edits]
  BY DEF NoGet
<1> HIDE DEF g
<1>5. \A l \in Layers : ~(l < 1)
  BY SettingsAssumption
<1>6. HasRead(g) /\ SinceBegan(g)
  BY <1>4, <1>5, SettingsAssumption DEF HasRead, SinceBegan
<1> QED BY <1>1, <1>3, <1>6 DEF SettingsInv, HasRead, SinceBegan, OneEdit

(* A layer that is read is as it is now; what was read before it stands.   *)
LEMMA ReadLayerKeeps ==
  ASSUME SettingsInv, NEW c \in SettingsCallers, ReadLayer(c)
  PROVE  SettingsInv'
<1> DEFINE g == get[c]
           l == g.next
<1>1. /\ g.pc = "read" /\ CallTyped(g) /\ SinceBegan(g) /\ HasRead(g)
      /\ l \in Layers /\ UNCHANGED <<layers, declared, edits>>
  BY DEF SettingsInv, ReadLayer, HasRead
<1>2. CASE layers[l].file = "corrupt"
  <2> DEFINE h == [g EXCEPT !.pc = "idle", !.answer = OnFailure(g.op)]
  <2>1. get' = [get EXCEPT ![c] = h]
    BY <1>2 DEF ReadLayer, SettingsInv
  <2>2. CallTyped(h) /\ h.pc = "idle"
    BY <1>1 DEF CallTyped
  <2> HIDE DEF h
  <2> QED BY <1>1, <2>1, <2>2 DEF SettingsInv, HasRead, SinceBegan, OneEdit
<1>3. CASE layers[l].file # "corrupt"
  <2> DEFINE h == [g EXCEPT !.docs[l] = layers[l], !.next = l + 1,
                     !.pc = IF l + 1 \in Layers THEN "read" ELSE "resolve"]
  <2>1. get' = [get EXCEPT ![c] = h]
    BY <1>3 DEF ReadLayer, SettingsInv
  <2>2. /\ h.docs = [g.docs EXCEPT ![l] = layers[l]] /\ h.next = l + 1 /\ h.began = g.began
        /\ h.pc = IF l + 1 \in Layers THEN "read" ELSE "resolve"
        /\ DOMAIN h = DOMAIN g
    BY <1>1 DEF CallTyped
  <2> HIDE DEF h
  <2>3. layers \in AnyStack /\ l \in Nat \ {0} /\ Layers \subseteq Nat
    BY <1>1, SettingsAssumption DEF SettingsInv
  <2>4. CallTyped(h)
    BY <1>1, <2>2, <2>3 DEF CallTyped, AnyStack
  <2>5. SinceBegan(h)
    BY <1>1, <2>2 DEF SinceBegan
  <2>6. \A m \in Layers : m < l + 1 => h.docs[m] = IF m = l THEN layers[l] ELSE g.docs[m]
    BY <1>1, <2>2 DEF CallTyped, AnyStack
  <2>7. \A m \in Layers : m < l + 1 => m = l \/ m < l
    <3>1. l \in Nat /\ \A m \in Layers : m \in Nat
      BY <2>3
    <3> HIDE DEF l
    <3> QED BY <3>1
  <2>8. \A m \in Layers : m < h.next => h.docs[m].file # "corrupt"
    BY <1>1, <1>3, <2>2, <2>6, <2>7 DEF HasRead
  <2>9. ASSUME edits <= h.began.edits + 1
        PROVE  \/ \A m \in Layers : m < h.next => h.docs[m] = layers[m]
               \/ \A m \in Layers : m < h.next => h.docs[m] = h.began.layers[m]
    <3>1. \/ \A m \in Layers : m < l => g.docs[m] = layers[m]
          \/ \A m \in Layers : m < l => g.docs[m] = g.began.layers[m]
      BY <1>1, <2>2, <2>9 DEF HasRead
    <3>2. CASE \A m \in Layers : m < l => g.docs[m] = layers[m]
      BY <2>2, <2>6, <2>7, <3>2
    <3>3. CASE \A m \in Layers : m < l => g.docs[m] = g.began.layers[m]
      <4>1. g.began.edits \in Nat /\ edits \in Nat
        BY <1>1 DEF CallTyped, SettingsInv
      <4>2. layers = g.began.layers \/ OneEdit(g.began)
        BY <1>1, <2>2, <2>9, <4>1 DEF SinceBegan
      <4>3. CASE layers = g.began.layers
        BY <2>2, <2>6, <2>7, <3>3, <4>3
      <4>4. ASSUME NEW e \in Layers, layers = [g.began.layers EXCEPT ![e] = layers[e]]
            PROVE  \/ \A m \in Layers : m < h.next => h.docs[m] = layers[m]
                   \/ \A m \in Layers : m < h.next => h.docs[m] = h.began.layers[m]
        <5>1. \A m \in Layers \ {e} : layers[m] = g.began.layers[m]
          BY <1>1, <4>4 DEF CallTyped, AnyStack
        <5>2. CASE e < l
          <6>1. layers[l] = g.began.layers[l]
            BY <1>1, <2>3, <5>1, <5>2
          <6> QED BY <2>2, <2>6, <2>7, <3>3, <6>1
        <5>3. CASE ~(e < l)
          <6>1. \A m \in Layers : m < l => g.docs[m] = layers[m]
            BY <3>3, <5>1, <5>3
          <6> QED BY <2>2, <2>6, <2>7, <6>1
        <5> QED BY <5>2, <5>3
      <4> QED BY <4>2, <4>3, <4>4 DEF OneEdit
    <3> QED BY <3>1, <3>2, <3>3
  <2>10. h.next - 1 \in Layers \cup {0} /\ (h.pc = "resolve" <=> h.next \notin Layers)
    BY <1>1, <2>2, <2>3
  <2>11. HasRead(h)
    BY <2>8, <2>9, <2>10 DEF HasRead
  <2> QED BY <1>1, <2>1, <2>4, <2>5, <2>11 DEF SettingsInv, HasRead, SinceBegan, OneEdit
<1> QED BY <1>2, <1>3

LEMMA AnsweredKeeps ==
  ASSUME SettingsInv, NEW c \in SettingsCallers, Answered(c)
  PROVE  SettingsInv'
<1> DEFINE h == [get[c] EXCEPT !.pc = "idle",
                   !.answer = ResolveIn(get[c].op, get[c].docs, declared, get[c].key)]
<1>1. get' = [get EXCEPT ![c] = h] /\ UNCHANGED <<layers, declared, edits>>
  BY DEF Answered, SettingsInv
<1>2. CallTyped(h) /\ h.pc = "idle"
  BY DEF SettingsInv, CallTyped
<1> HIDE DEF h
<1> QED BY <1>1, <1>2 DEF SettingsInv, HasRead, SinceBegan, OneEdit

(* An edit, of a file or of the declarations, is one more for every call.  *)
LEMMA EditKeeps ==
  ASSUME SettingsInv, UNCHANGED get, edits' = edits + 1,
         \/ UNCHANGED layers /\ declared' \subseteq SettingKeys
         \/ /\ UNCHANGED declared
            /\ \E l \in Layers, content \in Contents : layers' = [layers EXCEPT ![l] = content]
  PROVE  SettingsInv'
<1>1. layers \in AnyStack /\ edits \in Nat
  BY DEF SettingsInv
<1>2. layers' \in AnyStack /\ declared' \subseteq SettingKeys /\ edits' \in Nat
  BY <1>1 DEF SettingsInv, AnyStack
<1>3. \/ layers' = layers
      \/ declared' = declared /\ \E l \in Layers : layers' = [layers EXCEPT ![l] = layers'[l]]
  BY <1>1 DEF AnyStack
<1>4. ASSUME NEW c \in SettingsCallers, get[c].pc # "idle"
      PROVE  SinceBegan(get[c])' /\ HasRead(get[c])'
  <2> DEFINE g == get[c]
  <2>1. CallTyped(g) /\ SinceBegan(g) /\ HasRead(g) /\ g' = g
    BY <1>4 DEF SettingsInv
  <2>2. g.began.edits \in Nat
    BY <2>1 DEF CallTyped
  <2>3. CASE g.began.edits = edits
    <3>1. layers = g.began.layers /\ declared = g.began.declared
      BY <1>1, <2>1, <2>2, <2>3 DEF SinceBegan
    <3>2. OneEdit(g.began)'
      BY <1>3, <2>1, <3>1 DEF OneEdit
    <3>3. SinceBegan(g)'
      BY <2>1, <2>3, <3>2 DEF SinceBegan
    <3>4. \A l \in Layers : l < g.next => g.docs[l] = g.began.layers[l]
      BY <1>1, <2>1, <2>3, <3>1 DEF HasRead
    <3>5. HasRead(g)'
      BY <2>1, <3>4 DEF HasRead
    <3> QED BY <3>3, <3>5
  <2>4. CASE g.began.edits # edits
    <3>1. g.began.edits + 1 < edits'
      BY <1>1, <2>1, <2>2, <2>4 DEF SinceBegan
    <3> QED BY <1>2, <2>1, <2>2, <3>1 DEF SinceBegan, HasRead
  <2> QED BY <2>3, <2>4
<1> QED BY <1>2, <1>4 DEF SettingsInv

LEMMA SettingsStep == SettingsInv /\ [SettingsNext]_setVars => SettingsInv'
<1> SUFFICES ASSUME SettingsInv, [SettingsNext]_setVars PROVE SettingsInv'
  OBVIOUS
<1>1. ASSUME NEW k \in SettingKeys, Declare(k) PROVE SettingsInv'
  BY <1>1, EditKeeps DEF Declare, SettingsInv
<1>2. ASSUME NEW l \in Layers, NEW content \in Contents, EditLayer(l, content) PROVE SettingsInv'
  BY <1>2, EditKeeps DEF EditLayer
<1>3. CASE UNCHANGED setVars
  BY <1>3 DEF setVars, SettingsInv, SinceBegan, HasRead, OneEdit
<1> QED
  BY <1>1, <1>2, <1>3, SettingsCallKeeps, ReadLayerKeeps, AnsweredKeeps DEF SettingsNext

(* An answer, of a call that one edit at most fell into, is what the       *)
(* settings said when it began or say when it returns (get, describe,      *)
(* has_namespace over LayerSource::read).                                  *)
THEOREM SettingsAnswerIsOfAMoment == SettingsSpec => AnswerIsOfAMoment
<1> DEFINE Honest ==
      \A c \in SettingsCallers :
        get[c].pc # "idle" /\ get'[c].pc = "idle" /\ edits - get[c].began.edits <= 1
          => LET g == get[c]
             IN  get'[c].answer \in { Effective(g.op, g.began.layers, g.began.declared, g.key),
                                      Effective(g.op, layers, declared, g.key) }
<1>1. SettingsInv /\ [SettingsNext]_setVars => [Honest]_setVars
  <2> SUFFICES ASSUME SettingsInv, SettingsNext, NEW c \in SettingsCallers,
                      get[c].pc # "idle", get'[c].pc = "idle", edits - get[c].began.edits <= 1
               PROVE  get'[c].answer \in
                        { Effective(get[c].op, get[c].began.layers, get[c].began.declared, get[c].key),
                          Effective(get[c].op, layers, declared, get[c].key) }
    BY DEF setVars
  <2> DEFINE g == get[c]
  <2>1. CallTyped(g) /\ SinceBegan(g) /\ HasRead(g) /\ DOMAIN get = SettingsCallers
    BY DEF SettingsInv
  <2>2. g.began.edits \in Nat /\ edits \in Nat /\ edits <= g.began.edits + 1
    BY <2>1 DEF CallTyped, SettingsInv
  <2>3. get' # get
    OBVIOUS
  <2>4. PICK d \in SettingsCallers : \/ ReadLayer(d) \/ Answered(d)
                                    \/ \E op, k : SettingsCall(d, op, k)
    BY <2>3 DEF SettingsNext, Declare, EditLayer
  <2>5. d = c
    BY <2>1, <2>4 DEF ReadLayer, Answered, SettingsCall
  <2>6. CASE ReadLayer(c)
    <3>1. layers[g.next].file = "corrupt" /\ g.next \in Layers
      BY <2>1, <2>6 DEF ReadLayer, HasRead, CallTyped
    <3>2. g'.answer = OnFailure(g.op)
      BY <2>1, <2>6, <3>1 DEF ReadLayer, CallTyped
    <3> QED BY <3>1, <3>2 DEF Effective
  <2>7. CASE Answered(c)
    <3>1. g.pc = "resolve" /\ g'.answer = ResolveIn(g.op, g.docs, declared, g.key)
      BY <2>1, <2>7 DEF Answered, CallTyped
    <3>2. \A l \in Layers : l < g.next
      <4>1. g.next \notin Layers /\ g.next - 1 \in Layers \cup {0} /\ g.next \in Nat \ {0}
        BY <2>1, <3>1 DEF HasRead, CallTyped
      <4>2. g.next # 1
        BY <4>1, SettingsAssumption
      <4> QED BY <4>1, <4>2, LayersBelow
    <3>3. ~ \E l \in Layers : g.docs[l].file = "corrupt"
      BY <2>1, <3>2 DEF HasRead
    <3>4. layers \in AnyStack /\ g.docs \in AnyStack /\ g.began.layers \in AnyStack
      BY <2>1 DEF SettingsInv, CallTyped
    <3>5. g.docs = layers \/ g.docs = g.began.layers
      BY <2>1, <2>2, <3>2, <3>4 DEF HasRead, AnyStack
    <3>6. CASE g.docs = layers
      BY <3>1, <3>3, <3>6 DEF Effective
    <3>7. CASE g.docs = g.began.layers /\ g.docs # layers
      <4>1. declared = g.began.declared
        BY <2>1, <2>2, <3>7 DEF SinceBegan, OneEdit
      <4> QED BY <3>1, <3>3, <3>7, <4>1 DEF Effective
    <3> QED BY <3>5, <3>6, <3>7
  <2>8. CASE \E op, k : SettingsCall(c, op, k)
    BY <2>8 DEF SettingsCall
  <2> QED BY <2>4, <2>5, <2>6, <2>7, <2>8
<1> QED
  BY <1>1, SettingsInitInv, SettingsStep, PTL DEF SettingsSpec, AnswerIsOfAMoment

----------------------------------------------------------------------------
(* EXECUTORS.  A command runs confined or not at all, its result is true.  *)

ExecSpec == ExecInit /\ [][ExecNext]_execVars

Fields == {"at", "verdict", "hint", "pid", "ran", "pinned", "scrubbed", "wrote", "pipe", "kept", "dropped",
           "status", "cancelledAt", "canceller", "struck", "result"}
Unstarted == {"idle", "spawn", "queued", "forked"}
Judged == {"collected", "over"}

(* What a run's record says for itself.                                    *)
Counted(rec) ==
  /\ rec.wrote \in Nat /\ rec.pipe \in Nat /\ rec.kept \in Nat /\ rec.dropped \in Nat
  /\ rec.kept + rec.dropped + rec.pipe = rec.wrote
Confined(rec) ==
  /\ rec.hint \in {"none", "readable", "unreadable"}
  /\ rec.verdict = "confined" => rec.hint # "none"
  /\ rec.verdict = "denied" => rec.at = "over" /\ ~rec.ran
  /\ rec.at = "idle" => rec.verdict = "none"
  /\ rec.at \in Unstarted => ~rec.ran
  /\ rec.at = "forked" => rec.scrubbed
  /\ rec.ran /\ rec.hint # "none" => rec.pinned /\ rec.scrubbed
Numbered(rec) ==
  /\ rec.pid \in Pids \cup {Nobody}
  /\ rec.at \in {"idle", "spawn", "queued"} => rec.pid = Nobody
  /\ rec.at \in {"forked", "handle"} \/ rec.canceller = "marked" => rec.pid \in Pids
Judgement(rec) ==
  /\ rec.at # "over" => rec.result = "none"
  /\ rec.result = "ok" => rec.cancelledAt \in {"none", "over"}
Sound(rec) == DOMAIN rec = Fields /\ Counted(rec) /\ Confined(rec) /\ Numbered(rec) /\ Judgement(rec)

RunsAreSound == DOMAIN runs = Runs /\ \A r \in Runs : Sound(runs[r])

(* Who is alive belongs to a run.                                          *)
ProcOk(proc) ==
  /\ DOMAIN proc = {"run", "leader", "helper", "left", "exit"}
  /\ proc.leader # "none" \/ proc.helper => proc.run \in Runs
  /\ proc.leader = "forked" => ~proc.helper
ProcsAreTyped == DOMAIN procs = Pids /\ \A p \in Pids : ProcOk(procs[p])

(* The spawner's queue holds the queued runs, each once.                   *)
QueueIsQueued ==
  /\ jobs \in Seq(Runs)
  /\ \A i \in DOMAIN jobs : runs[jobs[i]].at = "queued"
  /\ \A i, k \in DOMAIN jobs : i # k => jobs[i] # jobs[k]
  /\ spawner \in Runs => runs[spawner].at = "forked"

(* The child the spawner has forked is there, and nobody else's.           *)
ChildIsForked ==
  spawner \in Runs =>
    /\ runs[spawner].pid \in Pids
    /\ procs[runs[spawner].pid].run = spawner /\ procs[runs[spawner].pid].leader = "forked"

(* Once the readers of a run have ended nobody writes for it any more.     *)
Silent(proc) == proc.leader \notin {"forked", "running"} /\ ~proc.helper
JudgedIsSilent ==
  \A r \in Runs : runs[r].at \in Judged /\ runs[r].pid # Nobody =>
    /\ runs[r].pipe = 0
    /\ \A p \in Pids : procs[p].run = r => Silent(procs[p])

ExecInv ==
  /\ execEnv \in ExecEnvironments
  /\ RunsAreSound /\ ProcsAreTyped /\ QueueIsQueued /\ ChildIsForked /\ JudgedIsSilent

----------------------------------------------------------------------------
LEMMA ExecInitInv == ExecInit => ExecInv
<1>1. SUFFICES ASSUME NEW env \in ExecEnvironments, ExecFrom(env) PROVE ExecInv
  BY DEF ExecInit
<1>2. Sound(IdleRun)
  BY DEF Sound, Counted, Confined, Numbered, Judgement, IdleRun, Fields, Unstarted
<1>3. RunsAreSound
  BY <1>1, <1>2 DEF ExecFrom, RunsAreSound
<1>4. ProcsAreTyped
  BY <1>1 DEF ExecFrom, ProcsAreTyped, ProcOk, NoProc
<1>5. QueueIsQueued /\ ChildIsForked
  BY <1>1, ExecAssumption DEF ExecFrom, QueueIsQueued, ChildIsForked, ExecAssumption
<1>6. JudgedIsSilent
  BY <1>1 DEF ExecFrom, JudgedIsSilent, IdleRun, Judged
<1>7. QED
  BY <1>1, <1>3, <1>4, <1>5, <1>6 DEF ExecInv, ExecFrom

(* A step of one run, and of no process: out of the queue it moves freely, *)
(* in it it stays where it is.                                             *)
LEMMA RunMoves ==
  ASSUME ExecInv, NEW r \in Runs, NEW rec, Sound(rec), runs' = [runs EXCEPT ![r] = rec],
         UNCHANGED <<execEnv, procs, jobs, spawner>>,
         runs[r].at \in {"queued", "forked"} => rec.at = runs[r].at /\ rec.pid = runs[r].pid,
         rec.at \in Judged /\ rec.pid # Nobody =>
           rec.pipe = 0 /\ \A p \in Pids : procs[p].run = r => Silent(procs[p])
  PROVE  ExecInv'
<1>1. /\ runs'[r] = rec
      /\ \A q \in Runs : q # r => runs'[q] = runs[q]
      /\ DOMAIN runs' = Runs
  BY DEF ExecInv, RunsAreSound
<1>2. RunsAreSound'
  BY <1>1 DEF ExecInv, RunsAreSound
<1>3. ProcsAreTyped'
  BY DEF ExecInv, ProcsAreTyped
<1>4. QueueIsQueued'
  <2>1. \A q \in Runs : runs[q].at \in {"queued", "forked"} => runs'[q].at = runs[q].at
    BY <1>1
  <2>2. \A i \in DOMAIN jobs : jobs[i] \in Runs
    BY DEF ExecInv, QueueIsQueued
  <2>3. QED
    BY <2>1, <2>2 DEF ExecInv, QueueIsQueued
<1>5. JudgedIsSilent'
  BY <1>1 DEF ExecInv, JudgedIsSilent
<1>6. ChildIsForked'
  BY <1>1 DEF ExecInv, ChildIsForked, QueueIsQueued
<1>7. QED
  BY <1>2, <1>3, <1>4, <1>5, <1>6 DEF ExecInv

(* A step of one process that writes for nobody it did not write for.      *)
LEMMA ProcMoves ==
  ASSUME ExecInv, NEW p \in Pids, NEW proc, ProcOk(proc), procs' = [procs EXCEPT ![p] = proc],
         procs[p].leader # "forked",
         UNCHANGED <<execEnv, runs, jobs, spawner>>,
         Silent(proc) \/ (proc.run = procs[p].run /\ ~Silent(procs[p]))
  PROVE  ExecInv'
<1>1. /\ procs'[p] = proc
      /\ \A q \in Pids : q # p => procs'[q] = procs[q]
      /\ DOMAIN procs' = Pids
  BY DEF ExecInv, ProcsAreTyped
<1>2. ProcsAreTyped'
  BY <1>1 DEF ExecInv, ProcsAreTyped
<1>3. RunsAreSound' /\ QueueIsQueued' /\ ChildIsForked'
  BY <1>1 DEF ExecInv, RunsAreSound, QueueIsQueued, ChildIsForked
<1>4. JudgedIsSilent'
  BY <1>1 DEF ExecInv, JudgedIsSilent
<1>5. QED
  BY <1>2, <1>3, <1>4 DEF ExecInv

(* A step of one run and one process, none of which the spawner holds.     *)
LEMMA BothMove ==
  ASSUME ExecInv, NEW r \in Runs, NEW rec, Sound(rec), runs' = [runs EXCEPT ![r] = rec],
         NEW p \in Pids, NEW proc, ProcOk(proc), procs' = [procs EXCEPT ![p] = proc],
         procs[p].leader # "forked",
         UNCHANGED <<execEnv, jobs, spawner>>,
         runs[r].at \in {"queued", "forked"} => rec.at = runs[r].at /\ rec.pid = runs[r].pid,
         \/ Silent(proc)
         \/ proc.run = procs[p].run /\ ~Silent(procs[p])
         \/ proc.run = r,
         rec.at \in Judged /\ rec.pid # Nobody =>
           rec.pipe = 0 /\ \A q \in Pids : procs'[q].run = r => Silent(procs'[q])
  PROVE  ExecInv'
<1>1. /\ runs'[r] = rec
      /\ \A q \in Runs : q # r => runs'[q] = runs[q]
      /\ DOMAIN runs' = Runs
  BY DEF ExecInv, RunsAreSound
<1>2. /\ procs'[p] = proc
      /\ \A q \in Pids : q # p => procs'[q] = procs[q]
      /\ DOMAIN procs' = Pids
  BY DEF ExecInv, ProcsAreTyped
<1>3. RunsAreSound'
  BY <1>1 DEF ExecInv, RunsAreSound
<1>4. ProcsAreTyped'
  BY <1>2 DEF ExecInv, ProcsAreTyped
<1>5. QueueIsQueued'
  <2>1. \A q \in Runs : runs[q].at \in {"queued", "forked"} => runs'[q].at = runs[q].at
    BY <1>1
  <2>2. \A i \in DOMAIN jobs : jobs[i] \in Runs
    BY DEF ExecInv, QueueIsQueued
  <2>3. QED
    BY <2>1, <2>2 DEF ExecInv, QueueIsQueued
<1>6. ASSUME NEW q \in Runs, runs'[q].at \in Judged /\ runs'[q].pid # Nobody
      PROVE  runs'[q].pipe = 0 /\ \A s \in Pids : procs'[s].run = q => Silent(procs'[s])
  <2>1. CASE q = r
    BY <1>1, <1>6, <2>1
  <2>2. CASE q # r
    <3>1. /\ runs'[q].pipe = 0 /\ \A s \in Pids : procs[s].run = q => Silent(procs[s])
      BY <1>1, <1>6, <2>2 DEF ExecInv, JudgedIsSilent
    <3>2. procs'[p].run = q => Silent(procs'[p])
      BY <1>2, <2>2, <3>1
    <3>3. QED
      BY <1>2, <3>1, <3>2
  <2>3. QED
    BY <2>1, <2>2
<1>7. JudgedIsSilent'
  BY <1>6 DEF JudgedIsSilent
<1>8. ChildIsForked'
  BY <1>1, <1>2 DEF ExecInv, ChildIsForked, QueueIsQueued
<1>9. QED
  BY <1>3, <1>4, <1>5, <1>7, <1>8 DEF ExecInv

----------------------------------------------------------------------------
(* The seams.                                                              *)
LEMMA ShellExecKeeps ==
  ASSUME ExecInv, NEW r \in Runs, ShellExec(r)
  PROVE  ExecInv'
<1> DEFINE asked == [runs[r] EXCEPT !.verdict = EnforceVerdict]
           rec == IF EnforceVerdict = "denied" THEN Over(r, asked, "sandbox-denied")
                  ELSE [asked EXCEPT !.at = "spawn", !.hint = IF EnforceVerdict = "confined" THEN "readable" ELSE "none"]
<1>1. Sound(runs[r]) /\ runs[r].at = "idle"
  BY DEF ShellExec, ExecInv, RunsAreSound
<1>2. Sound(rec)
  BY <1>1 DEF Sound, Counted, Confined, Numbered, Judgement, Over, Fields, Unstarted
<1>3. rec.at \in Judged => rec.pid = Nobody
  BY <1>1 DEF Sound, Confined, Numbered, Over, Judged, Fields
<1>4. runs' = [runs EXCEPT ![r] = rec] /\ UNCHANGED <<execEnv, procs, jobs, spawner>>
  BY DEF ShellExec, SetRun
<1>5. QED
  BY <1>1, <1>2, <1>3, <1>4, RunMoves

LEMMA SubprocessSpawnKeeps ==
  ASSUME ExecInv, NEW r \in Runs, SubprocessSpawn(r)
  PROVE  ExecInv'
<1> DEFINE rec == [runs[r] EXCEPT !.at = "spawn", !.hint = Plan(r).hint]
<1>1. Sound(runs[r]) /\ runs[r].at = "idle"
  BY DEF SubprocessSpawn, ExecInv, RunsAreSound
<1>2. Plan(r).hint \in {"none", "readable", "unreadable"}
  BY ExecAssumption DEF SubprocessSpawn, Plan, ExecAssumption, ExecInv
<1>3. Sound(rec)
  BY <1>1, <1>2 DEF Sound, Counted, Confined, Numbered, Judgement, Fields, Unstarted
<1>4. rec.at \notin Judged
  BY <1>1 DEF Sound, Judged, Fields
<1>5. runs' = [runs EXCEPT ![r] = rec] /\ UNCHANGED <<execEnv, procs, jobs, spawner>>
  BY DEF SubprocessSpawn, SetRun
<1>6. QED
  BY <1>1, <1>3, <1>4, <1>5, RunMoves

LEMMA PlainSpawnKeeps ==
  ASSUME ExecInv, NEW r \in Runs, NEW p \in Pids, PlainSpawn(r, p)
  PROVE  ExecInv'
<1>1. Sound(runs[r]) /\ runs[r].at = "spawn"
  BY DEF PlainSpawn, ExecInv, RunsAreSound
<1>2. runs[r].hint = "none"
  BY <1>1 DEF PlainSpawn, RouteOf, Sound, Confined
<1>3. CASE rootThere /\ Plan(r).argv
  <2> DEFINE rec == [runs[r] EXCEPT !.at = "handle", !.pid = p, !.ran = TRUE]
  <2>1. Sound(rec)
    BY <1>1, <1>2 DEF Sound, Counted, Confined, Numbered, Judgement, Fields, Unstarted
  <2>2. ProcOk(Started(r)) /\ Started(r).run = r
    BY DEF ProcOk, Started, Child
  <2>3. rec.at \notin Judged
    BY <1>1 DEF Sound, Judged, Fields
  <2>4. /\ runs' = [runs EXCEPT ![r] = rec] /\ procs' = [procs EXCEPT ![p] = Started(r)]
        /\ UNCHANGED <<execEnv, jobs, spawner>> /\ procs[p].leader = "none"
    BY <1>3 DEF PlainSpawn, SetRun, FreePid, GroupLives
  <2>5. QED
    BY <1>1, <2>1, <2>2, <2>3, <2>4, BothMove
<1>4. CASE ~(rootThere /\ Plan(r).argv)
  <2> DEFINE rec == Over(r, runs[r], "spawn-failed")
  <2>1. Sound(rec) /\ rec.pid = Nobody
    BY <1>1 DEF Sound, Counted, Confined, Numbered, Judgement, Over, Fields, Unstarted
  <2>2. runs' = [runs EXCEPT ![r] = rec] /\ UNCHANGED <<execEnv, procs, jobs, spawner>>
    BY <1>4 DEF PlainSpawn, SetRun
  <2>3. QED
    BY <1>1, <2>1, <2>2, RunMoves
<1>5. QED
  BY <1>3, <1>4

----------------------------------------------------------------------------
(* The spawner.                                                            *)
LEMMA ConfinedSpawnKeeps ==
  ASSUME ExecInv, NEW r \in Runs, ConfinedSpawn(r)
  PROVE  ExecInv'
<1>1. Sound(runs[r]) /\ runs[r].at = "spawn"
  BY DEF ConfinedSpawn, ExecInv, RunsAreSound
<1>2. ASSUME NEW result \in {"sandbox-denied", "spawn-failed"},
             SetRun(r, Over(r, runs[r], result)) /\ UNCHANGED jobs
      PROVE  ExecInv'
  <2> DEFINE rec == Over(r, runs[r], result)
  <2>1. Sound(rec) /\ rec.pid = Nobody
    BY <1>1 DEF Sound, Counted, Confined, Numbered, Judgement, Over, Fields, Unstarted
  <2>2. runs' = [runs EXCEPT ![r] = rec] /\ UNCHANGED <<execEnv, procs, jobs, spawner>>
    BY <1>2 DEF ConfinedSpawn, SetRun
  <2>3. QED
    BY <1>1, <2>1, <2>2, RunMoves
<1>3. ASSUME SetRun(r, [runs[r] EXCEPT !.at = "queued"]), jobs' = Append(jobs, r)
      PROVE  ExecInv'
  <2> DEFINE rec == [runs[r] EXCEPT !.at = "queued"]
  <2>1. Sound(rec) /\ rec.at = "queued"
    BY <1>1 DEF Sound, Counted, Confined, Numbered, Judgement, Fields, Unstarted
  <2>2. /\ runs'[r] = rec
        /\ \A q \in Runs : q # r => runs'[q] = runs[q]
        /\ DOMAIN runs' = Runs
    BY <1>3 DEF SetRun, ExecInv, RunsAreSound
  <2>3. UNCHANGED <<execEnv, procs, spawner>>
    BY DEF ConfinedSpawn
  <2>4. RunsAreSound'
    BY <2>1, <2>2 DEF ExecInv, RunsAreSound
  <2>5. ProcsAreTyped'
    BY <2>3 DEF ExecInv, ProcsAreTyped
  <2>6. QueueIsQueued'
    <3>1. /\ jobs \in Seq(Runs)
          /\ spawner \in Runs => runs[spawner].at = "forked"
          /\ \A i \in DOMAIN jobs : runs[jobs[i]].at = "queued"
          /\ \A i, k \in DOMAIN jobs : i # k => jobs[i] # jobs[k]
      BY DEF ExecInv, QueueIsQueued
    <3>2. /\ jobs' \in Seq(Runs) /\ DOMAIN jobs' = 1..(Len(jobs) + 1) /\ DOMAIN jobs = 1..Len(jobs)
          /\ Len(jobs) \in Nat
          /\ \A i \in DOMAIN jobs : jobs'[i] = jobs[i]
          /\ jobs'[Len(jobs) + 1] = r
      BY <1>3, <3>1
    <3>3. \A i \in DOMAIN jobs : jobs[i] # r /\ jobs[i] \in Runs
      BY <1>1, <3>1
    <3>4. \A i \in DOMAIN jobs' : i \in DOMAIN jobs \/ i = Len(jobs) + 1
      BY <3>2
    <3>5. \A i \in DOMAIN jobs' : runs'[jobs'[i]].at = "queued"
      <4>1. ASSUME NEW i \in DOMAIN jobs PROVE runs'[jobs'[i]].at = "queued"
        BY <2>2, <3>1, <3>2, <3>3
      <4>2. runs'[jobs'[Len(jobs) + 1]].at = "queued"
        BY <2>1, <2>2, <3>2
      <4>3. QED
        BY <3>4, <4>1, <4>2
    <3>6. \A i, k \in DOMAIN jobs' : i # k => jobs'[i] # jobs'[k]
      BY <3>1, <3>2, <3>3, <3>4
    <3>7. spawner' \in Runs => runs'[spawner'].at = "forked"
      BY <1>1, <2>2, <2>3, <3>1
    <3>8. QED
      BY <3>2, <3>5, <3>6, <3>7 DEF QueueIsQueued
  <2>7. JudgedIsSilent'
    <3>1. ASSUME NEW q \in Runs, runs'[q].at \in Judged, runs'[q].pid # Nobody
          PROVE  runs'[q] = runs[q]
      BY <2>1, <2>2, <3>1 DEF Judged
    <3>2. QED
      BY <2>3, <3>1 DEF ExecInv, JudgedIsSilent
  <2>8. ChildIsForked'
    BY <1>1, <2>2, <2>3 DEF ExecInv, ChildIsForked, QueueIsQueued
  <2>9. QED
    BY <2>3, <2>4, <2>5, <2>6, <2>7, <2>8 DEF ExecInv
<1>4. QED
  BY <1>2, <1>3 DEF ConfinedSpawn

(* The rest of the queue, once its head is taken.                          *)
LEMMA RestOfQueue ==
  ASSUME QueueIsQueued, jobs # <<>>
  PROVE  /\ Head(jobs) \in Runs /\ runs[Head(jobs)].at = "queued"
         /\ Tail(jobs) \in Seq(Runs)
         /\ \A i \in DOMAIN Tail(jobs) : /\ Tail(jobs)[i] \in Runs /\ Tail(jobs)[i] # Head(jobs)
                                         /\ runs[Tail(jobs)[i]].at = "queued"
         /\ \A i, k \in DOMAIN Tail(jobs) : i # k => Tail(jobs)[i] # Tail(jobs)[k]
<1>1. /\ jobs \in Seq(Runs) /\ \A i \in DOMAIN jobs : runs[jobs[i]].at = "queued"
      /\ \A i, k \in DOMAIN jobs : i # k => jobs[i] # jobs[k]
  BY DEF QueueIsQueued
<1>2. Len(jobs) \in Nat \ {0} /\ DOMAIN jobs = 1..Len(jobs)
  BY <1>1
<1>3. Head(jobs) = jobs[1] /\ 1 \in DOMAIN jobs /\ jobs[1] \in Runs
  BY <1>1, <1>2
<1>4. Tail(jobs) \in Seq(Runs) /\ DOMAIN Tail(jobs) = 1..(Len(jobs) - 1)
  BY <1>1, <1>2
<1>5. \A i \in DOMAIN Tail(jobs) : Tail(jobs)[i] = jobs[i + 1] /\ i + 1 \in DOMAIN jobs /\ i + 1 # 1
  BY <1>1, <1>2, <1>4
<1>6. \A i \in DOMAIN jobs : jobs[i] \in Runs
  BY <1>1
<1>7. \A i, k \in DOMAIN Tail(jobs) : i # k => i + 1 # k + 1
  BY <1>4
<1>8. QED
  BY <1>1, <1>3, <1>4, <1>5, <1>6, <1>7

(* A step of the queue's head that leaves the rest of the queue.           *)
LEMMA HeadMoves ==
  ASSUME ExecInv, jobs # <<>>, NEW rec, Sound(rec), runs' = [runs EXCEPT ![Head(jobs)] = rec],
         jobs' = Tail(jobs), UNCHANGED execEnv,
         rec.at \notin Judged \/ rec.pid = Nobody,
         spawner' = spawner \/ (rec.at = "forked" /\ spawner' = Head(jobs)),
         ProcsAreTyped', ChildIsForked',
         \A p \in Pids : procs'[p] = procs[p] \/ procs'[p].run = Head(jobs)
  PROVE  ExecInv'
<1> DEFINE r == Head(jobs)
<1>1. QueueIsQueued
  BY DEF ExecInv
<1>2. r \in Runs /\ runs[r].at = "queued"
  BY <1>1, RestOfQueue
<1>3. /\ runs'[r] = rec
      /\ \A q \in Runs : q # r => runs'[q] = runs[q]
      /\ DOMAIN runs' = Runs
  BY <1>2 DEF ExecInv, RunsAreSound
<1>4. RunsAreSound'
  BY <1>3 DEF ExecInv, RunsAreSound
<1>5. spawner' \in Runs => runs'[spawner'].at = "forked"
  BY <1>1, <1>2, <1>3 DEF QueueIsQueued
<1>6. QueueIsQueued'
  BY <1>1, <1>3, <1>5, RestOfQueue DEF QueueIsQueued
<1>7. JudgedIsSilent'
  BY <1>2, <1>3 DEF ExecInv, JudgedIsSilent
<1>8. QED
  BY <1>4, <1>6, <1>7 DEF ExecInv

LEMMA SpawnerForksKeeps ==
  ASSUME ExecInv, NEW p \in Pids, SpawnerForks(p)
  PROVE  ExecInv'
<1> DEFINE r == Head(jobs)
<1>1. jobs # <<>> /\ QueueIsQueued /\ UNCHANGED execEnv
  BY DEF SpawnerForks, ExecInv
<1>2. r \in Runs /\ Sound(runs[r]) /\ runs[r].at = "queued"
  BY <1>1, RestOfQueue DEF ExecInv, RunsAreSound
<1>3. CASE execEnv.garbled /\ Plan(r).argv
  <2> DEFINE Queued(q) == q \in { jobs[i] : i \in DOMAIN jobs }
  <2>1. /\ spawner' = "gone" /\ jobs' = <<>> /\ UNCHANGED procs
        /\ runs' = [q \in Runs |-> IF Queued(q) THEN Over(q, runs[q], "spawn-failed") ELSE runs[q]]
    BY <1>3 DEF SpawnerForks
  <2>2. ASSUME NEW q \in Runs, Queued(q)
        PROVE  /\ Sound(Over(q, runs[q], "spawn-failed"))
               /\ Over(q, runs[q], "spawn-failed").pid = Nobody
    <3>1. Sound(runs[q]) /\ runs[q].at = "queued"
      BY <1>1, <2>2 DEF QueueIsQueued, ExecInv, RunsAreSound
    <3>2. QED
      BY <3>1 DEF Sound, Counted, Confined, Numbered, Judgement, Over, Fields, Unstarted
  <2>3. RunsAreSound'
    BY <2>1, <2>2 DEF ExecInv, RunsAreSound
  <2>4. ProcsAreTyped'
    BY <2>1 DEF ExecInv, ProcsAreTyped
  <2>5. QueueIsQueued' /\ ChildIsForked'
    BY <2>1, ExecAssumption DEF QueueIsQueued, ChildIsForked, ExecAssumption
  <2>6. ASSUME NEW q \in Runs, runs'[q].at \in Judged, runs'[q].pid # Nobody
        PROVE  runs'[q] = runs[q]
    BY <2>1, <2>2, <2>6
  <2>7. JudgedIsSilent'
    BY <2>1, <2>6 DEF ExecInv, JudgedIsSilent
  <2>8. QED
    BY <1>1, <2>3, <2>4, <2>5, <2>7 DEF ExecInv
<1>4. CASE ~(execEnv.garbled /\ Plan(r).argv) /\ rootThere /\ Plan(r).argv
  <2> DEFINE rec == [runs[r] EXCEPT !.at = "forked", !.pid = p, !.scrubbed = TRUE]
  <2>1. Sound(rec) /\ rec.at = "forked"
    BY <1>2 DEF Sound, Counted, Confined, Numbered, Judgement, Fields, Unstarted
  <2>2. /\ spawner' = r /\ jobs' = Tail(jobs)
        /\ procs' = [procs EXCEPT ![p] = Child(r, "forked")]
        /\ runs' = [runs EXCEPT ![r] = rec]
    BY <1>4 DEF SpawnerForks, SetRun
  <2>3. ProcOk(Child(r, "forked")) /\ Child(r, "forked").run = r
    BY <1>2 DEF ProcOk, Child
  <2>4. ProcsAreTyped' /\ \A q \in Pids : procs'[q] = procs[q] \/ procs'[q].run = r
    BY <2>2, <2>3 DEF ExecInv, ProcsAreTyped
  <2>5. ChildIsForked'
    <3>1. runs'[r] = rec /\ rec.pid = p
      BY <1>2, <2>2 DEF ExecInv, RunsAreSound, Sound, Fields
    <3>2. procs'[p].run = r /\ procs'[p].leader = "forked"
      BY <2>2 DEF ExecInv, ProcsAreTyped, Child
    <3>3. QED
      BY <2>2, <3>1, <3>2 DEF ChildIsForked
  <2>6. rec.at \notin Judged
    BY <2>1 DEF Judged
  <2>7. QED
    BY <1>1, <2>1, <2>2, <2>4, <2>5, <2>6, HeadMoves
<1>5. CASE ~(execEnv.garbled /\ Plan(r).argv) /\ ~(rootThere /\ Plan(r).argv)
  <2> DEFINE rec == Over(r, runs[r], "spawn-failed")
  <2>1. Sound(rec) /\ rec.pid = Nobody
    BY <1>2 DEF Sound, Counted, Confined, Numbered, Judgement, Over, Fields, Unstarted
  <2>2. jobs' = Tail(jobs) /\ UNCHANGED <<procs, spawner>> /\ runs' = [runs EXCEPT ![r] = rec]
    BY <1>5 DEF SpawnerForks, SetRun
  <2>3. ProcsAreTyped'
    BY <2>2 DEF ExecInv, ProcsAreTyped
  <2>4. ChildIsForked'
    <3>1. \A q \in Runs : q # r => runs'[q] = runs[q]
      BY <2>2 DEF ExecInv, RunsAreSound
    <3>2. spawner # r
      BY <1>2 DEF ExecInv, QueueIsQueued
    <3>3. QED
      BY <2>2, <3>1, <3>2 DEF ExecInv, ChildIsForked
  <2>5. QED
    BY <1>1, <2>1, <2>2, <2>3, <2>4, HeadMoves
<1>6. QED
  BY <1>3, <1>4, <1>5

(* The child passes its hook or dies in it.                                *)
LEMMA SpawnerRepliesKeeps ==
  ASSUME ExecInv, SpawnerReplies
  PROVE  ExecInv'
<1> DEFINE r == spawner
           p == runs[r].pid
<1>1. r \in Runs /\ Sound(runs[r]) /\ runs[r].at = "forked" /\ spawner' = "idle" /\ UNCHANGED <<execEnv, jobs>>
  BY DEF SpawnerReplies, ExecInv, RunsAreSound, QueueIsQueued
<1>2. ASSUME NEW rec, Sound(rec), rec.at = "handle", runs' = [runs EXCEPT ![r] = rec], ProcsAreTyped',
             \A q \in Pids : procs'[q] = procs[q] \/ Silent(procs'[q]) \/ procs'[q].run = r
      PROVE  ExecInv'
  <2>1. /\ runs'[r] = rec
        /\ \A q \in Runs : q # r => runs'[q] = runs[q]
        /\ DOMAIN runs' = Runs
    BY <1>1, <1>2 DEF ExecInv, RunsAreSound
  <2>2. RunsAreSound'
    BY <1>2, <2>1 DEF ExecInv, RunsAreSound
  <2>3. \A i \in DOMAIN jobs : jobs[i] \in Runs /\ jobs[i] # r
    BY <1>1 DEF ExecInv, QueueIsQueued
  <2>4. QueueIsQueued' /\ ChildIsForked'
    BY <1>1, <2>1, <2>3, ExecAssumption DEF ExecInv, QueueIsQueued, ChildIsForked, ExecAssumption
  <2>5. JudgedIsSilent'
    BY <1>2, <2>1 DEF ExecInv, JudgedIsSilent, Judged
  <2>6. QED
    BY <1>1, <1>2, <2>2, <2>4, <2>5 DEF ExecInv
<1>3. CASE PrepareFails
  <2> DEFINE rec == [runs[r] EXCEPT !.at = "handle"]
  <2>1. Sound(rec) /\ rec.at = "handle"
    BY <1>1 DEF Sound, Counted, Confined, Numbered, Judgement, Fields, Unstarted
  <2>2. /\ procs' = [procs EXCEPT ![p].leader = "zombie", ![p].exit = "signal"]
        /\ runs' = [runs EXCEPT ![r] = rec]
    BY <1>3 DEF SpawnerReplies, SetRun
  <2>3. p \in Pids /\ procs[p].run = r /\ ProcOk(procs[p])
    BY <1>1 DEF ExecInv, ChildIsForked, ProcsAreTyped
  <2>4. procs' = [procs EXCEPT ![p] = [procs[p] EXCEPT !.leader = "zombie", !.exit = "signal"]]
    BY <2>2, <2>3 DEF ExecInv, ProcsAreTyped
  <2>5. procs'[p].run = r /\ ProcOk(procs'[p]) /\ \A q \in Pids : q # p => procs'[q] = procs[q]
    BY <1>1, <2>3, <2>4 DEF ExecInv, ProcsAreTyped, ProcOk
  <2>6. ProcsAreTyped'
    BY <2>4, <2>5 DEF ExecInv, ProcsAreTyped
  <2>7. QED
    BY <1>2, <2>1, <2>2, <2>5, <2>6
<1>4. CASE ~PrepareFails
  <2> DEFINE rec == [runs[r] EXCEPT !.at = "handle", !.ran = TRUE, !.pinned = rootThere]
  <2>1. Sound(rec) /\ rec.at = "handle"
    BY <1>1, <1>4 DEF Sound, Counted, Confined, Numbered, Judgement, Fields, Unstarted, PrepareFails
  <2>2. /\ procs' = [procs EXCEPT ![p] = Started(r)]
        /\ runs' = [runs EXCEPT ![r] = rec]
    BY <1>4 DEF SpawnerReplies, SetRun
  <2>3. ProcOk(Started(r)) /\ Started(r).run = r
    BY <1>1 DEF ProcOk, Started, Child
  <2>4. ProcsAreTyped' /\ \A q \in Pids : procs'[q] = procs[q] \/ procs'[q].run = r
    BY <2>2, <2>3 DEF ExecInv, ProcsAreTyped
  <2>5. QED
    BY <1>2, <2>1, <2>2, <2>4
<1>5. QED
  BY <1>3, <1>4

----------------------------------------------------------------------------
(* The command: only a process that is not silent writes, and its run is   *)
(* not judged then.                                                        *)
LEMMA OneMoreByte ==
  ASSUME NEW rec, Sound(rec)
  PROVE  LET more == [rec EXCEPT !.wrote = @ + 1, !.pipe = @ + 1]
         IN  Sound(more) /\ more.at = rec.at /\ more.pid = rec.pid
BY DEF Sound, Counted, Confined, Numbered, Judgement, Fields, Unstarted

LEMMA WritesKeeps ==
  ASSUME ExecInv, NEW p \in Pids, Writes(p) \/ HelperLeaves(p)
  PROVE  ExecInv'
<1> DEFINE r == procs[p].run
           rec == [runs[r] EXCEPT !.wrote = @ + 1, !.pipe = @ + 1]
<1>1. ~Silent(procs[p]) /\ ProcOk(procs[p])
  BY DEF Writes, HelperLeaves, Silent, ExecInv, ProcsAreTyped
<1>2. r \in Runs /\ Sound(runs[r])
  BY <1>1 DEF Writes, HelperLeaves, ProcOk, ExecInv, RunsAreSound
<1>3. Sound(rec) /\ rec.at = runs[r].at /\ rec.pid = runs[r].pid
  BY <1>2, OneMoreByte
<1>4. ~(rec.at \in Judged /\ rec.pid # Nobody)
  BY <1>1, <1>2, <1>3 DEF ExecInv, JudgedIsSilent
<1>5. runs' = [runs EXCEPT ![r] = rec] /\ UNCHANGED <<execEnv, jobs, spawner>>
  BY DEF Writes, HelperLeaves, SetRun
<1>6. CASE Writes(p)
  <2> DEFINE proc == [procs[p] EXCEPT !.left = @ - 1]
  <2>1. procs' = [procs EXCEPT ![p] = proc] /\ procs[p].leader = "running"
    BY <1>6 DEF Writes
  <2>2. ProcOk(proc) /\ proc.run = r
    BY <1>1 DEF ProcOk
  <2> HIDE DEF r, rec, proc
  <2>3. QED
    BY <1>2, <1>3, <1>4, <1>5, <2>1, <2>2, BothMove
<1>7. CASE HelperLeaves(p)
  <2> DEFINE proc == IF procs[p].leader = "none" THEN NoProc ELSE [procs[p] EXCEPT !.helper = FALSE]
  <2>1. procs' = [procs EXCEPT ![p] = proc] /\ procs[p].leader # "forked"
    BY <1>1, <1>7 DEF HelperLeaves, ProcOk
  <2>2. ProcOk(proc) /\ (Silent(proc) \/ proc.run = r)
    BY <1>1 DEF ProcOk, NoProc, Silent
  <2> HIDE DEF r, rec, proc
  <2>3. QED
    BY <1>2, <1>3, <1>4, <1>5, <2>1, <2>2, BothMove
<1>8. QED
  BY <1>6, <1>7

LEMMA ExitsKeeps ==
  ASSUME ExecInv, NEW p \in Pids, Exits(p)
  PROVE  ExecInv'
<1> DEFINE proc == [procs[p] EXCEPT !.leader = "zombie", !.exit = Plan(procs[p].run).exit]
<1>1. /\ procs' = [procs EXCEPT ![p] = proc] /\ procs[p].leader = "running"
      /\ UNCHANGED <<execEnv, runs, jobs, spawner>>
  BY DEF Exits
<1>2. ProcOk(proc) /\ proc.run = procs[p].run /\ ~Silent(procs[p])
  BY <1>1 DEF ProcOk, Silent, ExecInv, ProcsAreTyped
<1>3. QED
  BY <1>1, <1>2, ProcMoves

LEMMA RootLeavesKeeps ==
  ASSUME ExecInv, RootLeaves
  PROVE  ExecInv'
BY DEF RootLeaves, ExecInv, RunsAreSound, ProcsAreTyped, QueueIsQueued, ChildIsForked, JudgedIsSilent

----------------------------------------------------------------------------
(* The handle.                                                             *)
LEMMA ReaderReadsKeeps ==
  ASSUME ExecInv, NEW r \in Runs, ReaderReads(r)
  PROVE  ExecInv'
<1> DEFINE rec == IF Capped(r) THEN [runs[r] EXCEPT !.pipe = @ - 1, !.dropped = @ + 1]
                  ELSE [runs[r] EXCEPT !.pipe = @ - 1, !.kept = @ + 1]
<1>1. Sound(runs[r]) /\ runs[r].pipe > 0
  BY DEF ReaderReads, ExecInv, RunsAreSound
<1>2. Sound(rec) /\ rec.at = runs[r].at /\ rec.pid = runs[r].pid
  BY <1>1 DEF Sound, Counted, Confined, Numbered, Judgement, Fields, Unstarted
<1>3. ~(rec.at \in Judged /\ rec.pid # Nobody)
  BY <1>1, <1>2 DEF ExecInv, JudgedIsSilent
<1>4. runs' = [runs EXCEPT ![r] = rec] /\ UNCHANGED <<execEnv, procs, jobs, spawner>>
  BY DEF ReaderReads, SetRun
<1>5. QED
  BY <1>2, <1>3, <1>4, RunMoves

LEMMA OutputWaitsKeeps ==
  ASSUME ExecInv, NEW r \in Runs, OutputWaits(r)
  PROVE  ExecInv'
<1> DEFINE p == runs[r].pid
           rec == [runs[r] EXCEPT !.at = "reaped", !.status = procs[p].exit]
           proc == IF procs[p].helper THEN [procs[p] EXCEPT !.leader = "none"] ELSE NoProc
<1>1. Sound(runs[r]) /\ runs[r].at = "handle"
  BY DEF OutputWaits, ExecInv, RunsAreSound
<1>2. Sound(rec) /\ rec.at = "reaped"
  BY <1>1 DEF Sound, Counted, Confined, Numbered, Judgement, Fields, Unstarted
<1>3. runs' = [runs EXCEPT ![r] = rec] /\ UNCHANGED <<execEnv, jobs, spawner>> /\ rec.at \notin Judged
  BY <1>2 DEF OutputWaits, SetRun, Judged
<1>4. p \in Pids /\ ProcOk(procs[p])
  BY <1>1 DEF Sound, Numbered, ExecInv, ProcsAreTyped
<1>5. procs' = [procs EXCEPT ![p] = proc] /\ procs[p].leader = "zombie"
  BY DEF OutputWaits
<1>6. ProcOk(proc) /\ (Silent(proc) \/ (proc.run = procs[p].run /\ ~Silent(procs[p])))
  BY <1>4, <1>5 DEF ProcOk, NoProc, Silent
<1> HIDE DEF p, rec, proc
<1>7. QED
  BY <1>1, <1>2, <1>3, <1>4, <1>5, <1>6, BothMove

LEMMA OutputCollectsKeeps ==
  ASSUME ExecInv, NEW r \in Runs, OutputCollects(r)
  PROVE  ExecInv'
<1> DEFINE rec == [runs[r] EXCEPT !.at = "collected"]
<1>1. Sound(runs[r]) /\ runs[r].at = "reaped" /\ runs[r].pipe = 0
  BY DEF OutputCollects, ReadersEnded, ExecInv, RunsAreSound
<1>2. Sound(rec) /\ rec.pipe = 0
  BY <1>1 DEF Sound, Counted, Confined, Numbered, Judgement, Fields, Unstarted
<1>3. \A p \in Pids : procs[p].run = r => Silent(procs[p])
  BY DEF OutputCollects, ReadersEnded, WritersOf, Silent
<1>4. runs' = [runs EXCEPT ![r] = rec] /\ UNCHANGED <<execEnv, procs, jobs, spawner>>
  BY DEF OutputCollects, SetRun
<1> HIDE DEF rec
<1>5. QED
  BY <1>1, <1>2, <1>3, <1>4, RunMoves

LEMMA OutputReturnsKeeps ==
  ASSUME ExecInv, NEW r \in Runs, OutputReturns(r)
  PROVE  ExecInv'
<1> DEFINE result == ResultOf(runs[r])
           rec == Over(r, runs[r], result)
<1>1. Sound(runs[r]) /\ runs[r].at = "collected"
  BY DEF OutputReturns, ExecInv, RunsAreSound
<1>2. result = "ok" => runs[r].cancelledAt = "none"
  BY DEF ResultOf
<1>3. runs' = [runs EXCEPT ![r] = rec] /\ UNCHANGED <<execEnv, procs, jobs, spawner>>
  BY DEF OutputReturns, SetRun
<1> HIDE DEF result
<1>4. Sound(rec) /\ rec.pipe = runs[r].pipe /\ rec.pid = runs[r].pid
  BY <1>1, <1>2 DEF Sound, Counted, Confined, Numbered, Judgement, Over, Fields, Unstarted
<1>5. rec.pid # Nobody => rec.pipe = 0 /\ \A p \in Pids : procs[p].run = r => Silent(procs[p])
  BY <1>1, <1>4 DEF ExecInv, JudgedIsSilent, Judged
<1> HIDE DEF rec
<1>6. QED
  BY <1>1, <1>3, <1>4, <1>5, RunMoves

LEMMA CancelMarksKeeps ==
  ASSUME ExecInv, NEW r \in Runs, CancelMarks(r)
  PROVE  ExecInv'
<1> DEFINE rec == [runs[r] EXCEPT !.cancelledAt = runs[r].at, !.canceller = "marked"]
<1>1. Sound(runs[r]) /\ runs[r].pid # Nobody
  BY DEF CancelMarks, ExecInv, RunsAreSound
<1>2. Sound(rec) /\ rec.at = runs[r].at /\ rec.pid = runs[r].pid /\ rec.pipe = runs[r].pipe
  BY <1>1 DEF Sound, Counted, Confined, Numbered, Judgement, Fields, Unstarted
<1>3. rec.at \in Judged /\ rec.pid # Nobody =>
        rec.pipe = 0 /\ \A p \in Pids : procs[p].run = r => Silent(procs[p])
  BY <1>2 DEF ExecInv, JudgedIsSilent
<1>4. runs' = [runs EXCEPT ![r] = rec] /\ UNCHANGED <<execEnv, procs, jobs, spawner>>
  BY DEF CancelMarks, SetRun
<1>5. QED
  BY <1>2, <1>3, <1>4, RunMoves

(* The signal reaches whoever has the number by now, and only silences.    *)
LEMMA CancelSignalsKeeps ==
  ASSUME ExecInv, NEW r \in Runs, CancelSignals(r)
  PROVE  ExecInv'
<1> DEFINE p == runs[r].pid
           rec == [runs[r] EXCEPT !.canceller = "done", !.struck = IF Reachable(p) THEN {procs[p].run} ELSE {}]
<1>1. Sound(runs[r])
  BY DEF ExecInv, RunsAreSound
<1>2. Sound(rec) /\ rec.at = runs[r].at /\ rec.pid = runs[r].pid /\ rec.pipe = runs[r].pipe
  BY <1>1 DEF Sound, Counted, Confined, Numbered, Judgement, Fields, Unstarted
<1>3. rec.at \in Judged /\ rec.pid # Nobody =>
        rec.pipe = 0 /\ \A q \in Pids : procs[q].run = r => Silent(procs[q])
  BY <1>2 DEF ExecInv, JudgedIsSilent
<1>4. runs' = [runs EXCEPT ![r] = rec] /\ UNCHANGED <<execEnv, jobs, spawner>>
  BY DEF CancelSignals, SetRun
<1>5. p \in Pids /\ ProcOk(procs[p])
  BY <1>1 DEF CancelSignals, Sound, Numbered, ExecInv, ProcsAreTyped
<1>6. CASE Reachable(p)
  <2> DEFINE proc == Signalled(procs[p])
  <2>1. procs' = [procs EXCEPT ![p] = proc]
    BY <1>6 DEF CancelSignals
  <2>2. procs[p].leader # "forked"
    BY <1>5, <1>6 DEF Reachable, ProcOk
  <2>3. ProcOk(proc) /\ Silent(proc)
    BY <1>5, <1>6, <2>2 DEF ProcOk, Silent, Signalled, NoProc, Reachable
  <2>4. rec.at \in Judged /\ rec.pid # Nobody =>
          rec.pipe = 0 /\ \A q \in Pids : procs'[q].run = r => Silent(procs'[q])
    <3>1. procs'[p] = proc /\ \A q \in Pids : q # p => procs'[q] = procs[q]
      BY <1>5, <2>1 DEF ExecInv, ProcsAreTyped
    <3> HIDE DEF p, rec, proc
    <3>2. QED
      BY <1>3, <2>3, <3>1
  <2> HIDE DEF p, rec, proc
  <2>5. QED
    BY <1>2, <1>4, <1>5, <2>1, <2>2, <2>3, <2>4, BothMove
<1>7. CASE ~Reachable(p)
  <2>1. UNCHANGED procs
    BY <1>7 DEF CancelSignals
  <2> HIDE DEF p, rec
  <2>2. QED
    BY <1>2, <1>3, <1>4, <2>1, RunMoves
<1>8. QED
  BY <1>6, <1>7

----------------------------------------------------------------------------
LEMMA ExecStepKeeps == ExecInv /\ [ExecNext]_execVars => ExecInv'
<1>1. SUFFICES ASSUME ExecInv, [ExecNext]_execVars PROVE ExecInv'
  OBVIOUS
<1>2. CASE UNCHANGED execVars
  BY <1>1, <1>2 DEF execVars, ExecInv, RunsAreSound, ProcsAreTyped, QueueIsQueued, ChildIsForked, JudgedIsSilent
<1>3. ASSUME NEW r \in Runs,
             \/ ShellExec(r) \/ SubprocessSpawn(r) \/ ConfinedSpawn(r)
             \/ ReaderReads(r) \/ OutputWaits(r) \/ OutputCollects(r) \/ OutputReturns(r)
             \/ CancelMarks(r) \/ CancelSignals(r)
      PROVE  ExecInv'
  BY <1>1, <1>3, ShellExecKeeps, SubprocessSpawnKeeps, ConfinedSpawnKeeps, ReaderReadsKeeps,
     OutputWaitsKeeps, OutputCollectsKeeps, OutputReturnsKeeps, CancelMarksKeeps, CancelSignalsKeeps
<1>4. ASSUME NEW p \in Pids,
             \/ \E r \in Runs : PlainSpawn(r, p)
             \/ SpawnerForks(p) \/ Writes(p) \/ Exits(p) \/ HelperLeaves(p)
      PROVE  ExecInv'
  BY <1>1, <1>4, PlainSpawnKeeps, SpawnerForksKeeps, WritesKeeps, ExitsKeeps
<1>5. CASE SpawnerReplies
  BY <1>1, <1>5, SpawnerRepliesKeeps
<1>6. CASE RootLeaves
  BY <1>1, <1>6, RootLeavesKeeps
<1>7. QED
  BY <1>1, <1>2, <1>3, <1>4, <1>5, <1>6 DEF ExecNext

LEMMA ExecInvImplies == ExecInv => ConfinedOrNotRun /\ ResultIsTrue
<1>1. SUFFICES ASSUME ExecInv PROVE ConfinedOrNotRun /\ ResultIsTrue
  OBVIOUS
<1>2. \A r \in Runs : Sound(runs[r])
  BY <1>1 DEF ExecInv, RunsAreSound
<1>3. ConfinedOrNotRun
  BY <1>2 DEF ConfinedOrNotRun, Sound, Confined
<1>4. CancelledIsNeverSuccess
  BY <1>2 DEF CancelledIsNeverSuccess, Sound, Judgement
<1>5. ASSUME NEW r \in Runs, runs[r].at = "over", runs[r].pid # Nobody
      PROVE  runs[r].kept + runs[r].dropped = runs[r].wrote
  <2>1. Counted(runs[r]) /\ runs[r].pipe = 0
    BY <1>1, <1>2, <1>5 DEF Sound, ExecInv, JudgedIsSilent, Judged
  <2>2. QED
    BY <2>1 DEF Counted
<1>6. QED
  BY <1>3, <1>4, <1>5 DEF ResultIsTrue, CaptureIsWhole

(* A command runs under the confinement its verdict claims, or not at all, *)
(* for any number of runs and whenever the root leaves (prepare's hook).   *)
THEOREM ExecConfinedOrNotRun == ExecSpec => []ConfinedOrNotRun
<1>1. ExecInv => ConfinedOrNotRun
  BY ExecInvImplies
<1>2. QED
  BY ExecInitInv, ExecStepKeeps, <1>1, PTL DEF ExecSpec

(* A cancelled run is never a success, and a finished run's output is      *)
(* whole, also when helpers write on and process numbers are reused.       *)
THEOREM ExecResultIsTrue == ExecSpec => []ResultIsTrue
<1>1. ExecInv => ResultIsTrue
  BY ExecInvImplies
<1>2. QED
  BY ExecInitInv, ExecStepKeeps, <1>1, PTL DEF ExecSpec
----------------------------------------------------------------------------
(* FILES.  The workspace is sound, and a guard replaces what was seen.     *)

FsSpec == FsInit /\ [][FsNext]_fsVars

(* The callers of an instance that does not let them overlap.              *)
FsAlone ==
  ~fsEnv.overlap =>
    \A c, d \in FsCallers : fop[c].pc # "idle" /\ fop[d].pc # "idle" => c = d

FsPc == {"idle", "resolve", "version", "read", "list", "write", "edit", "window", "entries",
         "decide", "guard", "match", "reserve", "rename", "stamp"}
Aims == Paths \cup {Root}

FsCallTyped(f) ==
  /\ DOMAIN f = {"pc", "req", "at", "opened", "next", "counter", "to", "answer"}
  /\ f.pc \in FsPc
  /\ f.pc # "idle" => f.req \in fsEnv.requests

FsTyped ==
  /\ fsEnv \in FsEnvironments
  /\ IsTree(tree)
  /\ \A m \in mints : DOMAIN m = {"by", "token", "at", "bytes", "there"}
  /\ versions \in [Instances -> [Paths -> Nat]]
  /\ nextVersion \in [Instances -> Nat \ {0}]
  /\ life \in [Instances -> Nat \ {0}]
  /\ registry \in [Instances -> SUBSET Aims]
  /\ DOMAIN seen = FsCallers
  /\ DOMAIN fop = FsCallers
  /\ \A c \in FsCallers : FsCallTyped(fop[c])

(* A token is minted once: in an earlier life, or below the counter.       *)
Minted(m) ==
  /\ m.by \in Instances
  /\ \E l, n \in Nat \ {0} :
       /\ m.token = <<m.by, l, n>> /\ l <= life[m.by]
       /\ l = life[m.by] => n < nextVersion[m.by]
MintsApart ==
  /\ \A m \in mints : Minted(m)
  /\ \A m, k \in mints : m.token = k.token => m = k

(* What a mutation is about to publish, or has published, is minted, and   *)
(* it stands in directories.                                               *)
MintOf(c, m) ==
  /\ m.by = Inst(c) /\ m.token = Stamp(Inst(c), fop[c].counter)
  /\ m.at = fop[c].to /\ m.bytes = fop[c].next
Pending ==
  \A c \in FsCallers : fop[c].pc \in {"rename", "stamp"} =>
    /\ fop[c].to \in Aims /\ fop[c].counter \in Nat \ {0}
    /\ \E m \in mints : MintOf(c, m)
    /\ \A n \in DOMAIN Hops(fop[c].to) : tree[Hops(fop[c].to)[n]].kind = "dir"
    /\ fop[c].pc = "stamp" => fop[c].to \in Paths
    /\ fop[c].pc = "stamp" /\ ~fsEnv.overlap => tree[fop[c].to].bytes = fop[c].next

(* An instance's version of a path is that of the bytes there, but between *)
(* a rename and its stamp.                                                 *)
NamesBytes(i, p) ==
  \E m \in mints : m.token = Stamp(i, versions[i][p]) /\ m.at = p /\ tree[p].bytes = m.bytes
VersionsName ==
  ~fsEnv.overlap =>
    \A i \in Instances, p \in Paths :
      versions[i][p] # 0 /\ OneWriter(i)
        => NamesBytes(i, p) \/ \E c \in FsCallers : fop[c].pc = "stamp" /\ fop[c].to = p

(* A token that a caller keeps is of the mount it came from, and it keeps  *)
(* the bytes of that token's mutation.                                     *)
TokenOf(s, i, l) ==
  /\ \E n \in Nat : s.token = <<i, l, n>>
  /\ s.by = <<"mount", i, l>>
  /\ ~fsEnv.overlap /\ OneWriter(i) => \E m \in mints : m.token = s.token /\ m.bytes = s.bytes
SeenIsMinted ==
  \A c \in FsCallers : seen[c].token # NoToken =>
    \E i \in Instances, l \in Nat \ {0} : l <= life[i] /\ TokenOf(seen[c], i, l)

(* Past its guard a mutation's token is the version of what it opened.     *)
GuardOf(c) ==
  fop[c].pc \in {"match", "reserve", "rename"} /\ fop[c].req.guard \in {"seen", "other"} =>
    versions[Inst(c)][fop[c].at] # 0 /\ Stamp(Inst(c), versions[Inst(c)][fop[c].at]) = Presented(c).token
GuardStands == ~fsEnv.overlap => \A c \in FsCallers : GuardOf(c)

FsInv ==
  /\ FsTyped /\ FsAlone /\ MintsApart /\ Pending /\ FilesAreWhole /\ NoDebris
  /\ VersionsName /\ SeenIsMinted /\ GuardStands

LEMMA FsLeast ==
  ASSUME NEW S \in SUBSET Nat, S # {}
  PROVE  Min(S) \in S /\ \A x \in S : Min(S) <= x
<1>1. \E x \in S : \A y \in S : <<y, x>> \notin OpToRel(<, Nat)
  BY NatLessThanWellFounded, WFMin
<1>2. PICK x \in S : \A y \in S : <<y, x>> \notin OpToRel(<, Nat)
  BY <1>1
<1>3. ASSUME NEW y \in S PROVE x =< y
  <2>1. x \in Nat /\ y \in Nat /\ ~ (y < x)
    BY <1>2 DEF OpToRel
  <2> QED BY <2>1
<1> QED BY <1>3 DEF Min

(* The hops of a path are its prefixes, and a hop's hops are the path's.   *)
LEMMA HopsAre ==
  ASSUME NEW p \in Aims
  PROVE  /\ Len(p) \in Nat /\ Len(Hops(p)) \in Nat
         /\ DOMAIN Hops(p) = 1..Len(Hops(p))
         /\ \A n \in DOMAIN Hops(p) :
              /\ n \in Nat \ {0} /\ Hops(p)[n] \in Paths
              /\ DOMAIN Hops(Hops(p)[n]) = 1..(n - 1)
              /\ \A k \in 1..(n - 1) : k \in DOMAIN Hops(p) /\ Hops(Hops(p)[n])[k] = Hops(p)[k]
<1>1. p \in Seq(STRING)
  <2>1. Root \in Seq(STRING)
    BY EmptySeq DEF Root
  <2>2. p \in Paths => p \in Seq(STRING)
    BY FsAssumption
  <2> QED BY <2>1, <2>2 DEF Aims
<1>2. Len(p) \in Nat /\ DOMAIN Hops(p) = 1..(Len(p) - 1)
  BY <1>1 DEF Hops
<1>3. Len(Hops(p)) \in Nat /\ DOMAIN Hops(p) = 1..Len(Hops(p))
  <2>1. CASE p = Root
    <3>1. Len(p) = 0
      BY <2>1 DEF Root
    <3>2. Hops(p) = <<>>
      BY <3>1 DEF Hops
    <3> QED BY <3>2
  <2>2. CASE p # Root
    <3>1. Len(p) - 1 \in Nat
      BY <1>1, <2>2 DEF Root
    <3> QED BY <1>2, <3>1 DEF Hops
  <2> QED BY <2>1, <2>2
<1>4. ASSUME NEW n \in DOMAIN Hops(p)
      PROVE  /\ n \in Nat \ {0} /\ Hops(p)[n] \in Paths
             /\ DOMAIN Hops(Hops(p)[n]) = 1..(n - 1)
             /\ \A k \in 1..(n - 1) : k \in DOMAIN Hops(p) /\ Hops(Hops(p)[n])[k] = Hops(p)[k]
  <2>1. n \in Nat \ {0} /\ n < Len(p) /\ Hops(p)[n] = SubSeq(p, 1, n)
    BY <1>2 DEF Hops
  <2>2. Hops(p)[n] \in Paths
    <3>1. p # Root
      BY <1>1, <2>1 DEF Root
    <3> QED BY <3>1, FsAssumption DEF Aims
  <2>3. Len(SubSeq(p, 1, n)) = n
    BY <1>1, <2>1
  <2>4. ASSUME NEW k \in 1..(n - 1) PROVE SubSeq(SubSeq(p, 1, n), 1, k) = SubSeq(p, 1, k)
    <3>1. k \in Nat /\ 1 <= k /\ k <= n /\ k <= Len(p)
      BY <2>1
    <3>2. DOMAIN SubSeq(SubSeq(p, 1, n), 1, k) = 1..k /\ DOMAIN SubSeq(p, 1, k) = 1..k
      BY <1>1, <2>1, <2>3, <3>1
    <3>3. \A i \in 1..k : SubSeq(SubSeq(p, 1, n), 1, k)[i] = p[i] /\ SubSeq(p, 1, k)[i] = p[i]
      BY <1>1, <2>1, <2>3, <3>1
    <3> QED BY <1>1, <2>1, <2>3, <3>1, <3>2, <3>3
  <2> QED BY <1>2, <2>1, <2>2, <2>3, <2>4 DEF Hops
<1> QED BY <1>2, <1>3, <1>4

LEMMA FirstBadHopIs ==
  ASSUME NEW p \in Aims
  PROVE  LET bad == FirstBadHop(p) IN
         /\ bad = 0 => \A n \in DOMAIN Hops(p) : tree[Hops(p)[n]].kind = "dir"
         /\ bad # 0 => /\ bad \in DOMAIN Hops(p) /\ tree[Hops(p)[bad]].kind # "dir"
                       /\ \A n \in DOMAIN Hops(p) : n < bad => tree[Hops(p)[n]].kind = "dir"
<1> DEFINE Bad == {n \in 1..Len(Hops(p)) : tree[Hops(p)[n]].kind # "dir"}
<1>1. FirstBadHop(p) = IF Bad # {} THEN Min(Bad) ELSE 0
  BY DEF FirstBadHop, SelectInSeq
<1>2. DOMAIN Hops(p) = 1..Len(Hops(p)) /\ Len(Hops(p)) \in Nat
  BY HopsAre
<1>3. CASE Bad = {}
  BY <1>1, <1>2, <1>3
<1>4. CASE Bad # {}
  <2>1. Bad \in SUBSET Nat
    BY <1>2
  <2>2. Min(Bad) \in Bad /\ \A n \in Bad : Min(Bad) <= n
    BY <1>4, <2>1, FsLeast
  <2> HIDE DEF Bad
  <2>3. FirstBadHop(p) = Min(Bad)
    BY <1>1, <1>4
  <2>4. /\ FirstBadHop(p) \in 1..Len(Hops(p)) /\ tree[Hops(p)[FirstBadHop(p)]].kind # "dir"
        /\ \A n \in 1..Len(Hops(p)) : tree[Hops(p)[n]].kind # "dir" => FirstBadHop(p) <= n
    BY <2>2, <2>3 DEF Bad
  <2>5. FirstBadHop(p) # 0 /\ \A n \in 1..Len(Hops(p)) : n < FirstBadHop(p) => ~ FirstBadHop(p) <= n
    BY <1>2, <2>4
  <2> QED BY <1>2, <2>4, <2>5
<1> QED BY <1>3, <1>4

(* A walk that makes directories makes them where nothing is, and a walk   *)
(* that succeeds ends in one.                                              *)
MadeOf(p, create) == OpenParent(p, create).made

LEMMA WalkMakesDirs ==
  ASSUME IsTree(tree), NEW p \in Aims, NEW create \in BOOLEAN
  PROVE  /\ \A q \in MadeOf(p, create) :
              q \in Paths => tree[q].kind = "absent" /\ \A n \in DOMAIN Hops(q) :
                tree[Hops(q)[n]].kind = "dir" \/ Hops(q)[n] \in MadeOf(p, create)
         /\ OpenParent(p, create).code = "ok" =>
              \A n \in DOMAIN Hops(p) : tree[Hops(p)[n]].kind = "dir" \/ Hops(p)[n] \in MadeOf(p, create)
<1> DEFINE bad == FirstBadHop(p)
           Made == { Hops(p)[i] : i \in bad..(Len(p) - 1) }
<1>1. /\ bad = 0 => \A n \in DOMAIN Hops(p) : tree[Hops(p)[n]].kind = "dir"
      /\ bad # 0 => /\ bad \in DOMAIN Hops(p) /\ tree[Hops(p)[bad]].kind # "dir"
                    /\ \A n \in DOMAIN Hops(p) : n < bad => tree[Hops(p)[n]].kind = "dir"
  BY FirstBadHopIs
<1>2. CASE bad = 0
  BY <1>1, <1>2 DEF OpenParent, MadeOf
<1>3. CASE bad # 0 /\ ~(create /\ tree[Hops(p)[bad]].kind = "absent")
  BY <1>1, <1>3 DEF OpenParent, MadeOf
<1>4. CASE bad # 0 /\ create /\ tree[Hops(p)[bad]].kind = "absent"
  <2>1. OpenParent(p, create) = [code |-> "ok", made |-> Made]
    BY <1>4 DEF OpenParent
  <2>2. MadeOf(p, create) = Made
    BY <2>1 DEF MadeOf
  <2> HIDE DEF bad
  <2>3. /\ DOMAIN Hops(p) = 1..(Len(p) - 1) /\ Len(p) \in Nat
        /\ bad \in 1..(Len(p) - 1)
    BY <1>1, <1>4, HopsAre DEF Hops
  <2>4. ASSUME NEW i \in bad..(Len(p) - 1)
        PROVE  /\ tree[Hops(p)[i]].kind = "absent"
               /\ \A n \in DOMAIN Hops(Hops(p)[i]) :
                    tree[Hops(Hops(p)[i])[n]].kind = "dir" \/ Hops(Hops(p)[i])[n] \in Made
    <3>1. i \in DOMAIN Hops(p) /\ i \in Nat
      BY <2>3
    <3>2. /\ Hops(p)[i] \in Paths
          /\ DOMAIN Hops(Hops(p)[i]) = 1..(i - 1)
          /\ \A k \in 1..(i - 1) : k \in DOMAIN Hops(p) /\ Hops(Hops(p)[i])[k] = Hops(p)[k]
      BY <3>1, HopsAre
    <3>3. tree[Hops(p)[i]].kind = "absent"
      <4>1. CASE i = bad
        BY <4>1, <1>4
      <4>2. CASE i # bad
        <5>1. bad \in 1..(i - 1)
          BY <4>2, <2>3
        <5>2. tree[Hops(Hops(p)[i])[bad]].kind # "dir"
          BY <5>1, <3>2, <1>1, <1>4
        <5> QED BY <5>1, <5>2, <3>2 DEF IsTree
      <4> QED BY <4>1, <4>2
    <3>4. ASSUME NEW n \in DOMAIN Hops(Hops(p)[i])
          PROVE  tree[Hops(Hops(p)[i])[n]].kind = "dir" \/ Hops(Hops(p)[i])[n] \in Made
      <4>1. n \in 1..(i - 1) /\ n \in DOMAIN Hops(p) /\ Hops(Hops(p)[i])[n] = Hops(p)[n]
        BY <3>2
      <4>2. CASE n < bad
        BY <4>1, <4>2, <1>1, <1>4
      <4>3. CASE ~ n < bad
        <5>1. n \in bad..(Len(p) - 1)
          BY <4>1, <4>3, <2>3
        <5> QED BY <5>1, <4>1
      <4> QED BY <4>2, <4>3
    <3> QED BY <3>3, <3>4
  <2>5. ASSUME NEW n \in DOMAIN Hops(p) PROVE tree[Hops(p)[n]].kind = "dir" \/ Hops(p)[n] \in Made
    <3>1. CASE n < bad
      BY <3>1, <1>1, <1>4
    <3>2. CASE ~ n < bad
      <4>1. n \in bad..(Len(p) - 1)
        BY <3>2, <2>3
      <4> QED BY <4>1
    <3> QED BY <3>1, <3>2
  <2> QED BY <2>1, <2>2, <2>4, <2>5
<1> QED BY <1>2, <1>3, <1>4

(* What a walk does to the tree: bytes and files stay, directories stay.   *)
TreeGrows ==
  /\ IsTree(tree')
  /\ \A p \in Paths :
       /\ tree'[p].bytes = tree[p].bytes
       /\ tree'[p].kind = "file" => tree'[p] = tree[p]
       /\ tree[p].kind = "dir" => tree'[p].kind = "dir"

LEMMA WalkGrowsTree ==
  ASSUME IsTree(tree), NEW p \in Aims, NEW create \in BOOLEAN, Make(MadeOf(p, create))
  PROVE  /\ TreeGrows
         /\ OpenParent(p, create).code = "ok" =>
              \A n \in DOMAIN Hops(p) : tree'[Hops(p)[n]].kind = "dir"
<1> DEFINE Made == MadeOf(p, create)
<1>1. /\ \A q \in Made :
           q \in Paths => tree[q].kind = "absent" /\ \A n \in DOMAIN Hops(q) :
             tree[Hops(q)[n]].kind = "dir" \/ Hops(q)[n] \in Made
      /\ OpenParent(p, create).code = "ok" =>
           \A n \in DOMAIN Hops(p) : tree[Hops(p)[n]].kind = "dir" \/ Hops(p)[n] \in Made
  BY WalkMakesDirs
<1> HIDE DEF Made
<1>2. tree' = [q \in Paths |-> IF q \in Made THEN Dir ELSE tree[q]]
  BY DEF Make, Made
<1>3. Dir.kind = "dir" /\ Dir.bytes = <<>>
  BY DEF Dir
<1>4. \A q \in Paths : \A n \in DOMAIN Hops(q) : Hops(q)[n] \in Paths
  BY HopsAre DEF Aims
<1>5. \A n \in DOMAIN Hops(p) : Hops(p)[n] \in Paths
  BY HopsAre
<1>6. \A q \in Paths : tree[q].kind = "absent" => tree[q].bytes = <<>>
  BY DEF IsTree
<1>7. \A q \in Paths :
        /\ tree'[q].bytes = tree[q].bytes
        /\ tree'[q].kind = "file" => tree'[q] = tree[q]
        /\ tree[q].kind = "dir" => tree'[q].kind = "dir"
  BY <1>1, <1>2, <1>3, <1>6
<1>8. ASSUME NEW q \in Paths
      PROVE  /\ tree'[q].kind \in {"absent", "dir"} => tree'[q].bytes = <<>>
             /\ tree'[q].kind # "absent" => \A n \in DOMAIN Hops(q) : tree'[Hops(q)[n]].kind = "dir"
  <2>1. CASE q \in Made
    BY <2>1, <1>1, <1>2, <1>3, <1>4
  <2>2. CASE q \notin Made
    BY <2>2, <1>2, <1>3, <1>4 DEF IsTree
  <2> QED BY <2>1, <2>2
<1>9. IsTree(tree')
  BY <1>2, <1>8 DEF IsTree
<1> QED BY <1>1, <1>2, <1>3, <1>5, <1>7, <1>9 DEF TreeGrows

LEMMA InstIs == ASSUME NEW c \in FsCallers PROVE Inst(c) \in Instances
BY DEF Inst, Instances

(* A caller's own mint is the one with its token.                          *)
LEMMA MyMintIs ==
  ASSUME MintsApart, Pending, NEW c \in FsCallers, fop[c].pc \in {"rename", "stamp"}
  PROVE  /\ MyMint(c) \in mints /\ MintOf(c, MyMint(c))
         /\ \A m \in mints : m.token = Stamp(Inst(c), fop[c].counter) => m = MyMint(c)
<1>1. PICK m \in mints : MintOf(c, m)
  BY DEF Pending
<1>2. m.token = Stamp(Inst(c), fop[c].counter)
  BY <1>1 DEF MintOf
<1>3. MyMint(c) \in mints /\ MyMint(c).token = Stamp(Inst(c), fop[c].counter)
  BY <1>2 DEF MyMint
<1>4. \A k \in mints : k.token = Stamp(Inst(c), fop[c].counter) => k = MyMint(c)
  BY <1>3 DEF MintsApart
<1> QED BY <1>1, <1>2, <1>3, <1>4

(* A step of one caller's call that mints, publishes and stamps nothing.   *)
LEMMA FsStill ==
  ASSUME FsInv, NEW c \in FsCallers,
         UNCHANGED <<fsEnv, mints, versions, life>>, TreeGrows,
         nextVersion' \in [Instances -> Nat \ {0}], \A i \in Instances : nextVersion[i] <= nextVersion'[i],
         registry' \in [Instances -> SUBSET Aims],
         DOMAIN seen' = FsCallers, SeenIsMinted', seen' = seen \/ fop[c].pc # "idle",
         DOMAIN fop' = FsCallers, \A d \in FsCallers : d # c => fop'[d] = fop[d],
         FsCallTyped(fop'[c]), {fop[c].pc, fop'[c].pc} \cap {"rename", "stamp"} = {},
         fop'[c].pc # "idle" => fop[c].pc # "idle" \/ fsEnv.overlap \/ Quiet,
         ~fsEnv.overlap => GuardOf(c)'
  PROVE  FsInv'
<1>1. FsTyped'
  <2>1. FsTyped /\ IsTree(tree')
    BY DEF FsInv, TreeGrows
  <2>2. \A d \in FsCallers : FsCallTyped(fop'[d])
    BY <2>1 DEF FsTyped
  <2>3. \A d \in FsCallers : FsCallTyped(fop[d])'
    BY <2>2 DEF FsCallTyped
  <2> QED BY <2>1, <2>3 DEF FsTyped
<1>2. FsAlone'
  BY DEF FsInv, FsAlone, Quiet
<1>3. MintsApart'
  <2>1. MintsApart /\ FsTyped
    BY DEF FsInv
  <2>2. ASSUME NEW m \in mints PROVE Minted(m)'
    <3>1. Minted(m)
      BY <2>1 DEF MintsApart
    <3>2. nextVersion[m.by] <= nextVersion'[m.by] /\ nextVersion[m.by] \in Nat /\ nextVersion'[m.by] \in Nat
      BY <3>1, <2>1 DEF Minted, FsTyped
    <3>3. PICK l, n \in Nat \ {0} :
            /\ m.token = <<m.by, l, n>> /\ l <= life[m.by]
            /\ l = life[m.by] => n < nextVersion[m.by]
      BY <3>1 DEF Minted
    <3>4. l = life[m.by] => n < nextVersion'[m.by]
      BY <3>2, <3>3
    <3> QED BY <3>1, <3>3, <3>4 DEF Minted
  <2> QED BY <2>1, <2>2 DEF MintsApart
<1>4. Pending'
  <2> SUFFICES ASSUME NEW d \in FsCallers, fop'[d].pc \in {"rename", "stamp"}
               PROVE  /\ fop'[d].to \in Aims /\ fop'[d].counter \in Nat \ {0}
                      /\ \E m \in mints : MintOf(d, m)'
                      /\ \A n \in DOMAIN Hops(fop'[d].to) : tree'[Hops(fop'[d].to)[n]].kind = "dir"
                      /\ fop'[d].pc = "stamp" => fop'[d].to \in Paths
                      /\ fop'[d].pc = "stamp" /\ ~fsEnv.overlap => tree'[fop'[d].to].bytes = fop'[d].next
    BY DEF Pending, Aims, Hops
  <2>1. d # c /\ fop'[d] = fop[d]
    OBVIOUS
  <2>2. /\ fop[d].to \in Aims /\ fop[d].counter \in Nat \ {0}
        /\ \E m \in mints : MintOf(d, m)
        /\ \A n \in DOMAIN Hops(fop[d].to) : tree[Hops(fop[d].to)[n]].kind = "dir"
        /\ fop[d].pc = "stamp" => fop[d].to \in Paths
        /\ fop[d].pc = "stamp" /\ ~fsEnv.overlap => tree[fop[d].to].bytes = fop[d].next
    BY <2>1 DEF FsInv, Pending
  <2>3. \A n \in DOMAIN Hops(fop[d].to) : Hops(fop[d].to)[n] \in Paths
    BY <2>2, HopsAre
  <2>4. \E m \in mints : MintOf(d, m)'
    BY <2>1, <2>2 DEF MintOf, Stamp, Inst
  <2> QED BY <2>1, <2>2, <2>3, <2>4 DEF TreeGrows
<1>5. FilesAreWhole'
  BY DEF FsInv, FilesAreWhole, TreeGrows
<1>6. NoDebris'
  <2> SUFFICES ASSUME NEW m \in mints, m.there, "crash" \notin fsEnv.faults
               PROVE  \E d \in FsCallers : fop'[d].pc = "rename" /\ m = MyMint(d)'
    BY DEF NoDebris
  <2>1. PICK d \in FsCallers : fop[d].pc = "rename" /\ m = MyMint(d)
    BY DEF FsInv, NoDebris
  <2>2. d # c /\ fop'[d] = fop[d]
    BY <2>1
  <2>3. MyMint(d)' = MyMint(d)
    BY <2>2 DEF MyMint, Stamp, Inst
  <2> QED BY <2>1, <2>2, <2>3
<1>7. VersionsName'
  <2> SUFFICES ASSUME ~fsEnv.overlap, NEW i \in Instances, NEW p \in Paths, versions[i][p] # 0, OneWriter(i)
               PROVE  NamesBytes(i, p)' \/ \E d \in FsCallers : fop'[d].pc = "stamp" /\ fop'[d].to = p
    BY DEF VersionsName, OneWriter
  <2>1. NamesBytes(i, p) \/ \E d \in FsCallers : fop[d].pc = "stamp" /\ fop[d].to = p
    BY DEF FsInv, VersionsName
  <2>2. NamesBytes(i, p) => NamesBytes(i, p)'
    BY DEF NamesBytes, Stamp, TreeGrows
  <2> QED BY <2>1, <2>2
<1>8. GuardStands'
  <2> SUFFICES ASSUME ~fsEnv.overlap, NEW d \in FsCallers PROVE GuardOf(d)'
    BY DEF GuardStands
  <2>1. CASE d = c
    BY <2>1
  <2>2. CASE d # c /\ fop'[d].pc # "idle"
    <3>1. fop[d].pc # "idle" /\ seen' = seen /\ fop'[d] = fop[d]
      BY <2>2 DEF FsInv, FsAlone
    <3>2. GuardOf(d)
      BY DEF FsInv, GuardStands
    <3>3. Presented(d)' = Presented(d)
      BY <3>1 DEF Presented
    <3> QED BY <3>1, <3>2, <3>3 DEF GuardOf, Stamp, Inst
  <2>3. CASE fop'[d].pc = "idle"
    BY <2>3 DEF GuardOf
  <2> QED BY <2>1, <2>2, <2>3
<1> QED BY <1>1, <1>2, <1>3, <1>4, <1>5, <1>6, <1>7, <1>8 DEF FsInv

LEMMA SeenStays ==
  ASSUME SeenIsMinted, UNCHANGED <<fsEnv, mints, life, seen>>
  PROVE  SeenIsMinted'
BY DEF SeenIsMinted, TokenOf, OneWriter

LEMMA TreeStays ==
  ASSUME FsTyped, UNCHANGED tree
  PROVE  TreeGrows
BY DEF FsTyped, TreeGrows

(* The calls that only answer, or go on to another place.                  *)
LEMMA FsGoesOn ==
  ASSUME FsInv, NEW c \in FsCallers, fop[c].pc \notin {"idle", "rename", "stamp"},
         UNCHANGED <<fsEnv, mints, versions, life, seen>>, TreeGrows,
         nextVersion' \in [Instances -> Nat \ {0}], \A i \in Instances : nextVersion[i] <= nextVersion'[i],
         registry' \in [Instances -> SUBSET Aims],
         NEW f, fop' = [fop EXCEPT ![c] = f], FsCallTyped(f), f.pc \notin {"rename", "stamp"},
         ~fsEnv.overlap => GuardOf(c)'
  PROVE  FsInv'
<1>1. DOMAIN fop = FsCallers /\ DOMAIN seen = FsCallers /\ SeenIsMinted'
  BY SeenStays DEF FsInv, FsTyped
<1>2. fop'[c] = f /\ DOMAIN fop' = FsCallers /\ \A d \in FsCallers : d # c => fop'[d] = fop[d]
  BY <1>1
<1> QED BY <1>1, <1>2, FsStill

LEMMA FsStartKeeps ==
  ASSUME FsInv, NEW c \in FsCallers, NEW req \in fsEnv.requests, FsStart(c, req)
  PROVE  FsInv'
<1> DEFINE f == [NoCall EXCEPT !.pc = req.op, !.req = req]
<1>1. FsTyped /\ fsEnv \in FsEnvironments
  BY DEF FsInv, FsTyped
<1>2. req.op \in {"resolve", "version", "read", "list", "write", "edit"}
  BY <1>1, FsAssumption
<1>3. f.pc = req.op /\ f.req = req /\ FsCallTyped(f)
  BY <1>2 DEF NoCall, FsCallTyped, FsPc
<1> HIDE DEF f
<1>4. /\ fop[c].pc = "idle" /\ (fsEnv.overlap \/ Quiet)
      /\ fop' = [fop EXCEPT ![c] = f]
      /\ UNCHANGED <<fsEnv, tree, mints, versions, nextVersion, life, registry, seen>>
  BY DEF FsStart, f
<1>5. /\ DOMAIN fop = FsCallers /\ DOMAIN seen = FsCallers /\ TreeGrows /\ SeenIsMinted'
      /\ nextVersion' \in [Instances -> Nat \ {0}] /\ \A i \in Instances : nextVersion[i] <= nextVersion'[i]
      /\ registry' \in [Instances -> SUBSET Aims]
  BY <1>1, <1>4, SeenStays, TreeStays DEF FsInv, FsTyped
<1>6. fop'[c] = f /\ DOMAIN fop' = FsCallers /\ \A d \in FsCallers : d # c => fop'[d] = fop[d]
  BY <1>4, <1>5
<1>7. GuardOf(c)'
  BY <1>2, <1>3, <1>6 DEF GuardOf
<1> QED BY <1>2, <1>3, <1>4, <1>5, <1>6, <1>7, FsStill

(* Where a call aims: at a path, or at the root.                           *)
LEMMA WalksAim ==
  ASSUME FsTyped, NEW c \in FsCallers, fop[c].pc # "idle"
  PROVE  /\ WalkPath(fop[c].req.display) \in Aims
         /\ \A i \in Instances : WalkPath(ResolveKey(i, fop[c].req.key, fop[c].req.display)) \in Aims
<1>1. WalkPath(fop[c].req.display) \in Aims
  BY FsAssumption DEF FsTyped, FsCallTyped, Aims
<1>2. \A p \in Aims : WalkPath(p) = p
  BY FsAssumption DEF Aims
<1> QED BY <1>1, <1>2 DEF ResolveKey, FsTyped

LEMMA AnswerIs ==
  ASSUME FsTyped, NEW c \in FsCallers, NEW code, Answer(c, code)
  PROVE  \E f : fop' = [fop EXCEPT ![c] = f] /\ FsCallTyped(f) /\ f.pc = "idle"
<1> DEFINE f == [fop[c] EXCEPT !.pc = "idle", !.answer = [NoAnswer EXCEPT !.code = code]]
<1>1. fop' = [fop EXCEPT ![c] = f]
  BY DEF Answer
<1>2. FsCallTyped(f) /\ f.pc = "idle"
  BY DEF FsTyped, FsCallTyped, FsPc
<1> QED BY <1>1, <1>2

LEMMA CallToIs ==
  ASSUME FsTyped, NEW c \in FsCallers, fop[c].pc # "idle", NEW l \in FsPc, CallTo(c, l)
  PROVE  \E f : /\ fop' = [fop EXCEPT ![c] = f] /\ FsCallTyped(f) /\ f.pc = l
                /\ f = [fop[c] EXCEPT !.pc = l]
<1> DEFINE f == [fop[c] EXCEPT !.pc = l]
<1>1. fop' = [fop EXCEPT ![c] = f]
  BY DEF CallTo
<1>2. FsCallTyped(f) /\ f.pc = l
  BY DEF FsTyped, FsCallTyped
<1> QED BY <1>1, <1>2

(* A call that ends without a mutation changes nothing that matters.       *)
LEMMA FsEnds ==
  ASSUME FsInv, NEW c \in FsCallers, fop[c].pc \notin {"idle", "rename", "stamp"},
         UNCHANGED <<fsEnv, mints, versions, life, seen>>, TreeGrows,
         nextVersion' \in [Instances -> Nat \ {0}], \A i \in Instances : nextVersion[i] <= nextVersion'[i],
         registry' \in [Instances -> SUBSET Aims],
         NEW code, Answer(c, code)
  PROVE  FsInv'
<1>1. PICK f : fop' = [fop EXCEPT ![c] = f] /\ FsCallTyped(f) /\ f.pc = "idle"
  BY AnswerIs DEF FsInv
<1>2. GuardOf(c)'
  BY <1>1 DEF GuardOf, FsInv, FsTyped
<1> QED BY <1>1, <1>2, FsGoesOn

LEMMA FsTypedIs ==
  ASSUME FsTyped
  PROVE  /\ nextVersion \in [Instances -> Nat \ {0}] /\ \A i \in Instances : nextVersion[i] <= nextVersion[i]
         /\ registry \in [Instances -> SUBSET Aims] /\ DOMAIN fop = FsCallers /\ DOMAIN seen = FsCallers
         /\ \A c \in FsCallers : FsCallTyped(fop[c])
BY DEF FsTyped

LEMMA FsResolveKeeps ==
  ASSUME FsInv, NEW c \in FsCallers, FsResolve(c)
  PROVE  FsInv'
<1>1. FsTyped /\ fop[c].pc = "resolve"
  BY DEF FsInv, FsResolve
<1>2. Answer(c, ResolveCode(fop[c].req.display))
  BY DEF FsResolve
<1>3. registry' \in [Instances -> SUBSET Aims]
  BY <1>1, InstIs, WalksAim, FsTypedIs DEF FsResolve
<1>4. UNCHANGED <<fsEnv, tree, mints, versions, nextVersion, life, seen>>
  BY DEF FsResolve
<1> QED BY <1>1, <1>2, <1>3, <1>4, FsEnds, TreeStays, FsTypedIs

LEMMA FsReadKeeps ==
  ASSUME FsInv, NEW c \in FsCallers, FsRead(c) \/ FsList(c)
  PROVE  FsInv'
<1>1. FsTyped /\ fop[c].pc \in {"window", "entries"}
  BY DEF FsInv, FsRead, FsList
<1>2. UNCHANGED <<fsEnv, tree, mints, versions, nextVersion, life, registry, seen>>
  BY DEF FsRead, FsList
<1>3. (\E code : Answer(c, code)) \/ \E a : fop' = [fop EXCEPT ![c].pc = "idle", ![c].answer = a]
  BY DEF FsRead, FsList
<1>4. ASSUME NEW code, Answer(c, code) PROVE FsInv'
  BY <1>1, <1>2, <1>4, FsEnds, TreeStays, FsTypedIs
<1>5. ASSUME NEW a, fop' = [fop EXCEPT ![c].pc = "idle", ![c].answer = a] PROVE FsInv'
  <2> DEFINE f == [fop[c] EXCEPT !.pc = "idle", !.answer = a]
  <2>1. fop' = [fop EXCEPT ![c] = f]
    BY <1>5
  <2>2. FsCallTyped(f) /\ f.pc = "idle"
    BY <1>1 DEF FsTyped, FsCallTyped, FsPc
  <2> HIDE DEF f
  <2>3. GuardOf(c)'
    BY <1>1, <2>1, <2>2 DEF GuardOf, FsTyped
  <2> QED BY <1>1, <1>2, <2>1, <2>2, <2>3, FsGoesOn, TreeStays, FsTypedIs
<1> QED BY <1>3, <1>4, <1>5

LEMMA FsDecideKeeps ==
  ASSUME FsInv, NEW c \in FsCallers, FsDecide(c)
  PROVE  FsInv'
<1>1. FsTyped /\ fop[c].pc = "decide"
  BY DEF FsInv, FsDecide
<1>2. UNCHANGED <<fsEnv, tree, mints, versions, nextVersion, life, registry, seen>>
  BY DEF FsDecide
<1>3. CASE CallTo(c, "guard")
  <2>1. PICK f : fop' = [fop EXCEPT ![c] = f] /\ FsCallTyped(f) /\ f.pc = "guard"
    BY <1>1, <1>3, CallToIs DEF FsPc
  <2>2. GuardOf(c)'
    BY <1>1, <2>1 DEF GuardOf, FsTyped
  <2> QED BY <1>1, <1>2, <2>1, <2>2, FsGoesOn, TreeStays, FsTypedIs
<1>4. CASE Answer(c, "sandbox-denied")
  BY <1>1, <1>2, <1>4, FsEnds, TreeStays, FsTypedIs
<1> QED BY <1>3, <1>4 DEF FsDecide

(* The guard holds of the version it was checked against.                  *)
LEMMA FsGuardKeeps ==
  ASSUME FsInv, NEW c \in FsCallers, FsGuard(c)
  PROVE  FsInv'
<1> DEFINE req == fop[c].req
           code == CheckGuard(Inst(c), fop[c].at, req.guard, Presented(c).token,
                              req.op = "edit" \/ fop[c].opened # Absent)
           next == IF req.op = "edit" THEN "match" ELSE "reserve"
<1>1. FsTyped /\ fop[c].pc = "guard"
  BY DEF FsInv, FsGuard
<1>2. UNCHANGED <<fsEnv, tree, mints, versions, nextVersion, life, registry, seen>>
  BY DEF FsGuard
<1>3. CASE code # "ok"
  <2>1. Answer(c, code)
    BY <1>3 DEF FsGuard
  <2> QED BY <1>1, <1>2, <2>1, FsEnds, TreeStays, FsTypedIs
<1>4. CASE code = "ok"
  <2>1. CallTo(c, next) /\ next \in FsPc \ {"rename", "stamp"}
    BY <1>4 DEF FsGuard, FsPc
  <2>2. req.guard \in {"seen", "other"} =>
          versions[Inst(c)][fop[c].at] # 0 /\ Stamp(Inst(c), versions[Inst(c)][fop[c].at]) = Presented(c).token
    BY <1>4 DEF CheckGuard
  <2> HIDE DEF code, next
  <2>3. PICK f : /\ fop' = [fop EXCEPT ![c] = f] /\ FsCallTyped(f) /\ f.pc = next
                 /\ f = [fop[c] EXCEPT !.pc = next]
    BY <1>1, <2>1, CallToIs
  <2>4. fop'[c].req = req /\ fop'[c].at = fop[c].at
    BY <1>1, <2>3 DEF FsTyped, FsCallTyped
  <2>5. Presented(c)' = Presented(c)
    BY <1>2, <2>4 DEF Presented
  <2>6. GuardOf(c)'
    BY <1>2, <2>2, <2>4, <2>5 DEF GuardOf, Stamp, Inst
  <2> QED BY <1>1, <1>2, <2>1, <2>3, <2>6, FsGoesOn, TreeStays, FsTypedIs
<1> QED BY <1>3, <1>4

LEMMA FsMatchKeeps ==
  ASSUME FsInv, NEW c \in FsCallers, FsMatch(c)
  PROVE  FsInv'
<1> DEFINE with(b) == [fop[c] EXCEPT !.pc = "reserve", !.next = b]
<1>1. FsTyped /\ fop[c].pc = "match"
  BY DEF FsInv, FsMatch
<1>2. UNCHANGED <<fsEnv, tree, mints, versions, nextVersion, life, registry, seen>>
  BY DEF FsMatch
<1>3. (\E code : Answer(c, code)) \/ \E b : fop' = [fop EXCEPT ![c].pc = "reserve", ![c].next = b]
  BY DEF FsMatch
<1>4. ASSUME NEW code, Answer(c, code) PROVE FsInv'
  BY <1>1, <1>2, <1>4, FsEnds, TreeStays, FsTypedIs
<1>5. ASSUME NEW b, fop' = [fop EXCEPT ![c].pc = "reserve", ![c].next = b] PROVE FsInv'
  <2>1. fop' = [fop EXCEPT ![c] = with(b)]
    BY <1>5
  <2>2. /\ FsCallTyped(with(b)) /\ with(b).pc = "reserve"
        /\ with(b).req = fop[c].req /\ with(b).at = fop[c].at
    BY <1>1 DEF FsTyped, FsCallTyped, FsPc
  <2> HIDE DEF with
  <2>3. fop'[c] = with(b)
    BY <1>1, <2>1 DEF FsTyped
  <2>4. Presented(c)' = Presented(c)
    BY <1>2, <2>2, <2>3 DEF Presented
  <2>5. ~fsEnv.overlap => GuardOf(c)
    BY DEF FsInv, GuardStands
  <2>6. ~fsEnv.overlap => GuardOf(c)'
    BY <1>1, <1>2, <2>2, <2>3, <2>4, <2>5 DEF GuardOf, Stamp, Inst
  <2> QED BY <1>1, <1>2, <2>1, <2>2, <2>6, FsGoesOn, TreeStays, FsTypedIs
<1> QED BY <1>3, <1>4, <1>5

(* An open walks to its target, and makes no more than the walk does.      *)
LEMMA OpenTargetWalks ==
  ASSUME NEW i, NEW key, NEW display, NEW create \in BOOLEAN
  PROVE  LET at == WalkPath(ResolveKey(i, key, display))
             o  == OpenTarget(i, key, display, create)
         IN  o.made = {} \/ o.made = MadeOf(at, create)
BY DEF OpenTarget, MadeOf

LEMMA FsOpenKeeps ==
  ASSUME FsInv, NEW c \in FsCallers, FsOpen(c)
  PROVE  FsInv'
<1> DEFINE req == fop[c].req
           create == req.op = "write"
           o == OpenTarget(Inst(c), req.key, req.display, create)
           at == WalkPath(ResolveKey(Inst(c), req.key, req.display))
           with(object, p, l) == [fop[c] EXCEPT !.opened = object, !.at = p, !.next = req.bytes, !.pc = l]
<1>1. FsTyped /\ fop[c].pc \in {"read", "list", "write", "edit"}
  BY DEF FsInv, FsOpen
<1>2. UNCHANGED <<fsEnv, mints, versions, nextVersion, life, registry, seen>> /\ Make(o.made)
  BY DEF FsOpen
<1>3. TreeGrows
  <2>1. at \in Aims
    BY <1>1, WalksAim, InstIs
  <2>2. o.made = {} \/ o.made = MadeOf(at, create)
    <3>1. create \in BOOLEAN
      OBVIOUS
    <3> HIDE DEF create
    <3> QED BY <3>1, OpenTargetWalks
  <2> HIDE DEF o, at, create
  <2>3. CASE o.made = {}
    <3>1. tree' = [p \in Paths |-> tree[p]]
      BY <1>2, <2>3 DEF Make
    <3>2. \A p \in Paths : \A n \in DOMAIN Hops(p) : Hops(p)[n] \in Paths
      BY HopsAre DEF Aims
    <3> QED BY <1>1, <3>1, <3>2 DEF FsTyped, IsTree, TreeGrows
  <2>4. CASE o.made = MadeOf(at, create)
    BY <1>1, <1>2, <2>1, <2>4, WalkGrowsTree DEF FsTyped, create
  <2> QED BY <2>2, <2>3, <2>4
<1>4. (\E code : Answer(c, code))
        \/ \E object, p : \E l \in {"window", "entries", "decide"} :
             fop' = [fop EXCEPT ![c].opened = object, ![c].at = p, ![c].next = req.bytes, ![c].pc = l]
  <2> DEFINE l == IF req.op = "read" THEN "window" ELSE IF req.op = "list" THEN "entries" ELSE "decide"
  <2>1. \/ \E code : Answer(c, code)
        \/ fop' = [fop EXCEPT ![c].opened = o.object, ![c].at = o.at, ![c].next = req.bytes, ![c].pc = l]
    BY ZenonT(30) DEF FsOpen
  <2>2. l \in {"window", "entries", "decide"}
    OBVIOUS
  <2> HIDE DEF l, o
  <2> QED BY <2>1, <2>2
<1> HIDE DEF o, at, create
<1>5. ASSUME NEW code, Answer(c, code) PROVE FsInv'
  BY <1>1, <1>2, <1>3, <1>5, FsEnds, FsTypedIs
<1>6. ASSUME NEW object, NEW p, NEW l \in {"window", "entries", "decide"},
             fop' = [fop EXCEPT ![c].opened = object, ![c].at = p, ![c].next = req.bytes, ![c].pc = l]
      PROVE  FsInv'
  <2>1. fop' = [fop EXCEPT ![c] = with(object, p, l)]
    BY <1>6
  <2>2. FsCallTyped(with(object, p, l)) /\ with(object, p, l).pc = l
    BY <1>1 DEF FsTyped, FsCallTyped, FsPc
  <2> HIDE DEF with
  <2>3. GuardOf(c)'
    BY <1>1, <2>1, <2>2 DEF GuardOf, FsTyped
  <2> QED BY <1>1, <1>2, <1>3, <2>1, <2>2, <2>3, FsGoesOn, FsTypedIs
<1> QED BY <1>4, <1>5, <1>6

(* A version that is asked for is that of the bytes that are there.        *)
LEMMA FsVersionOfKeeps ==
  ASSUME FsInv, NEW c \in FsCallers, FsVersionOf(c)
  PROVE  FsInv'
<1> DEFINE at == fop[c].req.display
           i == Inst(c)
           token == VersionOf(i, at)
           bytes == IF at = Root THEN <<>> ELSE tree[at].bytes
<1>1. FsTyped /\ fop[c].pc = "version" /\ i \in Instances /\ life[i] \in Nat \ {0}
  BY InstIs DEF FsInv, FsVersionOf, FsTyped
<1>2. /\ UNCHANGED <<fsEnv, tree, mints, versions, nextVersion, life, registry>>
      /\ seen' = [seen EXCEPT ![c] = Kept(c, token, bytes)]
      /\ Answer(c, "ok")
  BY DEF FsVersionOf
<1>3. TokenOf(Kept(c, token, bytes), i, life[i]) \/ token = NoToken
  <2> SUFFICES ASSUME token # NoToken PROVE TokenOf(Kept(c, token, bytes), i, life[i])
    OBVIOUS
  <2>1. /\ at \in Paths /\ at # Root /\ versions[i][at] # 0 /\ versions[i][at] \in Nat
        /\ token = Stamp(i, versions[i][at])
    BY <1>1 DEF VersionOf, FsTyped
  <2>2. /\ Kept(c, token, bytes).token = <<i, life[i], versions[i][at]>>
        /\ Kept(c, token, bytes).by = <<"mount", i, life[i]>>
        /\ Kept(c, token, bytes).bytes = tree[at].bytes
    BY <2>1 DEF Kept, Stamp, Mount
  <2>3. ASSUME ~fsEnv.overlap, OneWriter(i)
        PROVE  \E m \in mints : m.token = Stamp(i, versions[i][at]) /\ m.bytes = tree[at].bytes
    <3>1. \A d \in FsCallers : fop[d].pc # "stamp"
      BY <1>1, <2>3 DEF FsInv, FsAlone
    <3>2. NamesBytes(i, at)
      BY <1>1, <2>1, <2>3, <3>1 DEF FsInv, VersionsName
    <3> QED BY <3>2 DEF NamesBytes
  <2> QED BY <2>1, <2>2, <2>3 DEF TokenOf, Stamp
<1>4. SeenIsMinted'
  <2> SUFFICES ASSUME NEW d \in FsCallers, seen'[d].token # NoToken
               PROVE  \E j \in Instances, l \in Nat \ {0} : l <= life[j] /\ TokenOf(seen'[d], j, l)
    BY <1>2 DEF SeenIsMinted, TokenOf, OneWriter
  <2>1. CASE d = c
    <3>1. seen'[d] = Kept(c, token, bytes) /\ token # NoToken
      BY <1>1, <1>2, <2>1 DEF FsTyped, Kept
    <3> QED BY <1>1, <1>3, <3>1
  <2>2. CASE d # c
    BY <1>1, <1>2, <2>2 DEF FsTyped, FsInv, SeenIsMinted
  <2> QED BY <2>1, <2>2
<1> HIDE DEF token, bytes, at
<1>5. PICK f : fop' = [fop EXCEPT ![c] = f] /\ FsCallTyped(f) /\ f.pc = "idle"
  BY <1>1, <1>2, AnswerIs
<1>6. DOMAIN fop = FsCallers /\ DOMAIN seen = FsCallers /\ DOMAIN seen' = FsCallers
  BY <1>1, <1>2, FsTypedIs
<1>7. fop'[c] = f /\ DOMAIN fop' = FsCallers /\ \A d \in FsCallers : d # c => fop'[d] = fop[d]
  BY <1>5, <1>6
<1>8. GuardOf(c)'
  BY <1>5, <1>7 DEF GuardOf
<1>9. TreeGrows
  BY <1>1, <1>2, TreeStays
<1> QED BY <1>1, <1>2, <1>4, <1>5, <1>6, <1>7, <1>8, <1>9, FsStill, FsTypedIs

----------------------------------------------------------------------------
(* The steps of a mutation, and a crash.                                   *)

(* No mint is lost: it keeps who made it, its token, its path and bytes.   *)
MintsKept ==
  \A m \in mints : \E k \in mints' :
    k.by = m.by /\ k.token = m.token /\ k.at = m.at /\ k.bytes = m.bytes

LEMMA SeenGrows ==
  ASSUME FsTyped, SeenIsMinted, MintsKept, UNCHANGED <<fsEnv, seen>>,
         life' \in [Instances -> Nat \ {0}], \A i \in Instances : life[i] <= life'[i]
  PROVE  SeenIsMinted'
<1> SUFFICES ASSUME NEW c \in FsCallers, seen[c].token # NoToken
             PROVE  \E i \in Instances, l \in Nat \ {0} : l <= life'[i] /\ TokenOf(seen[c], i, l)'
  BY DEF SeenIsMinted
<1>1. PICK i \in Instances, l \in Nat \ {0} : l <= life[i] /\ TokenOf(seen[c], i, l)
  BY DEF SeenIsMinted
<1>2. OneWriter(i)' => OneWriter(i)
  BY DEF OneWriter, MintsKept
<1>3. TokenOf(seen[c], i, l)'
  BY <1>1, <1>2 DEF TokenOf, MintsKept
<1>4. l <= life'[i]
  BY <1>1 DEF FsTyped
<1> QED BY <1>3, <1>4

(* Every temp file has the token of a mutation that is to publish it.      *)
LEMMA NoDebrisByToken ==
  ASSUME MintsApart',
         \A m \in mints' : m.there =>
           \/ "crash" \in fsEnv'.faults
           \/ \E c \in FsCallers : fop'[c].pc = "rename" /\ m.token = Stamp(Inst(c), fop[c].counter)'
  PROVE  NoDebris'
<1> SUFFICES ASSUME NEW m \in mints', m.there, "crash" \notin fsEnv'.faults
             PROVE  \E c \in FsCallers : fop'[c].pc = "rename" /\ m = MyMint(c)'
  BY DEF NoDebris
<1>1. PICK c \in FsCallers : fop'[c].pc = "rename" /\ m.token = Stamp(Inst(c), fop[c].counter)'
  OBVIOUS
<1>2. MyMint(c)' \in mints' /\ MyMint(c)'.token = Stamp(Inst(c), fop[c].counter)'
  BY <1>1 DEF MyMint
<1>3. MyMint(c)' = m
  BY <1>1, <1>2 DEF MintsApart
<1> QED BY <1>1, <1>3

LEMMA DebrisHasToken ==
  ASSUME NoDebris, MintsApart, Pending, NEW m \in mints, m.there, "crash" \notin fsEnv.faults
  PROVE  \E c \in FsCallers :
           fop[c].pc = "rename" /\ m = MyMint(c) /\ m.token = Stamp(Inst(c), fop[c].counter)
<1>1. PICK c \in FsCallers : fop[c].pc = "rename" /\ m = MyMint(c)
  BY DEF NoDebris
<1> QED BY <1>1, MyMintIs DEF MintOf

(* A mutation that mints: its token is new, and it is on its way.          *)
LEMMA FsMintKeeps ==
  ASSUME FsInv, NEW c \in FsCallers, fop[c].pc = "reserve",
         NEW to \in Aims, NEW create \in BOOLEAN, OpenParent(to, create).code = "ok", Make(MadeOf(to, create)),
         nextVersion' = [nextVersion EXCEPT ![Inst(c)] = nextVersion[Inst(c)] + 1],
         mints' = mints \cup {[by |-> Inst(c), token |-> Stamp(Inst(c), nextVersion[Inst(c)]), at |-> to,
                               bytes |-> fop[c].next, there |-> TRUE]},
         fop' = [fop EXCEPT ![c].pc = "rename", ![c].counter = nextVersion[Inst(c)], ![c].to = to],
         UNCHANGED <<fsEnv, versions, life, registry, seen>>
  PROVE  FsInv'
<1> DEFINE i == Inst(c)
           n == nextVersion[i]
<1>1. /\ FsTyped /\ i \in Instances /\ n \in Nat \ {0} /\ life[i] \in Nat \ {0}
      /\ DOMAIN fop = FsCallers /\ nextVersion'[i] = n + 1
      /\ \A j \in Instances : j # i => nextVersion'[j] = nextVersion[j]
  BY InstIs DEF FsInv, FsTyped
<1>2. TreeGrows /\ \A k \in DOMAIN Hops(to) : tree'[Hops(to)[k]].kind = "dir"
  BY <1>1, WalkGrowsTree DEF FsTyped
<1>3. /\ DOMAIN fop' = FsCallers /\ \A d \in FsCallers : d # c => fop'[d] = fop[d]
      /\ fop'[c].pc = "rename" /\ fop'[c].counter = n /\ fop'[c].to = to
      /\ fop'[c].next = fop[c].next /\ fop'[c].req = fop[c].req /\ fop'[c].at = fop[c].at
      /\ FsCallTyped(fop'[c])
  BY <1>1 DEF FsTyped, FsCallTyped, FsPc
<1>4. PICK new :
        /\ mints' = mints \cup {new}
        /\ new.by = i /\ new.token = <<i, life[i], n>> /\ new.at = to /\ new.bytes = fop[c].next
        /\ DOMAIN new = {"by", "token", "at", "bytes", "there"}
  <2> DEFINE mint == [by |-> i, token |-> Stamp(i, n), at |-> to, bytes |-> fop[c].next, there |-> TRUE]
  <2>1. /\ mint.by = i /\ mint.token = <<i, life[i], n>> /\ mint.at = to /\ mint.bytes = fop[c].next
        /\ DOMAIN mint = {"by", "token", "at", "bytes", "there"}
    BY DEF Stamp
  <2>2. mints' = mints \cup {mint}
    OBVIOUS
  <2> HIDE DEF mint
  <2> QED BY <2>1, <2>2
<1>5. \A m \in mints : m.token # new.token
  BY <1>1, <1>4 DEF FsInv, MintsApart, Minted
<1>6. FsTyped'
  <2>1. \A d \in FsCallers : FsCallTyped(fop'[d])
    BY <1>1, <1>3 DEF FsTyped
  <2>2. \A d \in FsCallers : FsCallTyped(fop[d])'
    BY <2>1 DEF FsCallTyped
  <2>3. nextVersion' \in [Instances -> Nat \ {0}]
    BY <1>1 DEF FsTyped
  <2>4. \A m \in mints' : DOMAIN m = {"by", "token", "at", "bytes", "there"}
    BY <1>1, <1>4 DEF FsTyped
  <2> QED BY <1>1, <1>2, <1>3, <2>2, <2>3, <2>4 DEF FsTyped, TreeGrows
<1>7. FsAlone'
  BY <1>3 DEF FsInv, FsAlone
<1>8. MintsApart'
  <2>1. ASSUME NEW m \in mints PROVE Minted(m)'
    <3>1. Minted(m)
      BY DEF FsInv, MintsApart
    <3>2. PICK l, k \in Nat \ {0} :
            /\ m.token = <<m.by, l, k>> /\ l <= life[m.by]
            /\ l = life[m.by] => k < nextVersion[m.by]
      BY <3>1 DEF Minted
    <3>3. l = life[m.by] => k < nextVersion'[m.by]
      BY <3>1, <3>2, <1>1 DEF Minted
    <3> QED BY <3>1, <3>2, <3>3 DEF Minted
  <2>2. Minted(new)'
    BY <1>1, <1>4 DEF Minted
  <2> QED BY <2>1, <2>2, <1>4, <1>5 DEF FsInv, MintsApart
<1>9. Pending'
  <2> DEFINE Ok(d) == /\ fop'[d].to \in Aims /\ fop'[d].counter \in Nat \ {0}
                      /\ \E m \in mints' : MintOf(d, m)'
                      /\ \A k \in DOMAIN Hops(fop'[d].to) : tree'[Hops(fop'[d].to)[k]].kind = "dir"
                      /\ fop'[d].pc = "stamp" => fop'[d].to \in Paths
                      /\ fop'[d].pc = "stamp" /\ ~fsEnv.overlap => tree'[fop'[d].to].bytes = fop'[d].next
  <2>1. Ok(c)
    <3>1. MintOf(c, new)'
      BY <1>3, <1>4 DEF MintOf, Stamp, Inst
    <3>2. \E m \in mints' : MintOf(c, m)'
      BY <1>4, <3>1
    <3>3. fop'[c].to \in Aims /\ fop'[c].counter \in Nat \ {0}
      BY <1>1, <1>3
    <3>4. \A k \in DOMAIN Hops(fop'[c].to) : tree'[Hops(fop'[c].to)[k]].kind = "dir"
      BY <1>2, <1>3
    <3>5. fop'[c].pc # "stamp"
      BY <1>3
    <3> QED BY <3>2, <3>3, <3>4, <3>5
  <2>2. ASSUME NEW d \in FsCallers, d # c, fop'[d].pc \in {"rename", "stamp"} PROVE Ok(d)
    <3>1. fop'[d] = fop[d]
      BY <1>3, <2>2
    <3>2. /\ fop[d].to \in Aims /\ fop[d].counter \in Nat \ {0}
          /\ \E m \in mints : MintOf(d, m)
          /\ \A k \in DOMAIN Hops(fop[d].to) : tree[Hops(fop[d].to)[k]].kind = "dir"
          /\ fop[d].pc = "stamp" => fop[d].to \in Paths
          /\ fop[d].pc = "stamp" /\ ~fsEnv.overlap => tree[fop[d].to].bytes = fop[d].next
      BY <2>2, <3>1 DEF FsInv, Pending
    <3>3. \A k \in DOMAIN Hops(fop[d].to) : Hops(fop[d].to)[k] \in Paths
      BY <3>2, HopsAre
    <3>4. \E m \in mints' : MintOf(d, m)'
      BY <1>4, <3>1, <3>2 DEF MintOf, Stamp, Inst
    <3> QED BY <1>2, <3>1, <3>2, <3>3, <3>4 DEF TreeGrows
  <2>3. \A d \in FsCallers : fop'[d].pc \in {"rename", "stamp"} => Ok(d)
    <3> HIDE DEF Ok
    <3> QED BY <2>1, <2>2
  <2> QED BY <2>3 DEF Pending, Aims, Hops
<1>10. FilesAreWhole'
  BY <1>2, <1>4 DEF FsInv, FilesAreWhole, TreeGrows
<1>11. NoDebris'
  <2>1. ASSUME NEW m \in mints', m.there, "crash" \notin fsEnv.faults
        PROVE  \E d \in FsCallers : fop'[d].pc = "rename" /\ m.token = Stamp(Inst(d), fop[d].counter)'
    <3>1. CASE m = new
      BY <3>1, <1>3, <1>4 DEF Stamp, Inst
    <3>2. CASE m \in mints
      <4>1. PICK d \in FsCallers : fop[d].pc = "rename" /\ m.token = Stamp(Inst(d), fop[d].counter)
        BY <2>1, <3>2, DebrisHasToken DEF FsInv
      <4>2. fop'[d] = fop[d]
        BY <4>1, <1>3
      <4> QED BY <4>1, <4>2 DEF Stamp, Inst
    <3> QED BY <3>1, <3>2, <1>4
  <2> QED BY <2>1, <1>8, NoDebrisByToken
<1>12. MintsKept
  BY <1>4 DEF MintsKept
<1>13. VersionsName'
  <2> SUFFICES ASSUME ~fsEnv.overlap, NEW j \in Instances, NEW p \in Paths, versions[j][p] # 0, OneWriter(j)'
               PROVE  NamesBytes(j, p)' \/ \E d \in FsCallers : fop'[d].pc = "stamp" /\ fop'[d].to = p
    BY DEF VersionsName
  <2>1. OneWriter(j)
    BY <1>4 DEF OneWriter
  <2>2. NamesBytes(j, p) \/ \E d \in FsCallers : fop[d].pc = "stamp" /\ fop[d].to = p
    BY <2>1 DEF FsInv, VersionsName
  <2>3. NamesBytes(j, p) => NamesBytes(j, p)'
    BY <1>2, <1>4 DEF NamesBytes, Stamp, TreeGrows
  <2> QED BY <1>3, <2>2, <2>3
<1>14. SeenIsMinted'
  BY <1>1, <1>12, SeenGrows DEF FsInv, FsTyped
<1>15. GuardStands'
  <2> SUFFICES ASSUME ~fsEnv.overlap, NEW d \in FsCallers PROVE GuardOf(d)'
    BY DEF GuardStands
  <2>1. CASE d = c
    <3>1. GuardOf(c)
      BY DEF FsInv, GuardStands
    <3>2. Presented(c)' = Presented(c)
      BY <1>3 DEF Presented
    <3> QED BY <1>3, <2>1, <3>1, <3>2 DEF GuardOf, Stamp, Inst
  <2>2. CASE d # c
    <3>1. fop'[d].pc = "idle"
      BY <1>3, <2>2 DEF FsInv, FsAlone, FsTyped
    <3> QED BY <3>1 DEF GuardOf
  <2> QED BY <2>1, <2>2
<1> QED BY <1>6, <1>7, <1>8, <1>9, <1>10, <1>11, <1>13, <1>14, <1>15 DEF FsInv

LEMMA FsReserveKeeps ==
  ASSUME FsInv, NEW c \in FsCallers, FsReserve(c)
  PROVE  FsInv'
<1> DEFINE to == WalkPath(fop[c].req.display)
           create == fop[c].req.op = "write"
           parent == OpenParent(to, create)
           i == Inst(c)
           n == nextVersion[i]
<1>1. FsTyped /\ fop[c].pc = "reserve" /\ i \in Instances
  BY InstIs DEF FsInv, FsReserve
<1>2. UNCHANGED <<fsEnv, versions, life, registry, seen>>
  BY DEF FsReserve
<1>3. to \in Aims /\ create \in BOOLEAN
  BY <1>1, WalksAim
<1>4. CASE parent.code # "ok"
  <2>1. Answer(c, parent.code) /\ UNCHANGED <<tree, nextVersion, mints>>
    BY <1>4 DEF FsReserve
  <2> QED BY <1>1, <1>2, <2>1, FsEnds, TreeStays, FsTypedIs
<1>5. CASE parent.code = "ok"
  <2>1. Make(parent.made) /\ nextVersion' = [nextVersion EXCEPT ![i] = n + 1]
    BY <1>5 DEF FsReserve
  <2>2. Make(MadeOf(to, create))
    BY <2>1 DEF MadeOf
  <2>3. \/ /\ mints' = mints \cup {[by |-> i, token |-> Stamp(i, n), at |-> to,
                                    bytes |-> fop[c].next, there |-> TRUE]}
           /\ fop' = [fop EXCEPT ![c].pc = "rename", ![c].counter = n, ![c].to = to]
        \/ Answer(c, "io-error") /\ UNCHANGED mints
    BY <1>5 DEF FsReserve
  <2> HIDE DEF to, create
  <2>4. CASE Answer(c, "io-error") /\ UNCHANGED mints
    <3>1. TreeGrows
      BY <1>1, <1>3, <2>2, WalkGrowsTree DEF FsTyped
    <3>2. nextVersion' \in [Instances -> Nat \ {0}] /\ \A j \in Instances : nextVersion[j] <= nextVersion'[j]
      BY <1>1, <2>1 DEF FsTyped
    <3> QED BY <1>1, <1>2, <2>4, <3>1, <3>2, FsEnds, FsTypedIs
  <2>5. CASE /\ mints' = mints \cup {[by |-> i, token |-> Stamp(i, n), at |-> to,
                                      bytes |-> fop[c].next, there |-> TRUE]}
             /\ fop' = [fop EXCEPT ![c].pc = "rename", ![c].counter = n, ![c].to = to]
    BY <1>1, <1>2, <1>3, <1>5, <2>1, <2>2, <2>5, FsMintKeeps
  <2> QED BY <2>3, <2>4, <2>5
<1> QED BY <1>4, <1>5

(* A rename takes the temp file away; what the mint says otherwise stays.  *)
LEMMA TempGoneIs ==
  ASSUME FsInv, NEW c \in FsCallers, fop[c].pc = "rename", TempGone(c)
  PROVE  \E gone :
           /\ mints' = (mints \ {MyMint(c)}) \cup {gone} /\ ~gone.there
           /\ gone.by = Inst(c) /\ gone.token = MyMint(c).token /\ gone.token = Stamp(Inst(c), fop[c].counter)
           /\ gone.at = fop[c].to /\ gone.bytes = fop[c].next
           /\ DOMAIN gone = {"by", "token", "at", "bytes", "there"}
<1> DEFINE gone == [MyMint(c) EXCEPT !.there = FALSE]
<1>1. MyMint(c) \in mints /\ MintOf(c, MyMint(c)) /\ FsTyped
  BY MyMintIs DEF FsInv
<1>2. DOMAIN MyMint(c) = {"by", "token", "at", "bytes", "there"}
  BY <1>1 DEF FsTyped
<1>3. /\ gone.by = MyMint(c).by /\ gone.token = MyMint(c).token /\ gone.at = MyMint(c).at
      /\ gone.bytes = MyMint(c).bytes /\ ~gone.there
      /\ DOMAIN gone = {"by", "token", "at", "bytes", "there"}
  BY <1>2
<1>4. mints' = (mints \ {MyMint(c)}) \cup {gone}
  BY DEF TempGone
<1> HIDE DEF gone
<1> QED BY <1>1, <1>3, <1>4 DEF MintOf

(* What a rename leaves of the invariant, landed or not.                   *)
LEMMA FsRenameMints ==
  ASSUME FsInv, NEW c \in FsCallers, fop[c].pc = "rename", TempGone(c),
         UNCHANGED <<fsEnv, versions, nextVersion, life, registry, seen>>, IsTree(tree'),
         \A p \in Paths : tree[p].kind = "dir" => tree'[p].kind = "dir",
         NEW f, fop' = [fop EXCEPT ![c] = f], FsCallTyped(f), f.pc \in {"idle", "stamp"}
  PROVE  /\ FsTyped' /\ FsAlone' /\ MintsApart' /\ NoDebris' /\ SeenIsMinted' /\ GuardStands' /\ MintsKept
         /\ \A d \in FsCallers : d # c /\ fop'[d].pc \in {"rename", "stamp"} =>
              /\ fop'[d].to \in Aims /\ fop'[d].counter \in Nat \ {0}
              /\ \E m \in mints' : MintOf(d, m)'
              /\ \A n \in DOMAIN Hops(fop'[d].to) : tree'[Hops(fop'[d].to)[n]].kind = "dir"
              /\ fop'[d].pc = "stamp" => fop'[d].to \in Paths
         /\ \E m \in mints' : m.at = fop[c].to /\ m.bytes = fop[c].next /\ m.by = Inst(c)
                                /\ m.token = Stamp(Inst(c), fop[c].counter)
         /\ DOMAIN fop' = FsCallers /\ fop'[c] = f /\ \A d \in FsCallers : d # c => fop'[d] = fop[d]
         /\ \A m \in mints' : \E k \in mints :
              k.by = m.by /\ k.token = m.token /\ k.at = m.at /\ k.bytes = m.bytes
<1>1. PICK gone :
        /\ mints' = (mints \ {MyMint(c)}) \cup {gone} /\ ~gone.there
        /\ gone.by = Inst(c) /\ gone.token = MyMint(c).token /\ gone.token = Stamp(Inst(c), fop[c].counter)
        /\ gone.at = fop[c].to /\ gone.bytes = fop[c].next
        /\ DOMAIN gone = {"by", "token", "at", "bytes", "there"}
  BY TempGoneIs
<1>2. /\ MyMint(c) \in mints /\ MintOf(c, MyMint(c))
      /\ \A m \in mints : m.token = Stamp(Inst(c), fop[c].counter) => m = MyMint(c)
  BY MyMintIs DEF FsInv
<1>3. FsTyped /\ DOMAIN fop' = FsCallers /\ fop'[c] = f /\ \A d \in FsCallers : d # c => fop'[d] = fop[d]
  BY DEF FsInv, FsTyped
<1>4. FsTyped'
  <2>1. \A d \in FsCallers : FsCallTyped(fop'[d])
    BY <1>3 DEF FsTyped
  <2>2. \A d \in FsCallers : FsCallTyped(fop[d])'
    BY <2>1 DEF FsCallTyped
  <2>3. \A m \in mints' : DOMAIN m = {"by", "token", "at", "bytes", "there"}
    BY <1>1, <1>3 DEF FsTyped
  <2> QED BY <1>3, <2>2, <2>3 DEF FsTyped
<1>5. FsAlone'
  BY <1>3 DEF FsInv, FsAlone
<1>6. MintsApart'
  <2>1. \A m \in mints : Minted(m)'
    BY DEF FsInv, MintsApart, Minted
  <2>2. Minted(gone)'
    <3>1. gone.by = MyMint(c).by /\ gone.token = MyMint(c).token
      BY <1>1, <1>2 DEF MintOf
    <3>2. Minted(MyMint(c))
      BY <1>2 DEF FsInv, MintsApart
    <3> QED BY <3>1, <3>2 DEF Minted
  <2>3. \A m \in mints \ {MyMint(c)} : m.token # gone.token
    BY <1>1, <1>2
  <2> QED BY <1>1, <2>1, <2>2, <2>3 DEF FsInv, MintsApart
<1>7. NoDebris'
  <2>1. ASSUME NEW m \in mints', m.there, "crash" \notin fsEnv.faults
        PROVE  \E d \in FsCallers : fop'[d].pc = "rename" /\ m.token = Stamp(Inst(d), fop[d].counter)'
    <3>1. m \in mints /\ m # MyMint(c)
      BY <1>1, <2>1
    <3>2. PICK d \in FsCallers :
            fop[d].pc = "rename" /\ m = MyMint(d) /\ m.token = Stamp(Inst(d), fop[d].counter)
      BY <2>1, <3>1, DebrisHasToken DEF FsInv
    <3>3. fop'[d] = fop[d]
      BY <1>3, <3>1, <3>2
    <3> QED BY <3>2, <3>3 DEF Stamp, Inst
  <2> QED BY <2>1, <1>6, NoDebrisByToken
<1>8. MintsKept
  BY <1>1, <1>2 DEF MintsKept, MintOf
<1>9. SeenIsMinted'
  BY <1>3, <1>8, SeenGrows DEF FsInv, FsTyped
<1>10. GuardStands'
  <2> SUFFICES ASSUME ~fsEnv.overlap, NEW d \in FsCallers PROVE GuardOf(d)'
    BY DEF GuardStands
  <2>1. fop'[d].pc \in {"idle", "stamp"}
    BY <1>3 DEF FsInv, FsAlone
  <2> QED BY <2>1 DEF GuardOf
<1>11. ASSUME NEW d \in FsCallers, d # c, fop'[d].pc \in {"rename", "stamp"}
       PROVE  /\ fop'[d].to \in Aims /\ fop'[d].counter \in Nat \ {0}
              /\ \E m \in mints' : MintOf(d, m)'
              /\ \A n \in DOMAIN Hops(fop'[d].to) : tree'[Hops(fop'[d].to)[n]].kind = "dir"
              /\ fop'[d].pc = "stamp" => fop'[d].to \in Paths
  <2>1. fop'[d] = fop[d]
    BY <1>3, <1>11
  <2>2. /\ fop[d].to \in Aims /\ fop[d].counter \in Nat \ {0}
        /\ \E m \in mints : MintOf(d, m)
        /\ \A n \in DOMAIN Hops(fop[d].to) : tree[Hops(fop[d].to)[n]].kind = "dir"
        /\ fop[d].pc = "stamp" => fop[d].to \in Paths
    BY <1>11, <2>1 DEF FsInv, Pending
  <2>3. \A n \in DOMAIN Hops(fop[d].to) : Hops(fop[d].to)[n] \in Paths
    BY <2>2, HopsAre
  <2>4. \E m \in mints' : MintOf(d, m)'
    BY <1>8, <2>1, <2>2 DEF MintsKept, MintOf, Stamp, Inst
  <2> QED BY <2>1, <2>2, <2>3, <2>4
<1>12. \A m \in mints' : \E k \in mints :
         k.by = m.by /\ k.token = m.token /\ k.at = m.at /\ k.bytes = m.bytes
  BY <1>1, <1>2 DEF MintOf
<1> QED BY <1>1, <1>3, <1>4, <1>5, <1>6, <1>7, <1>8, <1>9, <1>10, <1>11, <1>12

(* A rename that fails: the bytes and the versions are as before.          *)
LEMMA FsRenameFails ==
  ASSUME FsInv, NEW c \in FsCallers, fop[c].pc = "rename", TempGone(c), Answer(c, "io-error"),
         UNCHANGED <<fsEnv, tree, versions, nextVersion, life, registry, seen>>
  PROVE  FsInv'
<1>1. FsTyped /\ IsTree(tree')
  BY DEF FsInv, FsTyped
<1>2. PICK f : fop' = [fop EXCEPT ![c] = f] /\ FsCallTyped(f) /\ f.pc = "idle"
  BY <1>1, AnswerIs
<1>3. /\ FsTyped' /\ FsAlone' /\ MintsApart' /\ NoDebris' /\ SeenIsMinted' /\ GuardStands' /\ MintsKept
      /\ \A d \in FsCallers : d # c /\ fop'[d].pc \in {"rename", "stamp"} =>
           /\ fop'[d].to \in Aims /\ fop'[d].counter \in Nat \ {0}
           /\ \E m \in mints' : MintOf(d, m)'
           /\ \A n \in DOMAIN Hops(fop'[d].to) : tree'[Hops(fop'[d].to)[n]].kind = "dir"
           /\ fop'[d].pc = "stamp" => fop'[d].to \in Paths
      /\ fop'[c] = f /\ \A d \in FsCallers : d # c => fop'[d] = fop[d]
      /\ \A m \in mints' : \E k \in mints :
           k.by = m.by /\ k.token = m.token /\ k.at = m.at /\ k.bytes = m.bytes
  BY <1>1, <1>2, FsRenameMints
<1>4. Pending'
  <2>1. \A d \in FsCallers : d # c /\ fop'[d].pc = "stamp" /\ ~fsEnv.overlap =>
          tree'[fop'[d].to].bytes = fop'[d].next
    BY <1>3 DEF FsInv, Pending
  <2> QED BY <1>2, <1>3, <2>1 DEF Pending, Aims, Hops
<1>5. FilesAreWhole'
  BY <1>3 DEF FsInv, FilesAreWhole, MintsKept
<1>6. VersionsName'
  <2> SUFFICES ASSUME ~fsEnv.overlap, NEW j \in Instances, NEW p \in Paths, versions[j][p] # 0, OneWriter(j)'
               PROVE  NamesBytes(j, p)' \/ \E d \in FsCallers : fop'[d].pc = "stamp" /\ fop'[d].to = p
    BY DEF VersionsName
  <2>1. OneWriter(j)
    BY <1>3 DEF OneWriter, MintsKept
  <2>2. NamesBytes(j, p) \/ \E d \in FsCallers : fop[d].pc = "stamp" /\ fop[d].to = p
    BY <2>1 DEF FsInv, VersionsName
  <2>3. NamesBytes(j, p) => NamesBytes(j, p)'
    BY <1>3 DEF NamesBytes, Stamp, MintsKept
  <2> QED BY <1>3, <2>2, <2>3
<1> QED BY <1>3, <1>4, <1>5, <1>6 DEF FsInv

(* A rename that lands: whole bytes of one mint, in a directory.           *)
LEMMA FsRenameLands ==
  ASSUME FsInv, NEW c \in FsCallers, fop[c].pc = "rename", TempGone(c), CallTo(c, "stamp"),
         fop[c].to # Root, tree[fop[c].to].kind # "dir",
         tree' = [tree EXCEPT ![fop[c].to] = File(fop[c].next)],
         UNCHANGED <<fsEnv, versions, nextVersion, life, registry, seen>>
  PROVE  FsInv'
<1> DEFINE to == fop[c].to
<1>1. /\ FsTyped /\ IsTree(tree)
      /\ to \in Paths /\ fop[c].counter \in Nat \ {0}
      /\ \A n \in DOMAIN Hops(to) : tree[Hops(to)[n]].kind = "dir"
  BY DEF FsInv, FsTyped, Pending, Aims
<1>2. /\ tree'[to].kind = "file" /\ tree'[to].bytes = fop[c].next
      /\ \A p \in Paths : p # to => tree'[p] = tree[p]
      /\ DOMAIN tree' = Paths
  BY <1>1 DEF IsTree, File
<1>3. \A p \in Paths : \A n \in DOMAIN Hops(p) : Hops(p)[n] \in Paths
  BY HopsAre DEF Aims
<1>4. \A p \in Paths : tree[p].kind = "dir" => tree'[p].kind = "dir"
  BY <1>2
<1>5. IsTree(tree')
  <2>1. \A n \in DOMAIN Hops(to) : tree'[Hops(to)[n]].kind = "dir"
    BY <1>1, <1>3, <1>4
  <2>2. ASSUME NEW p \in Paths, p # to, tree[p].kind # "absent", NEW n \in DOMAIN Hops(p)
        PROVE  tree'[Hops(p)[n]].kind = "dir"
    BY <1>1, <1>3, <1>4, <2>2 DEF IsTree
  <2> QED BY <1>1, <1>2, <2>1, <2>2 DEF IsTree
<1>6. PICK f : /\ fop' = [fop EXCEPT ![c] = f] /\ FsCallTyped(f) /\ f.pc = "stamp"
               /\ f.to = to /\ f.counter = fop[c].counter /\ f.next = fop[c].next
  <2>1. PICK f : /\ fop' = [fop EXCEPT ![c] = f] /\ FsCallTyped(f) /\ f.pc = "stamp"
                 /\ f = [fop[c] EXCEPT !.pc = "stamp"]
    BY <1>1, CallToIs DEF FsPc
  <2>2. f.to = to /\ f.counter = fop[c].counter /\ f.next = fop[c].next
    BY <1>1, <2>1 DEF FsTyped, FsCallTyped
  <2> QED BY <2>1, <2>2
<1>7. f.to = to /\ f.counter = fop[c].counter /\ f.next = fop[c].next
  BY <1>6
<1>8. /\ FsTyped' /\ FsAlone' /\ MintsApart' /\ NoDebris' /\ SeenIsMinted' /\ GuardStands' /\ MintsKept
      /\ \A d \in FsCallers : d # c /\ fop'[d].pc \in {"rename", "stamp"} =>
           /\ fop'[d].to \in Aims /\ fop'[d].counter \in Nat \ {0}
           /\ \E m \in mints' : MintOf(d, m)'
           /\ \A n \in DOMAIN Hops(fop'[d].to) : tree'[Hops(fop'[d].to)[n]].kind = "dir"
           /\ fop'[d].pc = "stamp" => fop'[d].to \in Paths
      /\ \E m \in mints' : m.at = to /\ m.bytes = fop[c].next /\ m.by = Inst(c)
                             /\ m.token = Stamp(Inst(c), fop[c].counter)
      /\ fop'[c] = f /\ \A d \in FsCallers : d # c => fop'[d] = fop[d]
      /\ \A m \in mints' : \E k \in mints :
           k.by = m.by /\ k.token = m.token /\ k.at = m.at /\ k.bytes = m.bytes
  BY <1>4, <1>5, <1>6, FsRenameMints
<1> HIDE DEF to
<1>9. Pending'
  <2> SUFFICES ASSUME NEW d \in FsCallers, fop'[d].pc \in {"rename", "stamp"}
               PROVE  /\ fop'[d].to \in Aims /\ fop'[d].counter \in Nat \ {0}
                      /\ \E m \in mints' : MintOf(d, m)'
                      /\ \A n \in DOMAIN Hops(fop'[d].to) : tree'[Hops(fop'[d].to)[n]].kind = "dir"
                      /\ fop'[d].pc = "stamp" => fop'[d].to \in Paths
                      /\ fop'[d].pc = "stamp" /\ ~fsEnv.overlap => tree'[fop'[d].to].bytes = fop'[d].next
    BY DEF Pending, Aims, Hops
  <2>1. CASE d = c
    <3>1. \E m \in mints' : MintOf(c, m)'
      BY <1>7, <1>8 DEF MintOf, Stamp, Inst
    <3>2. \A n \in DOMAIN Hops(to) : tree'[Hops(to)[n]].kind = "dir"
      BY <1>1, <1>3, <1>4
    <3> QED BY <1>1, <1>2, <1>7, <1>8, <2>1, <3>1, <3>2 DEF Aims
  <2>2. CASE d # c
    <3>1. fop'[d].pc = "stamp" => fsEnv.overlap
      BY <1>8, <2>2 DEF FsInv, FsAlone
    <3> QED BY <1>8, <2>2, <3>1
  <2> QED BY <2>1, <2>2
<1>10. FilesAreWhole'
  <2> SUFFICES ASSUME NEW p \in Paths, tree'[p].kind = "file"
               PROVE  (\E t \in fsEnv.trees : t[p] = tree'[p]) \/ \E m \in mints' : m.at = p /\ m.bytes = tree'[p].bytes
    BY DEF FilesAreWhole
  <2>1. CASE p = to
    BY <1>2, <1>8, <2>1
  <2>2. CASE p # to
    <3>1. (\E t \in fsEnv.trees : t[p] = tree[p]) \/ \E m \in mints : m.at = p /\ m.bytes = tree[p].bytes
      BY <1>2, <2>2 DEF FsInv, FilesAreWhole
    <3> QED BY <1>2, <1>8, <2>2, <3>1 DEF MintsKept
  <2> QED BY <2>1, <2>2
<1>11. VersionsName'
  <2> SUFFICES ASSUME ~fsEnv.overlap, NEW j \in Instances, NEW p \in Paths, versions[j][p] # 0, OneWriter(j)'
               PROVE  NamesBytes(j, p)' \/ \E d \in FsCallers : fop'[d].pc = "stamp" /\ fop'[d].to = p
    BY DEF VersionsName
  <2>1. CASE p = to
    BY <1>6, <1>7, <1>8, <2>1
  <2>2. CASE p # to
    <3>1. OneWriter(j)
      BY <1>8 DEF OneWriter, MintsKept
    <3>2. \A d \in FsCallers : fop[d].pc # "stamp"
      BY DEF FsInv, FsAlone
    <3>3. NamesBytes(j, p)
      BY <3>1, <3>2 DEF FsInv, VersionsName
    <3>4. NamesBytes(j, p)'
      BY <1>2, <1>8, <2>2, <3>3 DEF NamesBytes, Stamp, MintsKept
    <3> QED BY <3>4
  <2> QED BY <2>1, <2>2
<1> QED BY <1>8, <1>9, <1>10, <1>11 DEF FsInv

LEMMA FsRenameKeeps ==
  ASSUME FsInv, NEW c \in FsCallers, FsRename(c)
  PROVE  FsInv'
BY FsRenameFails, FsRenameLands DEF FsRename

(* The stamp: the version is that of the bytes that have landed.           *)
LEMMA FsStampKeeps ==
  ASSUME FsInv, NEW c \in FsCallers, FsStamp(c)
  PROVE  FsInv'
<1> DEFINE i == Inst(c)
           to == fop[c].to
           n == fop[c].counter
           kept == Kept(c, Stamp(i, n), fop[c].next)
<1>1. /\ FsTyped /\ fop[c].pc = "stamp" /\ i \in Instances /\ life[i] \in Nat \ {0}
      /\ UNCHANGED <<fsEnv, tree, mints, nextVersion, life, registry>>
      /\ versions' = [versions EXCEPT ![i][to] = n] /\ Answer(c, "ok")
      /\ seen' = IF fop[c].req.keep THEN [seen EXCEPT ![c] = kept] ELSE seen
  BY InstIs DEF FsInv, FsStamp, FsTyped
<1>2. /\ to \in Paths /\ n \in Nat \ {0}
      /\ \E m \in mints : MintOf(c, m)
      /\ ~fsEnv.overlap => tree[to].bytes = fop[c].next
  BY <1>1 DEF FsInv, Pending
<1>3. PICK m \in mints : m.by = i /\ m.token = Stamp(i, n) /\ m.at = to /\ m.bytes = fop[c].next
  BY <1>2 DEF MintOf
<1>4. PICK f : fop' = [fop EXCEPT ![c] = f] /\ FsCallTyped(f) /\ f.pc = "idle"
  BY <1>1, AnswerIs
<1>5. fop'[c] = f /\ DOMAIN fop' = FsCallers /\ \A d \in FsCallers : d # c => fop'[d] = fop[d]
  BY <1>1, <1>4, FsTypedIs
<1>6. /\ versions' \in [Instances -> [Paths -> Nat]] /\ versions'[i][to] = n
      /\ \A j \in Instances : j # i => versions'[j] = versions[j]
      /\ \A p \in Paths : p # to => versions'[i][p] = versions[i][p]
  BY <1>1, <1>2 DEF FsTyped
<1>7. DOMAIN seen' = FsCallers /\ seen'[c] \in {kept, seen[c]} /\ \A d \in FsCallers : d # c => seen'[d] = seen[d]
  BY <1>1 DEF FsTyped
<1>8. TokenOf(kept, i, life[i])
  <2>1. kept.token = <<i, life[i], n>> /\ kept.by = <<"mount", i, life[i]>> /\ kept.bytes = fop[c].next
    BY DEF Kept, Stamp, Mount
  <2> QED BY <1>2, <1>3, <2>1 DEF TokenOf, Stamp
<1> HIDE DEF kept
<1>9. FsTyped'
  <2>1. \A d \in FsCallers : FsCallTyped(fop'[d])
    BY <1>1, <1>4, <1>5 DEF FsTyped
  <2>2. \A d \in FsCallers : FsCallTyped(fop[d])'
    BY <1>1, <2>1 DEF FsCallTyped
  <2> QED BY <1>1, <1>5, <1>6, <1>7, <2>2 DEF FsTyped
<1>10. FsAlone'
  BY <1>1, <1>4, <1>5 DEF FsInv, FsAlone
<1>11. MintsApart'
  BY <1>1 DEF FsInv, MintsApart, Minted
<1>12. Pending'
  <2> SUFFICES ASSUME NEW d \in FsCallers, fop'[d].pc \in {"rename", "stamp"}
               PROVE  /\ fop'[d].to \in Aims /\ fop'[d].counter \in Nat \ {0}
                      /\ \E k \in mints' : MintOf(d, k)'
                      /\ \A h \in DOMAIN Hops(fop'[d].to) : tree'[Hops(fop'[d].to)[h]].kind = "dir"
                      /\ fop'[d].pc = "stamp" => fop'[d].to \in Paths
                      /\ fop'[d].pc = "stamp" /\ ~fsEnv'.overlap => tree'[fop'[d].to].bytes = fop'[d].next
    BY DEF Pending, Aims, Hops
  <2>1. d # c /\ fop'[d] = fop[d]
    BY <1>4, <1>5
  <2>2. /\ fop[d].to \in Aims /\ fop[d].counter \in Nat \ {0}
        /\ \E k \in mints : MintOf(d, k)
        /\ \A h \in DOMAIN Hops(fop[d].to) : tree[Hops(fop[d].to)[h]].kind = "dir"
        /\ fop[d].pc = "stamp" => fop[d].to \in Paths
        /\ fop[d].pc = "stamp" /\ ~fsEnv.overlap => tree[fop[d].to].bytes = fop[d].next
    BY <2>1 DEF FsInv, Pending
  <2>3. \E k \in mints' : MintOf(d, k)'
    BY <1>1, <2>1, <2>2 DEF MintOf, Stamp, Inst
  <2> QED BY <1>1, <2>1, <2>2, <2>3
<1>13. FilesAreWhole'
  BY <1>1 DEF FsInv, FilesAreWhole
<1>14. NoDebris'
  <2>1. ASSUME NEW k \in mints', k.there, "crash" \notin fsEnv'.faults
        PROVE  \E d \in FsCallers : fop'[d].pc = "rename" /\ k.token = Stamp(Inst(d), fop[d].counter)'
    <3>1. PICK d \in FsCallers :
            fop[d].pc = "rename" /\ k = MyMint(d) /\ k.token = Stamp(Inst(d), fop[d].counter)
      BY <1>1, <2>1, DebrisHasToken DEF FsInv
    <3>2. fop'[d] = fop[d]
      BY <1>1, <1>5, <3>1
    <3> QED BY <1>1, <3>1, <3>2 DEF Stamp, Inst
  <2> QED BY <2>1, <1>11, NoDebrisByToken
<1>15. VersionsName'
  <2> SUFFICES ASSUME ~fsEnv.overlap, NEW j \in Instances, NEW p \in Paths, versions'[j][p] # 0, OneWriter(j)'
               PROVE  NamesBytes(j, p)'
    BY <1>1 DEF VersionsName
  <2>1. OneWriter(j) /\ j = i
    BY <1>1, <1>3 DEF OneWriter
  <2>2. CASE p = to
    BY <1>1, <1>2, <1>3, <1>6, <2>1, <2>2 DEF NamesBytes, Stamp
  <2>3. CASE p # to
    <3>1. versions'[j][p] = versions[j][p]
      BY <1>6, <2>1, <2>3
    <3>2. \A d \in FsCallers : fop[d].pc = "stamp" => d = c
      BY <1>1 DEF FsInv, FsAlone
    <3>3. NamesBytes(j, p)
      BY <2>1, <2>3, <3>1, <3>2 DEF FsInv, VersionsName
    <3> QED BY <1>1, <3>1, <3>3 DEF NamesBytes, Stamp
  <2> QED BY <2>2, <2>3
<1>16. SeenIsMinted'
  <2> SUFFICES ASSUME NEW d \in FsCallers, seen'[d].token # NoToken
               PROVE  \E j \in Instances, l \in Nat \ {0} : l <= life[j] /\ TokenOf(seen'[d], j, l)
    BY <1>1 DEF SeenIsMinted, TokenOf, OneWriter
  <2>1. CASE d = c /\ seen'[c] = kept
    BY <1>1, <1>8, <2>1
  <2>2. CASE seen'[d] = seen[d]
    BY <2>2 DEF FsInv, SeenIsMinted
  <2> QED BY <1>7, <2>1, <2>2
<1>17. GuardStands'
  <2> SUFFICES ASSUME ~fsEnv.overlap, NEW d \in FsCallers PROVE GuardOf(d)'
    BY <1>1 DEF GuardStands
  <2>1. fop'[d].pc = "idle"
    BY <1>1, <1>4, <1>5 DEF FsInv, FsAlone
  <2> QED BY <2>1 DEF GuardOf
<1> QED BY <1>9, <1>10, <1>11, <1>12, <1>13, <1>14, <1>15, <1>16, <1>17 DEF FsInv

(* A process that dies takes its calls, its versions and its counter; its  *)
(* tokens are of a life that is over.                                      *)
LEMMA FsCrashKeeps ==
  ASSUME FsInv, NEW i \in Instances, FsCrash(i)
  PROVE  FsInv'
<1>1. /\ FsTyped /\ "crash" \in fsEnv.faults /\ \E c \in FsCallers : Inst(c) = i /\ fop[c].pc # "idle"
      /\ life' = [life EXCEPT ![i] = @ + 1]
      /\ versions' = [versions EXCEPT ![i] = [p \in Paths |-> 0]]
      /\ nextVersion' = [nextVersion EXCEPT ![i] = 1]
      /\ registry' = [registry EXCEPT ![i] = {}]
      /\ fop' = [c \in FsCallers |-> IF Inst(c) = i THEN NoCall ELSE fop[c]]
      /\ UNCHANGED <<fsEnv, tree, mints, seen>>
  BY DEF FsInv, FsCrash
<1>2. /\ life' \in [Instances -> Nat \ {0}] /\ life'[i] = life[i] + 1
      /\ \A j \in Instances : j # i => life'[j] = life[j] /\ versions'[j] = versions[j]
                                         /\ nextVersion'[j] = nextVersion[j]
      /\ \A p \in Paths : versions'[i][p] = 0
      /\ versions' \in [Instances -> [Paths -> Nat]] /\ nextVersion' \in [Instances -> Nat \ {0}]
      /\ registry' \in [Instances -> SUBSET Aims]
  BY <1>1 DEF FsTyped
<1>3. /\ DOMAIN fop' = FsCallers
      /\ \A d \in FsCallers : fop'[d].pc # "idle" => Inst(d) # i /\ fop'[d] = fop[d]
      /\ \A d \in FsCallers : FsCallTyped(fop'[d])
  BY <1>1 DEF FsTyped, FsCallTyped, NoCall, FsPc
<1>4. MintsKept
  BY <1>1 DEF MintsKept
<1>5. FsTyped'
  <2>1. \A d \in FsCallers : FsCallTyped(fop[d])'
    BY <1>1, <1>3 DEF FsCallTyped
  <2> QED BY <1>1, <1>2, <1>3, <2>1 DEF FsTyped
<1>6. FsAlone'
  BY <1>1, <1>3 DEF FsInv, FsAlone
<1>7. MintsApart'
  <2>1. ASSUME NEW m \in mints PROVE Minted(m)'
    <3>1. Minted(m)
      BY DEF FsInv, MintsApart
    <3>2. PICK l, n \in Nat \ {0} :
            /\ m.token = <<m.by, l, n>> /\ l <= life[m.by]
            /\ l = life[m.by] => n < nextVersion[m.by]
      BY <3>1 DEF Minted
    <3>3. m.by \in Instances /\ life[m.by] \in Nat
      BY <1>1, <3>1 DEF Minted, FsTyped
    <3>4. l <= life'[m.by] /\ (l = life'[m.by] => n < nextVersion'[m.by])
      BY <1>2, <3>2, <3>3
    <3> QED BY <3>2, <3>3, <3>4 DEF Minted
  <2> QED BY <1>1, <2>1 DEF FsInv, MintsApart
<1>8. Pending'
  <2> SUFFICES ASSUME NEW d \in FsCallers, fop'[d].pc \in {"rename", "stamp"}
               PROVE  /\ fop'[d].to \in Aims /\ fop'[d].counter \in Nat \ {0}
                      /\ \E k \in mints' : MintOf(d, k)'
                      /\ \A h \in DOMAIN Hops(fop'[d].to) : tree'[Hops(fop'[d].to)[h]].kind = "dir"
                      /\ fop'[d].pc = "stamp" => fop'[d].to \in Paths
                      /\ fop'[d].pc = "stamp" /\ ~fsEnv'.overlap => tree'[fop'[d].to].bytes = fop'[d].next
    BY DEF Pending, Aims, Hops
  <2>1. Inst(d) # i /\ fop'[d] = fop[d] /\ life'[Inst(d)] = life[Inst(d)]
    BY <1>2, <1>3, InstIs
  <2>2. /\ fop[d].to \in Aims /\ fop[d].counter \in Nat \ {0}
        /\ \E k \in mints : MintOf(d, k)
        /\ \A h \in DOMAIN Hops(fop[d].to) : tree[Hops(fop[d].to)[h]].kind = "dir"
        /\ fop[d].pc = "stamp" => fop[d].to \in Paths
        /\ fop[d].pc = "stamp" /\ ~fsEnv.overlap => tree[fop[d].to].bytes = fop[d].next
    BY <2>1 DEF FsInv, Pending
  <2>3. \E k \in mints' : MintOf(d, k)'
    BY <1>1, <2>1, <2>2 DEF MintOf, Stamp, Inst
  <2> QED BY <1>1, <2>1, <2>2, <2>3
<1>9. FilesAreWhole'
  BY <1>1 DEF FsInv, FilesAreWhole
<1>10. NoDebris'
  BY <1>1 DEF NoDebris
<1>11. VersionsName'
  <2> SUFFICES ASSUME ~fsEnv.overlap, NEW j \in Instances, NEW p \in Paths, versions'[j][p] # 0, OneWriter(j)
               PROVE  NamesBytes(j, p)' \/ \E d \in FsCallers : fop'[d].pc = "stamp" /\ fop'[d].to = p
    BY <1>1 DEF VersionsName, OneWriter
  <2>1. j # i /\ versions'[j] = versions[j] /\ life'[j] = life[j]
    BY <1>2
  <2>2. \A d \in FsCallers : fop[d].pc = "stamp" => Inst(d) = i
    BY <1>1 DEF FsInv, FsAlone
  <2>3. \A d \in FsCallers : fop[d].pc # "stamp"
    <3> SUFFICES ASSUME NEW d \in FsCallers, fop[d].pc = "stamp" PROVE FALSE
      OBVIOUS
    <3>1. \E m \in mints : m.by = i
      BY <2>2 DEF FsInv, Pending, MintOf
    <3> QED BY <2>1, <3>1 DEF OneWriter
  <2>4. NamesBytes(j, p)
    BY <2>1, <2>3 DEF FsInv, VersionsName
  <2> QED BY <1>1, <2>1, <2>4 DEF NamesBytes, Stamp
<1>12. SeenIsMinted'
  <2>1. \A j \in Instances : life[j] <= life'[j]
    BY <1>1, <1>2 DEF FsTyped
  <2> QED BY <1>1, <1>2, <1>4, <2>1, SeenGrows DEF FsInv
<1>13. GuardStands'
  <2> SUFFICES ASSUME ~fsEnv.overlap, NEW d \in FsCallers PROVE GuardOf(d)'
    BY <1>1 DEF GuardStands
  <2>1. fop'[d].pc = "idle"
    BY <1>1, <1>3 DEF FsInv, FsAlone
  <2> QED BY <2>1 DEF GuardOf
<1> QED BY <1>5, <1>6, <1>7, <1>8, <1>9, <1>10, <1>11, <1>12, <1>13 DEF FsInv

LEMMA FsInitInv == FsInit => FsInv
<1> SUFFICES ASSUME NEW env \in FsEnvironments, NEW t \in env.trees, FsFrom(env, t) PROVE FsInv
  BY DEF FsInit
<1>1. /\ fsEnv = env /\ tree = t /\ mints = {}
      /\ versions = [i \in Instances |-> [p \in Paths |-> 0]]
      /\ nextVersion = [i \in Instances |-> 1] /\ life = [i \in Instances |-> 1]
      /\ registry = [i \in Instances |-> {}]
      /\ fop = [c \in FsCallers |-> NoCall] /\ seen = [c \in FsCallers |-> NothingSeen]
  BY DEF FsFrom
<1>2. \A c \in FsCallers : fop[c].pc = "idle" /\ FsCallTyped(fop[c]) /\ seen[c].token = NoToken
  BY <1>1 DEF NoCall, FsCallTyped, FsPc, NothingSeen
<1>3. IsTree(tree)
  BY <1>1, FsAssumption
<1>4. FsTyped
  BY <1>1, <1>2, <1>3 DEF FsTyped
<1>5. FsAlone /\ Pending /\ GuardStands
  BY <1>2 DEF FsAlone, Pending, GuardStands, GuardOf
<1>6. MintsApart /\ NoDebris
  BY <1>1 DEF MintsApart, NoDebris
<1>7. FilesAreWhole
  BY <1>1 DEF FilesAreWhole
<1>8. VersionsName
  BY <1>1 DEF VersionsName
<1>9. SeenIsMinted
  BY <1>2 DEF SeenIsMinted
<1> QED BY <1>4, <1>5, <1>6, <1>7, <1>8, <1>9 DEF FsInv

LEMMA FsStepKeeps == FsInv /\ [FsNext]_fsVars => FsInv'
<1> SUFFICES ASSUME FsInv, [FsNext]_fsVars PROVE FsInv'
  OBVIOUS
<1>1. CASE UNCHANGED fsVars
  <2>1. UNCHANGED <<fsEnv, tree, mints, versions, nextVersion, life, registry, fop, seen>>
    BY <1>1 DEF fsVars
  <2>2. FsTyped' /\ FsAlone' /\ MintsApart' /\ FilesAreWhole' /\ SeenIsMinted'
    BY <2>1, SeenStays
    DEF FsInv, FsTyped, FsCallTyped, FsAlone, MintsApart, Minted, FilesAreWhole
  <2>3. Pending'
    BY <2>1 DEF FsInv, Pending, MintOf, Stamp, Inst
  <2>4. NoDebris'
    BY <2>1 DEF FsInv, NoDebris, MyMint, Stamp, Inst
  <2>5. VersionsName'
    BY <2>1 DEF FsInv, VersionsName, NamesBytes, OneWriter, Stamp
  <2>6. GuardStands'
    <3>1. \A c \in FsCallers : Presented(c)' = Presented(c)
      BY <2>1 DEF Presented
    <3> QED BY <2>1, <3>1 DEF FsInv, GuardStands, GuardOf, Stamp, Inst
  <2> QED BY <2>2, <2>3, <2>4, <2>5, <2>6 DEF FsInv
<1>2. ASSUME NEW c \in FsCallers, NEW req \in fsEnv.requests, FsStart(c, req) PROVE FsInv'
  BY <1>2, FsStartKeeps
<1>3. ASSUME NEW c \in FsCallers, FsStep(c) PROVE FsInv'
  BY <1>3, FsResolveKeeps, FsVersionOfKeeps, FsOpenKeeps, FsReadKeeps, FsDecideKeeps, FsGuardKeeps,
     FsMatchKeeps, FsReserveKeeps, FsRenameKeeps, FsStampKeeps DEF FsStep
<1>4. ASSUME NEW i \in Instances, FsCrash(i) PROVE FsInv'
  BY <1>4, FsCrashKeeps
<1>5. fsEnv.callers \subseteq FsCallers
  BY FsAssumption DEF FsInv, FsTyped
<1> QED BY <1>1, <1>2, <1>3, <1>4, <1>5 DEF FsNext

(* Where calls do not overlap, only its own rename publishes a mutation.   *)
LEMMA OnlyItsRename ==
  ASSUME FsInv, FsNext, ~fsEnv.overlap, NEW c \in FsCallers, fop[c].pc = "rename", fop'[c].pc = "stamp"
  PROVE  fop[c].to # Root
<1>1. ASSUME NEW d, NEW req, FsStart(d, req) PROVE FALSE
  BY <1>1 DEF FsStart, Quiet
<1>2. ASSUME NEW d \in FsCallers, FsStep(d) PROVE FsRename(c)
  <2>1. fop[d].pc # "idle"
    BY <1>2
    DEF FsStep, FsResolve, FsVersionOf, FsOpen, FsRead, FsList, FsDecide, FsGuard, FsMatch, FsReserve, FsRename, FsStamp
  <2>2. d = c
    BY <2>1 DEF FsInv, FsAlone
  <2> QED BY <1>2, <2>2
    DEF FsStep, FsResolve, FsVersionOf, FsOpen, FsRead, FsList, FsDecide, FsGuard, FsMatch, FsReserve, FsRename, FsStamp
<1>3. ASSUME NEW i \in Instances, FsCrash(i) PROVE FALSE
  BY <1>3 DEF FsCrash, NoCall
<1>4. fop[c].to # Root \/ Answer(c, "io-error")
  BY <1>1, <1>2, <1>3 DEF FsNext, FsRename
<1>5. ~ Answer(c, "io-error")
  BY AnswerIs DEF FsInv, FsTyped
<1> QED BY <1>4, <1>5

(* The workspace is sound at every moment, for every number of callers,    *)
(* instances and mounts, whatever overlaps, is refused, or dies: a file    *)
(* holds what was there at first or all of one mutation's bytes, a temp    *)
(* file has a call that is about to rename it unless a process died, and   *)
(* between calls that do not overlap an instance's version of a path is    *)
(* that of the mutation whose bytes are there (provider.rs:523-601: the    *)
(* temp file, the rename that is unlinked when it fails, the stamp).       *)
THEOREM FsTreeIsSound == FsSpec => []TreeIsSound
<1>1. FsInv => TreeIsSound
  <2> SUFFICES ASSUME FsInv PROVE VersionNamesContent
    BY DEF TreeIsSound, FsInv
  <2>1. ASSUME Quiet, ~fsEnv.overlap, NEW i \in Instances, NEW p \in Paths, versions[i][p] # 0, OneWriter(i)
        PROVE  \E m \in mints : m.token = Stamp(i, versions[i][p]) /\ m.at = p /\ tree[p].bytes = m.bytes
    <3>1. NamesBytes(i, p)
      BY <2>1 DEF FsInv, VersionsName, Quiet
    <3> QED BY <3>1 DEF NamesBytes
  <2> QED BY <2>1 DEF VersionNamesContent
<1> QED BY <1>1, FsInitInv, FsStepKeeps, PTL DEF FsSpec

(* A mutation guarded by a version lands on the bytes that its caller saw  *)
(* when it took the token, and the token is of this mount: what another    *)
(* instance issued or an earlier life did passes no guard                  *)
(* (provider.rs:199-204, 472-521).                                         *)
THEOREM FsGuardedReplacesSeen == FsSpec => GuardedReplacesSeen
<1> DEFINE Replaces ==
      \A c \in FsCallers :
        fop[c].pc = "rename" /\ fop'[c].pc = "stamp" /\ ~fsEnv.overlap
          /\ fop[c].req.guard \in {"seen", "other"}
          => /\ Presented(c).by = Mount(Inst(c))
             /\ OneWriter(Inst(c)) /\ fop[c].to = fop[c].at => tree[fop[c].to].bytes = Presented(c).bytes
<1>1. FsInv /\ [FsNext]_fsVars => [Replaces]_fsVars
  <2> SUFFICES ASSUME FsInv, NEW c \in FsCallers, fop[c].pc = "rename", ~fsEnv.overlap,
                      fop[c].req.guard \in {"seen", "other"}
               PROVE  /\ Presented(c).by = Mount(Inst(c))
                      /\ OneWriter(Inst(c)) /\ fop[c].to = fop[c].at /\ fop'[c].pc = "stamp" /\ FsNext
                           => tree[fop[c].to].bytes = Presented(c).bytes
    OBVIOUS
  <2> DEFINE i == Inst(c)
             at == fop[c].at
  <2>1. versions[i][at] # 0 /\ Stamp(i, versions[i][at]) = Presented(c).token
    BY DEF FsInv, GuardStands, GuardOf
  <2>2. PICK d \in FsCallers : Presented(c) = seen[d]
    <3>1. fop[c].req \in fsEnv.requests /\ fsEnv \in FsEnvironments
      BY DEF FsInv, FsTyped, FsCallTyped
    <3>2. CASE fop[c].req.guard = "seen"
      BY <3>2 DEF Presented
    <3>3. CASE fop[c].req.guard = "other"
      <4>1. \E e \in FsCallers : e # c
        BY <3>1, <3>3, FsAssumption
      <4>2. (CHOOSE e \in FsCallers : e # c) \in FsCallers
        BY <4>1
      <4> QED BY <3>3, <4>2 DEF Presented
    <3> QED BY <3>2, <3>3
  <2>3. seen[d].token = <<i, life[i], versions[i][at]>> /\ i \in Instances /\ life[i] \in Nat \ {0}
    BY <2>1, <2>2, InstIs DEF Stamp, FsInv, FsTyped
  <2>4. seen[d].token # NoToken
    BY <2>3 DEF NoToken
  <2>5. TokenOf(seen[d], i, life[i])
    <3>1. PICK j \in Instances, l \in Nat \ {0} : TokenOf(seen[d], j, l)
      BY <2>4 DEF FsInv, SeenIsMinted
    <3>2. j = i /\ l = life[i]
      BY <2>3, <3>1 DEF TokenOf
    <3> QED BY <3>1, <3>2
  <2>6. Presented(c).by = Mount(i)
    BY <2>2, <2>5 DEF TokenOf, Mount
  <2>7. ASSUME OneWriter(i), fop[c].to = at, fop'[c].pc = "stamp", FsNext
        PROVE  tree[at].bytes = Presented(c).bytes
    <3>1. at \in Paths
      <4>1. at # Root
        BY <2>7, OnlyItsRename
      <4> QED BY <4>1, <2>7 DEF FsInv, Pending, Aims
    <3>2. \A e \in FsCallers : fop[e].pc # "stamp"
      BY DEF FsInv, FsAlone
    <3>3. PICK m \in mints : m.token = Stamp(i, versions[i][at]) /\ tree[at].bytes = m.bytes
      BY <2>1, <2>3, <2>7, <3>1, <3>2 DEF FsInv, VersionsName, NamesBytes
    <3>4. PICK k \in mints : k.token = seen[d].token /\ k.bytes = seen[d].bytes
      BY <2>5, <2>7 DEF TokenOf
    <3>5. k = m
      BY <2>1, <2>2, <3>3, <3>4 DEF FsInv, MintsApart
    <3> QED BY <2>2, <3>3, <3>4, <3>5
  <2> QED BY <2>6, <2>7
<1> QED BY <1>1, FsInitInv, FsStepKeeps, PTL DEF FsSpec, GuardedReplacesSeen

----------------------------------------------------------------------------
(* STORAGE.  Every acknowledged operation is replayed.                     *)

StoreSpec == StoreInit /\ [][StoreNext]_storeVars

Segments == [kind : {"set", "del", "end", "torn"}, key : Keys \cup {NoHolder}, value : Nat]
Entries  == [kind : {"set", "del"}, key : Keys, value : Nat]
Lives    == [Keys -> Nat]

(* The folds of a replay and of a snapshot.                                *)
LineFold   == INSTANCE FoldFacts WITH Op <- ReadSegment
ReplayFold == INSTANCE FoldFacts WITH Op <- ApplyEntry
TextFold   == INSTANCE FoldFacts WITH Op <- PushLine

Replayed(lines) == FoldLeft(ApplyEntry, NothingLive, lines)
Pushed(es)      == FoldLeft(PushLine, <<>>, es)

LEMMA LineFoldIs == ASSUME NEW f PROVE LineFold!Folded(<< <<>> >>, f) = Lines(f)
BY DEF LineFold!Folded, LineFold!FoldLeft, LineFold!MapThenFoldSet, LineFold!Max,
       FoldLeft, MapThenFoldSet, Max, Lines

LEMMA ReplayFoldIs == ASSUME NEW f PROVE ReplayFold!Folded(NothingLive, f) = Replayed(f)
BY DEF ReplayFold!Folded, ReplayFold!FoldLeft, ReplayFold!MapThenFoldSet, ReplayFold!Max,
       FoldLeft, MapThenFoldSet, Max, Replayed

LEMMA TextFoldIs == ASSUME NEW f PROVE TextFold!Folded(<<>>, f) = Pushed(f)
BY DEF TextFold!Folded, TextFold!FoldLeft, TextFold!MapThenFoldSet, TextFold!Max,
       FoldLeft, MapThenFoldSet, Max, Pushed

(* The lines of a file are one at least.                                   *)
SomeLines == Seq(Seq(Segments)) \ { << >> }

LEMMA LinesTyped == \A f \in Seq(Segments) : Lines(f) \in SomeLines
<1>1. << <<>> >> \in SomeLines
  <2>1. << >> \in Seq(Segments)
    OBVIOUS
  <2>2. << <<>> >> \in Seq(Seq(Segments)) /\ << <<>> >> # << >>
    BY <2>1
  <2> QED BY <2>2 DEF SomeLines
<1>2. ASSUME NEW ls \in SomeLines, NEW s \in Segments PROVE ReadSegment(ls, s) \in SomeLines
  <2>1. CASE s = LineEnd
    BY <2>1 DEF ReadSegment, SomeLines
  <2>2. CASE s # LineEnd
    <3>1. ls \in Seq(Seq(Segments)) /\ ls # << >> /\ Len(ls) \in 1..Len(ls)
      BY EmptySeq DEF SomeLines
    <3>2. Append(ls[Len(ls)], s) \in Seq(Segments)
      BY <3>1
    <3>3. [ls EXCEPT ![Len(ls)] = Append(@, s)] \in Seq(Seq(Segments))
      BY <3>1, <3>2
    <3>4. Len([ls EXCEPT ![Len(ls)] = Append(@, s)]) = Len(ls)
      BY <3>1
    <3> QED BY <2>2, <3>1, <3>3, <3>4 DEF ReadSegment, SomeLines
  <2> QED BY <2>1, <2>2
<1> HIDE DEF SomeLines
<1>3. \A f \in Seq(Segments) : LineFold!Folded(<< <<>> >>, f) \in SomeLines
  BY <1>1, <1>2, LineFold!FoldStaysIn
<1> QED BY <1>3, LineFoldIs

LEMMA LinesOfAppend ==
  ASSUME NEW f \in Seq(Segments), NEW s
  PROVE  Lines(Append(f, s)) = ReadSegment(Lines(f), s)
BY LineFold!FoldOfAppend, LineFoldIs

LEMMA ReplayOfAppend ==
  ASSUME NEW lines \in Seq(Seq(Segments)), NEW line
  PROVE  Replayed(Append(lines, line)) = ApplyEntry(Replayed(lines), line)
BY ReplayFold!FoldOfAppend, ReplayFoldIs

LEMMA PushedOfAppend ==
  ASSUME NEW S, NEW es \in Seq(S), NEW e
  PROVE  Pushed(Append(es, e)) = Pushed(es) \o <<e, LineEnd>>
<1>1. Pushed(Append(es, e)) = PushLine(Pushed(es), e)
  BY TextFold!FoldOfAppend, TextFoldIs
<1> QED BY <1>1 DEF PushLine

LEMMA FoldsOfEmpty == Lines(<< >>) = << <<>> >> /\ Replayed(<< >>) = NothingLive /\ Pushed(<< >>) = << >>
BY LineFold!FoldOfEmpty, LineFoldIs, ReplayFold!FoldOfEmpty, ReplayFoldIs,
   TextFold!FoldOfEmpty, TextFoldIs

(* A replay is a map of the keys.                                          *)
LEMMA ReplayTyped == \A f \in Seq(Segments) : Replay(f) \in Lives
<1>1. NothingLive \in Lives
  BY DEF NothingLive, Lives, NoValue
<1>2. ASSUME NEW live \in Lives, NEW line \in Seq(Segments) PROVE ApplyEntry(live, line) \in Lives
  <2>1. CASE line = << >>
    BY <2>1 DEF ApplyEntry
  <2>2. CASE line # << >>
    <3>1. line[1] \in Segments
      BY <2>2, EmptySeq
    <3>2. line[1].value \in Nat /\ NoValue \in Nat
      BY <3>1 DEF Segments, NoValue
    <3> QED BY <2>2, <3>2 DEF ApplyEntry, Lives
  <2> QED BY <2>1, <2>2
<1>3. \A lines \in Seq(Seq(Segments)) : ReplayFold!Folded(NothingLive, lines) \in Lives
  <2> DEFINE S == Seq(Segments)
  <2>1. \A live \in Lives, line \in S : ApplyEntry(live, line) \in Lives
    BY <1>2
  <2> HIDE DEF S, Lives
  <2>2. \A lines \in Seq(S) : ReplayFold!Folded(NothingLive, lines) \in Lives
    BY <1>1, <2>1, ReplayFold!FoldStaysIn
  <2> QED BY <2>2 DEF S
<1> QED BY <1>3, LinesTyped, ReplayFoldIs DEF SomeLines, Replay, Replayed

(* A file that reads, holds what is live, and ends with a line end; and    *)
(* one in whose last line an entry was just written.                       *)
Whole(f, live) ==
  Readable(f) /\ Replay(f) = live /\ Lines(f)[Len(Lines(f))] = << >>
Written(f, e, live) ==
  /\ Readable(f) /\ Replay(f) = ApplyEntry(live, <<e>>)
  /\ Lines(f)[Len(Lines(f))] = <<e>>

LEMMA ApplyTyped ==
  ASSUME NEW live \in Lives, NEW e \in Entries
  PROVE  ApplyEntry(live, <<e>>) \in Lives
<1>1. e.key \in Keys /\ e.value \in Nat /\ NoValue \in Nat
  BY DEF Entries, NoValue
<1>2. <<e>> # << >> /\ <<e>>[1] = e
  OBVIOUS
<1> QED BY <1>1, <1>2 DEF ApplyEntry, Lives

LEMMA EntriesAreSegments ==
  ASSUME NEW e \in Entries
  PROVE  e \in Segments /\ e # LineEnd /\ e # Torn
BY DEF Entries, Segments, LineEnd, Torn

LEMMA MarksAreSegments == LineEnd \in Segments /\ Torn \in Segments /\ Torn # LineEnd
BY DEF Segments, LineEnd, Torn

LEMMA EmptyIsWhole == Whole(<< >>, NothingLive)
<1>1. Lines(<< >>) = Append(<< >>, << >>)
  BY FoldsOfEmpty
<1>2. << >> \in Seq(Seq(Segments))
  OBVIOUS
<1>3. Replayed(Lines(<< >>)) = ApplyEntry(NothingLive, << >>)
  BY <1>1, <1>2, ReplayOfAppend, FoldsOfEmpty
<1>4. ApplyEntry(NothingLive, << >>) = NothingLive
  BY DEF ApplyEntry
<1>5. Readable(<< >>)
  BY FoldsOfEmpty DEF Readable, Reads
<1>6. Replay(<< >>) = NothingLive
  BY <1>3, <1>4 DEF Replay, Replayed
<1>7. Lines(<< >>)[Len(Lines(<< >>))] = << >>
  BY FoldsOfEmpty
<1> QED BY <1>5, <1>6, <1>7 DEF Whole

(* The lines but for the last one, and the last one.                       *)
LEMMA LinesSplit ==
  ASSUME NEW f \in Seq(Segments)
  PROVE  /\ SubSeq(Lines(f), 1, Len(Lines(f)) - 1) \in Seq(Seq(Segments))
         /\ Len(Lines(f)) \in Nat \ {0}
         /\ Lines(f) = Append(SubSeq(Lines(f), 1, Len(Lines(f)) - 1), Lines(f)[Len(Lines(f))])
<1>1. Lines(f) \in Seq(Seq(Segments)) /\ Lines(f) # << >>
  BY LinesTyped DEF SomeLines
<1> DEFINE ls == Lines(f)
<1> HIDE DEF ls
<1>2. ls \in Seq(Seq(Segments)) /\ ls # << >>
  BY <1>1 DEF ls
<1>3. Len(ls) \in Nat \ {0}
  BY <1>2, EmptySeq
<1>4. SubSeq(ls, 1, Len(ls) - 1) \in Seq(Seq(Segments))
  BY <1>2, <1>3
<1>5. ls = Append(SubSeq(ls, 1, Len(ls) - 1), ls[Len(ls)])
  BY <1>2, <1>3
<1> QED BY <1>3, <1>4, <1>5 DEF ls

LEMMA LastChanged ==
  ASSUME NEW T, NEW p \in Seq(T), NEW q \in Seq(T), NEW y \in T, NEW n,
         Len(q) = Len(p) + 1, n = Len(q), \A i \in 1..Len(p) : q[i] = p[i]
  PROVE  [q EXCEPT ![n] = y] = Append(p, y)
<1> DEFINE a == [q EXCEPT ![n] = y]
           b == Append(p, y)
<1>1. a \in Seq(T) /\ b \in Seq(T) /\ Len(a) = Len(p) + 1 /\ Len(b) = Len(p) + 1
  OBVIOUS
<1>2. ASSUME NEW i \in 1..Len(a) PROVE a[i] = b[i]
  <2>1. i \in 1..(Len(p) + 1)
    BY <1>1
  <2>2. CASE i = n
    BY <2>1, <2>2
  <2>3. CASE i # n
    <3>1. i \in 1..Len(p) /\ i \in 1..Len(q)
      BY <2>1, <2>3
    <3>2. a[i] = q[i] /\ b[i] = p[i]
      BY <2>3, <3>1
    <3> QED BY <3>1, <3>2
  <2> QED BY <2>2, <2>3
<1> HIDE DEF a, b
<1>3. a = b
  BY <1>1, <1>2, SeqEqual
<1> QED BY <1>3 DEF a, b

LEMMA EntryIsWritten ==
  ASSUME NEW f \in Seq(Segments), NEW live, Whole(f, live), NEW e \in Entries
  PROVE  Written(Append(f, e), e, live)
<1> DEFINE ls == Lines(f)
           n  == Len(ls)
           p  == SubSeq(ls, 1, n - 1)
           ms == Lines(Append(f, e))
<1>1. /\ p \in Seq(Seq(Segments)) /\ n \in Nat \ {0} /\ ls = Append(p, << >>)
      /\ ls \in Seq(Seq(Segments))
  BY LinesSplit, LinesTyped DEF Whole, SomeLines
<1>2. ms = [ls EXCEPT ![n] = Append(@, e)]
  BY LinesOfAppend, EntriesAreSegments DEF ReadSegment
<1>3. Replayed(ls) = live /\ ls[n] = << >> /\ \A i \in DOMAIN ls : Reads(ls[i])
  BY DEF Whole, Replay, Replayed, Readable
<1> HIDE DEF ls, n, p, ms
<1>4. n = Len(ls) /\ Len(p) = n - 1
  BY <1>1 DEF n, p
<1>5. ms = Append(p, <<e>>)
  <2>1. ms = [ls EXCEPT ![n] = <<e>>]
    BY <1>2, <1>3
  <2>2. <<e>> \in Seq(Segments) /\ << >> \in Seq(Segments)
    BY EntriesAreSegments
  <2>3. [ls EXCEPT ![n] = <<e>>] = Append(p, <<e>>)
    <3> DEFINE T == Seq(Segments)
    <3>1. Len(ls) = Len(p) + 1 /\ \A i \in 1..Len(p) : ls[i] = p[i]
      BY <1>1
    <3> HIDE DEF T
    <3>2. p \in Seq(T) /\ ls \in Seq(T) /\ <<e>> \in T
      BY <1>1, <2>2 DEF T
    <3> QED BY <3>1, <3>2, <1>4, LastChanged
  <2> QED BY <2>1, <2>3
<1>6. Replayed(p) = live
  <2>1. Replayed(ls) = ApplyEntry(Replayed(p), << >>)
    BY <1>1, ReplayOfAppend
  <2> QED BY <2>1, <1>3 DEF ApplyEntry
<1>7. Replayed(ms) = ApplyEntry(live, <<e>>)
  BY <1>1, <1>5, <1>6, ReplayOfAppend
<1>8. \A i \in DOMAIN ms : Reads(ms[i])
  <2> SUFFICES ASSUME NEW i \in DOMAIN ms PROVE Reads(ms[i])
    OBVIOUS
  <2>1. i \in 1..n /\ ms[i] = IF i = n THEN <<e>> ELSE ls[i]
    BY <1>1, <1>4, <1>5
  <2>2. Reads(<<e>>)
    BY EntriesAreSegments DEF Reads
  <2>3. i \in DOMAIN ls
    BY <2>1, <1>1, <1>4
  <2> QED BY <2>1, <2>2, <2>3, <1>3
<1>9. ms[Len(ms)] = <<e>>
  BY <1>1, <1>5
<1> QED BY <1>7, <1>8, <1>9 DEF Written, Replay, Replayed, Readable, ms

LEMMA LineIsEnded ==
  ASSUME NEW f \in Seq(Segments), NEW live, NEW e \in Entries, Written(f, e, live)
  PROVE  Whole(Append(f, LineEnd), ApplyEntry(live, <<e>>))
<1> DEFINE ls == Lines(f)
           ms == Lines(Append(f, LineEnd))
<1>1. ls \in Seq(Seq(Segments)) /\ ms = Append(ls, << >>)
  BY LinesTyped, LinesOfAppend DEF SomeLines, ReadSegment
<1>2. Replayed(ls) = ApplyEntry(live, <<e>>) /\ \A i \in DOMAIN ls : Reads(ls[i])
  BY DEF Written, Replay, Replayed, Readable
<1> HIDE DEF ls, ms
<1>3. Replayed(ms) = ApplyEntry(live, <<e>>)
  <2>1. Replayed(ms) = ApplyEntry(Replayed(ls), << >>)
    BY <1>1, ReplayOfAppend
  <2> QED BY <2>1, <1>2 DEF ApplyEntry
<1>4. \A i \in DOMAIN ms : Reads(ms[i])
  <2> SUFFICES ASSUME NEW i \in DOMAIN ms PROVE Reads(ms[i])
    OBVIOUS
  <2>1. \/ i \in DOMAIN ls /\ ms[i] = ls[i]
        \/ ms[i] = << >>
    BY <1>1
  <2> QED BY <2>1, <1>2 DEF Reads
<1>5. ms[Len(ms)] = << >>
  BY <1>1
<1> QED BY <1>3, <1>4, <1>5 DEF Whole, Replay, Replayed, Readable, ms

(* SetToSeq lists a finite set.                                            *)
LEMMA SetToSeqLists ==
  ASSUME NEW S, IsFiniteSet(S)
  PROVE  /\ SetToSeq(S) \in Seq(S)
         /\ \A x \in S : \E i \in DOMAIN SetToSeq(S) : SetToSeq(S)[i] = x
<1> DEFINE n == Cardinality(S)
           f == SetToSeq(S)
<1>1. n \in Nat /\ ExistsBijection(1..n, S)
  BY FS_CardinalityType
<1>2. PICK g : g \in Bijection(1..n, S)
  BY <1>1 DEF ExistsBijection
<1>3. g \in [1..n -> S] /\ IsInjective(g)
  BY <1>2 DEF Bijection, Injection, IsInjective
<1>4. f \in [1..n -> S] /\ IsInjective(f)
  BY <1>3 DEF SetToSeq
<1> HIDE DEF f
<1>5. f \in Injection(1..n, S)
  BY <1>4 DEF Injection, IsInjective
<1>6. IsFiniteSet(1..n) /\ Cardinality(1..n) = n
  BY <1>1, FS_Interval
<1>7. f \in Surjection(1..n, S)
  BY <1>5, <1>6, FS_Injection
<1>8. f \in Seq(S) /\ DOMAIN f = 1..n
  BY <1>1, <1>4
<1> QED BY <1>7, <1>8 DEF Surjection, f

LEMMA SnapshotIsWhole ==
  ASSUME NEW live \in Lives
  PROVE  Snapshot(live) \in Seq(Segments) /\ Whole(Snapshot(live), live)
<1> DEFINE E == { e \in Entries : e.kind = "set" /\ e.value = live[e.key] }
           Told(es) == [k \in Keys |-> IF \E i \in DOMAIN es : es[i].key = k THEN live[k] ELSE NoValue]
           T == { es \in Seq(E) : Pushed(es) \in Seq(Segments) /\ Whole(Pushed(es), Told(es)) }
<1>1. << >> \in T
  <2>1. Told(<< >>) = NothingLive
    BY DEF NothingLive
  <2>2. << >> \in Seq(E) /\ << >> \in Seq(Segments)
    OBVIOUS
  <2> QED BY <2>1, <2>2, FoldsOfEmpty, EmptyIsWhole
<1>2. ASSUME NEW es \in Seq(E), NEW e \in E, es \in T PROVE Append(es, e) \in T
  <2> DEFINE f == Pushed(es)
             g == Append(f, e)
             o == Told(es)
  <2>1. f \in Seq(Segments) /\ Whole(f, o) /\ e \in Entries
    BY <1>2
  <2>2. Written(g, e, o)
    BY <2>1, EntryIsWritten
  <2>3. g \in Seq(Segments)
    BY <2>1, EntriesAreSegments
  <2>4. Whole(Append(g, LineEnd), ApplyEntry(o, <<e>>))
    BY <2>1, <2>2, <2>3, LineIsEnded
  <2>5. ApplyEntry(o, <<e>>) = Told(Append(es, e))
    <3>1. e.key \in Keys /\ e.kind = "set" /\ e.value = live[e.key]
      BY DEF Entries
    <3>2. <<e>> # << >> /\ <<e>>[1] = e
      OBVIOUS
    <3>3. ApplyEntry(o, <<e>>) = [o EXCEPT ![e.key] = live[e.key]]
      BY <3>1, <3>2 DEF ApplyEntry
    <3>4. ASSUME NEW k \in Keys
          PROVE  (\E i \in DOMAIN Append(es, e) : Append(es, e)[i].key = k)
                   <=> (\E i \in DOMAIN es : es[i].key = k) \/ e.key = k
      <4>1. DOMAIN Append(es, e) = DOMAIN es \cup {Len(es) + 1} /\ Append(es, e)[Len(es) + 1] = e
        OBVIOUS
      <4>2. \A i \in DOMAIN es : Append(es, e)[i] = es[i]
        OBVIOUS
      <4> QED BY <4>1, <4>2
    <3> QED BY <3>1, <3>3, <3>4
  <2>6. Pushed(Append(es, e)) = Append(g, LineEnd)
    <3>1. Pushed(Append(es, e)) = f \o <<e, LineEnd>>
      BY PushedOfAppend
    <3>2. e \in Segments /\ LineEnd \in Segments
      BY <2>1, EntriesAreSegments, MarksAreSegments
    <3> HIDE DEF f
    <3>3. f \o <<e, LineEnd>> = Append(Append(f, e), LineEnd)
      BY <2>1, <3>2
    <3> QED BY <3>1, <3>3
  <2>7. Append(g, LineEnd) \in Seq(Segments)
    BY <2>3, MarksAreSegments
  <2>8. Append(es, e) \in Seq(E)
    OBVIOUS
  <2> HIDE DEF E, Told, f, g, o
  <2> QED BY <2>4, <2>5, <2>6, <2>7, <2>8
<1> DEFINE K == { k \in Keys : live[k] # NoValue }
           keys == SetToSeq(K)
           es == [i \in DOMAIN keys |-> [kind |-> "set", key |-> keys[i], value |-> live[keys[i]]]]
<1>3. keys \in Seq(K) /\ \A k \in K : \E i \in DOMAIN keys : keys[i] = k
  <2>1. IsFiniteSet(K)
    BY StoreAssumption, FS_Subset
  <2> HIDE DEF K
  <2> QED BY <2>1, SetToSeqLists
<1>4. es \in Seq(E)
  <2>1. \A i \in DOMAIN keys : keys[i] \in K
    BY <1>3
  <2> HIDE DEF keys
  <2>2. \A i \in DOMAIN keys : es[i] \in E
    BY <2>1 DEF Entries, Lives
  <2>3. DOMAIN keys = 1..Len(keys) /\ Len(keys) \in Nat
    BY <1>3
  <2> QED BY <2>2, <2>3
<1>5. Told(es) = live
  <2>1. \A i \in DOMAIN keys : keys[i] \in K
    BY <1>3
  <2>2. ASSUME NEW k \in Keys PROVE (\E i \in DOMAIN es : es[i].key = k) <=> live[k] # NoValue
    <3> HIDE DEF keys
    <3> QED BY <1>3, <2>1
  <2> HIDE DEF es
  <2>3. live = [k \in Keys |-> live[k]]
    BY DEF Lives
  <2> QED BY <2>2, <2>3
<1>6. Snapshot(live) = Pushed(es)
  BY DEF Snapshot, Pushed
<1>7. Seq(E) \subseteq T
  <2> HIDE DEF E, T
  <2> QED BY <1>1, <1>2, LineFold!SequenceInduction
<1> HIDE DEF E, es
<1> QED BY <1>4, <1>5, <1>6, <1>7

----------------------------------------------------------------------------
(* The inductive invariant: a thread that is under way holds its hub's     *)
(* lock, and with one hub it alone knows how the file and what was         *)
(* acknowledged differ.                                                    *)

ThreadStates == [pc : {"idle", "text", "end", "snapshot", "tail", "rename"},
                 entry : Entries \cup {LineEnd}, snapshot : Seq(Segments),
                 tail : Seq(Segments), before : Nat]

StoreTypeOK ==
  /\ log \in Seq(Segments) /\ acked \in Lives /\ entries \in Nat
  /\ thread \in [StoreCallers -> ThreadStates]
  /\ \A c \in StoreCallers : thread[c].pc \in {"text", "end"} => thread[c].entry \in Entries
  /\ writerLock \in [Hubs -> StoreCallers \cup {NoHolder}]

WriterHolds == \A c \in StoreCallers : thread[c].pc # "idle" => writerLock[Hub[c]] = c

LogIsKept ==
  /\ (\A c \in StoreCallers : thread[c].pc # "end") => Whole(log, acked)
  /\ \A c \in StoreCallers :
       /\ thread[c].pc = "end" => Written(log, thread[c].entry, acked)
       /\ thread[c].pc \in {"snapshot", "tail", "rename"} => thread[c].before = Len(log)
       /\ thread[c].pc \in {"tail", "rename"} => Whole(thread[c].snapshot, acked)
       /\ thread[c].pc = "rename" => thread[c].tail = << >>

StoreInv ==
  /\ StoreTypeOK /\ WriterHolds
  /\ OneHub /\ storeFaults = {} => LogIsKept

LEMMA StoreInitInv == StoreInit => StoreInv
<1> SUFFICES ASSUME StoreInit PROVE StoreInv
  OBVIOUS
<1>1. PICK faults \in StoreFaultSets : StoreFrom(faults)
  BY DEF StoreInit
<1>2. Idle \in ThreadStates /\ Idle.pc = "idle"
  <2>1. << >> \in Seq(Segments)
    OBVIOUS
  <2> QED BY <2>1 DEF Idle, ThreadStates
<1>3. StoreTypeOK
  <2>1. << >> \in Seq(Segments)
    OBVIOUS
  <2>2. acked \in Lives /\ entries \in Nat
    BY <1>1 DEF StoreFrom, Lives, NoValue
  <2>3. thread \in [StoreCallers -> ThreadStates] /\ \A c \in StoreCallers : thread[c].pc = "idle"
    BY <1>1, <1>2 DEF StoreFrom
  <2>4. writerLock \in [Hubs -> StoreCallers \cup {NoHolder}]
    BY <1>1 DEF StoreFrom
  <2> QED BY <1>1, <2>1, <2>2, <2>3, <2>4 DEF StoreTypeOK, StoreFrom
<1>4. WriterHolds /\ LogIsKept
  BY <1>1, <1>2, EmptyIsWhole DEF StoreFrom, WriterHolds, LogIsKept, NothingLive
<1> QED BY <1>3, <1>4 DEF StoreInv

(* With one hub a thread under way is alone.                               *)
LEMMA WriterIsAlone ==
  ASSUME StoreTypeOK, WriterHolds, OneHub, NEW c \in StoreCallers, thread[c].pc # "idle"
  PROVE  \A d \in StoreCallers : d # c => thread[d].pc = "idle"
BY DEF WriterHolds, OneHub

(* Nobody is under way while the lock of the one hub is free.              *)
LEMMA FreeIsQuiet ==
  ASSUME StoreTypeOK, WriterHolds, OneHub, NEW c \in StoreCallers, writerLock[Hub[c]] = NoHolder
  PROVE  \A d \in StoreCallers : thread[d].pc = "idle"
BY StoreAssumption DEF WriterHolds, OneHub

LEMMA HubOfCaller == \A c \in StoreCallers : Hub[c] \in Hubs
BY DEF Hubs

LEMMA EntryOf ==
  ASSUME NEW c \in StoreCallers, StoreTypeOK, NEW kind \in {"set", "del"}, NEW k \in Keys
  PROVE  [kind |-> kind, key |-> k, value |-> entries + 1] \in Entries
BY DEF StoreTypeOK, Entries

(* One thread moves to t: what is left to show of each part.               *)
LEMMA MoveIsTyped ==
  ASSUME StoreTypeOK, NEW c \in StoreCallers, NEW t \in ThreadStates,
         t.pc \in {"text", "end"} => t.entry \in Entries,
         thread' = [thread EXCEPT ![c] = t], log' \in Seq(Segments), acked' \in Lives,
         entries' \in Nat, writerLock' \in [Hubs -> StoreCallers \cup {NoHolder}]
  PROVE  StoreTypeOK'
<1>1. thread \in [StoreCallers -> ThreadStates]
  BY DEF StoreTypeOK
<1>2. thread' \in [StoreCallers -> ThreadStates]
  BY <1>1
<1>3. ASSUME NEW d \in StoreCallers, thread'[d].pc \in {"text", "end"} PROVE thread'[d].entry \in Entries
  <2>1. CASE d = c
    BY <1>1, <1>3, <2>1
  <2>2. CASE d # c
    BY <1>1, <1>3, <2>2 DEF StoreTypeOK
  <2> QED BY <2>1, <2>2
<1> QED BY <1>2, <1>3 DEF StoreTypeOK

LEMMA WriterEnters ==
  ASSUME StoreTypeOK, WriterHolds, NEW c \in StoreCallers, NEW t, writerLock[Hub[c]] = NoHolder,
         thread' = [thread EXCEPT ![c] = t], writerLock' = [writerLock EXCEPT ![Hub[c]] = c]
  PROVE  WriterHolds' /\ writerLock' \in [Hubs -> StoreCallers \cup {NoHolder}]
<1>1. writerLock' \in [Hubs -> StoreCallers \cup {NoHolder}]
  BY HubOfCaller DEF StoreTypeOK
<1>2. ASSUME NEW d \in StoreCallers, thread'[d].pc # "idle" PROVE writerLock'[Hub[d]] = d
  <2>1. CASE d = c
    BY <2>1, HubOfCaller DEF StoreTypeOK
  <2>2. CASE d # c
    BY <1>2, <2>2, HubOfCaller, StoreAssumption DEF StoreTypeOK, WriterHolds
  <2> QED BY <2>1, <2>2
<1> QED BY <1>1, <1>2 DEF WriterHolds

LEMMA WriterGoesOn ==
  ASSUME StoreTypeOK, WriterHolds, NEW c \in StoreCallers, NEW t, thread[c].pc # "idle",
         thread' = [thread EXCEPT ![c] = t], writerLock' = writerLock
  PROVE  WriterHolds'
BY DEF StoreTypeOK, WriterHolds

LEMMA WriterLeaves ==
  ASSUME StoreTypeOK, WriterHolds, NEW c \in StoreCallers, NEW t, thread[c].pc # "idle", t.pc = "idle",
         thread' = [thread EXCEPT ![c] = t], writerLock' = [writerLock EXCEPT ![Hub[c]] = NoHolder]
  PROVE  WriterHolds' /\ writerLock' \in [Hubs -> StoreCallers \cup {NoHolder}]
<1>1. writerLock' \in [Hubs -> StoreCallers \cup {NoHolder}]
  BY HubOfCaller DEF StoreTypeOK
<1>2. ASSUME NEW d \in StoreCallers, thread'[d].pc # "idle" PROVE writerLock'[Hub[d]] = d
  <2>1. d # c /\ thread[d].pc # "idle"
    BY <1>2 DEF StoreTypeOK
  <2>2. Hub[d] # Hub[c]
    BY <2>1 DEF WriterHolds
  <2> QED BY <2>1, <2>2, HubOfCaller DEF StoreTypeOK, WriterHolds
<1> QED BY <1>1, <1>2 DEF WriterHolds

LEMMA UnlockFrees ==
  ASSUME StoreTypeOK, WriterHolds, NEW c \in StoreCallers, thread[c].pc # "idle", Unlock(c)
  PROVE  writerLock' = [writerLock EXCEPT ![Hub[c]] = NoHolder]
BY HubOfCaller DEF StoreTypeOK, WriterHolds, Unlock

(* What c may leave behind, all others idle.                               *)
Leaves(t, f, live) ==
  /\ t.pc # "end" => Whole(f, live)
  /\ t.pc = "end" => Written(f, t.entry, live)
  /\ t.pc \in {"snapshot", "tail", "rename"} => t.before = Len(f)
  /\ t.pc \in {"tail", "rename"} => Whole(t.snapshot, live)
  /\ t.pc = "rename" => t.tail = << >>

LEMMA LoneMoveKeeps ==
  ASSUME StoreTypeOK, NEW c \in StoreCallers, NEW t, \A d \in StoreCallers : d # c => thread[d].pc = "idle",
         thread' = [thread EXCEPT ![c] = t], Leaves(t, log', acked')
  PROVE  LogIsKept'
<1>1. thread'[c] = t /\ \A d \in StoreCallers : d # c => thread'[d].pc = "idle"
  BY DEF StoreTypeOK
<1>2. (\A d \in StoreCallers : thread'[d].pc # "end") => Whole(log', acked')
  BY <1>1 DEF Leaves
<1>3. ASSUME NEW d \in StoreCallers
      PROVE  /\ thread'[d].pc = "end" => Written(log', thread'[d].entry, acked')
             /\ thread'[d].pc \in {"snapshot", "tail", "rename"} => thread'[d].before = Len(log')
             /\ thread'[d].pc \in {"tail", "rename"} => Whole(thread'[d].snapshot, acked')
             /\ thread'[d].pc = "rename" => thread'[d].tail = << >>
  <2>1. CASE d = c
    BY <2>1, <1>1 DEF Leaves
  <2>2. CASE d # c
    BY <2>2, <1>1
  <2> QED BY <2>1, <2>2
<1> QED BY <1>2, <1>3 DEF LogIsKept

(* What c finds when it goes on.                                           *)
LEMMA LoneFinds ==
  ASSUME StoreInv, OneHub, storeFaults = {}, NEW c \in StoreCallers, thread[c].pc # "idle"
  PROVE  (\A d \in StoreCallers : d # c => thread[d].pc = "idle") /\ Leaves(thread[c], log, acked)
<1>1. \A d \in StoreCallers : d # c => thread[d].pc = "idle"
  BY WriterIsAlone DEF StoreInv
<1>2. LogIsKept
  BY DEF StoreInv
<1>3. thread[c].pc # "end" => \A d \in StoreCallers : thread[d].pc # "end"
  BY <1>1
<1> QED BY <1>1, <1>2, <1>3 DEF LogIsKept, Leaves

LEMMA AppendCallKeeps ==
  ASSUME StoreInv, NEW c \in StoreCallers, NEW kind \in {"set", "del"}, NEW k \in Keys, AppendCall(c, kind, k)
  PROVE  StoreInv'
<1> DEFINE e == [kind |-> kind, key |-> k, value |-> entries + 1]
           t == [Idle EXCEPT !.pc = "text", !.entry = e]
<1>1. e \in Entries
  BY EntryOf DEF StoreInv
<1>2. t \in ThreadStates /\ t.pc = "text" /\ t.entry = e
  <2>1. << >> \in Seq(Segments)
    OBVIOUS
  <2> HIDE DEF e
  <2> QED BY <1>1, <2>1 DEF Idle, ThreadStates
<1>3. /\ thread' = [thread EXCEPT ![c] = t] /\ entries' = entries + 1
      /\ writerLock' = [writerLock EXCEPT ![Hub[c]] = c] /\ writerLock[Hub[c]] = NoHolder
      /\ UNCHANGED <<storeFaults, log, acked>>
  BY DEF AppendCall
<1> HIDE DEF e, t
<1>4. StoreTypeOK /\ WriterHolds
  BY DEF StoreInv
<1>5. WriterHolds' /\ writerLock' \in [Hubs -> StoreCallers \cup {NoHolder}]
  BY <1>3, <1>4, WriterEnters
<1>6. StoreTypeOK'
  <2>1. log' \in Seq(Segments) /\ acked' \in Lives /\ entries' \in Nat
    BY <1>3, <1>4 DEF StoreTypeOK
  <2> QED BY <1>1, <1>2, <1>3, <1>4, <1>5, <2>1, MoveIsTyped
<1>7. ASSUME OneHub, storeFaults' = {} PROVE LogIsKept'
  <2>1. LogIsKept /\ \A d \in StoreCallers : thread[d].pc = "idle"
    BY <1>3, <1>4, <1>7, FreeIsQuiet DEF StoreInv
  <2>2. Leaves(t, log', acked')
    BY <2>1, <1>2, <1>3 DEF LogIsKept, Leaves
  <2> QED BY <2>1, <2>2, <1>3, <1>4, LoneMoveKeeps
<1> QED BY <1>5, <1>6, <1>7 DEF StoreInv, OneHub

LEMMA WriteTextKeeps == ASSUME StoreInv, NEW c \in StoreCallers, WriteText(c) PROVE StoreInv'
<1> DEFINE t == [thread[c] EXCEPT !.pc = "end"]
           e == thread[c].entry
<1>1. StoreTypeOK /\ WriterHolds /\ thread[c].pc = "text" /\ thread[c] \in ThreadStates /\ e \in Entries
  BY DEF StoreInv, StoreTypeOK, WriteText
<1>2. t \in ThreadStates /\ t.pc = "end" /\ t.entry = e
  BY <1>1 DEF ThreadStates
<1>3. /\ thread' = [thread EXCEPT ![c] = t] /\ log' = Append(log, e)
      /\ UNCHANGED <<storeFaults, writerLock, entries, acked>>
  BY DEF WriteText, To
<1> HIDE DEF t, e
<1>4. WriterHolds'
  BY <1>1, <1>3, WriterGoesOn
<1>5. StoreTypeOK'
  <2>1. /\ log' \in Seq(Segments) /\ acked' \in Lives /\ entries' \in Nat
        /\ writerLock' \in [Hubs -> StoreCallers \cup {NoHolder}]
    BY <1>1, <1>3, EntriesAreSegments DEF StoreTypeOK
  <2> QED BY <1>1, <1>2, <1>3, <2>1, MoveIsTyped
<1>6. ASSUME OneHub, storeFaults' = {} PROVE LogIsKept'
  <2>1. (\A d \in StoreCallers : d # c => thread[d].pc = "idle") /\ Leaves(thread[c], log, acked)
    BY <1>1, <1>3, <1>6, LoneFinds
  <2>2. Written(log', e, acked')
    BY <1>1, <1>3, <2>1, EntryIsWritten DEF Leaves, StoreTypeOK
  <2>3. Leaves(t, log', acked')
    BY <2>2, <1>2 DEF Leaves
  <2> QED BY <2>1, <2>3, <1>1, <1>3, LoneMoveKeeps
<1> QED BY <1>4, <1>5, <1>6 DEF StoreInv, OneHub

LEMMA WriteEndKeeps == ASSUME StoreInv, NEW c \in StoreCallers, WriteEnd(c) PROVE StoreInv'
<1> DEFINE t == [thread[c] EXCEPT !.pc = "idle"]
           e == thread[c].entry
<1>1. StoreTypeOK /\ WriterHolds /\ thread[c].pc = "end" /\ thread[c] \in ThreadStates /\ e \in Entries
  BY DEF StoreInv, StoreTypeOK, WriteEnd
<1>2. t \in ThreadStates /\ t.pc = "idle"
  BY <1>1 DEF ThreadStates
<1>3. /\ thread' = [thread EXCEPT ![c] = t] /\ log' = Append(log, LineEnd)
      /\ writerLock' = [writerLock EXCEPT ![Hub[c]] = NoHolder] /\ acked' = ApplyEntry(acked, <<e>>)
      /\ UNCHANGED <<storeFaults, entries>>
  BY DEF WriteEnd, To
<1> HIDE DEF t, e
<1>4. WriterHolds' /\ writerLock' \in [Hubs -> StoreCallers \cup {NoHolder}]
  BY <1>1, <1>2, <1>3, WriterLeaves
<1>5. StoreTypeOK'
  <2>1. log' \in Seq(Segments) /\ acked' \in Lives /\ entries' \in Nat
    BY <1>1, <1>3, MarksAreSegments, ApplyTyped DEF StoreTypeOK
  <2> QED BY <1>1, <1>2, <1>3, <1>4, <2>1, MoveIsTyped
<1>6. ASSUME OneHub, storeFaults' = {} PROVE LogIsKept'
  <2>1. (\A d \in StoreCallers : d # c => thread[d].pc = "idle") /\ Leaves(thread[c], log, acked)
    BY <1>1, <1>3, <1>6, LoneFinds
  <2>2. Written(log, e, acked)
    BY <2>1, <1>1 DEF Leaves, e
  <2>3. Whole(log', acked')
    BY <1>1, <1>3, <2>2, LineIsEnded DEF StoreTypeOK
  <2>4. Leaves(t, log', acked')
    BY <2>3, <1>2 DEF Leaves
  <2> QED BY <2>1, <2>4, <1>1, <1>3, LoneMoveKeeps
<1> QED BY <1>4, <1>5, <1>6 DEF StoreInv, OneHub

LEMMA CompactCallKeeps == ASSUME StoreInv, NEW c \in StoreCallers, CompactCall(c) PROVE StoreInv'
<1> DEFINE t == [Idle EXCEPT !.pc = "snapshot", !.before = Len(log)]
<1>1. StoreTypeOK /\ WriterHolds /\ log \in Seq(Segments)
  BY DEF StoreInv, StoreTypeOK
<1>2. t \in ThreadStates /\ t.pc = "snapshot" /\ t.before = Len(log)
  <2>1. << >> \in Seq(Segments) /\ Len(log) \in Nat
    BY <1>1
  <2> QED BY <2>1 DEF Idle, ThreadStates
<1>3. /\ thread' = [thread EXCEPT ![c] = t]
      /\ writerLock' = [writerLock EXCEPT ![Hub[c]] = c] /\ writerLock[Hub[c]] = NoHolder
      /\ UNCHANGED <<storeFaults, log, entries, acked>>
  BY DEF CompactCall
<1> HIDE DEF t
<1>4. WriterHolds' /\ writerLock' \in [Hubs -> StoreCallers \cup {NoHolder}]
  BY <1>1, <1>3, WriterEnters
<1>5. StoreTypeOK'
  <2>1. log' \in Seq(Segments) /\ acked' \in Lives /\ entries' \in Nat
    BY <1>1, <1>3 DEF StoreTypeOK
  <2> QED BY <1>1, <1>2, <1>3, <1>4, <2>1, MoveIsTyped
<1>6. ASSUME OneHub, storeFaults' = {} PROVE LogIsKept'
  <2>1. LogIsKept /\ \A d \in StoreCallers : thread[d].pc = "idle"
    BY <1>1, <1>3, <1>6, FreeIsQuiet DEF StoreInv
  <2>2. Leaves(t, log', acked')
    BY <2>1, <1>2, <1>3 DEF LogIsKept, Leaves
  <2> QED BY <2>1, <2>2, <1>1, <1>3, LoneMoveKeeps
<1> QED BY <1>4, <1>5, <1>6 DEF StoreInv, OneHub

(* A compaction that gives up leaves the file and the lock.                *)
LEMMA GivingUpKeeps ==
  ASSUME StoreInv, NEW c \in StoreCallers, thread[c].pc \in {"snapshot", "tail"},
         To(c, "idle"), Unlock(c), UNCHANGED <<storeFaults, log, entries, acked>>
  PROVE  StoreInv'
<1> DEFINE t == [thread[c] EXCEPT !.pc = "idle"]
<1>1. StoreTypeOK /\ WriterHolds /\ thread[c] \in ThreadStates
  BY DEF StoreInv, StoreTypeOK
<1>2. t \in ThreadStates /\ t.pc = "idle"
  BY <1>1 DEF ThreadStates
<1>3. /\ thread' = [thread EXCEPT ![c] = t]
      /\ writerLock' = [writerLock EXCEPT ![Hub[c]] = NoHolder]
  BY <1>1, UnlockFrees DEF To
<1> HIDE DEF t
<1>4. WriterHolds' /\ writerLock' \in [Hubs -> StoreCallers \cup {NoHolder}]
  BY <1>1, <1>2, <1>3, WriterLeaves
<1>5. StoreTypeOK'
  <2>1. log' \in Seq(Segments) /\ acked' \in Lives /\ entries' \in Nat
    BY <1>1 DEF StoreTypeOK
  <2> QED BY <1>1, <1>2, <1>3, <1>4, <2>1, MoveIsTyped
<1>6. ASSUME OneHub, storeFaults' = {} PROVE LogIsKept'
  <2>1. (\A d \in StoreCallers : d # c => thread[d].pc = "idle") /\ Leaves(thread[c], log, acked)
    BY <1>6, LoneFinds
  <2>2. Leaves(t, log', acked')
    BY <2>1, <1>2 DEF Leaves
  <2> QED BY <2>1, <2>2, <1>1, <1>3, LoneMoveKeeps
<1> QED BY <1>4, <1>5, <1>6 DEF StoreInv, OneHub

LEMMA CompactReplayKeeps == ASSUME StoreInv, NEW c \in StoreCallers, CompactReplay(c) PROVE StoreInv'
<1>1. StoreTypeOK /\ WriterHolds /\ thread[c] \in ThreadStates /\ thread[c].pc = "snapshot"
  BY DEF StoreInv, StoreTypeOK, CompactReplay
<1>2. CASE ~Readable(log)
  BY <1>1, <1>2, GivingUpKeeps DEF CompactReplay
<1>3. CASE Readable(log)
  <2> DEFINE live == Replay(log)
             t == [thread[c] EXCEPT !.pc = "tail", !.snapshot = Snapshot(live)]
  <2>1. live \in Lives
    BY <1>1, ReplayTyped DEF StoreTypeOK
  <2>2. Snapshot(live) \in Seq(Segments) /\ Whole(Snapshot(live), live)
    BY <2>1, SnapshotIsWhole
  <2>3. /\ thread' = [thread EXCEPT ![c] = t]
        /\ UNCHANGED <<storeFaults, writerLock, log, entries, acked>>
    BY <1>3 DEF CompactReplay
  <2> HIDE DEF live
  <2>4. t \in ThreadStates /\ t.pc = "tail" /\ t.snapshot = Snapshot(live) /\ t.before = thread[c].before
    BY <1>1, <2>2 DEF ThreadStates
  <2> HIDE DEF t
  <2>5. WriterHolds'
    BY <1>1, <2>3, WriterGoesOn
  <2>6. StoreTypeOK'
    <3>1. /\ log' \in Seq(Segments) /\ acked' \in Lives /\ entries' \in Nat
          /\ writerLock' \in [Hubs -> StoreCallers \cup {NoHolder}]
      BY <1>1, <2>3 DEF StoreTypeOK
    <3> QED BY <1>1, <2>3, <2>4, <3>1, MoveIsTyped
  <2>7. ASSUME OneHub, storeFaults' = {} PROVE LogIsKept'
    <3>1. (\A d \in StoreCallers : d # c => thread[d].pc = "idle") /\ Leaves(thread[c], log, acked)
      BY <1>1, <2>3, <2>7, LoneFinds
    <3>2. live = acked
      BY <3>1, <1>1 DEF Leaves, Whole, live
    <3>3. Leaves(t, log', acked')
      BY <3>1, <3>2, <2>2, <2>3, <2>4, <1>1 DEF Leaves
    <3> QED BY <3>1, <3>3, <1>1, <2>3, LoneMoveKeeps
  <2> QED BY <2>5, <2>6, <2>7 DEF StoreInv, OneHub
<1> QED BY <1>2, <1>3

LEMMA CompactTailKeeps == ASSUME StoreInv, NEW c \in StoreCallers, CompactTail(c) PROVE StoreInv'
<1>1. StoreTypeOK /\ WriterHolds /\ thread[c] \in ThreadStates /\ thread[c].pc = "tail" /\ log \in Seq(Segments)
  BY DEF StoreInv, StoreTypeOK, CompactTail
<1>2. CASE log = << >>
  BY <1>1, <1>2, GivingUpKeeps DEF CompactTail
<1>3. CASE log # << >>
  <2> DEFINE rest == SubSeq(log, thread[c].before + 1, Len(log))
             t == [thread[c] EXCEPT !.pc = "rename", !.tail = rest]
  <2>1. /\ thread' = [thread EXCEPT ![c] = t]
        /\ UNCHANGED <<storeFaults, writerLock, log, entries, acked>>
    BY <1>3 DEF CompactTail
  <2>2. thread[c].before \in Nat
    BY <1>1 DEF ThreadStates
  <2>3. rest \in Seq(Segments)
    BY <1>1, <2>2
  <2>4. thread[c].before = Len(log) => rest = << >>
    BY <1>1
  <2> HIDE DEF rest
  <2>5. /\ t \in ThreadStates /\ t.pc = "rename" /\ t.tail = rest
        /\ t.snapshot = thread[c].snapshot /\ t.before = thread[c].before
    BY <1>1, <2>3 DEF ThreadStates
  <2> HIDE DEF t
  <2>6. WriterHolds'
    BY <1>1, <2>1, WriterGoesOn
  <2>7. StoreTypeOK'
    <3>1. /\ log' \in Seq(Segments) /\ acked' \in Lives /\ entries' \in Nat
          /\ writerLock' \in [Hubs -> StoreCallers \cup {NoHolder}]
      BY <1>1, <2>1 DEF StoreTypeOK
    <3> QED BY <1>1, <2>1, <2>5, <3>1, MoveIsTyped
  <2>8. ASSUME OneHub, storeFaults' = {} PROVE LogIsKept'
    <3>1. (\A d \in StoreCallers : d # c => thread[d].pc = "idle") /\ Leaves(thread[c], log, acked)
      BY <1>1, <2>1, <2>8, LoneFinds
    <3>2. Leaves(t, log', acked')
      BY <3>1, <2>1, <2>4, <2>5, <1>1 DEF Leaves
    <3> QED BY <3>1, <3>2, <1>1, <2>1, LoneMoveKeeps
  <2> QED BY <2>6, <2>7, <2>8 DEF StoreInv, OneHub
<1> QED BY <1>2, <1>3

LEMMA CompactRenameKeeps == ASSUME StoreInv, NEW c \in StoreCallers, CompactRename(c) PROVE StoreInv'
<1> DEFINE t == [thread[c] EXCEPT !.pc = "idle"]
<1>1. StoreTypeOK /\ WriterHolds /\ thread[c] \in ThreadStates /\ thread[c].pc = "rename"
  BY DEF StoreInv, StoreTypeOK, CompactRename
<1>2. t \in ThreadStates /\ t.pc = "idle"
  BY <1>1 DEF ThreadStates
<1>3. /\ thread' = [thread EXCEPT ![c] = t] /\ log' = thread[c].snapshot \o thread[c].tail
      /\ writerLock' = [writerLock EXCEPT ![Hub[c]] = NoHolder]
      /\ UNCHANGED <<storeFaults, entries, acked>>
  BY <1>1, UnlockFrees DEF CompactRename, To
<1> HIDE DEF t
<1>4. WriterHolds' /\ writerLock' \in [Hubs -> StoreCallers \cup {NoHolder}]
  BY <1>1, <1>2, <1>3, WriterLeaves
<1>5. thread[c].snapshot \in Seq(Segments) /\ thread[c].tail \in Seq(Segments)
  BY <1>1 DEF ThreadStates
<1>6. StoreTypeOK'
  <2>1. log' \in Seq(Segments)
    BY <1>3, <1>5
  <2>2. acked' \in Lives /\ entries' \in Nat
    BY <1>1, <1>3 DEF StoreTypeOK
  <2> QED BY <1>1, <1>2, <1>3, <1>4, <2>1, <2>2, MoveIsTyped
<1>7. ASSUME OneHub, storeFaults' = {} PROVE LogIsKept'
  <2>1. (\A d \in StoreCallers : d # c => thread[d].pc = "idle") /\ Leaves(thread[c], log, acked)
    BY <1>1, <1>3, <1>7, LoneFinds
  <2>2. Whole(thread[c].snapshot, acked) /\ thread[c].tail = << >>
    BY <1>1, <2>1 DEF Leaves
  <2>3. log' = thread[c].snapshot
    BY <1>3, <1>5, <2>2
  <2>4. Leaves(t, log', acked')
    BY <2>2, <2>3, <1>2, <1>3 DEF Leaves
  <2> QED BY <2>1, <2>4, <1>1, <1>3, LoneMoveKeeps
<1> QED BY <1>4, <1>6, <1>7 DEF StoreInv, OneHub

LEMMA CrashHubKeeps == ASSUME StoreInv, NEW h \in Hubs, CrashHub(h) PROVE StoreInv'
<1>1. StoreTypeOK /\ WriterHolds /\ storeFaults' # {}
  BY DEF StoreInv, CrashHub
<1>2. Idle \in ThreadStates /\ Idle.pc = "idle"
  <2>1. << >> \in Seq(Segments)
    OBVIOUS
  <2> QED BY <2>1 DEF Idle, ThreadStates
<1>3. /\ thread' = [c \in StoreCallers |-> IF Hub[c] = h THEN Idle ELSE thread[c]]
      /\ writerLock' = [writerLock EXCEPT ![h] = NoHolder] /\ UNCHANGED <<entries, acked>>
      /\ log' = log \/ log' = Append(log, Torn)
  BY DEF CrashHub
<1>4. StoreTypeOK'
  <2>1. log' \in Seq(Segments) /\ acked' \in Lives /\ entries' \in Nat
    BY <1>1, <1>3, MarksAreSegments DEF StoreTypeOK
  <2>2. thread' \in [StoreCallers -> ThreadStates]
    BY <1>1, <1>2, <1>3 DEF StoreTypeOK
  <2>3. \A c \in StoreCallers : thread'[c].pc \in {"text", "end"} => thread'[c].entry \in Entries
    BY <1>1, <1>2, <1>3 DEF StoreTypeOK
  <2>4. writerLock' \in [Hubs -> StoreCallers \cup {NoHolder}]
    BY <1>1, <1>3 DEF StoreTypeOK
  <2> QED BY <2>1, <2>2, <2>3, <2>4 DEF StoreTypeOK
<1>5. WriterHolds'
  BY <1>1, <1>2, <1>3, HubOfCaller DEF StoreTypeOK, WriterHolds
<1> QED BY <1>1, <1>4, <1>5 DEF StoreInv

LEMMA StoreStepKeeps == StoreInv /\ [StoreNext]_storeVars => StoreInv'
<1> SUFFICES ASSUME StoreInv, [StoreNext]_storeVars PROVE StoreInv'
  OBVIOUS
<1>1. CASE UNCHANGED storeVars
  BY <1>1 DEF storeVars, StoreInv, StoreTypeOK, WriterHolds, LogIsKept, OneHub, Whole, Written,
              Readable, Replay
<1>2. ASSUME NEW c \in StoreCallers, NEW k \in Keys, NEW kind \in {"set", "del"}, AppendCall(c, kind, k)
      PROVE  StoreInv'
  BY <1>2, AppendCallKeeps
<1>3. ASSUME NEW c \in StoreCallers, WriteText(c) PROVE StoreInv'
  BY <1>3, WriteTextKeeps
<1>4. ASSUME NEW c \in StoreCallers, WriteEnd(c) PROVE StoreInv'
  BY <1>4, WriteEndKeeps
<1>5. ASSUME NEW c \in StoreCallers, CompactCall(c) PROVE StoreInv'
  BY <1>5, CompactCallKeeps
<1>6. ASSUME NEW c \in StoreCallers, CompactReplay(c) PROVE StoreInv'
  BY <1>6, CompactReplayKeeps
<1>7. ASSUME NEW c \in StoreCallers, CompactTail(c) PROVE StoreInv'
  BY <1>7, CompactTailKeeps
<1>8. ASSUME NEW c \in StoreCallers, CompactRename(c) PROVE StoreInv'
  BY <1>8, CompactRenameKeeps
<1>9. ASSUME NEW h \in Hubs, CrashHub(h) PROVE StoreInv'
  BY <1>9, CrashHubKeeps
<1> QED BY <1>1, <1>2, <1>3, <1>4, <1>5, <1>6, <1>7, <1>8, <1>9 DEF StoreNext

(* Every acknowledged set and delete is replayed, through any interleaving *)
(* of appends and compactions of one hub that nothing crashes.             *)
THEOREM StoreAckedReplays == StoreSpec => []AckedReplays
<1>1. StoreInv => AckedReplays
  <2> SUFFICES ASSUME StoreInv, OneHub, storeFaults = {}
               PROVE  Readable(log) /\ (Replay(log) = acked \/ \E c \in StoreCallers :
                        thread[c].pc = "end" /\ Replay(log) = ApplyEntry(acked, << thread[c].entry >>))
    BY DEF AckedReplays
  <2>1. LogIsKept
    BY DEF StoreInv
  <2> QED BY <2>1 DEF LogIsKept, Whole, Written
<1> QED BY StoreInitInv, StoreStepKeeps, <1>1, PTL DEF StoreSpec
=============================================================================
