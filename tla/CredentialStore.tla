--------------------------- MODULE CredentialStore -------------------------
(***************************************************************************)
(* The local credentials provider, crates/harnless-credentials-local/src/  *)
(* provider.rs: a record file that is read through on every resolve and    *)
(* replaced whole by a rename, under a process lock and a file lock; and   *)
(* the registry that lets one authorization dance per reference run at a   *)
(* time while later callers await its outcome.  A dance runs on a blocking *)
(* thread of its own, which outlives the caller that started it.           *)
(***************************************************************************)
EXTENDS Naturals, FiniteSets

CONSTANTS
  CredCallers,   \* tasks that use the provider
  Refs,          \* credential references
  Process,       \* caller -> the process it runs in
  MaxJobs,       \* bound: dances, stores and forgets of a behaviour
  CredRequests,  \* what callers ask for: <<caller, "authorize" | "store" | "forget", ref>>
  CredFaultSets  \* what may go wrong in a behaviour: "cancel" a caller, "io"
                 \* refuses, "crash" a process

CredAssumption ==
  /\ MaxJobs \in Nat
  /\ \A q \in CredRequests : q[1] \in CredCallers /\ q[3] \in Refs
ASSUME CredAssumption

NoRecord == 0
NoOne == "no one"
Jobs == 1..MaxJobs

VARIABLES
  credFaults,  \* what may go wrong
  record,      \* the published file: reference -> the job whose secret it holds
  temp,        \* the sibling .tmp: what a rename would publish
  processLock, \* process -> the job that holds shared_write_lock's mutex
  fileLock,    \* the job that holds the flock
  job,         \* each mutation of the file, and the dance before it
  slot,        \* each dance's InFlight: done, and its result
  inFlight,    \* process, reference -> the job of the dance in flight
  caller       \* where a caller of authorize is

credVars == <<credFaults, record, temp, processLock, fileLock, job, slot, inFlight, caller>>

Processes == { Process[c] : c \in CredCallers }
Empty == [r \in Refs |-> NoRecord]
NoJob == [pc |-> "free", by |-> NoOne, kind |-> "none", ref |-> NoOne, all |-> Empty]
NoSlot == [done |-> FALSE, ok |-> FALSE]
AtRest == [pc |-> "idle", job |-> 0, woken |-> FALSE, ok |-> FALSE]

CredFrom(faults) ==
  /\ credFaults = faults
  /\ record = Empty /\ temp = Empty
  /\ processLock = [p \in Processes |-> 0]
  /\ fileLock = 0
  /\ job = [j \in Jobs |-> NoJob]
  /\ slot = [j \in Jobs |-> NoSlot]
  /\ inFlight = [p \in Processes |-> [r \in Refs |-> 0]]
  /\ caller = [c \in CredCallers |-> AtRest]

CredInit == \E faults \in CredFaultSets : CredFrom(faults)

Of(j) == Process[job[j].by]
JobAt(j, l) == job[j].pc = l
JobTo(j, l) == job' = [job EXCEPT ![j].pc = l]
CallerTo(c, l) == caller' = [caller EXCEPT ![c].pc = l]
FreshJobs == { j \in Jobs : JobAt(j, "free") /\ \A i \in 1..(j - 1) : ~JobAt(i, "free") }

----------------------------------------------------------------------------
(* The record file                                                         *)

(* store and forget, called directly.                                      *)
StoreCall(c, r, kind) ==
  /\ caller[c].pc = "idle"
  /\ \E j \in FreshJobs :
       job' = [job EXCEPT ![j] = [NoJob EXCEPT !.pc = "process lock", !.by = c, !.kind = kind, !.ref = r]]
  /\ UNCHANGED <<credFaults, record, temp, processLock, fileLock, slot, inFlight, caller>>

(* mutate: the process lock, then the flock.                               *)
TakeProcessLock(j) ==
  /\ JobAt(j, "process lock") /\ processLock[Of(j)] = 0
  /\ processLock' = [processLock EXCEPT ![Of(j)] = j]
  /\ JobTo(j, "file lock")
  /\ UNCHANGED <<credFaults, record, temp, fileLock, slot, inFlight, caller>>

(* A plausible slip: no lock beyond the process's, as where there is no    *)
(* flock.                                                                  *)
TakeFileLockAnyway(j) ==
  /\ JobAt(j, "file lock")
  /\ fileLock' = j
  /\ JobTo(j, "read")
  /\ UNCHANGED <<credFaults, record, temp, processLock, slot, inFlight, caller>>

TakeFileLock(j) ==
  /\ JobAt(j, "file lock") /\ fileLock = 0
  /\ fileLock' = j
  /\ JobTo(j, "read")
  /\ UNCHANGED <<credFaults, record, temp, processLock, slot, inFlight, caller>>

(* The re-read under both locks, and the change of one record.             *)
ReadAll(j) ==
  /\ JobAt(j, "read")
  /\ job' = [job EXCEPT ![j].pc = "write",
               ![j].all = [record EXCEPT ![job[j].ref] = IF job[j].kind = "forget" THEN NoRecord ELSE j]]
  /\ UNCHANGED <<credFaults, record, temp, processLock, fileLock, slot, inFlight, caller>>

WriteTemp(j) ==
  /\ JobAt(j, "write")
  /\ temp' = job[j].all
  /\ JobTo(j, "rename")
  /\ UNCHANGED <<credFaults, record, processLock, fileLock, slot, inFlight, caller>>

Release(j) ==
  /\ processLock' = [processLock EXCEPT ![Of(j)] = IF @ = j THEN 0 ELSE @]
  /\ fileLock' = IF fileLock = j THEN 0 ELSE fileLock

(* The rename publishes the temp file, whoever wrote it last.              *)
Publish(j) ==
  /\ JobAt(j, "rename")
  /\ record' = temp
  /\ Release(j)
  /\ JobTo(j, "stored")
  /\ UNCHANGED <<credFaults, temp, slot, inFlight, caller>>

(* Any of these calls may be refused by the system: mutate returns.        *)
MutateFails(j) ==
  /\ "io" \in credFaults
  /\ \E l \in {"file lock", "read", "write", "rename"} : JobAt(j, l)
  /\ Release(j)
  /\ JobTo(j, "failed")
  /\ UNCHANGED <<credFaults, record, temp, slot, inFlight, caller>>

----------------------------------------------------------------------------
(* The dance                                                               *)

(* authorize: one registry section claims the reference or joins the       *)
(* claim; the runner's dance goes to a blocking thread.                    *)
Authorize(c, r) ==
  /\ caller[c].pc = "idle"
  /\ LET running == inFlight[Process[c]][r]
     IN  IF running # 0
         THEN /\ caller' = [caller EXCEPT ![c] = [AtRest EXCEPT !.pc = "listen", !.job = running]]
              /\ UNCHANGED <<job, slot, inFlight>>
         ELSE \E j \in FreshJobs :
                /\ job' = [job EXCEPT ![j] = [NoJob EXCEPT !.pc = "dance", !.by = c, !.kind = "dance", !.ref = r]]
                /\ inFlight' = [inFlight EXCEPT ![Process[c]][r] = j]
                /\ caller' = [caller EXCEPT ![c] = [AtRest EXCEPT !.pc = "run", !.job = j]]
                /\ UNCHANGED slot
  /\ UNCHANGED <<credFaults, record, temp, processLock, fileLock>>

(* The flow produces the secret, refuses or panics.                        *)
DanceDone(j) ==
  /\ JobAt(j, "dance")
  /\ \/ JobTo(j, "process lock")
     \/ JobTo(j, "failed")
  /\ UNCHANGED <<credFaults, record, temp, processLock, fileLock, slot, inFlight, caller>>

(* The runner's await ends with the blocking thread.                       *)
RunnerWakes(c) ==
  /\ caller[c].pc = "run" /\ job[caller[c].job].pc \in {"stored", "failed"}
  /\ caller' = [caller EXCEPT ![c].pc = "settle", ![c].ok = JobAt(caller[c].job, "stored")]
  /\ UNCHANGED <<credFaults, record, temp, processLock, fileLock, job, slot, inFlight>>

(* A plausible slip: no guard, so that nobody settles for a dropped runner. *)
RunnerCancelledBare(c) ==
  /\ "cancel" \in credFaults
  /\ caller[c].pc = "run"
  /\ CallerTo(c, "idle")
  /\ UNCHANGED <<credFaults, record, temp, processLock, fileLock, job, slot, inFlight>>

(* Its future is dropped at that await: the guard settles with an error,   *)
(* the blocking thread goes on.                                            *)
RunnerCancelled(c) ==
  /\ "cancel" \in credFaults
  /\ caller[c].pc = "run"
  /\ caller' = [caller EXCEPT ![c].pc = "settle", ![c].ok = FALSE]
  /\ UNCHANGED <<credFaults, record, temp, processLock, fileLock, job, slot, inFlight>>

(* RunnerGuard::drop: the slot's outcome, the key, the waiters, in turn.   *)
Settle(c) ==
  /\ caller[c].pc = "settle"
  /\ slot' = [slot EXCEPT ![caller[c].job] = [done |-> TRUE, ok |-> caller[c].ok]]
  /\ CallerTo(c, "free")
  /\ UNCHANGED <<credFaults, record, temp, processLock, fileLock, job, inFlight>>

FreeKey(c) ==
  /\ caller[c].pc = "free"
  /\ inFlight' = [inFlight EXCEPT ![Process[c]][job[caller[c].job].ref] = 0]
  /\ CallerTo(c, "notify")
  /\ UNCHANGED <<credFaults, record, temp, processLock, fileLock, job, slot>>

(* notify_waiters reaches every Notified that exists, of any reference.    *)
Notify(c) ==
  /\ caller[c].pc = "notify"
  /\ caller' = [d \in CredCallers |->
       IF d = c THEN AtRest
       ELSE IF Process[d] = Process[c] /\ caller[d].pc \in {"check", "parked"}
            THEN [caller[d] EXCEPT !.woken = TRUE] ELSE caller[d]]
  /\ UNCHANGED <<credFaults, record, temp, processLock, fileLock, job, slot, inFlight>>

(* A joiner: a Notified first, then a look at the slot, then the wait.     *)
Listen(c) ==
  /\ caller[c].pc = "listen"
  /\ caller' = [caller EXCEPT ![c].pc = "check", ![c].woken = FALSE]
  /\ UNCHANGED <<credFaults, record, temp, processLock, fileLock, job, slot, inFlight>>

Check(c) ==
  /\ caller[c].pc = "check"
  /\ caller' = [caller EXCEPT ![c] = IF slot[@.job].done THEN AtRest ELSE [@ EXCEPT !.pc = "parked"]]
  /\ UNCHANGED <<credFaults, record, temp, processLock, fileLock, job, slot, inFlight>>

Wake(c) ==
  /\ caller[c].pc = "parked" /\ caller[c].woken
  /\ CallerTo(c, "listen")
  /\ UNCHANGED <<credFaults, record, temp, processLock, fileLock, job, slot, inFlight>>

----------------------------------------------------------------------------
(* A process dies: its locks go, its temp file stays.                      *)
CrashProcess(p) ==
  /\ "crash" \in credFaults
  /\ \E j \in Jobs : ~JobAt(j, "free") /\ Of(j) = p
  /\ LET dead(j) == ~JobAt(j, "free") /\ Of(j) = p
     IN  /\ job' = [j \in Jobs |-> IF dead(j) /\ ~JobAt(j, "stored")
                                   THEN [job[j] EXCEPT !.pc = "failed"] ELSE job[j]]
         /\ fileLock' = IF fileLock # 0 /\ dead(fileLock) THEN 0 ELSE fileLock
  /\ processLock' = [processLock EXCEPT ![p] = 0]
  /\ inFlight' = [inFlight EXCEPT ![p] = [r \in Refs |-> 0]]
  /\ caller' = [c \in CredCallers |-> IF Process[c] = p THEN AtRest ELSE caller[c]]
  /\ UNCHANGED <<credFaults, record, temp, slot>>

JobStep(j) ==
  \/ TakeProcessLock(j) \/ TakeFileLock(j) \/ ReadAll(j) \/ WriteTemp(j) \/ Publish(j)
  \/ DanceDone(j)

CallerStep(c) ==
  RunnerWakes(c) \/ Settle(c) \/ FreeKey(c) \/ Notify(c) \/ Listen(c) \/ Check(c) \/ Wake(c)

CredNext ==
  \/ \E q \in CredRequests : IF q[2] = "authorize" THEN Authorize(q[1], q[3]) ELSE StoreCall(q[1], q[3], q[2])
  \/ \E j \in Jobs : JobStep(j) \/ MutateFails(j)
  \/ \E c \in CredCallers : CallerStep(c) \/ RunnerCancelled(c)
  \/ \E p \in Processes : CrashProcess(p)

----------------------------------------------------------------------------
(* Properties                                                              *)

(* A publication changes the one record it is about and loses no other's,  *)
(* whichever processes write the file, fail and die (mutate's re-read      *)
(* under both locks).                                                      *)
NoLostRecord ==
  [][ Cardinality({ r \in Refs : record'[r] # record[r] }) <= 1
        /\ \A r \in Refs : record'[r] # record[r] =>
             \E j \in Jobs : job[j].ref = r /\ record'[r] \in {NoRecord, j} ]_record

(* Of one reference, one dance runs at a time in a process, for callers    *)
(* that are not cancelled: a cancelled runner frees the key while its      *)
(* dance is still on the blocking thread (RunnerGuard::drop).              *)
OneDancePerKey ==
  "cancel" \notin credFaults =>
    \A i, j \in Jobs : i # j /\ JobAt(i, "dance") /\ JobAt(j, "dance") /\ Of(i) = Of(j)
                         => job[i].ref # job[j].ref

(* Whoever waits for a dance has been woken or is owed a wake by a runner  *)
(* of its process that has not notified yet, however the dance ended and   *)
(* whoever was cancelled or died (the Notified that is made before the     *)
(* slot is looked at; the slot that is set before the notification).       *)
NobodySleepsOn ==
  \A c \in CredCallers :
    caller[c].pc = "parked" /\ ~caller[c].woken =>
      \E d \in CredCallers : /\ Process[d] = Process[c] /\ caller[d].job = caller[c].job
                             /\ caller[d].pc \in {"run", "settle", "free", "notify"}

(* Callers for one reference share one dance and all learn how it ended.   *)
DanceIsShared == OneDancePerKey /\ NobodySleepsOn
=============================================================================
