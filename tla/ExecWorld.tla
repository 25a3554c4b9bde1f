----------------------------- MODULE ExecWorld -----------------------------
(***************************************************************************)
(* Running commands: the shell seam over a sandbox verdict and a           *)
(* subprocess provider (harnless-exec-bash, -sandbox, -subprocess). A      *)
(* confined verdict travels as a hint to one spawner thread, which forks   *)
(* alone; a plain one is spawned on the caller's thread. A handle is       *)
(* waited on by one thread and may be cancelled by another; the child      *)
(* leads a process group, and the group's number is its pid.               *)
(*                                                                         *)
(* Not modelled: the shell's quoting, and the rlimit (the shell asks for   *)
(* none). A second output() of a handle is not called.                     *)
(***************************************************************************)
EXTENDS Naturals, Sequences, FiniteSets

CONSTANTS
  Runs,              \* the calls of the shell or of the subprocess seam
  Pids,              \* the process numbers the kernel hands out, and reuses
  ExecEnvironments   \* [mode, plans: run -> plan, rootLeaves, garbled]

(* A plan: the seam that is called, the confinement hint handed to the     *)
(* subprocess seam (the shell computes its own), whether it is cancelled,  *)
(* and what the command does: what it writes, how it exits, whether it     *)
(* traps the signal, whether it leaves a helper that holds its pipes. The  *)
(* cap is the one of the bounded reader.                                   *)

(* A hint is one of three; the spawner's own states are no runs.           *)
ExecAssumption ==
  /\ Runs \cap {"idle", "gone", "nobody"} = {}
  /\ \A env \in ExecEnvironments : \A r \in Runs :
       env.plans[r].via = "spawn" => env.plans[r].hint \in {"none", "readable", "unreadable"}
ASSUME ExecAssumption

VARIABLES execEnv, rootThere, procs, jobs, spawner, runs

execVars == <<execEnv, rootThere, procs, jobs, spawner, runs>>

Nobody  == "nobody"     \* no run; no process
NoProc  == [run |-> Nobody, leader |-> "none", helper |-> FALSE, left |-> 0, exit |-> "none"]
IdleRun == [at |-> "idle", verdict |-> "none", hint |-> "none", pid |-> Nobody, ran |-> FALSE,
            pinned |-> FALSE, scrubbed |-> FALSE, wrote |-> 0, pipe |-> 0, kept |-> 0, dropped |-> 0,
            status |-> "none", cancelledAt |-> "none", canceller |-> "none", struck |-> {}, result |-> "none"]

ExecFrom(env) ==
  /\ execEnv = env /\ rootThere = TRUE /\ jobs = <<>> /\ spawner = "idle"
  /\ procs = [p \in Pids |-> NoProc] /\ runs = [r \in Runs |-> IdleRun]
ExecInit == \E env \in ExecEnvironments : ExecFrom(env)

Plan(r) == execEnv.plans[r]
GroupLives(p) == procs[p].leader # "none" \/ procs[p].helper
WritersOf(r) == { p \in Pids : procs[p].run = r /\ (procs[p].leader \in {"forked", "running"} \/ procs[p].helper) }

Over(r, rec, result) == [rec EXCEPT !.at = "over", !.result = result]
SetRun(r, rec) == runs' = [runs EXCEPT ![r] = rec]

----------------------------------------------------------------------------
(* enforce(): what can be established is read now, not when the command is *)
(* run. A refusal is not confinement.                                      *)
EnforceVerdict ==
  CASE execEnv.mode = "unconfined"    -> "plain"
    [] execEnv.mode = "deny-all"      -> "denied"
    [] execEnv.mode = "sandbox-local" -> IF rootThere THEN "confined" ELSE "denied"

ShellExec(r) ==
  LET asked == [runs[r] EXCEPT !.verdict = EnforceVerdict] IN
  /\ runs[r].at = "idle" /\ Plan(r).via = "shell"
  /\ SetRun(r, IF EnforceVerdict = "denied" THEN Over(r, asked, "sandbox-denied")
               ELSE [asked EXCEPT !.at = "spawn", !.hint = IF EnforceVerdict = "confined" THEN "readable" ELSE "none"])
  /\ UNCHANGED <<execEnv, rootThere, procs, jobs, spawner>>

SubprocessSpawn(r) ==
  /\ runs[r].at = "idle" /\ Plan(r).via = "spawn"
  /\ SetRun(r, [runs[r] EXCEPT !.at = "spawn", !.hint = Plan(r).hint])
  /\ UNCHANGED <<execEnv, rootThere, procs, jobs, spawner>>

Child(r, leader) == [run |-> r, leader |-> leader, helper |-> FALSE, left |-> Plan(r).writes, exit |-> "none"]
Started(r) == [Child(r, "running") EXCEPT !.helper = Plan(r).helper]
FreePid(p) == ~GroupLives(p)

(* spawn(): where a hint sends the run. One nobody can read is refused.    *)
RouteOf(hint) ==
  CASE hint = "none" -> "plain" [] hint = "readable" -> "confined" [] hint = "unreadable" -> "refused"

(* The plain path: an unset argv or a root that is gone fails the spawn.   *)
PlainSpawn(r, p) ==
  /\ runs[r].at = "spawn" /\ RouteOf(runs[r].hint) = "plain" /\ FreePid(p)
  /\ IF rootThere /\ Plan(r).argv
     THEN /\ procs' = [procs EXCEPT ![p] = Started(r)]
          /\ SetRun(r, [runs[r] EXCEPT !.at = "handle", !.pid = p, !.ran = TRUE])
     ELSE /\ UNCHANGED procs /\ SetRun(r, Over(r, runs[r], "spawn-failed"))
  /\ UNCHANGED <<execEnv, rootThere, jobs, spawner>>

ConfinedSpawn(r) ==
  /\ runs[r].at = "spawn" /\ RouteOf(runs[r].hint) # "plain"
  /\ IF RouteOf(runs[r].hint) = "refused"
     THEN SetRun(r, Over(r, runs[r], "sandbox-denied")) /\ UNCHANGED jobs
     ELSE IF spawner = "gone"
     THEN SetRun(r, Over(r, runs[r], "spawn-failed")) /\ UNCHANGED jobs
     ELSE SetRun(r, [runs[r] EXCEPT !.at = "queued"]) /\ jobs' = Append(jobs, r)
  /\ UNCHANGED <<execEnv, rootThere, procs, spawner>>

(* spawner_loop: the environment is scrubbed in the parent, then the child *)
(* is forked; it has entered the directory when its hook begins. An        *)
(* environment that is no Unicode panics the thread, and every reply       *)
(* channel it holds is dropped.                                            *)
SpawnerForks(p) ==
  LET r == Head(jobs) IN
  /\ spawner = "idle" /\ jobs # <<>> /\ FreePid(p)
  /\ IF execEnv.garbled /\ Plan(r).argv
     THEN /\ spawner' = "gone" /\ jobs' = <<>> /\ UNCHANGED procs
          /\ runs' = [q \in Runs |-> IF q \in { jobs[i] : i \in DOMAIN jobs }
                                     THEN Over(q, runs[q], "spawn-failed") ELSE runs[q]]
     ELSE IF rootThere /\ Plan(r).argv
     THEN /\ spawner' = r /\ jobs' = Tail(jobs)
          /\ procs' = [procs EXCEPT ![p] = Child(r, "forked")]
          /\ SetRun(r, [runs[r] EXCEPT !.at = "forked", !.pid = p, !.scrubbed = TRUE])
     ELSE /\ jobs' = Tail(jobs) /\ UNCHANGED <<procs, spawner>>
          /\ SetRun(r, Over(r, runs[r], "spawn-failed"))
  /\ UNCHANGED <<execEnv, rootThere>>

PrepareNeverFails == FALSE   \* a bug: the hook's error is ignored
(* prepare() in the child: the root is entered by its path. A failure      *)
(* kills the child before it can run the command; the parent has its       *)
(* handle either way.                                                      *)
PrepareFails == ~rootThere
SpawnerReplies ==
  LET r == spawner
      p == runs[r].pid IN
  /\ spawner \in Runs
  /\ spawner' = "idle"
  /\ IF PrepareFails
     THEN /\ procs' = [procs EXCEPT ![p].leader = "zombie", ![p].exit = "signal"]
          /\ SetRun(r, [runs[r] EXCEPT !.at = "handle"])
     ELSE /\ procs' = [procs EXCEPT ![p] = Started(r)]
          /\ SetRun(r, [runs[r] EXCEPT !.at = "handle", !.ran = TRUE, !.pinned = rootThere])
  /\ UNCHANGED <<execEnv, rootThere, jobs>>

----------------------------------------------------------------------------
(* The command: it writes, exits, and its helper outlives it for a while.  *)
Writes(p) ==
  LET r == procs[p].run IN
  /\ procs[p].leader = "running" /\ procs[p].left > 0
  /\ procs' = [procs EXCEPT ![p].left = @ - 1]
  /\ SetRun(r, [runs[r] EXCEPT !.wrote = @ + 1, !.pipe = @ + 1])
  /\ UNCHANGED <<execEnv, rootThere, jobs, spawner>>

Exits(p) ==
  /\ procs[p].leader = "running" /\ procs[p].left = 0 /\ Plan(procs[p].run).exit # "never"
  /\ procs' = [procs EXCEPT ![p].leader = "zombie", ![p].exit = Plan(procs[p].run).exit]
  /\ UNCHANGED <<execEnv, rootThere, jobs, spawner, runs>>

HelperLeaves(p) ==
  LET r == procs[p].run IN
  /\ procs[p].helper
  /\ procs' = [procs EXCEPT ![p] = IF @.leader = "none" THEN NoProc ELSE [@ EXCEPT !.helper = FALSE]]
  /\ SetRun(r, [runs[r] EXCEPT !.wrote = @ + 1, !.pipe = @ + 1])
  /\ UNCHANGED <<execEnv, rootThere, jobs, spawner>>

RootLeaves ==
  /\ execEnv.rootLeaves /\ rootThere /\ rootThere' = FALSE
  /\ UNCHANGED <<execEnv, procs, jobs, spawner, runs>>

----------------------------------------------------------------------------
(* The reader thread of a handle: past the cap it counts; the reader of a  *)
(* confined child has no cap.                                              *)
Capped(r) == RouteOf(runs[r].hint) = "plain" /\ runs[r].kept >= Plan(r).cap
ReaderReads(r) ==
  /\ runs[r].pipe > 0
  /\ SetRun(r, IF Capped(r) THEN [runs[r] EXCEPT !.pipe = @ - 1, !.dropped = @ + 1]
               ELSE [runs[r] EXCEPT !.pipe = @ - 1, !.kept = @ + 1])
  /\ UNCHANGED <<execEnv, rootThere, procs, jobs, spawner>>

(* output(): waits for the child under its lock, and reaps it.             *)
OutputWaits(r) ==
  LET p == runs[r].pid IN
  /\ runs[r].at = "handle" /\ procs[p].leader = "zombie"
  /\ procs' = [procs EXCEPT ![p] = IF @.helper THEN [@ EXCEPT !.leader = "none"] ELSE NoProc]
  /\ SetRun(r, [runs[r] EXCEPT !.at = "reaped", !.status = procs[p].exit])
  /\ UNCHANGED <<execEnv, rootThere, jobs, spawner>>

(* The readers are joined: they end when nobody holds the pipes.           *)
ReadersEnded(r) == WritersOf(r) = {} /\ runs[r].pipe = 0
OutputCollects(r) ==
  /\ runs[r].at = "reaped" /\ ReadersEnded(r)
  /\ SetRun(r, [runs[r] EXCEPT !.at = "collected"])
  /\ UNCHANGED <<execEnv, rootThere, procs, jobs, spawner>>

ResultByStatus(rec) ==   \* a bug: the status is read first
  IF rec.status = "zero" THEN "ok" ELSE IF rec.cancelledAt # "none" THEN "exec-cancelled" ELSE "spawn-failed"
(* Cancellation is read before the exit status.                            *)
ResultOf(rec) ==
  IF rec.cancelledAt # "none" THEN "exec-cancelled" ELSE IF rec.status = "zero" THEN "ok" ELSE "spawn-failed"
OutputReturns(r) ==
  /\ runs[r].at = "collected"
  /\ SetRun(r, Over(r, runs[r], ResultOf(runs[r])))
  /\ UNCHANGED <<execEnv, rootThere, procs, jobs, spawner>>

(* cancel(), from another thread: the flag, then the signal to the group   *)
(* of the pid read at spawn. It takes no lock: the fallback that would is  *)
(* reached when the group is gone, and then there is no child to kill.     *)
CancelMarks(r) ==
  /\ Plan(r).cancels /\ runs[r].canceller = "none"
  /\ runs[r].pid # Nobody /\ runs[r].at \in {"handle", "reaped", "collected", "over"}
  /\ SetRun(r, [runs[r] EXCEPT !.cancelledAt = runs[r].at, !.canceller = "marked"])
  /\ UNCHANGED <<execEnv, rootThere, procs, jobs, spawner>>

Signalled(proc) ==
  LET ends == proc.leader = "running"
      left == [proc EXCEPT !.leader = IF ends THEN "zombie" ELSE @, !.helper = FALSE,
                           !.exit = IF ~ends THEN @ ELSE IF Plan(proc.run).traps THEN "zero" ELSE "signal"]
  IN  IF left.leader = "none" THEN NoProc ELSE left
Reachable(p) == procs[p].leader \in {"running", "zombie"} \/ procs[p].helper
CancelSignals(r) ==
  LET p == runs[r].pid IN
  /\ runs[r].canceller = "marked"
  /\ procs' = IF Reachable(p) THEN [procs EXCEPT ![p] = Signalled(@)] ELSE procs
  /\ SetRun(r, [runs[r] EXCEPT !.canceller = "done",
                  !.struck = IF Reachable(p) THEN {procs[p].run} ELSE {}])
  /\ UNCHANGED <<execEnv, rootThere, jobs, spawner>>

ExecNext ==
  \/ \E r \in Runs : \/ ShellExec(r) \/ SubprocessSpawn(r) \/ ConfinedSpawn(r)
                     \/ ReaderReads(r) \/ OutputWaits(r) \/ OutputCollects(r) \/ OutputReturns(r)
                     \/ CancelMarks(r) \/ CancelSignals(r)
                     \/ \E p \in Pids : PlainSpawn(r, p)
  \/ \E p \in Pids : SpawnerForks(p) \/ Writes(p) \/ Exits(p) \/ HelperLeaves(p)
  \/ SpawnerReplies \/ RootLeaves

----------------------------------------------------------------------------
(* A run that was cancelled before its output was judged is never handed   *)
(* back as a success: the exit may race the signal, and the command may    *)
(* trap it and leave with zero.                                            *)
CancelledIsNeverSuccess ==
  \A r \in Runs : runs[r].result = "ok" => runs[r].cancelledAt \in {"none", "over"}

(* A command runs under the confinement its verdict claims, or not at all: *)
(* the verdict is older than the fork, and the root may be gone by then.   *)
ConfinedOrNotRun ==
  \A r \in Runs : runs[r].ran =>
    /\ runs[r].verdict # "denied"
    /\ runs[r].verdict = "confined" \/ runs[r].hint # "none" => runs[r].pinned /\ runs[r].scrubbed

(* What a finished run wrote is accounted for, byte by byte: kept, or      *)
(* counted as dropped; what its helpers wrote after it exited included.    *)
CaptureIsWhole ==
  \A r \in Runs : runs[r].at = "over" /\ runs[r].pid # Nobody =>
    runs[r].kept + runs[r].dropped = runs[r].wrote

(* VIOLATED. "so a recycled pid is never signalled": the group signal that *)
(* comes before that gate reads the pid of the spawn.                      *)
NeverSignalsAStranger == \A r \in Runs : runs[r].struck \subseteq {r}

(* What a finished run reports is what happened to it: how it ended, and   *)
(* all it wrote.                                                           *)
ResultIsTrue == CancelledIsNeverSuccess /\ CaptureIsWhole
=============================================================================
