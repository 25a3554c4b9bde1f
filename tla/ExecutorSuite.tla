--------------------------- MODULE ExecutorSuite ---------------------------
(***************************************************************************)
(* The execution-world conformance suite (harnless-conformance) and the    *)
(* harnesses that run it. A case asks the sandbox or the shell of a bundle *)
(* one question after another, some with a verdict installed in a slot the *)
(* sandbox reads, and judges each answer; the tests of a binary run at     *)
(* once. The cancellation case times a child of its own against probes.    *)
(* Time is counted in half seconds.                                        *)
(***************************************************************************)
EXTENDS Naturals, Sequences, FiniteSets

CONSTANTS
  Checkers,        \* the test threads
  CheckPlans,      \* set of functions: thread -> [bundle, cases]
  Delays           \* how much later than it ended a probe's child is reported

VARIABLES slot, checks

executorSuiteVars == <<slot, checks>>

ExecutorCases ==
  <<"sandbox_sees_exact_argv", "enforced_reason_is_never_blank", "refusal_is_never_reported_as_confined",
    "consumer_routes_on_allowed", "injected_deny_reaches_shell", "denied_command_never_runs",
    "confined_run_is_actually_confined", "cancellation_is_honoured", "failing_command_is_typed_error">>

ProbeBound    == 10
ProbeLifetime == 8
CancelTimeout(bundle) == IF bundle = "IgnoresCancel" THEN 6 ELSE 20
MeasuredLifetime(bundle) == CancelTimeout(bundle) + 10

----------------------------------------------------------------------------
(* A verdict, and a bundle's sandbox: it replays what is installed, unless *)
(* it declines to. A bundle is the shipped one, or a stub of the suite's   *)
(* own tests, named for its defect.                                        *)
NoVerdict == [allowed |-> FALSE, confined |-> FALSE, reason |-> "none"]
Verdict(allowed, confined) == [allowed |-> allowed, confined |-> confined, reason |-> "given"]
Installed(allowed, confined) == [allowed |-> allowed, confined |-> confined, reason |-> "injected"]

Policy(confined, enterable) == [confined |-> confined, enterable |-> enterable]

EnforcedBy(bundle, installed, policy) ==
  LET own == Verdict(policy.confined => policy.enterable, policy.confined /\ policy.enterable)
  IN CASE bundle = "SandboxPanics" -> NoVerdict
       [] bundle = "BlankReason" -> [Verdict(TRUE, policy.confined) EXCEPT !.reason = ""]
       [] bundle = "RefusalLooksConfined" -> Verdict(policy.confined => policy.enterable, policy.confined)
       [] bundle = "Declines" -> own
       [] OTHER -> IF installed # NoVerdict THEN installed ELSE own

(* An answer: what came back, whether the command ran and how, and what    *)
(* the recording legs saw of it.                                           *)
Answer(result) == [result |-> result, verdict |-> NoVerdict, ran |-> FALSE, pinned |-> FALSE,
                   consulted |-> "none", handed |-> "none"]

(* The command is handed over; a directory that cannot be entered fails.   *)
Spawned(bundle, answer, policy, command, confined) ==
  CASE bundle = "SpawnPanics" -> [answer EXCEPT !.result = "panicked", !.handed = "argv"]
    [] ~policy.enterable -> [answer EXCEPT !.result = "spawn-failed", !.handed = "argv"]
    [] OTHER -> [answer EXCEPT !.result = IF command = "fails" THEN "spawn-failed" ELSE "ok", !.handed = "argv",
                               !.ran = TRUE, !.pinned = confined /\ bundle # "ClaimsConfinement"]

(* exec() of the bundle's shell: the sandbox, then the spawner, routed on  *)
(* "allowed"; the stubs go wrong on the way.                               *)
ShellAnswers(bundle, installed, policy, command) ==
  LET v      == EnforcedBy(bundle, installed, policy)
      asked  == [Answer("sandbox-denied") EXCEPT !.verdict = v, !.consulted = "argv"]
      goes   == Spawned(bundle, asked, policy, command, v.confined)
      behind == Spawned(bundle, Answer("ok"), policy, command, FALSE)
      unseen == [behind EXCEPT !.handed = "none"]
      injected == v.reason = "injected"
  IN CASE bundle = "Panics" -> Answer("panicked")
       [] bundle = "EarlyRefusal" -> Answer("tool-denied")
       [] bundle = "FabricatesSuccess" -> [unseen EXCEPT !.result = "ok"]
       [] bundle = "RelabelsFailure" -> [unseen EXCEPT !.result = IF @ = "ok" THEN @ ELSE "tool-not-found"]
       [] bundle = "RefusesBeforeSandbox" -> behind
       [] v = NoVerdict -> [asked EXCEPT !.result = "panicked"]
       [] bundle = "PrivateLegs" -> IF v.allowed THEN unseen ELSE Answer("sandbox-denied")
       [] bundle = "RewritesArgv" /\ v.allowed -> [goes EXCEPT !.result = "ok", !.consulted = "paraphrase", !.handed = "rewritten"]
       [] bundle = "IgnoresRefusal" -> IF injected /\ ~v.confined THEN asked ELSE goes
       [] OTHER -> IF v.allowed THEN goes ELSE asked

----------------------------------------------------------------------------
(* The questions of a case, in order.                                      *)
Ask(of, policy, command, installed) == [of |-> of, policy |-> policy, command |-> command, installed |-> installed]

Home     == Policy(FALSE, TRUE)
Confined == Policy(TRUE, TRUE)
Vanished == Policy(TRUE, FALSE)
SandboxSeesExactArgv == <<Ask("shell", Home, "plain", NoVerdict)>>
EnforcedReasonIsNeverBlank == <<Ask("sandbox", Home, "", NoVerdict), Ask("sandbox", Confined, "", NoVerdict)>>
RefusalIsNeverReportedAsConfined ==
  <<Ask("sandbox", Vanished, "", NoVerdict), Ask("sandbox", Confined, "", Installed(FALSE, FALSE))>>
ConsumerRoutesOnAllowed ==
  <<Ask("shell", Confined, "touch", Installed(TRUE, FALSE)), Ask("shell", Confined, "touch", Installed(TRUE, TRUE)),
    Ask("shell", Confined, "touch", Installed(FALSE, TRUE))>>
InjectedDeny ==
  <<Ask("shell", Home, "touch", Installed(FALSE, FALSE)), Ask("shell", Home, "touch", Installed(TRUE, FALSE))>>
DeniedCommandNeverRuns ==
  <<Ask("sandbox", Vanished, "", NoVerdict), Ask("shell", Vanished, "touch", Installed(FALSE, FALSE))>>
ConfinedRunIsActuallyConfined ==
  <<Ask("sandbox", Confined, "", NoVerdict), Ask("shell", Confined, "inspect", NoVerdict)>>
FailingCommandIsTypedError == <<Ask("shell", Home, "fails", NoVerdict)>>

Asks(case) ==
  CASE case = "sandbox_sees_exact_argv"               -> SandboxSeesExactArgv
    [] case = "enforced_reason_is_never_blank"        -> EnforcedReasonIsNeverBlank
    [] case = "refusal_is_never_reported_as_confined" -> RefusalIsNeverReportedAsConfined
    [] case = "consumer_routes_on_allowed"            -> ConsumerRoutesOnAllowed
    [] case = "injected_deny_reaches_shell"           -> InjectedDeny
    [] case = "denied_command_never_runs"             -> DeniedCommandNeverRuns
    [] case = "confined_run_is_actually_confined"     -> ConfinedRunIsActuallyConfined
    [] case = "failing_command_is_typed_error"        -> FailingCommandIsTypedError
    [] OTHER -> <<>>

(* The judgement of one answer: whether it is a violation, and whether the *)
(* case is over with it.                                                   *)
AuditRefusal(v) == ~v.confined /\ v.reason # ""
ExecCodes == {"spawn-failed", "exec-cancelled", "sandbox-denied"}

HandoverIsSound(bundle, a) ==
  /\ a.result # "panicked"
  /\ a.consulted = "none" => a.handed = "none" /\ bundle # "PrivateLegs"
  /\ a.consulted # "none" /\ a.handed # "none" => a.consulted = "argv" /\ a.handed = "argv"

Sound(case, n, bundle, ask, a) ==
  LET denied == a.result = "sandbox-denied" /\ ~a.ran
      panics == ask.of = "sandbox" /\ a.verdict = NoVerdict
  IN CASE case = "sandbox_sees_exact_argv" -> HandoverIsSound(bundle, a)
       [] case = "enforced_reason_is_never_blank" -> ~panics /\ a.verdict.reason # ""
       [] case = "refusal_is_never_reported_as_confined" ->
            IF ~panics /\ ~a.verdict.allowed THEN AuditRefusal(a.verdict) ELSE n = 1
       [] case \in {"consumer_routes_on_allowed", "injected_deny_reaches_shell"} ->
            IF ask.installed.allowed THEN a.result = "ok" /\ (case = "consumer_routes_on_allowed" => a.ran) ELSE denied
       [] case = "denied_command_never_runs" -> IF n = 1 THEN ~panics ELSE denied
       [] case = "confined_run_is_actually_confined" -> IF n = 1 THEN ~panics ELSE a.result = "ok" /\ a.pinned
       [] OTHER -> a.result \in ExecCodes

CaseIsOver(case, n, a) ==
  \/ n >= Len(Asks(case))
  \/ case = "refusal_is_never_reported_as_confined" /\ a.verdict # NoVerdict /\ ~a.verdict.allowed
  \/ case = "denied_command_never_runs" /\ a.verdict = NoVerdict
  \/ case = "confined_run_is_actually_confined" /\ ~(a.verdict.allowed /\ a.verdict.confined)

----------------------------------------------------------------------------
Fresh(plan) == [bundle |-> plan.bundle, cases |-> plan.cases, at |-> "case", n |-> 1, answer |-> Answer("ok"),
                clock |-> 0, since |-> 0, waiter |-> "none", late |-> FALSE, bad |-> {}]

ExecutorSuiteFrom(plan) ==
  /\ slot = [t \in Checkers |-> NoVerdict] /\ checks = [t \in Checkers |-> Fresh(plan[t])]
ExecutorSuiteInit == \E plan \in CheckPlans : ExecutorSuiteFrom(plan)

CaseOf(t) == Head(checks[t].cases)
Busy(t, at) == checks[t].cases # <<>> /\ checks[t].at = at
Question(t) == Asks(CaseOf(t))[checks[t].n]

(* The end of a case: with its violation, or without.                      *)
Done(c, sound) ==
  [c EXCEPT !.at = "case", !.n = 1, !.cases = Tail(@), !.waiter = "none",
            !.bad = IF sound THEN @ ELSE @ \cup {Head(c.cases)}]
Move(t, c) == checks' = [checks EXCEPT ![t] = c]

(* A bundle without the legs a case needs skips it.                        *)
BeginCase(t) ==
  LET c == checks[t] IN
  /\ Busy(t, "case")
  /\ Move(t, IF c.bundle = "NoLegs" THEN Done(c, TRUE)
             ELSE IF CaseOf(t) = "cancellation_is_honoured" THEN [c EXCEPT !.at = "measure", !.late = FALSE]
             ELSE [c EXCEPT !.at = "install"])
  /\ UNCHANGED slot

(* What is installed: a refusal the sandbox has just given is replayed.    *)
ToInstall(t) ==
  IF CaseOf(t) = "denied_command_never_runs" /\ checks[t].n = 2 /\ ~checks[t].answer.verdict.allowed
  THEN checks[t].answer.verdict ELSE Question(t).installed

SlotOfAll(t) == Checkers   \* a bug: one slot for the process
(* The slot is the thread's own.                                           *)
SlotFor(t) == {t}
Install(t) ==
  /\ Busy(t, "install")
  /\ slot' = [u \in Checkers |-> IF u \in SlotFor(t) THEN ToInstall(t) ELSE slot[u]]
  /\ Move(t, [checks[t] EXCEPT !.at = "ask"])

Answers(t) ==
  LET q == Question(t)
      b == checks[t].bundle IN
  /\ Busy(t, "ask")
  /\ Move(t, [checks[t] EXCEPT !.at = "judge", !.answer =
       IF q.of = "sandbox" THEN [Answer("ok") EXCEPT !.verdict = EnforcedBy(b, slot[t], q.policy)]
       ELSE ShellAnswers(b, slot[t], q.policy, q.command)])
  /\ UNCHANGED slot

Judges(t) ==
  LET c == checks[t]
      sound == Sound(CaseOf(t), c.n, c.bundle, Question(t), c.answer)
      kept == [c EXCEPT !.bad = IF sound THEN @ ELSE @ \cup {CaseOf(t)}]
  IN
  /\ Busy(t, "judge")
  /\ slot' = [u \in Checkers |-> IF u \in SlotFor(t) THEN NoVerdict ELSE slot[u]]
  /\ Move(t, IF CaseIsOver(CaseOf(t), c.n, c.answer) THEN Done(kept, TRUE)
             ELSE [kept EXCEPT !.at = "install", !.n = @ + 1])

----------------------------------------------------------------------------
(* The cancellation case. Its measured child is spawned first, and runs    *)
(* while the probes do.                                                    *)
Releases(bundle) == bundle # "Hoards"

Measure(t) ==
  LET c == checks[t] IN
  /\ Busy(t, "measure")
  /\ Move(t, IF c.bundle = "SpawnPanics" THEN Done(c, FALSE) ELSE [c EXCEPT !.at = "probe", !.clock = 0])
  /\ UNCHANGED slot

(* probe_running: the announcement is read off output(), which returns     *)
(* when the child has ended. One that is late is cancelled, and given as   *)
(* long again to come back.                                                *)
Probe(t, d) ==
  LET c == checks[t]
      took == ProbeLifetime + d
      late == took >= ProbeBound
  IN [c EXCEPT !.clock = @ + (IF ~Releases(c.bundle) THEN 2 * ProbeBound ELSE took), !.late = @ \/ late]
Announced(d) == ProbeLifetime + d < ProbeBound

AwaitSentinel(t, d) ==
  LET c == checks[t] IN
  /\ Busy(t, "probe") /\ d \in Delays
  /\ Move(t, IF ~Releases(c.bundle) THEN Done(Probe(t, d), FALSE)
             ELSE IF Announced(d) THEN [Probe(t, d) EXCEPT !.at = "quiet"]
             ELSE Done(Probe(t, d), TRUE))
  /\ UNCHANGED slot

(* wait_until_quiet, and the thread that waits for the measured child.     *)
WaitUntilQuiet(t, d) ==
  LET c == checks[t] IN
  /\ Busy(t, "quiet") /\ d \in Delays
  /\ Move(t, [c EXCEPT !.at = "running", !.clock = @ + d, !.since = c.clock + d, !.waiter = "waiting"])
  /\ UNCHANGED slot

(* output() of the measured child: it may end by itself.                   *)
HasEnded(c) == c.clock >= MeasuredLifetime(c.bundle)
MeasuredEnds(t) ==
  LET c == checks[t] IN
  /\ Busy(t, "running") /\ c.waiter = "waiting" /\ HasEnded(c)
  /\ Move(t, [c EXCEPT !.waiter = "ok"]) /\ UNCHANGED slot

(* await_running: probes until one announces itself, or the bound is over; *)
(* then the child is left to end, and no verdict is owed.                  *)
AwaitRunning(t, d) ==
  LET c == Probe(t, d)
      settled == ~(checks[t].waiter = "waiting" /\ HasEnded(checks[t])) IN
  /\ Busy(t, "running") /\ settled /\ d \in Delays
  /\ Move(t, IF Announced(d) THEN [c EXCEPT !.at = "cancel"]
             ELSE IF c.clock - c.since >= CancelTimeout(c.bundle) THEN Done(c, TRUE)
             ELSE c)
  /\ UNCHANGED slot

(* cancel(), and the join: a child that has ended has been a success.      *)
CancelMeasured(t) ==
  LET c == checks[t] IN
  /\ Busy(t, "cancel")
  /\ Move(t, Done(c, ~HasEnded(c) /\ c.waiter = "waiting" /\ c.bundle # "IgnoresCancel"))
  /\ UNCHANGED slot

ExecutorSuiteNext ==
  \E t \in Checkers :
    \/ BeginCase(t) \/ Install(t) \/ Answers(t) \/ Judges(t)
    \/ Measure(t) \/ MeasuredEnds(t) \/ CancelMeasured(t)
    \/ \E d \in Delays : AwaitSentinel(t, d) \/ WaitUntilQuiet(t, d) \/ AwaitRunning(t, d)

----------------------------------------------------------------------------
(* The shipped bundle meets the contract whichever cases run beside each   *)
(* other: a verdict installed for one is never seen by another.            *)
ExecutorMeetsContract == \A t \in Checkers : checks[t].bundle = "shipped" => checks[t].bad = {}

(* Every stub of the suite's tests is reported under the case that names   *)
(* its defect; a refusal before the handover and a bundle without legs are *)
(* skipped. A late probe owes no verdict on cancellation.                  *)
BitesOn(bundle) ==
  CASE bundle \in {"RewritesArgv", "RefusesBeforeSandbox", "PrivateLegs"} -> {"sandbox_sees_exact_argv"}
    [] bundle \in {"BlankReason", "SandboxPanics"} -> {"enforced_reason_is_never_blank"}
    [] bundle = "RefusalLooksConfined" -> {"refusal_is_never_reported_as_confined"}
    [] bundle = "IgnoresRefusal" -> {"consumer_routes_on_allowed", "denied_command_never_runs"}
    [] bundle = "ClaimsConfinement" -> {"confined_run_is_actually_confined"}
    [] bundle \in {"IgnoresCancel", "Hoards", "SpawnPanics"} -> {"cancellation_is_honoured"}
    [] bundle \in {"FabricatesSuccess", "RelabelsFailure", "Panics"} -> {"failing_command_is_typed_error"}
    [] OTHER -> {}
ExecutorSuiteBites ==
  \A t \in Checkers : LET c == checks[t] IN
    c.cases = <<>> =>
      /\ BitesOn(c.bundle) \subseteq c.bad \cup (IF c.late THEN {"cancellation_is_honoured"} ELSE {})
      /\ c.bundle = "EarlyRefusal" => "sandbox_sees_exact_argv" \notin c.bad
      /\ c.bundle = "NoLegs" => c.bad = {}

(* VIOLATED. "fixture probe time can never be charged to the provider":    *)
(* the measured child ages while the probes run, and on a loaded machine   *)
(* it ends before it is cancelled.                                         *)
ProbeTimeIsNotCharged == \A t \in Checkers : checks[t].bundle = "shipped" => "cancellation_is_honoured" \notin checks[t].bad

(* VIOLATED. "a provider whose sandbox declines to participate in          *)
(* injection still gets a real verdict out of it": the suite's sandbox is  *)
(* in the bundle, not on the path of the shell it drives.                  *)
InjectedDenyReachesShell == \A t \in Checkers : checks[t].bundle = "Declines" => "injected_deny_reaches_shell" \notin checks[t].bad

(* The suite decides: it passes the shipped bundle and fails every stub of *)
(* its own tests.                                                          *)
ExecutorSuiteDecides == ExecutorMeetsContract /\ ExecutorSuiteBites
=============================================================================
