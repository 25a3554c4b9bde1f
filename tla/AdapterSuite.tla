---------------------------- MODULE AdapterSuite ---------------------------
(***************************************************************************)
(* The model-adapter conformance suite (harnless-conformance) and the      *)
(* harness that runs it over the replay adapter. A test thread builds the  *)
(* scenario of a case, opens the stream, and receives over a channel what  *)
(* a drive thread pulls out of it, every wait bounded; then it judges.     *)
(* The tests of a binary run at once, and the harness of the whole suite   *)
(* routes a stream to its corpus through one table of the process.         *)
(***************************************************************************)
EXTENDS ReplayScript

CONSTANTS
  TestThreads,
  TestPlans        \* set of functions: thread -> [mode, cases, defect]

VARIABLES tests, routes

adapterSuiteVars == <<tests, routes>>

AdapterCases ==
  <<"usage_before_finish", "nothing_after_finish", "raw_json_tool_arguments", "sanctioned_failure_paths",
    "in_band_failure_is_terminal", "empty_completion_is_retryable_failure", "context_overflow_canonical_code",
    "disjoint_usage", "replay_state_ownership", "replay_alignment_is_emission_order">>

----------------------------------------------------------------------------
(* The corpora of the harness, and the scenario the suite compares with.   *)
RawArgs == <<"head", "tail">>
HonestUsage == [uncached |-> 100, reads |-> 30, output |-> 40, reasoning |-> 12]
ZeroUsage   == [uncached |-> 0, reads |-> 0, output |-> 0, reasoning |-> 0]

TextTurn == <<Start(0, "text"), Delta(0, "text", 0, <<"hello">>), End(0, "text", <<"hello">>),
              UsageFrame(HonestUsage), Finish>>
ToolTurn == <<Start(0, "tool_call"), Delta(0, "tool_call", 7, <<"head">>), Delta(0, "tool_call", 7, <<"tail">>),
              End(0, "tool_call", RawArgs), UsageFrame(ZeroUsage), Finish>>
FailedTurn(code) == <<Start(0, "text"), End(0, "text", <<"partial">>), Failed(code)>>
InterleavedTurn == <<Start(1, "text"), Start(0, "text"), Delta(0, "text", 0, <<"first">>), End(1, "text", <<"second">>),
                     End(0, "text", <<"first">>), UsageFrame(ZeroUsage), Finish>>

Corpus(case) ==
  CASE case = "empty_completion_is_retryable_failure" -> <<>>
    [] case = "context_overflow_canonical_code"       -> FailedTurn("context-overflow")
    [] case = "raw_json_tool_arguments"               -> ToolTurn
    [] case = "replay_alignment_is_emission_order"    -> InterleavedTurn
    [] case \in {"sanctioned_failure_paths", "in_band_failure_is_terminal"} -> FailedTurn("provider-failure")
    [] OTHER                                          -> TextTurn

(* What stream() is handed: one message, never a tool, and replay state    *)
(* for a text turn only. That is the key of the route, too.                *)
ScenarioKey(case) == IF Corpus(case) = TextTurn THEN "owned" ELSE "plain"

----------------------------------------------------------------------------
Filtered(frames, P(_)) == SelectSeq(frames, P)
Only(frames, e, kind) == Filtered(frames, LAMBDA ev : ev.e = e /\ ev.kind = kind)

(* The adapter a test drives: what entering the stream does, what it       *)
(* yields, and whether it ends. The defects are the stubs of the suite's   *)
(* own tests; without one it is the replay adapter over a recording, whose *)
(* silence fails as an empty completion.                                   *)
StubFrames(defect, frames) ==
  LET Mend(P(_), F(_)) == [i \in DOMAIN frames |-> IF P(frames[i]) THEN F(frames[i]) ELSE frames[i]]
      Recount(F(_)) == Mend(LAMBDA ev : ev.e = "usage", LAMBDA ev : [ev EXCEPT !.usage = { F(u) : u \in @ }])
  IN CASE defect = "UsageAfterFinish"  -> Filtered(frames, LAMBDA ev : ev.e # "usage") \o Only(frames, "usage", "")
       [] defect = "FrameAfterFinish"  -> Append(frames, Delta(0, "text", 0, <<"more">>))
       [] defect = "ReserialisesArgs"  ->
            Filtered(Mend(LAMBDA ev : ev.e = "end" /\ ev.kind = "tool_call", LAMBDA ev : [ev EXCEPT !.said = <<"sorted">>]),
                     LAMBDA ev : ~(ev.e = "delta" /\ ev.kind = "tool_call"))
       [] defect = "DoubleCountsInput" -> Recount(LAMBDA u : [u EXCEPT !.uncached = @ + u.reads])
       [] defect = "ReAddsReasoning"   -> Recount(LAMBDA u : [u EXCEPT !.output = @ + u.reasoning])
       [] OTHER -> frames

StubEnding(defect, code) ==
  LET succeeds == <<UsageFrame(ZeroUsage), Finish>>
      again == IF defect = "EventAfterFailure" THEN <<Delta(0, "text", 0, <<"more">>)>> ELSE <<>>
  IN CASE code = NoFailure -> <<>>
       [] code = "empty-completion" ->
            IF defect = "SilentIsSuccess" THEN succeeds
            ELSE <<Failed(IF defect = "MiscodedEmpty" THEN "stream-terminated" ELSE code)>>
       [] OTHER ->
            IF defect = "DropsFailure" THEN succeeds
            ELSE <<Failed(CASE defect = "MiscodedFailure"  -> "stream-terminated"
                            [] defect = "MiscodedOverflow" -> "provider-failure"
                            [] OTHER -> code)>> \o again

Broken(defect, out) ==
  IF defect = "Hangs" THEN <<>> ELSE StubFrames(defect, FramesOf(out)) \o StubEnding(defect, FailureOf(out))

Owns(defect, document) == document = "own" \/ defect = "ClaimsEverything"

(* The per-block metadata the provider publishes for the case.             *)
Published(defect, case) ==
  LET ends == EndsOf(Corpus(case))
      inOrder == [i \in DOMAIN ends |-> ends[i].at]
  IN  IF defect = "IndexOrderAlignment" THEN SortSeq(inOrder, <) ELSE inOrder

----------------------------------------------------------------------------
(* What the suite collects of a stream, and its verdict.                   *)
NothingCollected == [frames |-> <<>>, failure |-> NoFailure, after |-> 0, threw |-> NoFailure,
                     stalled |-> FALSE, panicked |-> FALSE]

(* A bounded receive: an event before the terminal one, or past it.        *)
TerminalSeen(col) == col.failure # NoFailure \/ Finish \in ToSet(col.frames)
Collect(col, ev) ==
  IF TerminalSeen(col) THEN [col EXCEPT !.after = @ + 1]
  ELSE IF ev.e = "failed" THEN [col EXCEPT !.failure = ev.code]
  ELSE [col EXCEPT !.frames = Append(@, ev)]

FirstOf(frames, e) == LET at == Positions(frames, LAMBDA ev : ev.e = e)
                      IN  IF at = {} THEN 0 ELSE CHOOSE i \in at : \A j \in at : i <= j
Concat(deltas) == FoldLeft(LAMBDA w, ev : w \o ev.said, <<>>, deltas)

UsagePrecedesFinish(frames) ==
  /\ FirstOf(frames, "usage") > 0 /\ FirstOf(frames, "usage") < FirstOf(frames, "finish")

RawArgumentsKept(frames, expected) ==
  LET assembled == Only(frames, "end", "tool_call")
      deltas == Only(frames, "delta", "tool_call")
  IN  /\ assembled # <<>> /\ \A i \in DOMAIN assembled : assembled[i].said = RawArgs
      /\ deltas = Only(expected, "delta", "tool_call") /\ Concat(deltas) = RawArgs

UsageIsPlausible(frames, expected) ==   \* a bug: the input side is not compared
  LET reported == Only(frames, "usage", "") IN
  /\ Len(reported) = 1 /\ \A u \in reported[1].usage : u.reasoning <= u.output
UsageIsHonest(frames, expected) ==
  LET reported == Only(frames, "usage", "") IN
  /\ Len(reported) = 1 /\ reported = Only(expected, "usage", "")
  /\ \A u \in reported[1].usage : u.reasoning <= u.output

AlignmentIsEmissionOrder(frames, expected, published) ==
  LET ends == EndsOf(frames)
      asm  == FoldLeft(AssemblerPush, NewAssembler, frames)
      aligned == AlignReplay(asm, published)
  IN  /\ frames = expected /\ Len(ends) = Len(published)
      /\ \E i \in 1..(Len(ends) - 1) : ends[i].at > ends[i+1].at
      /\ Len(aligned) = Len(Blocks(asm))
      /\ \A slot \in DOMAIN aligned : aligned[slot] = ends[slot].at

ReplayStateOwnership(defect) == Owns(defect, "own") /\ ~Owns(defect, "foreign") /\ ~Owns(defect, "bare")
UsageBeforeFinish(col) == UsagePrecedesFinish(col.frames) /\ col.after = 0
NothingAfterFinish(col, expected) ==
  /\ col.after = 0 /\ ~col.stalled
  /\ FirstOf(col.frames, "finish") = Len(col.frames) /\ col.frames = expected
SanctionedFailurePaths(col, code) == col.failure = code /\ col.after = 0
ContextOverflowCanonicalCode(col) == col.failure = "context-overflow" /\ col.after = 0
InBandFailureIsTerminal(col, expected) ==
  col.failure # NoFailure /\ col.after = 0 /\ Finish \notin ToSet(col.frames) /\ col.frames = expected
EmptyCompletionIsRetryableFailure(col) ==
  ~HasContent(col.frames) /\ col.failure = "empty-completion" /\ ~col.stalled

(* A provider that refuses the scenario at the entry is skipped: throwing  *)
(* is a sanctioned path, held only to the code where the case is about it. *)
ThrownCodeIsJudged(case) ==
  case \in {"sanctioned_failure_paths", "context_overflow_canonical_code", "empty_completion_is_retryable_failure"}

Clean(case, defect, col) ==
  LET expected == FramesOf(Corpus(case))
      code     == FailureOf(ReplayOf(Capture(Corpus(case))))
  IN CASE case = "replay_state_ownership" -> ReplayStateOwnership(defect)
       [] col.panicked -> FALSE
       [] col.threw # NoFailure -> ThrownCodeIsJudged(case) => col.threw = code
       [] case = "usage_before_finish"           -> UsageBeforeFinish(col)
       [] case = "nothing_after_finish"          -> NothingAfterFinish(col, expected)
       [] case = "raw_json_tool_arguments"       -> RawArgumentsKept(col.frames, expected)
       [] case = "sanctioned_failure_paths"      -> SanctionedFailurePaths(col, code)
       [] case = "context_overflow_canonical_code" -> ContextOverflowCanonicalCode(col)
       [] case = "in_band_failure_is_terminal"   -> InBandFailureIsTerminal(col, expected)
       [] case = "empty_completion_is_retryable_failure" -> EmptyCompletionIsRetryableFailure(col)
       [] case = "disjoint_usage"                -> UsageIsHonest(col.frames, expected)
       [] OTHER -> AlignmentIsEmissionOrder(col.frames, expected, Published(defect, case))

----------------------------------------------------------------------------
IdleTest(plan) == [mode |-> plan.mode, cases |-> plan.cases, defect |-> plan.defect, at |-> "factory",
                   coming |-> <<>>, pump |-> "none", queue |-> <<>>, col |-> NothingCollected,
                   served |-> <<>>, bad |-> {}]

AdapterSuiteFrom(plan) == tests = [t \in TestThreads |-> IdleTest(plan[t])] /\ routes = <<>>
AdapterSuiteInit == \E plan \in TestPlans : AdapterSuiteFrom(plan)

Case(t) == tests[t].cases[1]
Running(t) == tests[t].cases # <<>>

(* The factory of the scenario registers the corpus under the scenario's   *)
(* key, whichever test asks; the stubs of the suite's own tests register   *)
(* nothing.                                                                *)
BuildScenario(t) ==
  /\ Running(t) /\ tests[t].at = "factory"
  /\ tests' = [tests EXCEPT ![t].at = "enter"]
  /\ routes' = IF tests[t].mode = "stub" THEN routes ELSE (ScenarioKey(Case(t)) :> Case(t)) @@ routes

(* stream(): the adapter of a single case replays that case's recording,   *)
(* that of the whole suite the one its route names.                        *)
EnterStream(t) ==
  LET r == tests[t]
      served == IF r.mode = "whole" THEN routes[ScenarioKey(Case(t))] ELSE Case(t)
      out == ReplayOf(Capture(Corpus(served)))
      in == [r EXCEPT !.at = "collect", !.served = <<Case(t), served>>, !.col = NothingCollected,
                      !.coming = Broken(r.defect, out), !.pump = "pulling", !.queue = <<>>]
  IN
  /\ Running(t) /\ r.at = "enter"
  /\ tests' = [tests EXCEPT ![t] =
       IF r.defect = "Throws" THEN [in EXCEPT !.at = "judge", !.col.threw = "provider-failure"]
       ELSE IF r.defect = "Panics" THEN [in EXCEPT !.at = "judge", !.col.panicked = TRUE]
       ELSE IF Case(t) = "replay_state_ownership" THEN [in EXCEPT !.at = "judge"]
       ELSE in]
  /\ UNCHANGED routes

(* The drive thread: next event over the channel, or the end of it.        *)
Pump(t) ==
  LET r == tests[t] IN
  /\ r.at = "collect" /\ r.pump = "pulling"
  /\ ~(r.defect = "Hangs" /\ r.coming = <<>>)
  /\ tests' = [tests EXCEPT ![t] =
       IF r.coming = <<>> THEN [r EXCEPT !.pump = "ended"]
       ELSE [r EXCEPT !.queue = Append(@, Head(r.coming)), !.coming = Tail(@)]]
  /\ UNCHANGED routes

Receive(t) ==
  LET r == tests[t] IN
  /\ r.at = "collect"
  /\ \/ /\ r.queue # <<>>
        /\ tests' = [tests EXCEPT ![t].queue = Tail(@), ![t].col = Collect(@, Head(r.queue))]
     \/ /\ r.queue = <<>> /\ r.pump = "ended"
        /\ tests' = [tests EXCEPT ![t].at = "judge"]
  /\ UNCHANGED routes

(* The watchdog expires on a stream that stays silent: the drive thread is *)
(* told to stop.                                                           *)
Stalls(t) ==
  /\ tests[t].at = "collect" /\ tests[t].queue = <<>> /\ tests[t].coming = <<>> /\ tests[t].defect = "Hangs"
  /\ tests' = [tests EXCEPT ![t].col.stalled = TRUE, ![t].at = "judge", ![t].pump = "stopped"]
  /\ UNCHANGED routes

Judge(t) ==
  LET r == tests[t] IN
  /\ r.at = "judge"
  /\ tests' = [tests EXCEPT ![t].at = "factory", ![t].cases = Tail(@),
                 ![t].bad = IF Clean(Case(t), r.defect, r.col) THEN @ ELSE @ \cup {Case(t)}]
  /\ UNCHANGED routes

AdapterSuiteNext ==
  \E t \in TestThreads : BuildScenario(t) \/ EnterStream(t) \/ Pump(t) \/ Receive(t) \/ Stalls(t) \/ Judge(t)

----------------------------------------------------------------------------
(* The replay adapter, driven case by case over its own recordings, meets  *)
(* the contract, whatever the scheduling of the drive thread.              *)
ReplayMeetsContract ==
  \A t \in TestThreads : tests[t].mode = "case" /\ tests[t].defect = "none" => tests[t].bad = {}

(* The suite reports every defect its own tests name under the case they   *)
(* name; one that throws is skipped, never failed, by the cases that only  *)
(* look at a stream.                                                       *)
Bites(defect) ==
  CASE defect = "UsageAfterFinish" -> {"usage_before_finish"}
    [] defect = "FrameAfterFinish" -> {"nothing_after_finish"}
    [] defect = "ReserialisesArgs" -> {"raw_json_tool_arguments"}
    [] defect \in {"MiscodedFailure", "DropsFailure"} -> {"sanctioned_failure_paths"}
    [] defect = "EventAfterFailure" -> {"in_band_failure_is_terminal"}
    [] defect \in {"SilentIsSuccess", "MiscodedEmpty"} -> {"empty_completion_is_retryable_failure"}
    [] defect = "MiscodedOverflow" -> {"context_overflow_canonical_code"}
    [] defect \in {"DoubleCountsInput", "ReAddsReasoning"} -> {"disjoint_usage"}
    [] defect = "ClaimsEverything" -> {"replay_state_ownership"}
    [] defect = "IndexOrderAlignment" -> {"replay_alignment_is_emission_order"}
    [] defect = "Hangs" -> {"nothing_after_finish"}
    [] defect = "Panics" -> {"usage_before_finish"}
    [] OTHER -> {}
SkippedByThrowing == {"usage_before_finish", "nothing_after_finish", "raw_json_tool_arguments",
                      "in_band_failure_is_terminal", "disjoint_usage"}
AdapterSuiteBites ==
  \A t \in TestThreads : LET r == tests[t] IN
    r.mode = "stub" /\ r.cases = <<>> =>
      /\ Bites(r.defect) \subseteq r.bad
      /\ r.defect = "Throws" => r.bad \cap SkippedByThrowing = {}

(* VIOLATED. "A late or mis-ordered call can only ever replay the corpus   *)
(* its scenario describes": the scenarios of most cases share one key, so  *)
(* the test that registers last decides what another one is served.        *)
CaseGetsItsCorpus ==
  \A t \in TestThreads : tests[t].served # <<>> =>
    Corpus(tests[t].served[1]) = Corpus(tests[t].served[2])

(* The suite decides: it passes the shipped adapter and fails every stub   *)
(* of its own tests.                                                       *)
AdapterSuiteDecides == ReplayMeetsContract /\ AdapterSuiteBites
=============================================================================
