--------------------------- MODULE MCSeamProviders --------------------------
(* A small instance of the providers of the model and execution seams.     *)
EXTENDS SeamProviders

Chunk0 == [text |-> <<>>, reasoning |-> <<>>, calls |-> <<>>, finish |-> FALSE, usage |-> {}, error |-> "none"]
Prompt(p, h, m, c) == [prompt |-> p, hit |-> h, miss |-> m, cached |-> c, completion |-> 2, reasoning |-> 1]
CallPart(i, carries, args) == <<[index |-> i, carries |-> carries, args |-> args]>>
McChunkOf ==
  ("t1" :> [Chunk0 EXCEPT !.text = <<"a">>]) @@ ("t2" :> [Chunk0 EXCEPT !.text = <<"b">>, !.reasoning = <<"s">>]) @@
  ("r1" :> [Chunk0 EXCEPT !.reasoning = <<"r">>]) @@
  ("c0" :> [Chunk0 EXCEPT !.calls = CallPart(0, FALSE, <<>>) \o CallPart(1, TRUE, <<"y">>)]) @@
  ("c1" :> [Chunk0 EXCEPT !.calls = CallPart(0, TRUE, <<"x">>)]) @@
  ("u1" :> [Chunk0 EXCEPT !.usage = {Prompt(5, 0, 0, 0)}]) @@
  ("u2" :> [Chunk0 EXCEPT !.usage = {Prompt(5, 2, 0, 0)}, !.finish = TRUE]) @@
  ("u3" :> [Chunk0 EXCEPT !.usage = {Prompt(5, 2, 3, 0)}]) @@ ("u4" :> [Chunk0 EXCEPT !.usage = {Prompt(5, 0, 0, 4)}]) @@
  ("u5" :> [Chunk0 EXCEPT !.usage = {Prompt(1, 2, 0, 0)}]) @@
  ("fin" :> [Chunk0 EXCEPT !.finish = TRUE]) @@
  ("e1" :> [Chunk0 EXCEPT !.error = "window"]) @@ ("e2" :> [Chunk0 EXCEPT !.error = "tokens"])
D(c) == <<"data", c, "whole">>
Ev(c) == <<D(c), Lf, Lf>>
EvCr(c) == <<D(c), Cr, Lf, Cr, Lf>>
EvBareCr(c) == <<D(c), Cr, Cr>>
Ev2(c) == <<<<"data", c, "head">>, Lf, <<"data", c, "tail">>, Lf, Lf>>
Note == <<<<"note">>, Lf, Lf>>
Bodies1 == { Ev("t1") \o Note \o Ev("c0") \o Ev("r1") \o Ev("c1") \o Ev2("t2") \o Ev("u2") \o Ev("t1") \o Ev("done"),
   EvCr("t1") \o EvCr("u1") \o EvBareCr("t2") \o EvBareCr("u3") \o EvCr("fin"),
   Ev("t1") \o Ev("u4") \o Ev("c0") \o <<D("fin")>>,
   Ev("c0") \o Ev("c1") \o Ev("fin"),
   Ev("u5") \o Ev("t1") \o Ev("done") \o Ev("t2") \o Ev("e2") \o Ev("t1"),
   Ev("bad") \o Ev("u1"), <<>>, Ev("e1"),
   <<<<"data", "t1", "head">>, Cr, Lf, <<"data", "t1", "tail">>, Cr, Lf, Cr, Lf>> \o EvCr("t2") }
Bodies2 == { Ev("t1") \o Ev("c1"), Ev("c0") \o Ev("r1") \o Ev("u2") }
Frames(fs) == [frames |-> fs, blocks |-> <<>>, failure |-> NoFailure, of |-> <<>>]
McAuthored == {
  [Frames(<<Start(1, "tool_call"), Start(0, "text"), End(0, "text", <<"a">>), End(1, "tool_call", <<"x">>), Start(2, "text"), Finish>>)
     EXCEPT !.blocks = <<0, 1>>],
  [Frames(<<Start(0, "text"), End(0, "text", <<"a">>), Start(1, "tool_call"), End(1, "tool_call", <<"x">>), Finish>>)
     EXCEPT !.blocks = <<0>>],
  Frames(<<Start(0, "unknown"), Finish>>), Frames(<<Finish, Start(0, "text")>>), Frames(<<Start(0, "text")>>),
  Frames(<<UsageFrame(ZeroUsage), Finish>>), [Frames(<<Start(0, "text"), Finish>>) EXCEPT !.failure = "provider-failure"] }
McModelEnvironments == {
  [bodies |-> Bodies1, streams |-> {1}, faults |-> {"connect", "read"}, golden |-> {}, calls |-> 1],
  [bodies |-> Bodies2, streams |-> {1, 2}, faults |-> {"read"}, golden |-> {}, calls |-> 0],
  [bodies |-> {}, streams |-> {}, faults |-> {}, golden |-> McAuthored, calls |-> 3] }
Each(mode, defect) == { [mode |-> mode, cases |-> <<c>>, defect |-> defect] : c \in ToSet(AdapterCases) }
Solo(plan) == [t \in TestThreads |-> IF t = 1 THEN plan ELSE NoTests[t]]
Defects == {"UsageAfterFinish", "FrameAfterFinish", "ReserialisesArgs", "MiscodedFailure", "DropsFailure",
   "EventAfterFailure", "SilentIsSuccess", "MiscodedEmpty", "MiscodedOverflow", "DoubleCountsInput", "ReAddsReasoning",
   "ClaimsEverything", "IndexOrderAlignment", "Throws", "Panics", "Hangs"}
McTestPlans ==
  { Solo([mode |-> "stub", cases |-> AdapterCases, defect |-> d]) : d \in Defects }
  \cup { [t \in TestThreads |-> IF t = 1 THEN [mode |-> "whole", cases |-> AdapterCases, defect |-> "none"] ELSE p] : p \in Each("case", "none") }

----------------------------------------------------------------------------
(* Commands: two runs over a small pid table.                              *)
Quick == [via |-> "shell", hint |-> "none", argv |-> TRUE, cancels |-> FALSE, writes |-> 1, exit |-> "zero",
          traps |-> FALSE, helper |-> FALSE, cap |-> 1]
Direct(h)  == [Quick EXCEPT !.via = "spawn", !.hint = h]
Stopped(p) == [p EXCEPT !.cancels = TRUE]
ExecEnv(mode, first, second) ==
  [mode |-> mode, rootLeaves |-> FALSE, garbled |-> FALSE, plans |-> [r \in Runs |-> IF r = "r1" THEN first ELSE second]]
McStranger == ExecEnv("unconfined", Stopped([Direct("none") EXCEPT !.helper = TRUE]), Direct("none"))
McExecEnvironments == {
  McStranger,
  ExecEnv("unconfined", [Quick EXCEPT !.writes = 2], [Quick EXCEPT !.exit = "nonzero"]),
  ExecEnv("deny-all", Quick, Stopped([Direct("none") EXCEPT !.exit = "never", !.traps = TRUE, !.helper = TRUE, !.writes = 2])),
  ExecEnv("unconfined", Stopped([Direct("none") EXCEPT !.helper = TRUE]), Direct("unreadable")),
  [ExecEnv("sandbox-local", Quick, [Quick EXCEPT !.writes = 2]) EXCEPT !.rootLeaves = TRUE],
  ExecEnv("sandbox-local", Stopped([Direct("readable") EXCEPT !.exit = "never"]), [Direct("none") EXCEPT !.argv = FALSE]),
  [ExecEnv("sandbox-local", Quick, [Direct("readable") EXCEPT !.argv = FALSE]) EXCEPT !.garbled = TRUE, !.rootLeaves = TRUE] }

----------------------------------------------------------------------------
(* The executor suite: every stub alone, and the shipped bundle with two   *)
(* threads of cases beside each other.                                     *)
Stubs == {"RewritesArgv", "RefusesBeforeSandbox", "PrivateLegs", "BlankReason", "SandboxPanics", "RefusalLooksConfined",
          "IgnoresRefusal", "ClaimsConfinement", "IgnoresCancel", "Hoards", "SpawnPanics", "FabricatesSuccess",
          "RelabelsFailure", "Panics", "EarlyRefusal", "NoLegs"}
Checks(first, second) == [t \in Checkers |-> IF t = "k1" THEN first ELSE second]
Shipped(cases) == [bundle |-> "shipped", cases |-> cases]
McCheckPlans ==
  { Checks([bundle |-> b, cases |-> ExecutorCases], Shipped(<<>>)) : b \in Stubs }
  \cup { Checks(Shipped(SubSeq(ExecutorCases, 1, 5)), Shipped(SubSeq(ExecutorCases, 6, 9))) }
=============================================================================
