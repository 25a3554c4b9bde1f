--------------------------- MODULE SeamProviders ---------------------------
(***************************************************************************)
(* The providers of the model seam and of the execution seams, with the    *)
(* suites that hold them to their contracts. They share no state: a        *)
(* behaviour exercises one part, and the others rest.                      *)
(***************************************************************************)
EXTENDS AdapterSuite, ExecWorld, ExecutorSuite

CONSTANT Parts
PartsAssumption == Parts \subseteq {"streams", "adapter suite", "commands", "executor suite"}
ASSUME PartsAssumption

VARIABLE part
seamVars == <<part, modelVars, replayVars, adapterSuiteVars, execVars, executorSuiteVars>>

(* The environment of a part that rests.                                   *)
NoStreams == [bodies |-> {}, streams |-> {}, faults |-> {}, golden |-> {}, calls |-> 0]
NoTests   == [t \in TestThreads |-> [mode |-> "case", cases |-> <<>>, defect |-> "none"]]
NoRuns    == [mode |-> "unconfined", rootLeaves |-> FALSE, garbled |-> FALSE, plans |-> [r \in Runs |-> [via |-> "none"]]]
NoChecks  == [t \in Checkers |-> [bundle |-> "shipped", cases |-> <<>>]]

SeamInit ==
  /\ part \in Parts /\ ReplayInit
  /\ IF part = "streams" THEN ModelInit ELSE ModelFrom(NoStreams)
  /\ IF part = "adapter suite" THEN AdapterSuiteInit ELSE AdapterSuiteFrom(NoTests)
  /\ IF part = "commands" THEN ExecInit ELSE ExecFrom(NoRuns)
  /\ IF part = "executor suite" THEN ExecutorSuiteInit ELSE ExecutorSuiteFrom(NoChecks)

SeamNext ==
  /\ UNCHANGED part
  /\ \/ part = "streams" /\ ModelNext /\ UNCHANGED <<replayVars, adapterSuiteVars, execVars, executorSuiteVars>>
     \/ part = "streams" /\ ReplayNext /\ UNCHANGED <<modelVars, adapterSuiteVars, execVars, executorSuiteVars>>
     \/ part = "adapter suite" /\ AdapterSuiteNext /\ UNCHANGED <<modelVars, replayVars, execVars, executorSuiteVars>>
     \/ part = "commands" /\ ExecNext /\ UNCHANGED <<modelVars, replayVars, adapterSuiteVars, executorSuiteVars>>
     \/ part = "executor suite" /\ ExecutorSuiteNext /\ UNCHANGED <<modelVars, replayVars, adapterSuiteVars, execVars>>

SeamSpec == SeamInit /\ [][SeamNext]_seamVars
=============================================================================
