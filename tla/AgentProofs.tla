---------------------------- MODULE AgentProofs ----------------------------
(***************************************************************************)
(* Proofs about the agent crate and its model adapter: AgentTurn for every *)
(* set of drivers and of call ids, every environment and every bound,      *)
(* ToolPipeline for every set of calls and of listeners and every choice   *)
(* of habits, and ModelStream for every set of streams, table of chunks    *)
(* and environment, alone and under ReplayScript, whose recordings are     *)
(* taken of its streams. The others share no state: a turn sees of the     *)
(* pipeline that a tool call has a result, and of a stream its answer.     *)
(*                                                                         *)
(* MessageIdsDistinct is not inductive: an id is minted before its message *)
(* is logged, and a process mints again above what it finds in the log.    *)
(* The strengthening says that the ids on their way to the log are below   *)
(* the allocator, held by one driver and not on the log, and that the log  *)
(* has a largest id for the allocator to be seeded with. BudgetIsSticky    *)
(* needs what holds between a turn's decision and its close                *)
(* (CleanIsDecided), and that no other driver closes then.                 *)
(*                                                                         *)
(* That the calls never all wait is a matter of order: every chain is a    *)
(* part of the order in which listeners were registered, so a call takes   *)
(* their mutexes in that order.  Who holds the last registered of the      *)
(* listeners that are waited for does not wait itself.                     *)
(*                                                                         *)
(* That a stream tells a well-formed story is a relation of the story to   *)
(* the decoder: every block the decoder keeps is open in the story and has *)
(* the text it keeps, and every block of the story is one the decoder      *)
(* opened. Each frame of a chunk keeps that, closing ends each open block  *)
(* once, and what follows is at most a usage frame and the terminal event. *)
(* A recording of such a story is played as it was told.                   *)
(***************************************************************************)
EXTENDS AgentTurn, ToolPipeline, ReplayScript, FiniteSetTheorems, SequenceTheorems,
        WellFoundedInduction, TLAPS

----------------------------------------------------------------------------
(***************************************************************************)
(* AgentTurn                                                               *)
(***************************************************************************)
(* What MaxRecordId and FinalAssistant choose exists. *)
HasMax ==
  /\ \E m \in {0} \cup IdsOf(log) : \A x \in {0} \cup IdsOf(log) : m >= x
  /\ Answers(log) # {} => \E m \in Answers(log) : \A x \in Answers(log) : m >= x

IsLogged(id) == \E i \in DOMAIN log : IsSeamMessage(log[i]) /\ log[i].id = id

(* Driver d holds an id that it is about to log a message under. *)
Holds(d, id) ==
  \/ pc[d] = "prompt" /\ id = turn[d].prompt
  \/ pc[d] = "message" /\ id = turn[d].said.id

HeldIsFresh == \A d \in Drivers, id \in Nat : Holds(d, id) => id < next /\ ~IsLogged(id)
HeldByOne == \A d, e \in Drivers, id \in Nat : Holds(d, id) /\ Holds(e, id) => d = e
LoggedIsOld == up => \A i \in DOMAIN log : IsSeamMessage(log[i]) => log[i].id < next

(* Where a driver is tells what kind of record it holds. *)
SaidIsAnswer ==
  \A d \in Drivers :
    /\ pc[d] = "message" => turn[d].said.kind = "assistant"
    /\ pc[d] = "call" => turn[d].said.kind = "call"

DownIsIdle == ~up => Idle

IdInv ==
  /\ TurnTypeOK /\ HasMax /\ HeldIsFresh /\ HeldByOne /\ LoggedIsOld
  /\ SaidIsAnswer /\ DownIsIdle /\ MessageIdsDistinct

----------------------------------------------------------------------------
(* A step that logs logs one record, or the mirror refuses it. *)
Logging(d) ==
  \/ LogPrompt(d) \/ LogTurnOpen(d) \/ LogStepOpen(d) \/ LogMessage(d)
  \/ LogCall(d) \/ LogResult(d) \/ LogStepClose(d) \/ LogTurnClose(d)

(* Every other step of a driver. *)
Thinking(d) ==
  \/ Prompt(d) \/ Look(d) \/ AnswerMessage(d) \/ AnswerCall(d) \/ AnswerStop(d)
  \/ AnswerToolCall(d) \/ DecideReason(d) \/ Return(d)

Mounting == Resume \/ Fork

LEMMA TurnCases ==
  [TurnNext]_turnVars =>
    (\E d \in Drivers : Logging(d) \/ Thinking(d)) \/ Stop \/ Mounting \/ UNCHANGED turnVars
  BY DEF TurnNext, Step, Logging, Thinking, Mounting

LEMMA RecordsTyped ==
  /\ \A kind \in Kind, id \in Nat : Rec(kind, id) \in Record
  /\ \A why \in Reason : Close(why) \in Record
  BY DEF Rec, Close, Record, Kind, Reason

LEMMA LogTyped ==
  ASSUME log \in Seq(Record)
  PROVE  /\ \A i \in DOMAIN log : log[i] \in Record /\ log[i].id \in Nat
         /\ {0} \cup IdsOf(log) \subseteq Nat
         /\ Answers(log) \subseteq Nat
<1>1. \A i \in DOMAIN log : log[i] \in Record  OBVIOUS
<1>2. \A i \in DOMAIN log : log[i].id \in Nat  BY <1>1 DEF Record
<1> QED  BY <1>1, <1>2 DEF IdsOf, Answers

LEMMA TurnTyped ==
  ASSUME TurnTypeOK, NEW d \in Drivers
  PROVE  /\ turn[d].prompt \in Nat /\ turn[d].said \in Record /\ turn[d].why \in Reason
         /\ turn[d].said.id \in Nat /\ turn[d].said.kind \in Kind
<1>1. turn[d] \in Turn  BY DEF TurnTypeOK
<1>2. turn[d].said \in Record  BY <1>1 DEF Turn
<1> QED  BY <1>1, <1>2 DEF Turn, Record

(* The record that driver d logs where it is. *)
Due(d) ==
  CASE pc[d] = "prompt"    -> Rec("user", turn[d].prompt)
    [] pc[d] = "turnOpen"  -> Rec("turnOpen", 0)
    [] pc[d] = "stepOpen"  -> Rec("stepOpen", 0)
    [] pc[d] = "message"   -> turn[d].said
    [] pc[d] = "call"      -> turn[d].said
    [] pc[d] = "result"    -> Rec("result", turn[d].said.id)
    [] pc[d] = "stepClose" -> Rec("stepClose", 0)
    [] pc[d] = "turnClose" -> Close(turn[d].why)

LogPc == {"prompt", "turnOpen", "stepOpen", "message", "call", "result",
          "stepClose", "turnClose"}
AfterLog == {"turnOpen", "stepOpen", "look", "decide", "run", "turnClose", "return"}

LEMMA LoggingStep ==
  ASSUME TurnTypeOK, NEW d \in Drivers, Logging(d)
  PROVE  /\ up /\ pc[d] \in LogPc /\ Append1(Due(d)) /\ Due(d) \in Record
         /\ \E to \in AfterLog : pc' = [pc EXCEPT ![d] = to]
         /\ UNCHANGED <<turnEnv, next, up, turn, prompts, boots, runs, told>>
<1> USE TurnTyped, RecordsTyped DEF Logs, Goes, Due, LogPc, AfterLog, Kind
<1>1. CASE LogPrompt(d)     BY <1>1 DEF LogPrompt
<1>2. CASE LogTurnOpen(d)   BY <1>2 DEF LogTurnOpen
<1>3. CASE LogStepOpen(d)   BY <1>3 DEF LogStepOpen
<1>4. CASE LogMessage(d)    BY <1>4 DEF LogMessage
<1>5. CASE LogCall(d)       BY <1>5 DEF LogCall
<1>6. CASE LogResult(d)     BY <1>6 DEF LogResult
<1>7. CASE LogStepClose(d)  BY <1>7 DEF LogStepClose
<1>8. CASE LogTurnClose(d)  BY <1>8 DEF LogTurnClose
<1> QED  BY <1>1, <1>2, <1>3, <1>4, <1>5, <1>6, <1>7, <1>8 DEF Logging

LEMMA MountingStep ==
  ASSUME Mounting
  PROVE  /\ ~up /\ up' /\ next' = MaxRecordId(log) + 1
         /\ boots < MaxBoots /\ boots' = boots + 1
         /\ UNCHANGED <<turnEnv, pc, turn, prompts, refused, runs, told>>
         /\ log' = log \/ log' = Append(log, Rec("seedBoundary", 0))
  BY DEF Mounting, Resume, Fork, Mount, Seeded

(* The seed of a process is above every id of the log. *)
LEMMA SeedAboveLog ==
  ASSUME log \in Seq(Record), HasMax
  PROVE  /\ MaxRecordId(log) \in Nat
         /\ \A i \in DOMAIN log : log[i].id <= MaxRecordId(log)
<1> DEFINE S == {0} \cup IdsOf(log)
<1>1. S \subseteq Nat  BY LogTyped
<1>2. PICK m \in S : \A x \in S : m >= x  BY DEF HasMax
<1>3. MaxRecordId(log) \in S /\ \A x \in S : MaxRecordId(log) >= x
  BY <1>2 DEF MaxRecordId, Max
<1>4. \A i \in DOMAIN log : log[i].id \in S  BY DEF IdsOf
<1> QED  BY <1>1, <1>3, <1>4

LEMMA AnswerTyped ==
  ASSUME log \in Seq(Record), HasMax
  PROVE  FinalAssistant(log) \in Nat
<1>1. CASE Answers(log) = {}  BY <1>1 DEF FinalAssistant
<1>2. CASE Answers(log) # {}
  <2>1. PICK m \in Answers(log) : \A x \in Answers(log) : m >= x  BY <1>2 DEF HasMax
  <2>2. Max(Answers(log)) \in Answers(log)  BY <2>1 DEF Max
  <2>3. Max(Answers(log)) \in DOMAIN log  BY <2>2 DEF Answers
  <2> QED  BY <1>2, <2>3, LogTyped DEF FinalAssistant
<1> QED  BY <1>1, <1>2

----------------------------------------------------------------------------
(* A log that grows by a record: what is there stays, and the record is    *)
(* the only one that is new.                                               *)
LEMMA Appended ==
  ASSUME log \in Seq(Record), NEW r \in Record, log' = Append(log, r)
  PROVE  /\ log' \in Seq(Record)
         /\ DOMAIN log' = DOMAIN log \cup {Len(log) + 1}
         /\ Len(log) + 1 \notin DOMAIN log /\ Len(log) \in Nat
         /\ \A i \in DOMAIN log : i \in Nat /\ i < Len(log) + 1 /\ log'[i] = log[i]
         /\ log'[Len(log) + 1] = r
  OBVIOUS

(* The record that is appended has the largest id, or the one that had it  *)
(* before has it still; and it is the last answer, or no answer.           *)
LEMMA AppendKeepsMax ==
  ASSUME log \in Seq(Record), HasMax, NEW r \in Record, log' = Append(log, r)
  PROVE  HasMax'
<1> DEFINE S == {0} \cup IdsOf(log)
           n == Len(log) + 1
<1>1. PICK m \in S : \A x \in S : m >= x  BY DEF HasMax
<1>2. S \subseteq Nat /\ Answers(log) \subseteq Nat  BY LogTyped
<1>3. r.id \in Nat  BY DEF Record
<1>4. IdsOf(log') = IdsOf(log) \cup {r.id}  BY Appended DEF IdsOf
<1>5. \E x \in {0} \cup IdsOf(log') : \A y \in {0} \cup IdsOf(log') : x >= y
  <2>1. CASE r.id >= m
    <3>1. \A y \in S : r.id >= y  BY <1>1, <1>2, <1>3, <2>1
    <3> QED  BY <1>3, <1>4, <3>1
  <2>2. CASE ~ r.id >= m
    <3>1. m \in Nat /\ m >= r.id  BY <1>2, <1>3, <2>2
    <3> QED  BY <1>1, <1>4, <3>1
  <2> QED  BY <2>1, <2>2
<1>6. Answers(log') # {} => \E x \in Answers(log') : \A y \in Answers(log') : x >= y
  <2>1. CASE r.kind = "assistant"
    <3>1. n \in Answers(log') /\ \A y \in Answers(log') : n >= y
      BY <2>1, Appended DEF Answers
    <3> QED  BY <3>1
  <2>2. CASE r.kind # "assistant"
    <3>1. Answers(log') = Answers(log)  BY <2>2, Appended DEF Answers
    <3> QED  BY <3>1 DEF HasMax
  <2> QED  BY <2>1, <2>2
<1> QED  BY <1>5, <1>6 DEF HasMax, IdsOf, Answers

LEMMA MaxKept ==
  ASSUME TurnTypeOK, HasMax, [TurnNext]_turnVars
  PROVE  HasMax'
<1>1. CASE UNCHANGED log  BY <1>1 DEF HasMax, IdsOf, Answers
<1>2. ASSUME NEW d \in Drivers, Logging(d)  PROVE HasMax'
  BY <1>1, <1>2, LoggingStep, AppendKeepsMax DEF Append1, TurnTypeOK
<1>3. ASSUME NEW d \in Drivers, Thinking(d)  PROVE UNCHANGED log
  BY <1>3 DEF Thinking, Prompt, Look, AnswerMessage, AnswerCall, AnswerStop,
              AnswerToolCall, DecideReason, Return
<1>4. CASE Mounting
  <2>1. Rec("seedBoundary", 0) \in Record  BY RecordsTyped DEF Kind
  <2> QED  BY <1>1, <1>4, <2>1, MountingStep, AppendKeepsMax DEF TurnTypeOK
<1>5. CASE Stop \/ UNCHANGED turnVars  BY <1>1, <1>5 DEF Stop, turnVars
<1> QED  BY <1>1, <1>2, <1>3, <1>4, <1>5, TurnCases

----------------------------------------------------------------------------
LEMMA TurnInitTyped == TurnInit => TurnTypeOK /\ HasMax
<1> SUFFICES ASSUME TurnInit PROVE TurnTypeOK /\ HasMax  OBVIOUS
<1>1. NoTurn \in Turn
  BY RecordsTyped DEF NoTurn, Turn, Kind, Reason
<1>2. TurnTypeOK  BY <1>1, AgentTurnAssumption DEF TurnInit, TurnTypeOK, Seeded, Pc
<1>3. IdsOf(log) = {} /\ Answers(log) = {}  BY DEF TurnInit, IdsOf, Answers
<1> QED  BY <1>2, <1>3 DEF HasMax

LEMMA ThinkingTyped ==
  ASSUME TurnTypeOK, HasMax, NEW d \in Drivers, Thinking(d)
  PROVE  TurnTypeOK'
<1> USE AgentTurnAssumption, RecordsTyped DEF TurnTypeOK, Goes, Pc, Kind, Reason
<1>1. NoTurn \in Turn  BY DEF NoTurn, Turn
<1>2. turn[d] \in Turn  OBVIOUS
<1>3. CASE Prompt(d)
  <2>1. turn' \in [Drivers -> Turn]
    <3>1. [NoTurn EXCEPT !.prompt = next] \in Turn  BY <1>1 DEF Turn
    <3> QED  BY <1>3, <3>1 DEF Prompt
  <2> QED  BY <1>3, <2>1 DEF Prompt
<1>4. CASE Look(d)
  <2>1. ModelMessages(log) \in SUBSET Nat  BY DEF ModelMessages
  <2>2. turn' \in [Drivers -> Turn]  BY <1>2, <1>4, <2>1 DEF Look, Turn
  <2> QED  BY <1>4, <2>2 DEF Look
<1>5. CASE AnswerMessage(d)
  <2>1. turn' \in [Drivers -> Turn]  BY <1>2, <1>5 DEF AnswerMessage, Turn
  <2> QED  BY <1>5, <2>1 DEF AnswerMessage
<1>6. CASE AnswerCall(d)
  <2>1. PICK c \in CallIds :
          turn' = [turn EXCEPT ![d].said = Rec("call", c), ![d].why = "completed"]
    BY <1>6 DEF AnswerCall
  <2>2. Rec("call", c) \in Record  OBVIOUS
  <2>3. turn' \in [Drivers -> Turn]  BY <1>2, <2>1, <2>2 DEF Turn
  <2> QED  BY <1>6, <2>3 DEF AnswerCall
<1>7. CASE AnswerStop(d)
  <2>1. PICK why \in {"error", "maxTokens"} : turn' = [turn EXCEPT ![d].why = why]
    BY <1>7 DEF AnswerStop
  <2>2. turn' \in [Drivers -> Turn]  BY <1>2, <2>1 DEF Turn
  <2> QED  BY <1>7, <2>2 DEF AnswerStop
<1>8. CASE AnswerToolCall(d)  BY <1>8 DEF AnswerToolCall
<1>9. CASE DecideReason(d)
  <2>1. [turn EXCEPT ![d].why = "maxTokens"] \in [Drivers -> Turn]  BY <1>2 DEF Turn
  <2>2. turn' = [turn EXCEPT ![d].why = "maxTokens"] \/ turn' = turn  BY <1>9 DEF DecideReason
  <2>3. turn' \in [Drivers -> Turn]  BY <2>1, <2>2
  <2> QED  BY <1>9, <2>3 DEF DecideReason
<1>10. CASE Return(d)
  <2> DEFINE text == IF turn[d].why = "completed" THEN FinalAssistant(log) ELSE 0
  <2>1. text \in Nat  BY AnswerTyped
  <2>2. turn' = [turn EXCEPT ![d].text = text] /\ told' = told \cup ({text} \ {0})
    BY <1>10 DEF Return
  <2> HIDE DEF text
  <2>3. turn' \in [Drivers -> Turn]  BY <1>2, <2>1, <2>2 DEF Turn
  <2> QED  BY <1>10, <2>1, <2>2, <2>3 DEF Return
<1> QED  BY <1>3, <1>4, <1>5, <1>6, <1>7, <1>8, <1>9, <1>10 DEF Thinking

LEMMA LoggingTyped ==
  ASSUME TurnTypeOK, NEW d \in Drivers, Logging(d)
  PROVE  TurnTypeOK'
<1>1. PICK r \in Record : Append1(r)  BY LoggingStep
<1>2. log' \in Seq(Record) /\ refused' \in 0..MaxRefusals
  BY <1>1, Appended, AgentTurnAssumption DEF Append1, TurnTypeOK
<1>3. pc' \in [Drivers -> Pc]  BY LoggingStep DEF TurnTypeOK, AfterLog, Pc
<1> QED  BY <1>2, <1>3, LoggingStep DEF TurnTypeOK

LEMMA MountingTyped ==
  ASSUME TurnTypeOK, HasMax, Mounting
  PROVE  TurnTypeOK'
<1>1. next' \in Nat \ {0}  BY MountingStep, SeedAboveLog DEF TurnTypeOK
<1>2. log' \in Seq(Record)  BY MountingStep, RecordsTyped, Appended DEF TurnTypeOK, Kind
<1>3. boots' \in 0..MaxBoots  BY MountingStep, AgentTurnAssumption DEF TurnTypeOK
<1> QED  BY <1>1, <1>2, <1>3, MountingStep DEF TurnTypeOK

LEMMA StepTyped ==
  ASSUME TurnTypeOK, HasMax, [TurnNext]_turnVars
  PROVE  TurnTypeOK'
<1>1. CASE Stop
  <2>1. NoTurn \in Turn  BY RecordsTyped DEF NoTurn, Turn, Kind, Reason
  <2> QED  BY <1>1, <2>1 DEF TurnTypeOK, Stop, Pc
<1>2. CASE UNCHANGED turnVars  BY <1>2 DEF TurnTypeOK, turnVars
<1> QED  BY <1>1, <1>2, ThinkingTyped, LoggingTyped, MountingTyped, TurnCases

(* Every reachable state of AgentTurn is well typed. *)
THEOREM AgentTypeOK == TurnSpec => []TurnTypeOK
<1>1. TurnInit => TurnTypeOK /\ HasMax  BY TurnInitTyped
<1>2. TurnTypeOK /\ HasMax /\ [TurnNext]_turnVars => (TurnTypeOK /\ HasMax)'  BY StepTyped, MaxKept
<1> QED  BY <1>1, <1>2, PTL DEF TurnSpec

----------------------------------------------------------------------------
(* A record that is appended is the only one whose id is new to the log.   *)
LEMMA AppendedIds ==
  ASSUME log \in Seq(Record), NEW r \in Record, log' = Append(log, r), NEW id
  PROVE  IsLogged(id)' <=> IsLogged(id) \/ (IsSeamMessage(r) /\ r.id = id)
  BY Appended DEF IsLogged

(* A message that is not on the log yet may be logged under a new id. *)
LEMMA DistinctKept ==
  ASSUME log \in Seq(Record), NEW r \in Record, log' = Append(log, r),
         MessageIdsDistinct, IsSeamMessage(r) => ~IsLogged(r.id)
  PROVE  MessageIdsDistinct'
<1> DEFINE n == Len(log) + 1
<1> SUFFICES ASSUME NEW i \in DOMAIN log', NEW j \in DOMAIN log', i # j,
                    IsSeamMessage(log'[i]), IsSeamMessage(log'[j])
             PROVE  log'[i].id # log'[j].id
  BY DEF MessageIdsDistinct
<1>1. CASE i \in DOMAIN log /\ j \in DOMAIN log
  BY <1>1, Appended DEF MessageIdsDistinct
<1>2. CASE i = n \/ j = n  BY <1>2, Appended DEF IsLogged
<1> QED  BY <1>1, <1>2, Appended

(* The record due is a message exactly where an id is held, and it is the  *)
(* one that is held.                                                       *)
LEMMA DueIsHeld ==
  ASSUME TurnTypeOK, SaidIsAnswer, NEW d \in Drivers, pc[d] \in LogPc
  PROVE  IsSeamMessage(Due(d)) <=> Holds(d, Due(d).id)
  BY DEF Due, LogPc, Holds, IsSeamMessage, SaidIsAnswer, Rec, Close

----------------------------------------------------------------------------
(* After a step that logs the driver holds nothing, and the others hold    *)
(* what they held.                                                         *)
LEMMA LoggingHolds ==
  ASSUME TurnTypeOK, SaidIsAnswer, NEW d \in Drivers, Logging(d)
  PROVE  /\ \A e \in Drivers, id \in Nat : Holds(e, id)' => e # d /\ Holds(e, id)
         /\ SaidIsAnswer'
<1>1. PICK to \in AfterLog : pc' = [pc EXCEPT ![d] = to]  BY LoggingStep
<1>2. to \notin {"prompt", "message", "call"} /\ turn' = turn
  BY LoggingStep DEF AfterLog
<1>3. \A e \in Drivers : pc'[e] \in {"prompt", "message", "call"} => e # d /\ pc'[e] = pc[e]
  BY <1>1, <1>2 DEF TurnTypeOK
<1> QED  BY <1>2, <1>3 DEF Holds, SaidIsAnswer

LEMMA LoggingIds ==
  ASSUME IdInv, NEW d \in Drivers, Logging(d)
  PROVE  (HeldIsFresh /\ HeldByOne /\ LoggedIsOld /\ SaidIsAnswer /\ DownIsIdle
            /\ MessageIdsDistinct)'
<1> DEFINE r == Due(d)
<1> USE DEF IdInv
<1>1. /\ r \in Record /\ r.id \in Nat /\ pc[d] \in LogPc /\ up /\ up' /\ next' = next
      /\ log' = log \/ log' = Append(log, r)
  BY LoggingStep DEF Append1, Record
<1>2. IsSeamMessage(r) => Holds(d, r.id) /\ r.id < next /\ ~IsLogged(r.id)
  BY <1>1, DueIsHeld DEF HeldIsFresh
<1>3. log \in Seq(Record)  BY DEF TurnTypeOK
<1> HIDE DEF r
<1>4. \A id : IsLogged(id)' => IsLogged(id) \/ (IsSeamMessage(r) /\ r.id = id)
  <2>1. CASE log' = log  BY <2>1 DEF IsLogged
  <2>2. CASE log' = Append(log, r)  BY <1>1, <1>3, <2>2, AppendedIds
  <2> QED  BY <1>1, <2>1, <2>2
<1>5. \A e \in Drivers, id \in Nat : Holds(e, id)' => e # d /\ Holds(e, id)
  BY LoggingHolds
<1>6. HeldIsFresh'  BY <1>1, <1>2, <1>4, <1>5 DEF HeldIsFresh, HeldByOne
<1>7. HeldByOne'  BY <1>5 DEF HeldByOne
<1>8. LoggedIsOld'
  <2>1. CASE log' = log  BY <1>1, <2>1 DEF LoggedIsOld
  <2>2. CASE log' = Append(log, r)
    <3> SUFFICES ASSUME NEW i \in DOMAIN log', IsSeamMessage(log'[i])
                 PROVE  log'[i].id < next
      BY <1>1 DEF LoggedIsOld
    <3>1. CASE i \in DOMAIN log  BY <1>1, <1>3, <2>2, <3>1, Appended DEF LoggedIsOld
    <3>2. CASE i = Len(log) + 1  BY <1>1, <1>2, <1>3, <2>2, <3>2, Appended
    <3> QED  BY <1>1, <1>3, <2>2, <3>1, <3>2, Appended
  <2> QED  BY <1>1, <2>1, <2>2
<1>9. MessageIdsDistinct'
  <2>1. CASE log' = log  BY <2>1 DEF MessageIdsDistinct
  <2>2. CASE log' = Append(log, r)  BY <1>1, <1>2, <1>3, <2>2, DistinctKept
  <2> QED  BY <1>1, <2>1, <2>2
<1> QED  BY <1>1, <1>6, <1>7, <1>8, <1>9, LoggingHolds DEF DownIsIdle

(* A step that does not log mints at most one id, and the driver that      *)
(* mints one holds it or drops it.                                         *)
LEMMA ThinkingStep ==
  ASSUME TurnTypeOK, SaidIsAnswer, NEW d \in Drivers, Thinking(d)
  PROVE  /\ up /\ UNCHANGED <<log, up>> /\ SaidIsAnswer'
         /\ \/ next' = next + 1
               /\ \A e \in Drivers, id \in Nat :
                    Holds(e, id)' => Holds(e, id) \/ (e = d /\ id = next)
            \/ next' = next
               /\ \A e \in Drivers, id \in Nat : Holds(e, id)' => Holds(e, id)
<1> USE DEF TurnTypeOK, Goes, Holds, SaidIsAnswer, Rec, NoTurn
<1>1. turn \in [Drivers -> Turn]  OBVIOUS
<1>2. \A e \in Drivers \ {d} : pc'[e] = pc[e] /\ turn'[e] = turn[e]
  BY DEF Thinking, Prompt, Look, AnswerMessage, AnswerCall, AnswerStop,
         AnswerToolCall, DecideReason, Return
<1>3. CASE Prompt(d)
  <2>1. turn'[d].prompt = next /\ pc'[d] = "prompt"  BY <1>3 DEF Prompt
  <2> QED  BY <1>2, <1>3, <2>1 DEF Prompt
<1>4. CASE Look(d)
  <2>1. pc'[d] = "answer"  BY <1>4 DEF Look
  <2> QED  BY <1>2, <1>4, <2>1 DEF Look
<1>5. CASE AnswerMessage(d)
  <2>1. turn'[d].said = Rec("assistant", next) /\ pc'[d] = "message"
    BY <1>1, <1>5 DEF AnswerMessage, Turn
  <2> QED  BY <1>2, <1>5, <2>1 DEF AnswerMessage
<1>6. CASE AnswerCall(d)
  <2>1. \E c \in CallIds : turn'[d].said = Rec("call", c)
    BY <1>1, <1>6 DEF AnswerCall, Turn
  <2>2. pc'[d] = "call"  BY <1>6 DEF AnswerCall
  <2> QED  BY <1>2, <1>6, <2>1, <2>2 DEF AnswerCall
<1>7. CASE AnswerStop(d) \/ AnswerToolCall(d) \/ DecideReason(d) \/ Return(d)
  <2>1. pc'[d] \in {"decide", "result", "stepClose", "idle"}
    BY <1>7 DEF AnswerStop, AnswerToolCall, DecideReason, Return
  <2>2. up /\ UNCHANGED <<log, up, next>>
    BY <1>7 DEF AnswerStop, AnswerToolCall, DecideReason, Return
  <2> QED  BY <1>2, <2>1, <2>2
<1> QED  BY <1>3, <1>4, <1>5, <1>6, <1>7 DEF Thinking

LEMMA ThinkingIds ==
  ASSUME IdInv, NEW d \in Drivers, Thinking(d)
  PROVE  (HeldIsFresh /\ HeldByOne /\ LoggedIsOld /\ SaidIsAnswer /\ DownIsIdle
            /\ MessageIdsDistinct)'
<1> USE DEF IdInv
<1>1. next \in Nat /\ (next' = next + 1 \/ next' = next)  BY ThinkingStep DEF TurnTypeOK
<1>2. up /\ log' = log /\ up' = up /\ SaidIsAnswer'  BY ThinkingStep
<1>3. ~IsLogged(next)
  BY <1>1, <1>2 DEF LoggedIsOld, IsLogged
<1>4. \A id : IsLogged(id)' <=> IsLogged(id)  BY <1>2 DEF IsLogged
<1>5. HeldIsFresh'  BY <1>1, <1>3, <1>4, ThinkingStep DEF HeldIsFresh
<1>6. HeldByOne'  BY <1>1, ThinkingStep DEF HeldByOne, HeldIsFresh
<1>7. LoggedIsOld'
  <2>1. \A i \in DOMAIN log : log[i].id \in Nat  BY LogTyped DEF TurnTypeOK
  <2> QED  BY <1>1, <1>2, <2>1 DEF LoggedIsOld
<1> QED  BY <1>2, <1>5, <1>6, <1>7 DEF DownIsIdle, MessageIdsDistinct

(* No driver holds anything when the process is down, so that the seed is  *)
(* above every id there is.                                                *)
LEMMA MountingIds ==
  ASSUME IdInv, Mounting
  PROVE  (HeldIsFresh /\ HeldByOne /\ LoggedIsOld /\ SaidIsAnswer /\ DownIsIdle
            /\ MessageIdsDistinct)'
<1> DEFINE r == Rec("seedBoundary", 0)
<1> USE DEF IdInv
<1>1. /\ Idle /\ pc' = pc /\ turn' = turn /\ up' /\ next' = MaxRecordId(log) + 1
      /\ log' = log \/ log' = Append(log, r)
  BY MountingStep DEF DownIsIdle
<1>2. log \in Seq(Record) /\ r \in Record  BY RecordsTyped DEF TurnTypeOK, Kind
<1>3. ~IsSeamMessage(r)  BY DEF IsSeamMessage, Rec
<1> HIDE DEF r
<1>4. \A d \in Drivers, id \in Nat : ~Holds(d, id)'  BY <1>1 DEF Idle, Holds
<1>5. SaidIsAnswer'  BY <1>1 DEF SaidIsAnswer
<1>6. LoggedIsOld'
  <2>1. /\ MaxRecordId(log) \in Nat
        /\ \A i \in DOMAIN log : log[i].id \in Nat /\ log[i].id < MaxRecordId(log) + 1
    BY <1>2, SeedAboveLog, LogTyped
  <2>2. \A i \in DOMAIN log' : IsSeamMessage(log'[i]) => i \in DOMAIN log /\ log'[i] = log[i]
    BY <1>1, <1>2, <1>3, Appended
  <2> QED  BY <1>1, <2>1, <2>2 DEF LoggedIsOld
<1>7. MessageIdsDistinct'
  <2>1. CASE log' = log  BY <2>1 DEF MessageIdsDistinct
  <2>2. CASE log' = Append(log, r)  BY <1>2, <1>3, <2>2, DistinctKept
  <2> QED  BY <1>1, <2>1, <2>2
<1> QED  BY <1>1, <1>4, <1>5, <1>6, <1>7 DEF HeldIsFresh, HeldByOne, DownIsIdle

LEMMA IdStep == IdInv /\ [TurnNext]_turnVars => IdInv'
<1> SUFFICES ASSUME IdInv, [TurnNext]_turnVars PROVE IdInv'  OBVIOUS
<1>1. TurnTypeOK' /\ HasMax'  BY StepTyped, MaxKept DEF IdInv
<1>2. CASE Stop
  <2>1. \A d \in Drivers : pc'[d] = "idle"  BY <1>2 DEF Stop
  <2>2. log' = log /\ up' = FALSE  BY <1>2 DEF Stop
  <2> QED  BY <1>1, <2>1, <2>2 DEF IdInv, HeldIsFresh, HeldByOne, Holds, LoggedIsOld,
                                   SaidIsAnswer, DownIsIdle, Idle, MessageIdsDistinct
<1>3. CASE UNCHANGED turnVars
  BY <1>1, <1>3 DEF turnVars, IdInv, HeldIsFresh, HeldByOne, Holds, IsLogged, LoggedIsOld,
                    SaidIsAnswer, DownIsIdle, Idle, MessageIdsDistinct
<1> QED
  BY <1>1, <1>2, <1>3, ThinkingIds, LoggingIds, MountingIds, TurnCases DEF IdInv

(* MessageIdsDistinct of AgentTurn: no two authored messages of a log      *)
(* share an id, whichever processes and drivers wrote them.                *)
THEOREM AgentMessageIdsDistinct == TurnSpec => []MessageIdsDistinct
<1>1. TurnInit => IdInv
  <2> SUFFICES ASSUME TurnInit PROVE IdInv  OBVIOUS
  <2>1. log = <<>> /\ up /\ \A d \in Drivers : pc[d] = "idle"  BY DEF TurnInit
  <2> QED  BY <2>1, TurnInitTyped DEF IdInv, HeldIsFresh, HeldByOne, Holds, LoggedIsOld,
                                 SaidIsAnswer, DownIsIdle, MessageIdsDistinct
<1>2. IdInv => MessageIdsDistinct  BY DEF IdInv
<1> QED  BY <1>1, <1>2, IdStep, PTL DEF TurnSpec

----------------------------------------------------------------------------
(* BudgetIsSticky: the fact is read at the decision and the close is two   *)
(* appends later.  Between them, in a behaviour without overlap, no other  *)
(* driver is in a turn that could log a close.                             *)
OneAtATime ==
  "overlap" \notin turnEnv => \A d, e \in Drivers : pc[d] # "idle" /\ pc[e] # "idle" => d = e

Decided(d) == pc[d] \in {"stepClose", "turnClose"}
CleanIsDecided ==
  "overlap" \notin turnEnv =>
    \A d \in Drivers :
      Decided(d) /\ turn[d].why = "completed" => ~HasClosedMaxTokens(log)

BudgetInv ==
  /\ TurnTypeOK /\ OneAtATime /\ CleanIsDecided /\ SaidIsAnswer /\ DownIsIdle
  /\ BudgetIsSticky

LEMMA AloneKept ==
  ASSUME TurnTypeOK, OneAtATime, DownIsIdle, [TurnNext]_turnVars
  PROVE  (OneAtATime /\ DownIsIdle)'
<1>1. ASSUME NEW d \in Drivers, Logging(d)  PROVE (OneAtATime /\ DownIsIdle)'
  <2>1. PICK to \in AfterLog : pc' = [pc EXCEPT ![d] = to]  BY <1>1, LoggingStep
  <2>2. pc[d] # "idle" /\ up' /\ turnEnv' = turnEnv  BY <1>1, LoggingStep DEF LogPc
  <2>3. \A e \in Drivers : pc'[e] # "idle" => pc[e] # "idle"  BY <2>1, <2>2 DEF TurnTypeOK
  <2> QED  BY <2>2, <2>3 DEF OneAtATime, DownIsIdle
<1>2. ASSUME NEW d \in Drivers, Thinking(d)  PROVE (OneAtATime /\ DownIsIdle)'
  <2>1. /\ pc[d] # "idle" \/ Idle \/ "overlap" \in turnEnv
        /\ turnEnv' = turnEnv /\ up'
        /\ \A e \in Drivers \ {d} : pc'[e] = pc[e]
    BY <1>2 DEF Thinking, Prompt, Look, AnswerMessage, AnswerCall, AnswerStop,
                AnswerToolCall, DecideReason, Return, Goes, TurnTypeOK
  <2> QED  BY <2>1 DEF OneAtATime, DownIsIdle, Idle
<1>3. CASE Stop  BY <1>3 DEF Stop, OneAtATime, DownIsIdle, Idle
<1>4. CASE Mounting  BY <1>4, MountingStep DEF OneAtATime, DownIsIdle
<1>5. CASE UNCHANGED turnVars  BY <1>5 DEF turnVars, OneAtATime, DownIsIdle, Idle
<1> QED  BY <1>1, <1>2, <1>3, <1>4, <1>5, TurnCases

LEMMA AppendedClosed ==
  ASSUME log \in Seq(Record), NEW r \in Record, log' = Append(log, r),
         r # Close("maxTokens")
  PROVE  HasClosedMaxTokens(log') => HasClosedMaxTokens(log)
  BY Appended DEF HasClosedMaxTokens

(* A record that is not a clean close, or comes when no close for          *)
(* MaxTokens is there, may be appended.                                    *)
LEMMA StickyKept ==
  ASSUME log \in Seq(Record), NEW r \in Record, log' = Append(log, r), turnEnv' = turnEnv,
         BudgetIsSticky,
         "overlap" \notin turnEnv /\ r = Close("completed") => ~HasClosedMaxTokens(log)
  PROVE  BudgetIsSticky'
<1> SUFFICES ASSUME "overlap" \notin turnEnv, NEW i \in DOMAIN log', NEW j \in DOMAIN log',
                    i < j, log'[i] = Close("maxTokens")
             PROVE  log'[j] # Close("completed")
  BY DEF BudgetIsSticky
<1>1. i \in DOMAIN log /\ log[i] = Close("maxTokens")  BY Appended
<1>2. HasClosedMaxTokens(log)  BY <1>1 DEF HasClosedMaxTokens
<1>3. CASE j \in DOMAIN log  BY <1>1, <1>3, Appended DEF BudgetIsSticky
<1>4. CASE j \notin DOMAIN log  BY <1>2, <1>4, Appended
<1> QED  BY <1>3, <1>4

LEMMA ClosingStep ==
  ASSUME TurnTypeOK, NEW d \in Drivers, Logging(d), Decided(d)'
  PROVE  pc[d] = "stepClose"
  BY DEF Logging, LogPrompt, LogTurnOpen, LogStepOpen, LogMessage, LogCall, LogResult,
         LogStepClose, LogTurnClose, Logs, Goes, Decided, TurnTypeOK

LEMMA LoggingBudget ==
  ASSUME BudgetInv, NEW d \in Drivers, Logging(d)
  PROVE  (CleanIsDecided /\ BudgetIsSticky)'
<1> DEFINE r == Due(d)
<1> USE DEF BudgetInv
<1>1. /\ r \in Record /\ pc[d] \in LogPc /\ turnEnv' = turnEnv /\ turn' = turn
      /\ log' = log \/ log' = Append(log, r)
  BY LoggingStep DEF Append1
<1>2. log \in Seq(Record)  BY DEF TurnTypeOK
<1>3. "overlap" \notin turnEnv /\ r = Close("completed") => ~HasClosedMaxTokens(log)
  <2> SUFFICES ASSUME "overlap" \notin turnEnv, r = Close("completed")
               PROVE  ~HasClosedMaxTokens(log)
    OBVIOUS
  <2>1. r.kind = "turnClose" /\ r.why = "completed"  BY DEF Close
  <2>2. CASE pc[d] = "turnClose"
    BY <2>1, <2>2 DEF Due, Close, CleanIsDecided, Decided
  <2>3. CASE pc[d] \in {"message", "call"}
    <3>1. r = turn[d].said  BY <2>3 DEF Due
    <3> QED  BY <2>1, <2>3, <3>1 DEF SaidIsAnswer
  <2>4. CASE pc[d] \in LogPc \ {"turnClose", "message", "call"}
    BY <2>1, <2>4 DEF Due, Rec, LogPc
  <2> QED  BY <1>1, <2>2, <2>3, <2>4
<1>4. BudgetIsSticky'
  <2>1. CASE log' = log  BY <1>1, <2>1 DEF BudgetIsSticky
  <2>2. CASE log' = Append(log, r)  BY <1>1, <1>2, <1>3, <2>2, StickyKept
  <2> QED  BY <1>1, <2>1, <2>2
<1>5. CleanIsDecided'
  <2> SUFFICES ASSUME "overlap" \notin turnEnv, NEW e \in Drivers, Decided(e)',
                      turn[e].why = "completed"
               PROVE  ~HasClosedMaxTokens(log')
    BY <1>1 DEF CleanIsDecided, HasClosedMaxTokens
  <2>1. e = d
    <3>1. pc[d] # "idle" /\ pc'[e] # "idle"  BY <1>1 DEF LogPc, Decided
    <3>2. e # d => pc'[e] = pc[e]  BY LoggingStep DEF TurnTypeOK
    <3> QED  BY <3>1, <3>2 DEF OneAtATime
  <2>2. pc[d] = "stepClose"  BY <2>1, ClosingStep
  <2>3. r.kind = "stepClose" /\ ~HasClosedMaxTokens(log)
    BY <2>1, <2>2 DEF Due, Rec, CleanIsDecided, Decided
  <2>4. r # Close("maxTokens")  BY <2>3 DEF Close
  <2> HIDE DEF r
  <2> QED  BY <1>1, <1>2, <2>3, <2>4, AppendedClosed
<1> QED  BY <1>4, <1>5

(* A driver comes to its close by the decision alone. *)
LEMMA ThinkingBudget ==
  ASSUME BudgetInv, NEW d \in Drivers, Thinking(d)
  PROVE  (CleanIsDecided /\ BudgetIsSticky)'
<1> USE DEF BudgetInv
<1>1. log' = log /\ turnEnv' = turnEnv
  BY DEF Thinking, Prompt, Look, AnswerMessage, AnswerCall, AnswerStop,
         AnswerToolCall, DecideReason, Return
<1>2. BudgetIsSticky'  BY <1>1 DEF BudgetIsSticky
<1>3. \A e \in Drivers \ {d} : pc'[e] = pc[e] /\ turn'[e] = turn[e]
  BY DEF Thinking, Prompt, Look, AnswerMessage, AnswerCall, AnswerStop,
         AnswerToolCall, DecideReason, Return, Goes, TurnTypeOK
<1>4. Decided(d)' /\ turn'[d].why = "completed" => ~HasClosedMaxTokens(log)
  <2> SUFFICES ASSUME Decided(d)'
               PROVE  turn'[d].why = "completed" => ~HasClosedMaxTokens(log)
    OBVIOUS
  <2>1. DecideReason(d)
    BY DEF Decided, Thinking, Prompt, Look, AnswerMessage, AnswerCall, AnswerStop,
           AnswerToolCall, Return, Goes, TurnTypeOK
  <2>2. CASE turn[d].why = "completed" /\ HasClosedMaxTokens(log)
    <3>1. turn' = [turn EXCEPT ![d].why = "maxTokens"]  BY <2>1, <2>2 DEF DecideReason
    <3>2. turn[d] \in Turn  BY DEF TurnTypeOK
    <3>3. turn'[d].why = "maxTokens"  BY <3>1, <3>2 DEF TurnTypeOK, Turn
    <3> QED  BY <3>3
  <2>3. CASE ~(turn[d].why = "completed" /\ HasClosedMaxTokens(log))
    BY <2>1, <2>3 DEF DecideReason
  <2> QED  BY <2>2, <2>3
<1>5. CleanIsDecided'
  BY <1>1, <1>3, <1>4 DEF CleanIsDecided, Decided, HasClosedMaxTokens
<1> QED  BY <1>2, <1>5

(* What is logged at a mount is no close, and no driver is in a turn. *)
LEMMA MountingBudget ==
  ASSUME BudgetInv, Mounting
  PROVE  (CleanIsDecided /\ BudgetIsSticky)'
<1> DEFINE r == Rec("seedBoundary", 0)
<1> USE DEF BudgetInv
<1>1. /\ Idle /\ pc' = pc /\ turnEnv' = turnEnv
      /\ log' = log \/ log' = Append(log, r)
  BY MountingStep DEF DownIsIdle
<1>2. log \in Seq(Record) /\ r \in Record  BY RecordsTyped DEF TurnTypeOK, Kind
<1>3. r # Close("completed")  BY DEF Rec, Close
<1> HIDE DEF r
<1>4. CleanIsDecided'  BY <1>1 DEF CleanIsDecided, Decided, Idle
<1>5. BudgetIsSticky'
  <2>1. CASE log' = log  BY <1>1, <2>1 DEF BudgetIsSticky
  <2>2. CASE log' = Append(log, r)  BY <1>1, <1>2, <1>3, <2>2, StickyKept
  <2> QED  BY <1>1, <2>1, <2>2
<1> QED  BY <1>4, <1>5

LEMMA SaidKept ==
  ASSUME TurnTypeOK, SaidIsAnswer, [TurnNext]_turnVars
  PROVE  SaidIsAnswer'
<1>1. CASE Stop  BY <1>1 DEF Stop, SaidIsAnswer
<1>2. CASE Mounting  BY <1>2, MountingStep DEF SaidIsAnswer
<1>3. CASE UNCHANGED turnVars  BY <1>3 DEF turnVars, SaidIsAnswer
<1> QED  BY <1>1, <1>2, <1>3, LoggingHolds, ThinkingStep, TurnCases

LEMMA BudgetStep == BudgetInv /\ HasMax /\ [TurnNext]_turnVars => (BudgetInv /\ HasMax)'
<1> SUFFICES ASSUME BudgetInv, HasMax, [TurnNext]_turnVars PROVE (BudgetInv /\ HasMax)'  OBVIOUS
<1>1. TurnTypeOK' /\ HasMax' /\ OneAtATime' /\ DownIsIdle' /\ SaidIsAnswer'
  BY StepTyped, MaxKept, AloneKept, SaidKept DEF BudgetInv
<1>2. CASE Stop
  <2>1. \A d \in Drivers : pc'[d] = "idle"  BY <1>2 DEF Stop
  <2>2. log' = log /\ turnEnv' = turnEnv  BY <1>2 DEF Stop
  <2> QED  BY <1>1, <2>1, <2>2 DEF BudgetInv, CleanIsDecided, Decided, BudgetIsSticky
<1>3. CASE UNCHANGED turnVars
  BY <1>1, <1>3 DEF turnVars, BudgetInv, CleanIsDecided, Decided, HasClosedMaxTokens,
                    BudgetIsSticky
<1> QED
  BY <1>1, <1>2, <1>3, LoggingBudget, ThinkingBudget, MountingBudget, TurnCases DEF BudgetInv

(* BudgetIsSticky of AgentTurn: without overlapping turns no clean close   *)
(* follows a close for MaxTokens, across crashes, resumes and forks.       *)
THEOREM AgentBudgetIsSticky == TurnSpec => []BudgetIsSticky
<1>1. TurnInit => BudgetInv /\ HasMax
  <2> SUFFICES ASSUME TurnInit PROVE BudgetInv /\ HasMax  OBVIOUS
  <2>1. log = <<>> /\ up /\ \A d \in Drivers : pc[d] = "idle"  BY DEF TurnInit
  <2> QED  BY <2>1, TurnInitTyped DEF BudgetInv, OneAtATime, CleanIsDecided, Decided,
                                 SaidIsAnswer, DownIsIdle, BudgetIsSticky
<1>2. BudgetInv => BudgetIsSticky  BY DEF BudgetInv
<1> QED  BY <1>1, <1>2, BudgetStep, PTL DEF TurnSpec
----------------------------------------------------------------------------
(* CallLoggedBeforeRun: it counts, and so does the strengthening.  Of the  *)
(* calls on the log, those that ran and those about to run are apart: a    *)
(* process that dies takes the latter with it and leaves its records.      *)
TurnCalls(l) == {i \in DOMAIN l : l[i].kind = "call"}
TurnRunning == {d \in Drivers : pc[d] = "run"}

CallsCover ==
  "refuse" \notin turnEnv =>
    /\ IsFiniteSet(TurnRunning)
    /\ runs + Cardinality(TurnRunning) <= Cardinality(TurnCalls(log))

CallInv == TurnTypeOK /\ HasMax /\ SaidIsAnswer /\ CallsCover

LEMMA CallsFinite ==
  ASSUME NEW l \in Seq(Record)
  PROVE  IsFiniteSet(TurnCalls(l)) /\ Cardinality(TurnCalls(l)) \in Nat
<1>1. IsFiniteSet(1..Len(l))  BY FS_Interval
<1>2. TurnCalls(l) \in SUBSET (1..Len(l))  BY DEF TurnCalls
<1>3. IsFiniteSet(TurnCalls(l))  BY <1>1, <1>2, FS_Subset
<1> QED  BY <1>3, FS_CardinalityType

(* The calls of a log that grows by a record. *)
LEMMA AppendedCalls ==
  ASSUME log \in Seq(Record), NEW r \in Record, log' = Append(log, r)
  PROVE  /\ Cardinality(TurnCalls(log)) <= Cardinality(TurnCalls(log'))
         /\ r.kind = "call" => Cardinality(TurnCalls(log')) = Cardinality(TurnCalls(log)) + 1
<1> DEFINE n == Len(log) + 1
<1>1. log' \in Seq(Record)  BY Appended
<1>2. IsFiniteSet(TurnCalls(log)) /\ IsFiniteSet(TurnCalls(log'))  BY <1>1, CallsFinite
<1>3. TurnCalls(log) \in SUBSET TurnCalls(log')  BY Appended DEF TurnCalls
<1>4. Cardinality(TurnCalls(log)) <= Cardinality(TurnCalls(log'))  BY <1>2, <1>3, FS_Subset
<1>5. ASSUME r.kind = "call"
      PROVE  Cardinality(TurnCalls(log')) = Cardinality(TurnCalls(log)) + 1
  <2>1. TurnCalls(log') = TurnCalls(log) \cup {n} /\ n \notin TurnCalls(log)
    BY <1>5, Appended DEF TurnCalls
  <2> QED  BY <1>2, <2>1, FS_AddElement
<1> QED  BY <1>4, <1>5

(* A record is only missing when the mirror refuses it. *)
LEMMA LoggingCalls ==
  ASSUME CallInv, NEW d \in Drivers, Logging(d)
  PROVE  CallsCover'
<1> DEFINE r == Due(d)
<1> USE DEF CallInv
<1> SUFFICES ASSUME "refuse" \notin turnEnv'  PROVE CallsCover'  BY DEF CallsCover
<1>1. /\ r \in Record /\ pc[d] \in LogPc /\ turnEnv' = turnEnv /\ runs' = runs
      /\ log' = Append(log, r)
  BY LoggingStep DEF Append1
<1>2. log \in Seq(Record) /\ log' \in Seq(Record) /\ runs \in Nat
  BY <1>1, Appended DEF TurnTypeOK
<1>3. Cardinality(TurnCalls(log)) \in Nat /\ Cardinality(TurnCalls(log')) \in Nat
  BY <1>2, CallsFinite
<1>4. IsFiniteSet(TurnRunning) /\ runs + Cardinality(TurnRunning) <= Cardinality(TurnCalls(log))
  BY <1>1 DEF CallsCover
<1>5. Cardinality(TurnRunning) \in Nat  BY <1>4, FS_CardinalityType
<1>6. d \notin TurnRunning  BY <1>1 DEF TurnRunning, LogPc
<1>7. CASE LogCall(d)
  <2>1. TurnRunning' = TurnRunning \cup {d}  BY <1>7 DEF LogCall, Logs, Goes, TurnRunning, TurnTypeOK
  <2>2. IsFiniteSet(TurnRunning') /\ Cardinality(TurnRunning') = Cardinality(TurnRunning) + 1
    BY <1>4, <1>6, <2>1, FS_AddElement
  <2>3. r.kind = "call"  BY <1>7 DEF LogCall, Logs, Goes, Due, SaidIsAnswer
  <2>4. Cardinality(TurnCalls(log')) = Cardinality(TurnCalls(log)) + 1
    BY <1>1, <1>2, <2>3, AppendedCalls
  <2> QED  BY <1>1, <1>2, <1>3, <1>4, <1>5, <2>2, <2>4 DEF CallsCover
<1>8. CASE ~LogCall(d)
  <2>1. pc'[d] # "run"
    BY <1>8 DEF Logging, LogPrompt, LogTurnOpen, LogStepOpen, LogMessage, LogResult,
                LogStepClose, LogTurnClose, Logs, Goes, TurnTypeOK
  <2>2. \A e \in Drivers \ {d} : pc'[e] = pc[e]  BY LoggingStep DEF TurnTypeOK
  <2>3. TurnRunning' = TurnRunning  BY <1>6, <2>1, <2>2 DEF TurnRunning
  <2>4. Cardinality(TurnCalls(log)) <= Cardinality(TurnCalls(log'))  BY <1>1, <1>2, AppendedCalls
  <2> QED  BY <1>1, <1>2, <1>3, <1>4, <1>5, <2>3, <2>4 DEF CallsCover
<1> QED  BY <1>7, <1>8

(* A driver that ran its call is done with it. *)
LEMMA ThinkingCalls ==
  ASSUME CallInv, NEW d \in Drivers, Thinking(d)
  PROVE  CallsCover'
<1> USE DEF CallInv
<1> SUFFICES ASSUME "refuse" \notin turnEnv'  PROVE CallsCover'  BY DEF CallsCover
<1>1. log' = log /\ turnEnv' = turnEnv
  BY DEF Thinking, Prompt, Look, AnswerMessage, AnswerCall, AnswerStop,
         AnswerToolCall, DecideReason, Return
<1>2. IsFiniteSet(TurnRunning) /\ runs + Cardinality(TurnRunning) <= Cardinality(TurnCalls(log))
  BY <1>1 DEF CallsCover
<1>3. /\ Cardinality(TurnRunning) \in Nat /\ runs \in Nat
      /\ Cardinality(TurnCalls(log)) \in Nat
  BY <1>2, FS_CardinalityType, CallsFinite DEF TurnTypeOK
<1>4. CASE AnswerToolCall(d)
  <2>1. d \in TurnRunning /\ TurnRunning' = TurnRunning \ {d} /\ runs' = runs + 1
    BY <1>4 DEF AnswerToolCall, Goes, TurnRunning, TurnTypeOK
  <2>2. IsFiniteSet(TurnRunning') /\ Cardinality(TurnRunning') = Cardinality(TurnRunning) - 1
    BY <1>2, <2>1, FS_RemoveElement
  <2> QED  BY <1>1, <1>2, <1>3, <2>1, <2>2 DEF CallsCover
<1>5. CASE ~AnswerToolCall(d)
  <2>1. TurnRunning' = TurnRunning /\ runs' = runs
    BY <1>5 DEF Thinking, Prompt, Look, AnswerMessage, AnswerCall, AnswerStop,
                DecideReason, Return, Goes, TurnRunning, TurnTypeOK
  <2> QED  BY <1>1, <1>2, <2>1 DEF CallsCover
<1> QED  BY <1>4, <1>5

LEMMA MountingCalls ==
  ASSUME CallInv, Mounting
  PROVE  CallsCover'
<1> DEFINE r == Rec("seedBoundary", 0)
<1>1. r \in Record  BY RecordsTyped DEF Kind
<1> HIDE DEF r
<1>2. /\ turnEnv' = turnEnv /\ pc' = pc /\ runs' = runs
      /\ log' = log \/ log' = Append(log, r)
  BY MountingStep DEF r
<1>3. log \in Seq(Record) /\ log' \in Seq(Record) /\ runs \in Nat
  BY <1>1, <1>2, Appended DEF CallInv, TurnTypeOK
<1>4. Cardinality(TurnCalls(log)) \in Nat /\ Cardinality(TurnCalls(log')) \in Nat
  BY <1>3, CallsFinite
<1>5. Cardinality(TurnCalls(log)) <= Cardinality(TurnCalls(log'))
  BY <1>1, <1>2, <1>3, <1>4, AppendedCalls
<1>6. TurnRunning' = TurnRunning  BY <1>2 DEF TurnRunning
<1>7. IsFiniteSet(TurnRunning) => Cardinality(TurnRunning) \in Nat  BY FS_CardinalityType
<1> QED  BY <1>2, <1>3, <1>4, <1>5, <1>6, <1>7 DEF CallInv, CallsCover

LEMMA StoppingCalls ==
  ASSUME CallInv, Stop
  PROVE  CallsCover'
<1>1. TurnRunning' = {} /\ log' = log /\ turnEnv' = turnEnv /\ runs' = runs  BY DEF Stop, TurnRunning
<1>2. IsFiniteSet(TurnRunning') /\ Cardinality(TurnRunning') = 0  BY <1>1, FS_EmptySet
<1>3. IsFiniteSet(TurnRunning) => Cardinality(TurnRunning) \in Nat  BY FS_CardinalityType
<1>4. runs \in Nat /\ Cardinality(TurnCalls(log)) \in Nat  BY CallsFinite DEF CallInv, TurnTypeOK
<1> QED  BY <1>1, <1>2, <1>3, <1>4 DEF CallInv, CallsCover

LEMMA CallStep == CallInv /\ [TurnNext]_turnVars => CallInv'
<1> SUFFICES ASSUME CallInv, [TurnNext]_turnVars PROVE CallInv'  OBVIOUS
<1>1. TurnTypeOK' /\ HasMax' /\ SaidIsAnswer'  BY StepTyped, MaxKept, SaidKept DEF CallInv
<1>2. CASE UNCHANGED turnVars
  <2>1. log' = log /\ runs' = runs /\ turnEnv' = turnEnv /\ TurnRunning' = TurnRunning
    BY <1>2 DEF turnVars, TurnRunning
  <2> QED  BY <1>1, <2>1 DEF CallInv, CallsCover
<1> QED
  BY <1>1, <1>2, LoggingCalls, ThinkingCalls, MountingCalls, StoppingCalls, TurnCases DEF CallInv

(* CallLoggedBeforeRun of AgentTurn: no tool ran that the log does not     *)
(* have the call of, however many drivers overlap and wherever a process   *)
(* dies.                                                                   *)
THEOREM AgentCallLoggedBeforeRun == TurnSpec => []CallLoggedBeforeRun
<1>1. TurnInit => CallInv
  <2> SUFFICES ASSUME TurnInit PROVE CallInv  OBVIOUS
  <2>1. log = <<>> /\ runs = 0 /\ \A d \in Drivers : pc[d] = "idle"  BY DEF TurnInit
  <2>2. TurnRunning = {} /\ TurnCalls(log) = {}  BY <2>1 DEF TurnRunning, TurnCalls
  <2>3. CallsCover
    <3>1. IsFiniteSet(TurnRunning) /\ Cardinality(TurnRunning) = 0  BY <2>2, FS_EmptySet
    <3>2. Cardinality(TurnCalls(log)) = 0  BY <2>2, FS_EmptySet
    <3> QED  BY <2>1, <3>1, <3>2 DEF CallsCover
  <2> QED  BY <2>1, <2>3, TurnInitTyped DEF CallInv, SaidIsAnswer
<1>2. CallInv => CallLoggedBeforeRun
  <2> SUFFICES ASSUME CallInv, "refuse" \notin turnEnv
               PROVE  runs <= Cardinality(TurnCalls(log))
    BY DEF CallLoggedBeforeRun, TurnCalls
  <2>1. IsFiniteSet(TurnRunning) /\ runs + Cardinality(TurnRunning) <= Cardinality(TurnCalls(log))
    BY DEF CallInv, CallsCover
  <2>2. Cardinality(TurnRunning) \in Nat /\ runs \in Nat /\ Cardinality(TurnCalls(log)) \in Nat
    BY <2>1, FS_CardinalityType, CallsFinite DEF CallInv, TurnTypeOK
  <2> QED  BY <2>1, <2>2
<1> QED  BY <1>1, <1>2, CallStep, PTL DEF TurnSpec
----------------------------------------------------------------------------
(* TurnIsFaithful: what is told is on the log for good, and when no turn   *)
(* overlaps and no record is refused the log's end says how far a turn is. *)
OneDriver == turnEnv \cap {"refuse", "overlap"} = {}

LastSeam(r) ==
  \E i \in DOMAIN log : log[i] = r /\ \A j \in DOMAIN log : i < j => ~IsSeamMessage(log[j])
LastAnswer(r) ==
  \E i \in DOMAIN log : log[i] = r /\ \A j \in DOMAIN log : i < j => log[j].kind # "assistant"

ToldIsLogged == \A id \in told : \E i \in Answers(log) : log[i].id = id

(* An answer that a driver holds is of the turn that it is in. *)
SaidIsOwn ==
  \A d \in Drivers :
    /\ pc[d] \in {"prompt", "turnOpen", "stepOpen", "look", "answer"} => turn[d].said.kind = "turnOpen"
    /\ pc[d] \in {"call", "run", "result"} => turn[d].said.kind = "call"

Prompted(d) == pc[d] \in {"turnOpen", "stepOpen", "look"}
TurnAnswered(d) ==
  pc[d] \in {"decide", "stepClose", "turnClose", "return"} /\ turn[d].said.kind = "assistant"

TurnOnLog ==
  OneDriver => \A d \in Drivers :
    /\ Prompted(d) => LastSeam(Rec("user", turn[d].prompt))
    /\ TurnAnswered(d) => LastAnswer(turn[d].said)
    /\ pc[d] = "return" => log[Len(log)] = Close(turn[d].why)

TurnInv ==
  /\ TurnTypeOK /\ HasMax /\ SaidIsAnswer /\ OneAtATime /\ DownIsIdle
  /\ SaidIsOwn /\ ToldIsLogged /\ TurnOnLog

LEMMA AppendedLast ==
  ASSUME log \in Seq(Record), NEW r \in Record, log' = Append(log, r), NEW x
  PROVE  /\ x = r \/ (LastSeam(x) /\ ~IsSeamMessage(r)) => LastSeam(x)'
         /\ x = r \/ (LastAnswer(x) /\ r.kind # "assistant") => LastAnswer(x)'
         /\ log'[Len(log')] = r
<1> DEFINE n == Len(log) + 1
<1>1. /\ DOMAIN log' = DOMAIN log \cup {n} /\ n \notin DOMAIN log /\ n \in Nat
      /\ \A i \in DOMAIN log : i \in Nat /\ i < n /\ log'[i] = log[i]
      /\ log'[n] = r /\ Len(log') = n
  OBVIOUS
<1> HIDE DEF n
<1>2. CASE x = r
  <2>1. n \in DOMAIN log' /\ log'[n] = x /\ \A j \in DOMAIN log' : ~(n < j)
    BY <1>1, <1>2
  <2> QED  BY <1>1, <2>1 DEF LastSeam, LastAnswer
<1>3. ASSUME LastSeam(x), ~IsSeamMessage(r)  PROVE LastSeam(x)'
  <2>1. PICK i \in DOMAIN log : log[i] = x /\ \A j \in DOMAIN log : i < j => ~IsSeamMessage(log[j])
    BY <1>3 DEF LastSeam
  <2>2. \A j \in DOMAIN log' : i < j => ~IsSeamMessage(log'[j])  BY <1>1, <1>3, <2>1
  <2> QED  BY <1>1, <2>1, <2>2 DEF LastSeam
<1>4. ASSUME LastAnswer(x), r.kind # "assistant"  PROVE LastAnswer(x)'
  <2>1. PICK i \in DOMAIN log : log[i] = x /\ \A j \in DOMAIN log : i < j => log[j].kind # "assistant"
    BY <1>4 DEF LastAnswer
  <2>2. \A j \in DOMAIN log' : i < j => log'[j].kind # "assistant"  BY <1>1, <1>4, <2>1
  <2> QED  BY <1>1, <2>1, <2>2 DEF LastAnswer
<1> QED  BY <1>1, <1>2, <1>3, <1>4

LEMMA ToldKept ==
  ASSUME log \in Seq(Record), NEW r \in Record, log' = log \/ log' = Append(log, r),
         told' = told, ToldIsLogged
  PROVE  ToldIsLogged'
<1>1. \A i \in Answers(log) : i \in Answers(log') /\ log'[i] = log[i]
  BY Appended DEF Answers
<1> QED  BY <1>1 DEF ToldIsLogged

(* The last message and the last answer of a log are what their maximal    *)
(* positions choose.                                                       *)
LEMMA LastIsChosen ==
  ASSUME log \in Seq(Record), NEW r
  PROVE  /\ LastSeam(r) /\ IsSeamMessage(r) => log[Max(ModelMessages(log))] = r
         /\ LastAnswer(r) /\ r.kind = "assistant" => FinalAssistant(log) = r.id
<1>1. ASSUME NEW S \in SUBSET DOMAIN log, NEW i \in S, \A j \in DOMAIN log : i < j => j \notin S
      PROVE  Max(S) = i
  <2>1. \A j \in S : j \in Nat /\ i \in Nat  OBVIOUS
  <2>2. \A j \in S : i >= j  BY <1>1, <2>1
  <2>3. \A m \in S : (\A j \in S : m >= j) => m = i  BY <2>1, <2>2
  <2> QED  BY <2>2, <2>3 DEF Max
<1>2. ASSUME LastSeam(r), IsSeamMessage(r)  PROVE log[Max(ModelMessages(log))] = r
  <2>1. PICK i \in DOMAIN log : log[i] = r /\ \A j \in DOMAIN log : i < j => ~IsSeamMessage(log[j])
    BY <1>2 DEF LastSeam
  <2>2. i \in ModelMessages(log) /\ \A j \in DOMAIN log : i < j => j \notin ModelMessages(log)
    BY <1>2, <2>1 DEF ModelMessages
  <2>3. Max(ModelMessages(log)) = i  BY <1>1, <2>2 DEF ModelMessages
  <2> QED  BY <2>1, <2>3
<1>3. ASSUME LastAnswer(r), r.kind = "assistant"  PROVE FinalAssistant(log) = r.id
  <2>1. PICK i \in DOMAIN log : log[i] = r /\ \A j \in DOMAIN log : i < j => log[j].kind # "assistant"
    BY <1>3 DEF LastAnswer
  <2>2. i \in Answers(log) /\ \A j \in DOMAIN log : i < j => j \notin Answers(log)
    BY <1>3, <2>1 DEF Answers
  <2>3. Max(Answers(log)) = i  BY <1>1, <2>2 DEF Answers
  <2> QED  BY <2>1, <2>2, <2>3 DEF FinalAssistant
<1> QED  BY <1>2, <1>3

(* Drivers take turns, so that what is appended is of the turn there is. *)
LEMMA LoggingTurn ==
  ASSUME TurnInv, NEW d \in Drivers, Logging(d)
  PROVE  (SaidIsOwn /\ ToldIsLogged /\ TurnOnLog)'
<1> DEFINE r == Due(d)
<1> USE DEF TurnInv
<1>1. /\ r \in Record /\ pc[d] \in LogPc /\ turnEnv' = turnEnv /\ turn' = turn /\ told' = told
      /\ log' = log \/ log' = Append(log, r)
      /\ "refuse" \notin turnEnv => log' = Append(log, r)
  BY LoggingStep DEF Append1
<1>2. log \in Seq(Record)  BY DEF TurnTypeOK
<1>3. /\ \A e \in Drivers \ {d} : pc'[e] = pc[e]
      /\ pc[d] = "prompt" => pc'[d] = "turnOpen" /\ r = Rec("user", turn[d].prompt)
      /\ pc[d] = "turnOpen" => pc'[d] = "stepOpen" /\ r = Rec("turnOpen", 0)
      /\ pc[d] = "stepOpen" => pc'[d] = "look" /\ r = Rec("stepOpen", 0)
      /\ pc[d] = "message" => pc'[d] = "decide" /\ r = turn[d].said
      /\ pc[d] = "call" => pc'[d] = "run"
      /\ pc[d] = "result" => pc'[d] = "decide"
      /\ pc[d] = "stepClose" => pc'[d] = "turnClose" /\ r = Rec("stepClose", 0)
      /\ pc[d] = "turnClose" => pc'[d] = "return" /\ r = Close(turn[d].why)
  BY DEF Logging, LogPrompt, LogTurnOpen, LogStepOpen, LogMessage, LogCall, LogResult,
         LogStepClose, LogTurnClose, Logs, Goes, Due, TurnTypeOK
<1>4. SaidIsOwn'
  BY <1>1, <1>3 DEF SaidIsOwn, LogPc
<1>5. ToldIsLogged'
  BY <1>1, <1>2, ToldKept
<1>6. TurnOnLog'
  <2> SUFFICES ASSUME OneDriver, NEW e \in Drivers
               PROVE  /\ Prompted(e)' => LastSeam(Rec("user", turn[e].prompt))'
                      /\ TurnAnswered(e)' => LastAnswer(turn[e].said)'
                      /\ pc'[e] = "return" => log'[Len(log')] = Close(turn[e].why)
    BY <1>1 DEF TurnOnLog, OneDriver
  <2>1. log' = Append(log, r)
    BY <1>1 DEF OneDriver
  <2>2. CASE e # d
    <3>1. pc[e] = "idle" /\ pc'[e] = "idle"
      BY <1>1, <1>3, <2>2 DEF OneAtATime, LogPc, OneDriver
    <3> QED  BY <3>1 DEF Prompted, TurnAnswered
  <2>3. CASE e = d
    <3>1. Prompted(d)' => LastSeam(Rec("user", turn[d].prompt))'
      <4> SUFFICES ASSUME Prompted(d)'
                   PROVE  LastSeam(Rec("user", turn[d].prompt))'
        OBVIOUS
      <4>1. CASE pc[d] = "prompt"
        BY <1>1, <1>2, <1>3, <2>1, <4>1, AppendedLast
      <4>2. CASE pc[d] \in {"turnOpen", "stepOpen"}
        <5>1. LastSeam(Rec("user", turn[d].prompt))  BY <4>2 DEF TurnOnLog, Prompted
        <5>2. ~IsSeamMessage(r)  BY <1>3, <4>2 DEF IsSeamMessage, Rec
        <5> QED  BY <1>1, <1>2, <2>1, <5>1, <5>2, AppendedLast
      <4> QED  BY <1>1, <1>3, <4>1, <4>2 DEF Prompted, LogPc
    <3>2. TurnAnswered(d)' => LastAnswer(turn[d].said)'
      <4> SUFFICES ASSUME TurnAnswered(d)'
                   PROVE  LastAnswer(turn[d].said)'
        OBVIOUS
      <4>1. CASE pc[d] = "message"
        BY <1>1, <1>2, <1>3, <2>1, <4>1, AppendedLast
      <4>2. CASE pc[d] \in {"stepClose", "turnClose"}
        <5>1. LastAnswer(turn[d].said)  BY <1>1, <4>2 DEF TurnOnLog, TurnAnswered
        <5>2. r.kind # "assistant"  BY <1>3, <4>2 DEF Rec, Close
        <5> QED  BY <1>1, <1>2, <2>1, <5>1, <5>2, AppendedLast
      <4> QED  BY <1>1, <1>3, <4>1, <4>2 DEF TurnAnswered, LogPc, SaidIsOwn
    <3>3. pc'[d] = "return" => log'[Len(log')] = Close(turn[d].why)
      <4>1. pc'[d] = "return" => r = Close(turn[d].why)  BY <1>1, <1>3 DEF LogPc
      <4> QED  BY <1>1, <1>2, <2>1, <4>1, AppendedLast
    <3> QED  BY <1>1, <2>3, <3>1, <3>2, <3>3
  <2> QED  BY <2>2, <2>3
<1> QED  BY <1>4, <1>5, <1>6

LEMMA ThinkingTurn ==
  ASSUME TurnInv, NEW d \in Drivers, Thinking(d)
  PROVE  (SaidIsOwn /\ ToldIsLogged /\ TurnOnLog)'
<1> USE DEF TurnInv
<1>1. log' = log /\ turnEnv' = turnEnv /\ \A e \in Drivers \ {d} : pc'[e] = pc[e] /\ turn'[e] = turn[e]
  BY DEF Thinking, Prompt, Look, AnswerMessage, AnswerCall, AnswerStop,
         AnswerToolCall, DecideReason, Return, Goes, TurnTypeOK
<1>2. turn[d] \in Turn  BY DEF TurnTypeOK
<1>3. \/ pc'[d] = "prompt" /\ turn'[d].said.kind = "turnOpen"
      \/ pc[d] = "look" /\ pc'[d] = "answer" /\ turn'[d].said = turn[d].said
      \/ pc[d] = "answer" /\ pc'[d] = "message"
      \/ pc[d] = "answer" /\ pc'[d] = "call" /\ turn'[d].said.kind = "call"
      \/ pc[d] = "answer" /\ pc'[d] = "decide" /\ turn'[d].said = turn[d].said
      \/ pc[d] = "run" /\ pc'[d] = "result" /\ turn'[d].said = turn[d].said
      \/ pc[d] = "decide" /\ pc'[d] = "stepClose" /\ turn'[d].said = turn[d].said
      \/ pc'[d] = "idle"
  <2>1. CASE Prompt(d)  BY <2>1 DEF Prompt, Goes, TurnTypeOK, NoTurn, Rec
  <2>2. CASE Look(d)  BY <1>2, <2>2 DEF Look, Goes, TurnTypeOK, Turn
  <2>3. CASE AnswerMessage(d)  BY <2>3 DEF AnswerMessage, Goes, TurnTypeOK
  <2>4. CASE AnswerCall(d)  BY <1>2, <2>4 DEF AnswerCall, Goes, TurnTypeOK, Turn, Rec
  <2>5. CASE AnswerStop(d)  BY <1>2, <2>5 DEF AnswerStop, Goes, TurnTypeOK, Turn
  <2>6. CASE AnswerToolCall(d)  BY <2>6 DEF AnswerToolCall, Goes, TurnTypeOK
  <2>7. CASE DecideReason(d)
    <3>1. [turn EXCEPT ![d].why = "maxTokens"][d].said = turn[d].said
      BY <1>2 DEF TurnTypeOK, Turn
    <3>2. turn'[d].said = turn[d].said  BY <2>7, <3>1 DEF DecideReason
    <3> QED  BY <2>7, <3>2 DEF DecideReason, Goes, TurnTypeOK
  <2>8. CASE Return(d)  BY <2>8 DEF Return, Goes, TurnTypeOK
  <2> QED  BY <2>1, <2>2, <2>3, <2>4, <2>5, <2>6, <2>7, <2>8 DEF Thinking
<1>4. SaidIsOwn'
  BY <1>1, <1>3 DEF SaidIsOwn
<1>5. ToldIsLogged'
  <2>1. CASE Return(d)
    <3>1. told' \subseteq told \cup ({FinalAssistant(log)} \ {0})  BY <2>1 DEF Return
    <3>2. FinalAssistant(log) # 0 => \E i \in Answers(log) : log[i].id = FinalAssistant(log)
      BY DEF FinalAssistant, HasMax, Max
    <3> QED  BY <1>1, <3>1, <3>2 DEF ToldIsLogged
  <2>2. CASE ~Return(d)
    <3>1. told' = told
      BY <2>2 DEF Thinking, Prompt, Look, AnswerMessage, AnswerCall, AnswerStop,
                  AnswerToolCall, DecideReason
    <3> QED  BY <1>1, <3>1 DEF ToldIsLogged
  <2> QED  BY <2>1, <2>2
<1>6. TurnOnLog'
  <2>1. \A x : (LastSeam(x)' <=> LastSeam(x)) /\ (LastAnswer(x)' <=> LastAnswer(x))
    BY <1>1 DEF LastSeam, LastAnswer
  <2>2. ~Prompted(d)' /\ pc'[d] # "return"  BY <1>3 DEF Prompted
  <2>3. TurnAnswered(d)' => TurnAnswered(d) /\ turn'[d].said = turn[d].said
    BY <1>3 DEF TurnAnswered, SaidIsOwn
  <2>4. \A e \in Drivers \ {d} :
          /\ Prompted(e)' <=> Prompted(e)
          /\ TurnAnswered(e)' <=> TurnAnswered(e)
    BY <1>1 DEF Prompted, TurnAnswered
  <2> QED  BY <1>1, <2>1, <2>2, <2>3, <2>4 DEF TurnOnLog, OneDriver
<1> QED  BY <1>4, <1>5, <1>6

LEMMA TurnStep == TurnInv /\ [TurnNext]_turnVars => TurnInv'
<1> SUFFICES ASSUME TurnInv, [TurnNext]_turnVars PROVE TurnInv'  OBVIOUS
<1>1. TurnTypeOK' /\ HasMax' /\ SaidIsAnswer' /\ OneAtATime' /\ DownIsIdle'
  BY StepTyped, MaxKept, AloneKept, SaidKept DEF TurnInv
<1>2. ASSUME \A d \in Drivers : pc'[d] = "idle"
      PROVE  (SaidIsOwn /\ TurnOnLog)'
  BY <1>2 DEF SaidIsOwn, TurnOnLog, Prompted, TurnAnswered
<1>3. CASE Stop
  <2>1. (\A d \in Drivers : pc'[d] = "idle") /\ log' = log /\ told' = told  BY <1>3 DEF Stop
  <2> QED  BY <1>1, <1>2, <2>1 DEF TurnInv, ToldIsLogged
<1>4. CASE Mounting
  <2>1. \A d \in Drivers : pc'[d] = "idle"
    BY <1>4, MountingStep DEF TurnInv, DownIsIdle, Idle
  <2>2. ToldIsLogged'
    <3>1. Rec("seedBoundary", 0) \in Record  BY RecordsTyped DEF Kind
    <3> QED  BY <1>4, <3>1, MountingStep, ToldKept DEF TurnInv, TurnTypeOK
  <2> QED  BY <1>1, <1>2, <2>1, <2>2 DEF TurnInv
<1>5. CASE UNCHANGED turnVars
  BY <1>1, <1>5 DEF turnVars, TurnInv, SaidIsOwn, ToldIsLogged, TurnOnLog, OneDriver, Prompted, TurnAnswered,
                    LastSeam, LastAnswer
<1> QED  BY <1>1, <1>3, <1>4, <1>5, LoggingTurn, ThinkingTurn, TurnCases DEF TurnInv

LEMMA TurnInvHolds == TurnSpec => []TurnInv
<1>1. TurnInit => TurnInv
  <2> SUFFICES ASSUME TurnInit PROVE TurnInv  OBVIOUS
  <2>1. told = {} /\ up /\ \A d \in Drivers : pc[d] = "idle"  BY DEF TurnInit
  <2> QED  BY <2>1, TurnInitTyped DEF TurnInv, OneAtATime, DownIsIdle, SaidIsAnswer, SaidIsOwn,
                                 ToldIsLogged, TurnOnLog, Prompted, TurnAnswered
<1> QED  BY <1>1, TurnStep, PTL DEF TurnSpec

(* TurnIsFaithful of AgentTurn: every answer that any caller got is shown  *)
(* to the model in every later turn, the prompt of the turn last, and a    *)
(* turn reports the reason and the text that the log has of it, across     *)
(* crashes, resumes and forks.                                             *)
THEOREM AgentTurnIsFaithful == TurnSpec => TurnIsFaithful
<1> DEFINE Stays(d) ==
  pc[d] = "look" /\ pc'[d] = "answer" =>
    LET seen == turn'[d].seen
    IN /\ told \subseteq {log[i].id : i \in seen}
       /\ turnEnv \cap {"refuse", "overlap"} = {} =>
            log[Max(seen)].id = turn[d].prompt
<1> DEFINE Report(d) ==
  pc[d] = "return" /\ pc'[d] = "idle" /\ up' /\ turnEnv \cap {"refuse", "overlap"} = {} =>
    /\ Last(log) = Close(turn[d].why)
    /\ turn[d].why = "completed" /\ turn[d].said.kind = "assistant" =>
         turn'[d].text = turn[d].said.id
<1>1. ASSUME TurnInv, [TurnNext]_turnVars, NEW d \in Drivers, pc[d] # pc'[d], pc'[d] # "idle" \/ up'
      PROVE  Logging(d) \/ Thinking(d)
  <2>1. ASSUME NEW e \in Drivers \ {d}, Logging(e) \/ Thinking(e)
        PROVE  pc'[d] = pc[d]
    <3>1. CASE Logging(e)
      BY <1>1, <3>1, LoggingStep DEF TurnInv, TurnTypeOK
    <3>2. CASE Thinking(e)
      BY <1>1, <3>2 DEF Thinking, Prompt, Look, AnswerMessage, AnswerCall, AnswerStop,
         AnswerToolCall, DecideReason, Return, Goes, TurnInv, TurnTypeOK
    <3> QED  BY <2>1, <3>1, <3>2
  <2>2. ~Mounting /\ ~Stop /\ ~UNCHANGED turnVars
    BY <1>1, MountingStep DEF Stop, turnVars
  <2> QED  BY <1>1, <2>1, <2>2, TurnCases
<1>2. ASSUME TurnInv, [TurnNext]_turnVars, NEW d \in Drivers
      PROVE  Stays(d)
  <2> SUFFICES ASSUME pc[d] = "look", pc'[d] = "answer"
               PROVE  /\ told \subseteq {log[i].id : i \in turn'[d].seen}
                      /\ turnEnv \cap {"refuse", "overlap"} = {} =>
                           log[Max(turn'[d].seen)].id = turn[d].prompt
    OBVIOUS
  <2>1. Logging(d) \/ Thinking(d)
    BY <1>1, <1>2
  <2>2. Look(d)
    BY <1>2, <2>1 DEF Logging, LogPrompt, LogTurnOpen, LogStepOpen, LogMessage, LogCall, LogResult,
       LogStepClose, LogTurnClose, Logs, Thinking, Prompt, AnswerMessage, AnswerCall, AnswerStop,
       AnswerToolCall, DecideReason, Return, Goes, TurnInv, TurnTypeOK
  <2>3. turn'[d].seen = ModelMessages(log) /\ log \in Seq(Record)
    <3>1. turn[d] \in Turn  BY <1>2 DEF TurnInv, TurnTypeOK
    <3> QED  BY <1>2, <2>2, <3>1 DEF Look, TurnInv, TurnTypeOK, Turn
  <2>4. told \subseteq {log[i].id : i \in ModelMessages(log)}
    BY <1>2 DEF TurnInv, ToldIsLogged, Answers, ModelMessages, IsSeamMessage
  <2>5. OneDriver => LastSeam(Rec("user", turn[d].prompt))
    BY <1>2 DEF TurnInv, TurnOnLog, Prompted
  <2>6. IsSeamMessage(Rec("user", turn[d].prompt)) /\ Rec("user", turn[d].prompt).id = turn[d].prompt
    BY DEF IsSeamMessage, Rec
  <2>7. OneDriver => log[Max(ModelMessages(log))].id = turn[d].prompt
    BY <2>3, <2>5, <2>6, LastIsChosen
  <2> QED  BY <2>3, <2>4, <2>7 DEF OneDriver
<1>3. ASSUME TurnInv, [TurnNext]_turnVars, NEW d \in Drivers
      PROVE  Report(d)
  <2> SUFFICES ASSUME pc[d] = "return", pc'[d] = "idle", up', OneDriver
               PROVE  /\ Last(log) = Close(turn[d].why)
                      /\ turn[d].why = "completed" /\ turn[d].said.kind = "assistant" =>
                           turn'[d].text = turn[d].said.id
    BY DEF OneDriver
  <2>1. Return(d)
    BY <1>1, <1>3 DEF Logging, LogPrompt, LogTurnOpen, LogStepOpen, LogMessage, LogCall, LogResult,
       LogStepClose, LogTurnClose, Logs, Thinking, Prompt, Look, AnswerMessage, AnswerCall, AnswerStop,
       AnswerToolCall, DecideReason, Goes, TurnInv, TurnTypeOK
  <2>2. Last(log) = Close(turn[d].why)
    BY <1>3 DEF TurnInv, TurnOnLog, Last
  <2>3. ASSUME turn[d].why = "completed", turn[d].said.kind = "assistant"
        PROVE  turn'[d].text = turn[d].said.id
    <3>1. FinalAssistant(log) = turn[d].said.id
      BY <1>3, <2>3, LastIsChosen DEF TurnInv, TurnTypeOK, TurnOnLog, TurnAnswered
    <3>2. turn'[d].text = FinalAssistant(log)
      BY <1>3, <2>1, <2>3 DEF Return, TurnInv, TurnTypeOK, Turn
    <3> QED  BY <3>1, <3>2
  <2> QED  BY <2>2, <2>3
<1>4. TurnInv /\ [TurnNext]_turnVars => [\A d \in Drivers : Stays(d)]_turnVars /\ [\A d \in Drivers : Report(d)]_turnVars
  BY <1>2, <1>3
<1> QED  BY <1>4, TurnInvHolds, PTL DEF TurnSpec, TurnIsFaithful, ContextKept, TurnReport

----------------------------------------------------------------------------
(***************************************************************************)
(* ToolPipeline                                                            *)
(***************************************************************************)
(* The sequences that a chain and a stack of listeners go through.         *)
LEMMA Ends ==
  ASSUME NEW S, NEW s \in Seq(S), s # <<>>
  PROVE  /\ Len(s) \in Nat \ {0} /\ DOMAIN s = 1..Len(s)
         /\ Head(s) \in S /\ Head(s) = s[1]
         /\ Tail(s) \in Seq(S) /\ Len(Tail(s)) = Len(s) - 1
         /\ \A i \in 1..(Len(s) - 1) : Tail(s)[i] = s[i + 1]
         /\ Last(s) \in S /\ Last(s) = s[Len(s)]
         /\ Front(s) \in Seq(S) /\ Len(Front(s)) = Len(s) - 1
         /\ \A i \in 1..(Len(s) - 1) : Front(s)[i] = s[i]
<1>1. Len(s) \in Nat \ {0} /\ DOMAIN s = 1..Len(s) /\ \A i \in 1..Len(s) : s[i] \in S
  OBVIOUS
<1>2. /\ Head(s) \in S /\ Tail(s) \in Seq(S) /\ Len(Tail(s)) = Len(s) - 1
      /\ \A i \in 1..Len(Tail(s)) : Tail(s)[i] = s[i + 1]
  BY HeadTailProperties
<1>3. Head(s) = s[1]  OBVIOUS
<1>4. /\ Front(s) \in Seq(S) /\ Len(Front(s)) = Len(s) - 1
      /\ \A i \in 1..(Len(s) - 1) : Front(s)[i] = s[i]
  <2> DEFINE n == Len(s) - 1
  <2>1. n \in Int /\ 1 \in Int /\ n \in Nat /\ \A i \in 1..n : s[i] \in S  BY <1>1
  <2> HIDE DEF n
  <2>2. /\ SubSeq(s, 1, n) \in Seq(S)
        /\ Len(SubSeq(s, 1, n)) = IF 1 <= n THEN n - 1 + 1 ELSE 0
        /\ \A i \in 1..(n - 1 + 1) : SubSeq(s, 1, n)[i] = s[1 + i - 1]
    BY <2>1, SubSeqProperties
  <2>3. \A i \in 1..n : SubSeq(s, 1, n)[i] = s[i]  BY <2>1, <2>2
  <2>4. Len(SubSeq(s, 1, n)) = n  BY <2>1, <2>2
  <2> QED  BY <2>2, <2>3, <2>4 DEF Front, n
<1> QED  BY <1>1, <1>2, <1>3, <1>4 DEF Last

LEMMA Pushed ==
  ASSUME NEW S, NEW s \in Seq(S), NEW x \in S
  PROVE  /\ Append(s, x) \in Seq(S) /\ Append(s, x) # <<>>
         /\ Len(Append(s, x)) = Len(s) + 1 /\ Len(s) \in Nat
         /\ \A i \in 1..Len(s) : Append(s, x)[i] = s[i]
         /\ Append(s, x)[Len(s) + 1] = x
         /\ Last(Append(s, x)) = x
  BY DEF Last

(* The last of a sequence is replaced.                                     *)
LEMMA Retopped ==
  ASSUME NEW S, NEW s \in Seq(S), s # <<>>, NEW x \in S
  PROVE  /\ Append(Front(s), x) \in Seq(S) /\ Append(Front(s), x) # <<>>
         /\ Len(Append(Front(s), x)) = Len(s)
         /\ \A i \in 1..(Len(s) - 1) : Append(Front(s), x)[i] = s[i]
         /\ Append(Front(s), x)[Len(s)] = x
         /\ Last(Append(Front(s), x)) = x
<1>1. Front(s) \in Seq(S) /\ Len(Front(s)) = Len(s) - 1 /\ Len(s) \in Nat \ {0}
  BY Ends
<1>2. \A i \in 1..(Len(s) - 1) : Front(s)[i] = s[i]
  BY Ends
<1> DEFINE f == Front(s)
<1> HIDE DEF f
<1>3. /\ Append(f, x) \in Seq(S) /\ Append(f, x) # <<>> /\ Len(Append(f, x)) = Len(f) + 1
      /\ \A i \in 1..Len(f) : Append(f, x)[i] = f[i]
      /\ Append(f, x)[Len(f) + 1] = x /\ Last(Append(f, x)) = x
  BY <1>1, Pushed DEF f
<1> QED  BY <1>1, <1>2, <1>3 DEF f

LEMMA Removed ==
  ASSUME NEW S, NEW s \in Seq(S), NEW n \in DOMAIN s
  PROVE  /\ RemoveAt(s, n) \in Seq(S) /\ Len(RemoveAt(s, n)) = Len(s) - 1
         /\ \A i \in 1..(Len(s) - 1) :
              RemoveAt(s, n)[i] = IF i < n THEN s[i] ELSE s[i + 1]
<1> DEFINE k == Len(s)
           a == SubSeq(s, 1, n - 1)
           b == SubSeq(s, n + 1, k)
<1>1. n \in 1..k /\ k \in Nat /\ \A i \in 1..k : s[i] \in S  OBVIOUS
<1>2. 1 \in Int /\ n - 1 \in Int /\ n + 1 \in Int /\ k \in Int /\ n \in Int  BY <1>1
<1>3. (\A i \in 1..(n - 1) : s[i] \in S) /\ (\A i \in (n + 1)..k : s[i] \in S)  BY <1>1
<1> HIDE DEF k
<1>4. /\ a \in Seq(S) /\ Len(a) = IF 1 <= n - 1 THEN n - 1 - 1 + 1 ELSE 0
      /\ \A i \in 1..(n - 1 - 1 + 1) : a[i] = s[1 + i - 1]
  BY <1>2, <1>3, SubSeqProperties
<1>5. /\ b \in Seq(S) /\ Len(b) = IF n + 1 <= k THEN k - (n + 1) + 1 ELSE 0
      /\ \A i \in 1..(k - (n + 1) + 1) : b[i] = s[n + 1 + i - 1]
  BY <1>2, <1>3, SubSeqProperties
<1>6. Len(a) = n - 1 /\ \A i \in 1..(n - 1) : a[i] = s[i]  BY <1>1, <1>4
<1>7. Len(b) = k - n /\ \A i \in 1..(k - n) : b[i] = s[n + i]  BY <1>1, <1>5
<1>8. RemoveAt(s, n) = a \o b  BY DEF RemoveAt, k
<1> HIDE DEF a, b
<1>9. /\ a \o b \in Seq(S) /\ Len(a \o b) = Len(a) + Len(b)
      /\ \A i \in 1..(Len(a) + Len(b)) :
           (a \o b)[i] = IF i <= Len(a) THEN a[i] ELSE b[i - Len(a)]
  BY <1>4, <1>5, ConcatProperties
<1>10. Len(a \o b) = k - 1  BY <1>1, <1>6, <1>7, <1>9
<1>11. ASSUME NEW i \in 1..(k - 1)
       PROVE  (a \o b)[i] = IF i < n THEN s[i] ELSE s[i + 1]
  <2>1. i \in 1..(Len(a) + Len(b))  BY <1>1, <1>6, <1>7
  <2>2. CASE i < n  BY <1>1, <1>6, <1>9, <2>1, <2>2
  <2>3. CASE ~ i < n
    <3>1. (a \o b)[i] = b[i - (n - 1)]  BY <1>1, <1>6, <1>9, <2>1, <2>3, SMTT(30)
    <3>2. i - (n - 1) \in 1..(k - n) /\ n + (i - (n - 1)) = i + 1  BY <1>1, <2>3
    <3> QED  BY <1>7, <2>3, <3>1, <3>2
  <2> QED  BY <2>2, <2>3
<1> QED  BY <1>8, <1>9, <1>10, <1>11 DEF k

----------------------------------------------------------------------------
LEMMA OutcomesTyped ==
  /\ \A v \in Value : Accepted(v) \in Outcome
  /\ \A o \in Outcome : /\ o.value \in Value /\ o.context \in Seq(Context)
                        /\ o.denied \in Listeners \cup {None}
  BY DEF Accepted, Outcome

LEMMA DecisionsTyped ==
  /\ Accept \in Decision
  /\ \A v \in Value : Replace(v) \in Decision
  /\ \A cs \in Seq(Context) : AddContext(cs) \in Decision
  /\ \A l \in Listeners : Block(l) \in Decision
<1>1. Accept \in Decision  BY DEF Accept, Decision
<1> USE <1>1 DEF Accept, Decision
<1>2. \A v \in Value : Replace(v) \in Decision  BY DEF Replace
<1>3. \A cs \in Seq(Context) : AddContext(cs) \in Decision  BY DEF AddContext
<1>4. \A l \in Listeners : Block(l) \in Decision  BY DEF Block
<1> QED  BY <1>2, <1>3, <1>4

LEMMA Told ==
  ASSUME NEW o \in Outcome, NEW v \in Value
  PROVE  AsDecision(o, v) \in Decision
  BY OutcomesTyped, DecisionsTyped DEF AsDecision

LEMMA DecisionKinds ==
  /\ Accept.kind = "accept" /\ Accept.context = <<>>
  /\ \A v : /\ Replace(v).kind = "replace" /\ Replace(v).value = v
            /\ Replace(v).context = <<>>
  /\ \A cs : AddContext(cs).kind = "context" /\ AddContext(cs).context = cs
  /\ \A l : Block(l).kind = "block" /\ Block(l).reason = l /\ Block(l).context = <<>>
  BY DEF Accept, Replace, AddContext, Block

(* A decision to replace carries a value; who is inside a listener, or     *)
(* back from one, has its frame; what is handed on is there.               *)
DecisionsCarry == \A c \in Calls : decision[c].kind = "replace" => decision[c].value \in Value
InsideHasFrame == \A c \in Calls : at[c] \in {"listen", "fold", "restore"} => stack[c] # <<>>
HandingHasDue == \A c \in Calls : at[c] = "handing" => due[c] # <<>>

(* A listener that a call is in has its cell.                              *)
FramesAreKnown == \A c \in Calls : \A i \in DOMAIN stack[c] : stack[c][i].l \in DOMAIN cell

TypeInv == TypeOK /\ DecisionsCarry /\ InsideHasFrame /\ HandingHasDue

LEMMA Folded ==
  ASSUME NEW o \in SUBSET Outcome, NEW d \in Decision, NEW v \in Value,
         d.kind = "replace" => d.value \in Value
  PROVE  Fold(o, d, v) \in Outcome
<1> USE OutcomesTyped
<1>1. /\ d.kind \in {"accept", "replace", "context", "block"}
      /\ d.context \in Seq(Context) /\ d.reason \in Listeners \cup {None}
  BY DEF Decision
<1>2. CASE o = {}
  <2>1. FromDecision(d, v) \in Outcome  BY <1>1 DEF FromDecision, Outcome
  <2> QED  BY <1>2, <2>1 DEF Fold
<1>3. CASE o # {}
  <2> DEFINE p == CHOOSE x \in o : TRUE
  <2>1. p \in Outcome  BY <1>3
  <2> HIDE DEF p
  <2>2. d.context \o p.context \in Seq(Context)  BY <1>1, <2>1, ConcatProperties
  <2>3. Amend(p, d) \in Outcome
    <3>1. CASE d.kind = "accept"  BY <2>1, <3>1 DEF Amend
    <3>2. CASE d.kind = "replace"  BY <2>1, <3>2 DEF Amend, Outcome
    <3>3. CASE d.kind = "context"  BY <2>1, <2>2, <3>3 DEF Amend, Outcome
    <3>4. CASE d.kind = "block"  BY <1>1, <2>1, <3>4 DEF Amend, Outcome
    <3> QED  BY <1>1, <3>1, <3>2, <3>3, <3>4
  <2> QED  BY <1>3, <2>3 DEF Fold, p
<1> QED  BY <1>2, <1>3

(* What an answer changes: the call is back inside the listener that       *)
(* called next, or the whole chain has answered.                           *)
LEMMA Answered ==
  ASSUME TypeOK, NEW c \in Calls, NEW frames \in Seq(Frame),
         NEW cells \in [DOMAIN cell -> SUBSET Outcome],
         NEW real \in Outcome, NEW own \in Outcome,
         Answer(c, frames, cells, real, own)
  PROVE  /\ at' \in [Calls -> Place] /\ stack' \in [Calls -> Seq(Frame)]
         /\ DOMAIN cell' = DOMAIN cell /\ cell' \in [DOMAIN cell -> SUBSET Outcome]
         /\ due' \in [Calls -> Seq(Context)]
         /\ answer' \in [Calls -> [real : Outcome, own : Outcome]]
         /\ at'[c] \in {"listen", "deliver", "refused"}
         /\ at'[c] = "listen" => stack'[c] # <<>>
         /\ \A d \in Calls \ {c} : at'[d] = at[d] /\ stack'[d] = stack[d] /\ due'[d] = due[d]
<1> USE OutcomesTyped DEF Goto, Place
<1>1. CASE frames = <<>>
  <2>1. <<>> \in Seq(Frame) /\ <<>> \in Seq(Context)  OBVIOUS
  <2>2. stack' = [stack EXCEPT ![c] = <<>>] /\ cell' = cells /\ Settle(c, real, own)
    BY <1>1 DEF Answer
  <2>3. at' \in [Calls -> Place] /\ at'[c] \in {"deliver", "refused"}
    BY <2>2 DEF Settle, TypeOK
  <2>4. answer' \in [Calls -> [real : Outcome, own : Outcome]]
    BY <2>2 DEF Settle, TypeOK
  <2>5. due' \in [Calls -> Seq(Context)]  BY <2>1, <2>2 DEF Settle, TypeOK
  <2>6. \A d \in Calls \ {c} : at'[d] = at[d] /\ stack'[d] = stack[d] /\ due'[d] = due[d]
    BY <2>2 DEF Settle, TypeOK
  <2>7. stack' \in [Calls -> Seq(Frame)]  BY <2>1, <2>2 DEF TypeOK
  <2> QED  BY <2>2, <2>3, <2>4, <2>5, <2>6, <2>7
<1>2. CASE frames # <<>>
  <2> DEFINE top == Last(frames)
             new == [top EXCEPT !.inner = {real}, !.own = {own}]
             s == Append(Front(frames), new)
  <2>1. top \in Frame  BY <1>2, Ends
  <2>2. new \in Frame  BY <2>1 DEF Frame
  <2>3. s \in Seq(Frame) /\ s # <<>>  BY <1>2, <2>2, Retopped
  <2>4. /\ stack' = [stack EXCEPT ![c] = s] /\ cell' = [cells EXCEPT ![top.l] = {real}]
        /\ at' = [at EXCEPT ![c] = "listen"] /\ answer' = answer /\ due' = due
    BY <1>2 DEF Answer
  <2> HIDE DEF top, new, s
  <2>5. stack' \in [Calls -> Seq(Frame)] /\ stack'[c] = s  BY <2>3, <2>4 DEF TypeOK
  <2>6. DOMAIN cell' = DOMAIN cell /\ cell' \in [DOMAIN cell -> SUBSET Outcome]  BY <2>4
  <2> QED  BY <2>3, <2>4, <2>5, <2>6 DEF TypeOK
<1> QED  BY <1>1, <1>2

----------------------------------------------------------------------------
LEMMA InitTyped == Init => TypeInv
<1> SUFFICES ASSUME Init PROVE TypeInv  OBVIOUS
<1> USE DEF Init
<1>1. \A c \in Calls : Accepted(c) \in Outcome  BY OutcomesTyped DEF Value
<1>2. /\ <<>> \in Seq(Listeners) /\ <<>> \in Seq(Frame) /\ <<>> \in Seq(Context)
      /\ DOMAIN cell = {} /\ ToSet(post) = {}
  BY DEF ToSet
<1>3. /\ answer \in [Calls -> [real : Outcome, own : Outcome]]
      /\ cell \in [DOMAIN cell -> SUBSET Outcome]
  BY <1>1, <1>2
<1>4. /\ stack \in [Calls -> Seq(Frame)] /\ due \in [Calls -> Seq(Context)]
      /\ post \in Seq(Listeners) /\ chain \in [Calls -> Seq(Listeners)]
      /\ \A x \in {pending, flushing, sunk} : x \in Seq(Context)
  BY <1>2
<1>5. decision \in [Calls -> Decision]  BY DecisionsTyped
<1>6. TypeOK  BY <1>2, <1>3, <1>4, <1>5 DEF TypeOK, Place, Value
<1> QED  BY <1>6 DEF TypeInv, DecisionsCarry, InsideHasFrame, HandingHasDue, Accept

LEMMA RegisterTyped ==
  ASSUME TypeInv, NEW l \in Listeners, Register(l)
  PROVE  TypeInv'
<1> USE DEF TypeInv, Register, sinkVars
<1>1. /\ DOMAIN cell' = DOMAIN cell \cup {l}
      /\ \A m \in DOMAIN cell : cell'[m] = cell[m]
      /\ cell'[l] = {} /\ cell' \in [DOMAIN cell' -> SUBSET Outcome]
  BY DEF TypeOK
<1>2. /\ post \in Seq(Listeners) /\ post' \in Seq(Listeners) /\ Len(post') = Len(post) + 1
      /\ Len(post) \in Nat /\ post'[Len(post) + 1] = l
      /\ \A i \in 1..Len(post) : post'[i] = post[i]
  BY Pushed DEF TypeOK
<1>3. ToSet(post') \subseteq ToSet(post) \cup {l}
  <2> SUFFICES ASSUME NEW i \in 1..Len(post')  PROVE post'[i] \in ToSet(post) \cup {l}
    BY <1>2 DEF ToSet
  <2>1. CASE i = Len(post) + 1  BY <1>2, <2>1
  <2>2. CASE i \in 1..Len(post)  BY <1>2, <2>2 DEF ToSet
  <2> QED  BY <1>2, <2>1, <2>2
<1>4. TypeOK'  BY <1>1, <1>2, <1>3 DEF TypeOK
<1> QED  BY <1>4 DEF DecisionsCarry, InsideHasFrame, HandingHasDue

LEMMA DisposeTyped ==
  ASSUME TypeInv, NEW l \in Listeners, Dispose(l)
  PROVE  TypeInv'
<1> USE DEF TypeInv, Dispose, sinkVars
<1>1. PICK n \in DOMAIN post : post[n] = l /\ post' = RemoveAt(post, n)  OBVIOUS
<1>2. /\ post \in Seq(Listeners) /\ post' \in Seq(Listeners) /\ Len(post') = Len(post) - 1
      /\ \A i \in 1..(Len(post) - 1) : post'[i] = IF i < n THEN post[i] ELSE post[i + 1]
  BY <1>1, Removed DEF TypeOK
<1>3. ToSet(post') \subseteq ToSet(post)  BY <1>2, SMTT(30) DEF ToSet
<1>4. TypeOK'  BY <1>2, <1>3 DEF TypeOK
<1> QED  BY <1>4 DEF DecisionsCarry, InsideHasFrame, HandingHasDue

LEMMA StartTyped ==
  ASSUME TypeInv, NEW c \in Calls, Refuse(c) \/ Execute(c)
  PROVE  TypeInv'
<1> USE DEF TypeInv, chainVars, sinkVars, Goto
<1>1. CASE Refuse(c)
  <2>1. TypeOK'  BY <1>1 DEF Refuse, TypeOK, Place
  <2> QED  BY <1>1, <2>1 DEF Refuse, DecisionsCarry, InsideHasFrame, HandingHasDue, TypeOK
<1>2. CASE Execute(c)
  <2>1. TypeOK'  BY <1>2 DEF Execute, TypeOK, Place
  <2> QED  BY <1>2, <2>1 DEF Execute, DecisionsCarry, InsideHasFrame, HandingHasDue, TypeOK
<1> QED  BY <1>1, <1>2

LEMMA EnterTyped ==
  ASSUME TypeInv, NEW c \in Calls, Enter(c)
  PROVE  TypeInv'
<1> DEFINE h == Head(chain[c])
           f == [l |-> h, handed |-> payload[c], nexts |-> 0, sent |-> payload[c],
                 inner |-> {}, own |-> {}]
           s == Append(stack[c], f)
<1> USE DEF TypeInv, Goto, sinkVars
<1>1. h \in Listeners /\ Tail(chain[c]) \in Seq(Listeners)  BY Ends DEF Enter, TypeOK
<1>2. f \in Frame  BY <1>1 DEF Frame, TypeOK
<1> HIDE DEF h, f
<1>3. s \in Seq(Frame) /\ s # <<>>
  <2>1. stack[c] \in Seq(Frame)  BY DEF TypeOK
  <2> QED  BY <1>2, <2>1, Pushed
<1>4. /\ busy' = [busy EXCEPT ![h] = c] /\ chain' = [chain EXCEPT ![c] = Tail(chain[c])]
      /\ stack' = [stack EXCEPT ![c] = s] /\ at' = [at EXCEPT ![c] = "listen"]
      /\ UNCHANGED <<env, answer, due, frozen, post, cell, payload, decision, blocked, sinkVars>>
  BY DEF Enter, TypeOK, h, f
<1> HIDE DEF s
<1>5. TypeOK'  BY <1>1, <1>3, <1>4 DEF TypeOK, Place
<1> QED  BY <1>3, <1>4, <1>5 DEF DecisionsCarry, InsideHasFrame, HandingHasDue, TypeOK

LEMMA BuiltInTyped ==
  ASSUME TypeInv, NEW c \in Calls, BuiltIn(c)
  PROVE  TypeInv'
<1> USE DEF TypeInv, sinkVars
<1>1. /\ stack[c] \in Seq(Frame) /\ cell \in [DOMAIN cell -> SUBSET Outcome]
      /\ Accepted(payload[c]) \in Outcome
      /\ Answer(c, stack[c], cell, Accepted(payload[c]), Accepted(payload[c]))
      /\ UNCHANGED <<env, frozen, post, busy, payload, chain, decision, blocked, sinkVars>>
  BY OutcomesTyped DEF BuiltIn, TypeOK
<1>2. TypeOK'  BY <1>1, Answered DEF TypeOK
<1> QED  BY <1>1, <1>2, Answered DEF DecisionsCarry, InsideHasFrame, HandingHasDue

LEMMA CallNextTyped ==
  ASSUME TypeInv, NEW c \in Calls, CallNext(c)
  PROVE  TypeInv'
<1> DEFINE top == Last(stack[c])
<1> USE DEF TypeInv, Goto, sinkVars
<1>1. stack[c] \in Seq(Frame) /\ stack[c] # <<>> /\ top \in Frame
  BY Ends DEF CallNext, TypeOK, InsideHasFrame
<1>2. PICK v \in {top.handed} \cup (IF "rewrite" \in env THEN {top.l} ELSE {}) :
        /\ payload' = [payload EXCEPT ![c] = v]
        /\ stack' = [stack EXCEPT ![c] =
             Append(Front(stack[c]), [top EXCEPT !.nexts = top.nexts + 1, !.sent = v])]
  BY DEF CallNext, TypeOK
<1> DEFINE new == [top EXCEPT !.nexts = top.nexts + 1, !.sent = v]
<1>3. v \in Value  BY <1>1, <1>2 DEF Frame, Value
<1>4. top.nexts + 1 \in 0..2  BY <1>1 DEF CallNext, Frame
<1> HIDE DEF top
<1>5. new \in Frame  BY <1>1, <1>3, <1>4 DEF Frame
<1>6. Append(Front(stack[c]), new) \in Seq(Frame) /\ Append(Front(stack[c]), new) # <<>>
  BY <1>1, <1>5, Retopped
<1>7. /\ at' = [at EXCEPT ![c] = "chain"]
      /\ UNCHANGED <<env, answer, due, frozen, post, cell, busy, chain, decision, blocked, sinkVars>>
  BY DEF CallNext
<1> HIDE DEF new
<1>8. TypeOK'  BY <1>2, <1>3, <1>6, <1>7 DEF TypeOK, Place, new
<1> QED  BY <1>2, <1>7, <1>8 DEF DecisionsCarry, InsideHasFrame, HandingHasDue, TypeOK

LEMMA Deciding ==
  ASSUME TypeInv, NEW c \in Calls, at[c] = "listen", NEW d \in Decisions(c)
  PROVE  d \in Decision /\ (d.kind = "replace" => d.value \in Value)
<1> DEFINE top == Last(stack[c])
<1>1. top \in Frame  BY Ends DEF TypeInv, TypeOK, InsideHasFrame
<1>2. /\ top.l \in Listeners /\ top.l \in Value /\ top.sent \in Value
      /\ top.inner \subseteq Outcome
  BY <1>1 DEF Frame, Value
<1>3. <<c, top.l>> \in Context /\ <<(<<c, top.l>>)>> \in Seq(Context)
  BY <1>2 DEF Context
<1> DEFINE Plain == {Accept, Replace(top.l), AddContext(<<(<<c, top.l>>)>>), Block(top.l)}
<1>4. d \in Plain \/ \E o \in top.inner : d = AsDecision(o, top.sent)
  BY DEF Decisions
<1> HIDE DEF top
<1>5. ASSUME d \in Plain
      PROVE  d \in Decision /\ (d.kind = "replace" => d.value \in Value)
  <2>1. d \in Decision  BY <1>2, <1>3, <1>5, DecisionsTyped
  <2>2. d.kind = "replace" => d.value \in Value  BY <1>2, <1>5, DecisionKinds
  <2> QED  BY <2>1, <2>2
<1>6. ASSUME NEW o \in top.inner, d = AsDecision(o, top.sent)
      PROVE  d \in Decision /\ (d.kind = "replace" => d.value \in Value)
  <2>1. o \in Outcome /\ o.value \in Value  BY <1>2, OutcomesTyped
  <2>2. d \in Decision  BY <1>2, <1>6, <2>1, Told
  <2>3. d.kind = "replace" => d.value \in Value
    BY <1>6, <2>1 DEF AsDecision, Accept, Replace, AddContext, Block
  <2> QED  BY <2>2, <2>3
<1> HIDE DEF Plain
<1> QED  BY <1>4, <1>5, <1>6

LEMMA DecideTyped ==
  ASSUME TypeInv, NEW c \in Calls, Decide(c)
  PROVE  TypeInv'
<1> USE DEF TypeInv, Goto, sinkVars
<1>1. PICK d \in Decisions(c) :
        /\ decision' = [decision EXCEPT ![c] = d]
        /\ blocked' = [blocked EXCEPT ![c] = blocked[c] \/ d.kind = "block"]
  BY DEF Decide, TypeOK
<1>2. d \in Decision /\ (d.kind = "replace" => d.value \in Value)  BY Deciding DEF Decide
<1>3. decision' \in [Calls -> Decision] /\ DecisionsCarry'
  BY <1>1, <1>2 DEF TypeOK, DecisionsCarry
<1>4. blocked' \in [Calls -> BOOLEAN]  BY <1>1, Zenon DEF TypeOK
<1>5. /\ busy' = [busy EXCEPT ![Last(stack[c]).l] = None] /\ at' = [at EXCEPT ![c] = "fold"]
      /\ at[c] = "listen"
      /\ UNCHANGED <<env, answer, due, frozen, post, cell, payload, chain, stack, sinkVars>>
  BY DEF Decide
<1>6. TypeOK'  BY <1>3, <1>4, <1>5 DEF TypeOK, Place
<1> QED  BY <1>3, <1>5, <1>6 DEF InsideHasFrame, HandingHasDue, TypeOK

LEMMA FoldCellTyped ==
  ASSUME TypeInv, FramesAreKnown, NEW c \in Calls, FoldCell(c)
  PROVE  TypeInv'
<1> DEFINE top == Last(stack[c])
           real == Fold(cell[top.l], decision[c], top.handed)
           own == Fold(top.own, decision[c], top.handed)
<1> USE DEF TypeInv, Goto, sinkVars
<1>1. top \in Frame /\ top.l \in DOMAIN cell
  <2>1. stack[c] \in Seq(Frame) /\ stack[c] # <<>>  BY DEF FoldCell, TypeOK, InsideHasFrame
  <2> QED  BY <2>1, Ends DEF FramesAreKnown
<1>2. top.handed \in Value /\ top.own \subseteq Outcome  BY <1>1 DEF Frame
<1>3. cell[top.l] \subseteq Outcome  BY <1>1 DEF TypeOK
<1>4. decision[c] \in Decision  BY DEF TypeOK
<1> HIDE DEF top
<1>5. real \in Outcome /\ own \in Outcome  BY <1>2, <1>3, <1>4, Folded DEF DecisionsCarry
<1>6. /\ answer' = [answer EXCEPT ![c] = [real |-> real, own |-> own]]
      /\ cell' = [cell EXCEPT ![top.l] = {}]
      /\ decision' = [decision EXCEPT ![c] = Accept] /\ at' = [at EXCEPT ![c] = "restore"]
      /\ at[c] = "fold"
      /\ UNCHANGED <<env, due, frozen, post, busy, payload, chain, stack, blocked, sinkVars>>
  BY DEF FoldCell, top
<1> HIDE DEF real, own
<1>7. answer' \in [Calls -> [real : Outcome, own : Outcome]]  BY <1>5, <1>6 DEF TypeOK
<1>8. TypeOK'  BY <1>6, <1>7, DecisionsTyped DEF TypeOK, Place
<1>9. DecisionsCarry'  BY <1>6 DEF DecisionsCarry, TypeOK, Accept
<1> QED  BY <1>6, <1>8, <1>9 DEF InsideHasFrame, HandingHasDue, TypeOK

LEMMA RestoreTyped ==
  ASSUME TypeInv, NEW c \in Calls, Restore(c)
  PROVE  TypeInv'
<1> DEFINE cells == [cell EXCEPT ![Last(stack[c]).l] = {answer[c].real}]
           frames == Front(stack[c])
<1> USE DEF TypeInv, sinkVars
<1>1. answer[c].real \in Outcome /\ answer[c].own \in Outcome  BY DEF TypeOK
<1>2. cells \in [DOMAIN cell -> SUBSET Outcome]  BY <1>1 DEF TypeOK
<1>3. frames \in Seq(Frame)  BY Ends DEF Restore, TypeOK, InsideHasFrame
<1>4. /\ Answer(c, frames, cells, answer[c].real, answer[c].own)
      /\ UNCHANGED <<env, frozen, post, busy, payload, chain, decision, blocked, sinkVars>>
  BY DEF Restore
<1> HIDE DEF cells, frames
<1>5. TypeOK'  BY <1>1, <1>2, <1>3, <1>4, Answered DEF TypeOK
<1> QED
  BY <1>1, <1>2, <1>3, <1>4, <1>5, Answered DEF DecisionsCarry, InsideHasFrame, HandingHasDue

LEMMA DeliverTyped ==
  ASSUME TypeInv, NEW c \in Calls, Deliver(c)
  PROVE  TypeInv'
<1> USE DEF TypeInv, Goto, chainVars
<1>1. /\ due[c] \in Seq(Context) /\ Head(due[c]) \in Context /\ Tail(due[c]) \in Seq(Context)
  BY Ends DEF Deliver, TypeOK
<1>2. CASE sink
  <2>1. TypeOK'  BY <1>2 DEF Deliver, TypeOK, Place
  <2> QED  BY <1>2, <2>1 DEF Deliver, DecisionsCarry, InsideHasFrame, HandingHasDue, TypeOK
<1>3. CASE ~sink
  <2>1. pending' \in Seq(Context)
    <3>1. pending \in Seq(Context)  BY DEF TypeOK
    <3> QED  BY <1>1, <1>3, <3>1, Pushed DEF Deliver
  <2>2. due' \in [Calls -> Seq(Context)]  BY <1>1, <1>3 DEF Deliver, TypeOK
  <2>3. TypeOK'  BY <1>3, <2>1, <2>2 DEF Deliver, TypeOK
  <2> QED  BY <1>3, <2>3 DEF Deliver, DecisionsCarry, InsideHasFrame, HandingHasDue, TypeOK
<1> QED  BY <1>2, <1>3

LEMMA HandOnTyped ==
  ASSUME TypeInv, NEW c \in Calls, HandOn(c)
  PROVE  TypeInv'
<1> USE DEF TypeInv, Goto, chainVars, HandOn
<1>1. /\ due[c] \in Seq(Context) /\ Head(due[c]) \in Context /\ Tail(due[c]) \in Seq(Context)
  BY Ends DEF TypeOK, HandingHasDue
<1>2. sunk' \in Seq(Context)  BY <1>1, Pushed DEF TypeOK
<1>3. due' \in [Calls -> Seq(Context)]  BY <1>1 DEF TypeOK
<1>4. TypeOK'  BY <1>2, <1>3 DEF TypeOK, Place
<1> QED  BY <1>4 DEF DecisionsCarry, InsideHasFrame, HandingHasDue, TypeOK

LEMMA NotifyTyped ==
  ASSUME TypeInv, NEW c \in Calls, Notify(c)
  PROVE  TypeInv'
<1> USE DEF TypeInv, Goto, chainVars, sinkVars, Notify
<1>1. TypeOK'  BY DEF TypeOK, Place
<1> QED  BY <1>1 DEF DecisionsCarry, InsideHasFrame, HandingHasDue, TypeOK

LEMMA SinkTyped ==
  ASSUME TypeInv, InstallSink \/ Flush
  PROVE  TypeInv'
<1> USE DEF TypeInv, chainVars
<1>1. <<>> \in Seq(Context)  OBVIOUS
<1>2. CASE InstallSink
  <2>1. TypeOK'  BY <1>1, <1>2 DEF InstallSink, TypeOK
  <2> QED  BY <1>2, <2>1 DEF InstallSink, DecisionsCarry, InsideHasFrame, HandingHasDue
<1>3. CASE Flush
  <2>1. Tail(flushing) \in Seq(Context) /\ Head(flushing) \in Context
    BY <1>3, Ends DEF Flush, TypeOK
  <2>2. sunk' \in Seq(Context)  BY <1>3, <2>1, Pushed DEF Flush, TypeOK
  <2>3. TypeOK'  BY <1>3, <2>1, <2>2 DEF Flush, TypeOK
  <2> QED  BY <1>3, <2>3 DEF Flush, DecisionsCarry, InsideHasFrame, HandingHasDue
<1> QED  BY <1>2, <1>3

----------------------------------------------------------------------------
(* The mutexes are taken in the order of registration.  Nothing in the     *)
(* state tells that order once an entry is disposed of: the invariant says *)
(* that there is one, a rank for every listener ever registered that every *)
(* list of listeners ascends in and that grows with the next registration. *)
Ascends(s, rank) == \A i, j \in DOMAIN s : i < j => rank[s[i]] < rank[s[j]]

Ordered(rank, n) ==
  /\ \A l \in DOMAIN cell : rank[l] < n
  /\ Ascends(post, rank)
  /\ \A c \in Calls :
       /\ Ascends(chain[c], rank)
       /\ \A i \in DOMAIN stack[c], j \in DOMAIN chain[c] : rank[stack[c][i].l] < rank[chain[c][j]]

InOrder == \E rank \in [Listeners -> Nat], n \in Nat : Ordered(rank, n)

ChainsAreKnown == \A c \in Calls : \A i \in DOMAIN chain[c] : chain[c][i] \in DOMAIN cell

(* Who holds a listener's mutex is inside of it and has not come back.     *)
Back == {"fold", "restore"}
HoldersAreInside ==
  \A l \in Listeners : busy[l] # None =>
    \E i \in DOMAIN stack[busy[l]] :
      /\ stack[busy[l]][i].l = l
      /\ at[busy[l]] \in Back => i < Len(stack[busy[l]])

OutsideIsEmpty ==
  \A c \in Calls : at[c] \in {"idle", "refused", "deliver", "handing", "done"} => stack[c] = <<>>

LockInv ==
  /\ FramesAreKnown /\ ChainsAreKnown /\ InOrder /\ HoldersAreInside /\ OutsideIsEmpty

(* Steps on which no call comes to a listener, but calls may leave some.   *)
Leaving ==
  /\ post' = post /\ chain' = chain /\ DOMAIN cell' = DOMAIN cell
  /\ \A c \in Calls : /\ stack'[c] \in Seq(Frame) /\ Len(stack'[c]) <= Len(stack[c])
                      /\ \A i \in 1..Len(stack'[c]) : stack'[c][i].l = stack[c][i].l

LEMMA LeavingKeeps ==
  ASSUME TypeOK, FramesAreKnown, ChainsAreKnown, InOrder, Leaving
  PROVE  (FramesAreKnown /\ ChainsAreKnown /\ InOrder)'
<1>1. \A c \in Calls : /\ stack[c] \in Seq(Frame)
                       /\ DOMAIN stack'[c] = 1..Len(stack'[c]) /\ DOMAIN stack[c] = 1..Len(stack[c])
                       /\ DOMAIN stack'[c] \subseteq DOMAIN stack[c]
  BY DEF TypeOK, Leaving
<1>2. FramesAreKnown'  BY <1>1 DEF FramesAreKnown, Leaving
<1>3. ChainsAreKnown'  BY DEF ChainsAreKnown, Leaving
<1>4. PICK rank \in [Listeners -> Nat], n \in Nat : Ordered(rank, n)  BY DEF InOrder
<1>5. Ordered(rank, n)'  BY <1>1, <1>4 DEF Ordered, Ascends, Leaving
<1> QED  BY <1>2, <1>3, <1>5 DEF InOrder

(* What an answer does to the stack.                                       *)
LEMMA AnsweredStack ==
  ASSUME TypeOK, NEW c \in Calls, NEW frames \in Seq(Frame), NEW cells, NEW real, NEW own,
         {real} \subseteq Outcome, {own} \subseteq Outcome,
         Answer(c, frames, cells, real, own)
  PROVE  /\ stack'[c] \in Seq(Frame) /\ Len(stack'[c]) = Len(frames)
         /\ \A i \in 1..Len(frames) : stack'[c][i].l = frames[i].l
         /\ at'[c] \notin Back /\ (at'[c] # "listen" => stack'[c] = <<>>)
<1>1. CASE frames = <<>>
  <2>1. stack'[c] = <<>> /\ at'[c] \in {"deliver", "refused"}
    BY <1>1 DEF Answer, Settle, Goto, TypeOK
  <2> QED  BY <1>1, <2>1 DEF Back
<1>2. CASE frames # <<>>
  <2> DEFINE top == Last(frames)
             new == [top EXCEPT !.inner = {real}, !.own = {own}]
             s == Append(Front(frames), new)
  <2>1. top \in Frame /\ top = frames[Len(frames)] /\ Len(frames) \in Nat \ {0}  BY <1>2, Ends
  <2>2. new \in Frame /\ new.l = top.l  BY <2>1 DEF Frame
  <2>3. /\ s \in Seq(Frame) /\ Len(s) = Len(frames) /\ s[Len(frames)] = new
        /\ \A i \in 1..(Len(frames) - 1) : s[i] = frames[i]
    BY <1>2, <2>2, Retopped
  <2>4. stack'[c] = s /\ at'[c] = "listen"  BY <1>2 DEF Answer, Goto, TypeOK
  <2> HIDE DEF s, new, top
  <2>5. ASSUME NEW i \in 1..Len(frames)  PROVE s[i].l = frames[i].l
    <3>1. CASE i = Len(frames)  BY <2>1, <2>2, <2>3, <3>1
    <3>2. CASE i # Len(frames)  BY <2>1, <2>3, <3>2
    <3> QED  BY <3>1, <3>2
  <2> QED  BY <2>3, <2>4, <2>5 DEF Back
<1> QED  BY <1>1, <1>2

LEMMA LockInit == Init => LockInv
<1> SUFFICES ASSUME Init PROVE LockInv  OBVIOUS
<1>1. [l \in Listeners |-> 0] \in [Listeners -> Nat] /\ DOMAIN cell = {}  BY DEF Init
<1>2. Ordered([l \in Listeners |-> 0], 0)  BY <1>1 DEF Init, Ordered, Ascends
<1>3. InOrder  BY <1>1, <1>2 DEF InOrder
<1> QED
  BY <1>3 DEF Init, LockInv, FramesAreKnown, ChainsAreKnown, HoldersAreInside, OutsideIsEmpty

(* The rank of a new registration is above all others.                     *)
LEMMA RegisterLock ==
  ASSUME TypeInv, LockInv, NEW l \in Listeners, Register(l)
  PROVE  LockInv'
<1> USE DEF LockInv
<1>1. /\ DOMAIN cell' = DOMAIN cell \cup {l} /\ l \notin DOMAIN cell
      /\ UNCHANGED <<at, busy, chain, stack>>
  BY DEF Register
<1>2. /\ post \in Seq(Listeners) /\ Len(post') = Len(post) + 1 /\ post' \in Seq(Listeners)
      /\ Len(post) \in Nat /\ post'[Len(post) + 1] = l
      /\ \A i \in 1..Len(post) : post'[i] = post[i]
  BY Pushed DEF Register, TypeInv, TypeOK
<1>3. \A i \in 1..Len(post) : post[i] \in DOMAIN cell
  BY <1>2 DEF TypeInv, TypeOK, ToSet
<1>4. PICK rank \in [Listeners -> Nat], n \in Nat : Ordered(rank, n)  BY DEF InOrder
<1> DEFINE higher == [rank EXCEPT ![l] = n]
<1>5. higher \in [Listeners -> Nat] /\ higher[l] = n  OBVIOUS
<1>6. \A m \in DOMAIN cell : higher[m] = rank[m] /\ rank[m] < n /\ m \in Listeners
  BY <1>1, <1>4 DEF Ordered, TypeInv, TypeOK
<1> HIDE DEF higher
<1>7. \A m \in DOMAIN cell' : higher[m] < n + 1  BY <1>1, <1>5, <1>6
<1>8. Ascends(post', higher)
  <2> SUFFICES ASSUME NEW i \in 1..Len(post'), NEW j \in 1..Len(post'), i < j
               PROVE  higher[post'[i]] < higher[post'[j]]
    BY <1>2 DEF Ascends
  <2>1. Len(post) \in Nat /\ Len(post') = Len(post) + 1  BY <1>2 DEF TypeInv, TypeOK
  <2>2. i \in 1..Len(post) /\ (j \in 1..Len(post) \/ j = Len(post) + 1)  BY <2>1
  <2>3. post'[i] = post[i] /\ post[i] \in DOMAIN cell  BY <1>2, <1>3, <2>2
  <2>4. CASE j = Len(post) + 1  BY <1>2, <1>5, <1>6, <2>3, <2>4
  <2>5. CASE j \in 1..Len(post)
    <3>1. post'[j] = post[j] /\ post[j] \in DOMAIN cell  BY <1>2, <1>3, <2>5
    <3>2. Ascends(post, rank) /\ DOMAIN post = 1..Len(post)  BY <1>2, <1>4 DEF Ordered
    <3>3. rank[post[i]] < rank[post[j]]  BY <2>2, <2>5, <3>2 DEF Ascends
    <3> QED  BY <1>6, <2>3, <3>1, <3>3
  <2> QED  BY <2>2, <2>4, <2>5
<1>9. ASSUME NEW c \in Calls
      PROVE  /\ Ascends(chain'[c], higher)
             /\ \A i \in DOMAIN stack'[c], j \in DOMAIN chain'[c] :
                  higher[stack'[c][i].l] < higher[chain'[c][j]]
  BY <1>1, <1>4, <1>6 DEF Ordered, Ascends, FramesAreKnown, ChainsAreKnown
<1>10. Ordered(higher, n + 1)'  BY <1>7, <1>8, <1>9 DEF Ordered
<1>11. InOrder'  BY <1>5, <1>10 DEF InOrder
<1> QED
  BY <1>1, <1>11 DEF FramesAreKnown, ChainsAreKnown, HoldersAreInside, OutsideIsEmpty

LEMMA DisposeLock ==
  ASSUME TypeInv, LockInv, NEW l \in Listeners, Dispose(l)
  PROVE  LockInv'
<1> USE DEF LockInv
<1>1. UNCHANGED <<at, busy, chain, stack, cell>>  BY DEF Dispose
<1>2. PICK m \in DOMAIN post : post' = RemoveAt(post, m)  BY DEF Dispose
<1>3. /\ post \in Seq(Listeners) /\ post' \in Seq(Listeners) /\ Len(post') = Len(post) - 1
      /\ \A i \in 1..(Len(post) - 1) : post'[i] = IF i < m THEN post[i] ELSE post[i + 1]
  BY <1>2, Removed DEF TypeInv, TypeOK
<1>4. PICK rank \in [Listeners -> Nat], n \in Nat : Ordered(rank, n)  BY DEF InOrder
<1>5. Ascends(post', rank)
  <2> SUFFICES ASSUME NEW i \in 1..Len(post'), NEW j \in 1..Len(post'), i < j
               PROVE  rank[post'[i]] < rank[post'[j]]
    <3>1. DOMAIN post' = 1..Len(post')  BY <1>3
    <3> QED  BY <3>1 DEF Ascends
  <2>1. Ascends(post, rank)  BY <1>4 DEF Ordered
  <2>2. DOMAIN post = 1..Len(post) /\ Len(post) \in Nat /\ m \in 1..Len(post)  BY <1>3, SMTT(30)
  <2> DEFINE at0(k) == IF k < m THEN k ELSE k + 1
  <2>3. /\ i \in 1..(Len(post) - 1) /\ j \in 1..(Len(post) - 1)
        /\ m \in Nat /\ i \in Nat /\ j \in Nat
    BY <1>3, <2>2
  <2>4. post'[i] = post[at0(i)] /\ post'[j] = post[at0(j)]
    <3>1. post'[i] = IF i < m THEN post[i] ELSE post[i + 1]  BY <1>3, <2>3
    <3>2. post'[j] = IF j < m THEN post[j] ELSE post[j + 1]  BY <1>3, <2>3
    <3> QED  BY <3>1, <3>2
  <2>5. at0(i) \in 1..Len(post) /\ at0(j) \in 1..Len(post) /\ at0(i) < at0(j)
    BY <2>2, <2>3
  <2> HIDE DEF at0
  <2> QED  BY <2>1, <2>2, <2>3, <2>4, <2>5 DEF Ascends
<1>6. Ordered(rank, n)'  BY <1>1, <1>4, <1>5 DEF Ordered
<1> QED
  BY <1>1, <1>6 DEF InOrder, FramesAreKnown, ChainsAreKnown, HoldersAreInside, OutsideIsEmpty

(* A chain starts as the list of registrations.                            *)
LEMMA StartLock ==
  ASSUME TypeInv, LockInv, NEW c \in Calls, Refuse(c) \/ Execute(c)
  PROVE  LockInv'
<1> USE DEF LockInv, TypeInv, Goto, chainVars
<1>1. CASE Refuse(c)
  <2>1. Leaving  BY <1>1 DEF Refuse, Leaving, TypeOK
  <2>2. (FramesAreKnown /\ ChainsAreKnown /\ InOrder)'  BY <2>1, LeavingKeeps
  <2>3. HoldersAreInside'  BY <1>1 DEF Refuse, HoldersAreInside, Back, TypeOK
  <2>4. OutsideIsEmpty'  BY <1>1 DEF Refuse, MayStart, OutsideIsEmpty, TypeOK
  <2> QED  BY <2>2, <2>3, <2>4
<1>2. CASE Execute(c)
  <2>1. /\ at[c] = "idle" /\ stack[c] = <<>> /\ chain' = [chain EXCEPT ![c] = post]
        /\ at' = [at EXCEPT ![c] = "chain"]
        /\ UNCHANGED <<post, cell, busy, stack>>
    BY <1>2 DEF Execute, MayStart, OutsideIsEmpty
  <2>2. \A i \in DOMAIN post : post[i] \in DOMAIN cell  BY DEF TypeOK, ToSet
  <2>3. ChainsAreKnown' /\ FramesAreKnown'
    BY <2>1, <2>2 DEF ChainsAreKnown, FramesAreKnown, TypeOK
  <2>4. PICK rank \in [Listeners -> Nat], n \in Nat : Ordered(rank, n)  BY DEF InOrder
  <2>5. ASSUME NEW d \in Calls
        PROVE  /\ Ascends(chain'[d], rank)
               /\ \A i \in DOMAIN stack[d], j \in DOMAIN chain'[d] :
                    rank[stack[d][i].l] < rank[chain'[d][j]]
    <3>1. CASE d = c
      <4>1. chain'[d] = post /\ stack[d] = <<>>  BY <2>1, <3>1 DEF TypeOK
      <4> QED  BY <2>4, <4>1 DEF Ordered
    <3>2. CASE d # c
      <4>1. chain'[d] = chain[d]  BY <2>1, <3>2 DEF TypeOK
      <4> QED  BY <2>4, <4>1 DEF Ordered
    <3> QED  BY <3>1, <3>2
  <2>6. Ordered(rank, n)'  BY <2>1, <2>4, <2>5 DEF Ordered
  <2>7. InOrder'  BY <2>6 DEF InOrder
  <2>8. HoldersAreInside'  BY <2>1 DEF HoldersAreInside, Back, TypeOK
  <2>9. OutsideIsEmpty'  BY <2>1 DEF OutsideIsEmpty, TypeOK
  <2> QED  BY <2>3, <2>7, <2>8, <2>9
<1> QED  BY <1>1, <1>2

(* The head of the chain moves onto the stack: it is below what is left.   *)
LEMMA EnterLock ==
  ASSUME TypeInv, LockInv, NEW c \in Calls, Enter(c)
  PROVE  LockInv'
<1> DEFINE h == Head(chain[c])
           f == [l |-> h, handed |-> payload[c], nexts |-> 0, sent |-> payload[c],
                 inner |-> {}, own |-> {}]
           s == Append(stack[c], f)
           k == Len(stack[c])
<1> USE DEF LockInv, TypeInv, Goto
<1>1. /\ chain[c] \in Seq(Listeners) /\ chain[c] # <<>> /\ stack[c] \in Seq(Frame)
      /\ payload[c] \in Value
  BY DEF Enter, TypeOK
<1>2. /\ Len(chain[c]) \in Nat \ {0} /\ DOMAIN chain[c] = 1..Len(chain[c])
      /\ h \in Listeners /\ h = chain[c][1]
      /\ Tail(chain[c]) \in Seq(Listeners) /\ Len(Tail(chain[c])) = Len(chain[c]) - 1
      /\ \A i \in 1..(Len(chain[c]) - 1) : Tail(chain[c])[i] = chain[c][i + 1]
  BY <1>1, Ends
<1>3. DOMAIN Tail(chain[c]) = 1..(Len(chain[c]) - 1)  BY <1>2
<1>4. /\ busy' = [busy EXCEPT ![h] = c] /\ chain' = [chain EXCEPT ![c] = Tail(chain[c])]
      /\ stack' = [stack EXCEPT ![c] = s] /\ at' = [at EXCEPT ![c] = "listen"]
      /\ busy[h] = None /\ post' = post /\ cell' = cell
  BY DEF Enter, TypeOK
<1> HIDE DEF h
<1>5. f \in Frame /\ f.l = h  BY <1>1, <1>2 DEF Frame
<1> HIDE DEF f
<1>6. /\ s \in Seq(Frame) /\ Len(s) = k + 1 /\ k \in Nat /\ s[k + 1] = f
      /\ \A i \in 1..k : s[i] = stack[c][i]
  BY <1>1, <1>5, Pushed
<1>7. DOMAIN s = 1..(k + 1) /\ DOMAIN stack[c] = 1..k  BY <1>1, <1>6
<1> HIDE DEF s, k
<1>8. stack'[c] = s /\ chain'[c] = Tail(chain[c]) /\ busy'[h] = c /\ at'[c] = "listen"
  BY <1>2, <1>4 DEF TypeOK
<1>9. \A d \in Calls \ {c} : stack'[d] = stack[d] /\ chain'[d] = chain[d] /\ at'[d] = at[d]
  BY <1>4 DEF TypeOK
<1>10. h \in DOMAIN cell  BY <1>2 DEF ChainsAreKnown
<1>11. FramesAreKnown'
  <2> SUFFICES ASSUME NEW d \in Calls, NEW i \in DOMAIN stack'[d]
               PROVE  stack'[d][i].l \in DOMAIN cell
    BY <1>4 DEF FramesAreKnown
  <2>1. CASE d # c  BY <1>9, <2>1 DEF FramesAreKnown
  <2>2. CASE d = c /\ i = k + 1  BY <1>5, <1>6, <1>8, <1>10, <2>2
  <2>3. CASE d = c /\ i \in 1..k  BY <1>6, <1>7, <1>8, <2>3 DEF FramesAreKnown
  <2> QED  BY <1>6, <1>7, <1>8, <2>1, <2>2, <2>3
<1>12. ChainsAreKnown'
  <2> SUFFICES ASSUME NEW d \in Calls, NEW i \in DOMAIN chain'[d]
               PROVE  chain'[d][i] \in DOMAIN cell
    BY <1>4 DEF ChainsAreKnown
  <2>1. CASE d # c  BY <1>9, <2>1 DEF ChainsAreKnown
  <2>2. CASE d = c
    <3>1. i \in 1..(Len(chain[c]) - 1) /\ chain'[d][i] = chain[c][i + 1]
      BY <1>2, <1>3, <1>8, <2>2
    <3>2. i + 1 \in DOMAIN chain[c]  BY <1>2, <3>1
    <3> QED  BY <3>1, <3>2 DEF ChainsAreKnown
  <2> QED  BY <2>1, <2>2
<1>13. PICK rank \in [Listeners -> Nat], n \in Nat : Ordered(rank, n)  BY DEF InOrder
<1>14. ASSUME NEW d \in Calls
       PROVE  /\ Ascends(chain'[d], rank)
              /\ \A i \in DOMAIN stack'[d], j \in DOMAIN chain'[d] :
                   rank[stack'[d][i].l] < rank[chain'[d][j]]
  <2>1. CASE d # c  BY <1>9, <1>13, <2>1 DEF Ordered
  <2>2. CASE d = c
    <3>1. /\ Ascends(chain[c], rank)
          /\ \A i \in DOMAIN stack[c], j \in DOMAIN chain[c] :
               rank[stack[c][i].l] < rank[chain[c][j]]
      BY <1>13 DEF Ordered
    <3>2. \A j \in 1..(Len(chain[c]) - 1) :
            /\ j \in Nat /\ j + 1 \in DOMAIN chain[c] /\ Tail(chain[c])[j] = chain[c][j + 1]
      BY <1>2
    <3>3. Ascends(Tail(chain[c]), rank)
      BY <1>3, <3>1, <3>2 DEF Ascends
    <3>4. ASSUME NEW i \in 1..(k + 1), NEW j \in 1..(Len(chain[c]) - 1)
          PROVE  rank[s[i].l] < rank[chain[c][j + 1]]
      <4>1. CASE i = k + 1
        <5>1. 1 \in DOMAIN chain[c] /\ j + 1 \in DOMAIN chain[c] /\ 1 < j + 1  BY <1>2
        <5>2. rank[chain[c][1]] < rank[chain[c][j + 1]]  BY <3>1, <5>1 DEF Ascends
        <5> QED  BY <1>2, <1>5, <1>6, <4>1, <5>2
      <4>2. CASE i \in 1..k  BY <1>6, <1>7, <3>1, <3>2, <4>2
      <4> QED  BY <1>6, <4>1, <4>2
    <3>5. \A i \in DOMAIN s, j \in DOMAIN Tail(chain[c]) :
            rank[s[i].l] < rank[Tail(chain[c])[j]]
      BY <1>3, <1>7, <3>2, <3>4
    <3> QED  BY <1>8, <2>2, <3>3, <3>5
  <2> QED  BY <2>1, <2>2
<1>15. InOrder'
  <2>1. Ordered(rank, n)'  BY <1>4, <1>13, <1>14 DEF Ordered
  <2> QED  BY <2>1 DEF InOrder
<1>16. HoldersAreInside'
  <2> SUFFICES ASSUME NEW l \in Listeners, busy'[l] # None
               PROVE  \E i \in DOMAIN stack'[busy'[l]] :
                        /\ stack'[busy'[l]][i].l = l
                        /\ at'[busy'[l]] \in Back => i < Len(stack'[busy'[l]])
    BY DEF HoldersAreInside
  <2>1. CASE l = h
    <3>1. k + 1 \in DOMAIN s  BY <1>6, <1>7
    <3> QED  BY <1>5, <1>6, <1>8, <2>1, <3>1 DEF Back
  <2>2. CASE l # h
    <3>1. busy'[l] = busy[l] /\ busy[l] \in Calls  BY <1>4, <2>2 DEF TypeOK
    <3>2. PICK i \in DOMAIN stack[busy[l]] :
            /\ stack[busy[l]][i].l = l
            /\ at[busy[l]] \in Back => i < Len(stack[busy[l]])
      BY <3>1 DEF HoldersAreInside
    <3>3. CASE busy[l] # c  BY <1>9, <3>1, <3>2, <3>3
    <3>4. CASE busy[l] = c
      <4>1. i \in DOMAIN s /\ s[i].l = l  BY <1>6, <1>7, <3>2, <3>4
      <4> QED  BY <1>8, <3>1, <3>4, <4>1 DEF Back
    <3> QED  BY <3>3, <3>4
  <2> QED  BY <2>1, <2>2
<1>17. OutsideIsEmpty'  BY <1>4, <1>8, <1>9 DEF OutsideIsEmpty
<1> QED  BY <1>11, <1>12, <1>15, <1>16, <1>17

(* Steps of one call that take no mutex and let none go, and on which its  *)
(* stack keeps its listeners, or loses the one that is back.               *)
LEMMA CallLock ==
  ASSUME TypeInv, LockInv, NEW c \in Calls, NEW s \in Seq(Frame),
         post' = post, chain' = chain, DOMAIN cell' = DOMAIN cell, busy' = busy,
         stack'[c] = s, Len(s) <= Len(stack[c]),
         \A i \in 1..Len(s) : s[i].l = stack[c][i].l,
         at'[c] \notin Back \/ (at[c] \in Back /\ Len(s) = Len(stack[c])),
         Len(s) = Len(stack[c]) \/ (at[c] \in Back /\ Len(s) = Len(stack[c]) - 1),
         at'[c] \in {"idle", "refused", "deliver", "handing", "done"} => s = <<>>,
         \A d \in Calls \ {c} : stack'[d] = stack[d] /\ at'[d] = at[d]
  PROVE  LockInv'
<1> USE DEF LockInv, TypeInv
<1>1. \A d \in Calls : stack[d] \in Seq(Frame) /\ DOMAIN stack[d] = 1..Len(stack[d])
                       /\ Len(stack[d]) \in Nat
  BY DEF TypeOK
<1>2. Leaving  BY <1>1 DEF Leaving
<1>3. (FramesAreKnown /\ ChainsAreKnown /\ InOrder)'  BY <1>2, LeavingKeeps
<1>4. OutsideIsEmpty'  BY DEF OutsideIsEmpty
<1>5. HoldersAreInside'
  <2> SUFFICES ASSUME NEW l \in Listeners, busy[l] # None
               PROVE  \E i \in DOMAIN stack'[busy[l]] :
                        /\ stack'[busy[l]][i].l = l
                        /\ at'[busy[l]] \in Back => i < Len(stack'[busy[l]])
    BY DEF HoldersAreInside
  <2>1. busy[l] \in Calls  BY DEF TypeOK
  <2>2. PICK i \in DOMAIN stack[busy[l]] :
          /\ stack[busy[l]][i].l = l
          /\ at[busy[l]] \in Back => i < Len(stack[busy[l]])
    BY DEF HoldersAreInside
  <2>3. CASE busy[l] # c  BY <2>1, <2>2, <2>3
  <2>4. CASE busy[l] = c
    <3>1. i \in 1..Len(stack[c]) /\ Len(stack[c]) \in Nat /\ Len(s) \in Nat
      BY <1>1, <2>2, <2>4
    <3>2. i \in 1..Len(s)  BY <2>2, <2>4, <3>1
    <3>3. at'[c] \in Back => i < Len(s)  BY <2>2, <2>4, <3>1
    <3>4. i \in DOMAIN s /\ s[i].l = l  BY <2>2, <2>4, <3>1, <3>2
    <3> QED  BY <2>4, <3>3, <3>4
  <2> QED  BY <2>3, <2>4
<1> QED  BY <1>3, <1>4, <1>5

LEMMA AnsweringLock ==
  ASSUME TypeInv, LockInv, NEW c \in Calls, BuiltIn(c) \/ Restore(c)
  PROVE  LockInv'
<1> USE DEF LockInv, TypeInv
<1>1. answer[c].real \in Outcome /\ answer[c].own \in Outcome /\ stack[c] \in Seq(Frame)
      /\ Accepted(payload[c]) \in Outcome
  BY OutcomesTyped DEF TypeOK
<1>2. CASE BuiltIn(c)
  <2>1. /\ Answer(c, stack[c], cell, Accepted(payload[c]), Accepted(payload[c]))
        /\ cell \in [DOMAIN cell -> SUBSET Outcome] /\ at[c] = "chain"
        /\ UNCHANGED <<post, busy, chain>>
    BY <1>2 DEF BuiltIn, TypeOK
  <2>2. /\ DOMAIN cell' = DOMAIN cell
        /\ \A d \in Calls \ {c} : at'[d] = at[d] /\ stack'[d] = stack[d]
        /\ at'[c] \in {"listen", "deliver", "refused"}
    BY <1>1, <2>1, Answered
  <2>3. /\ stack'[c] \in Seq(Frame) /\ Len(stack'[c]) = Len(stack[c])
        /\ \A i \in 1..Len(stack[c]) : stack'[c][i].l = stack[c][i].l
        /\ at'[c] \notin Back /\ (at'[c] # "listen" => stack'[c] = <<>>)
    BY <1>1, <2>1, AnsweredStack
  <2>4. Len(stack[c]) \in Nat  BY <1>1
  <2> QED  BY <2>1, <2>2, <2>3, <2>4, CallLock
<1>3. CASE Restore(c)
  <2> DEFINE cells == [cell EXCEPT ![Last(stack[c]).l] = {answer[c].real}]
             frames == Front(stack[c])
  <2>1. /\ frames \in Seq(Frame) /\ Len(frames) = Len(stack[c]) - 1
        /\ \A i \in 1..(Len(stack[c]) - 1) : frames[i] = stack[c][i]
        /\ Len(stack[c]) \in Nat \ {0}
    BY <1>1, <1>3, Ends DEF Restore, InsideHasFrame
  <2>2. /\ Answer(c, frames, cells, answer[c].real, answer[c].own) /\ at[c] = "restore"
        /\ cells \in [DOMAIN cell -> SUBSET Outcome]
        /\ UNCHANGED <<post, busy, chain>>
    BY <1>1, <1>3 DEF Restore, TypeOK
  <2> HIDE DEF cells, frames
  <2>3. /\ DOMAIN cell' = DOMAIN cell
        /\ \A d \in Calls \ {c} : at'[d] = at[d] /\ stack'[d] = stack[d]
        /\ at'[c] \in {"listen", "deliver", "refused"}
    BY <1>1, <2>1, <2>2, Answered
  <2>4. /\ stack'[c] \in Seq(Frame) /\ Len(stack'[c]) = Len(frames)
        /\ \A i \in 1..Len(frames) : stack'[c][i].l = frames[i].l
        /\ at'[c] \notin Back /\ (at'[c] # "listen" => stack'[c] = <<>>)
    BY <1>1, <2>1, <2>2, AnsweredStack
  <2>5. /\ Len(stack'[c]) = Len(stack[c]) - 1
        /\ Len(stack'[c]) <= Len(stack[c])
        /\ \A i \in 1..Len(stack'[c]) : stack'[c][i].l = stack[c][i].l
        /\ at[c] \in Back
    BY <2>1, <2>2, <2>4 DEF Back
  <2> QED  BY <2>2, <2>3, <2>4, <2>5, CallLock
<1> QED  BY <1>2, <1>3

LEMMA CallNextLock ==
  ASSUME TypeInv, LockInv, NEW c \in Calls, CallNext(c)
  PROVE  LockInv'
<1> DEFINE top == Last(stack[c])
<1> USE DEF LockInv, TypeInv, Goto
<1>1. stack[c] \in Seq(Frame) /\ stack[c] # <<>>  BY DEF CallNext, TypeOK, InsideHasFrame
<1>2. top \in Frame /\ Len(stack[c]) \in Nat \ {0} /\ top = stack[c][Len(stack[c])]
  BY <1>1, Ends
<1>3. PICK v : stack' = [stack EXCEPT ![c] =
             Append(Front(stack[c]), [top EXCEPT !.nexts = top.nexts + 1, !.sent = v])]
  BY DEF CallNext, TypeOK
<1>4. /\ at' = [at EXCEPT ![c] = "chain"] /\ at[c] = "listen"
      /\ UNCHANGED <<post, cell, busy, chain>>
  BY DEF CallNext
<1> DEFINE new == [top EXCEPT !.nexts = top.nexts + 1, !.sent = v]
           s == Append(Front(stack[c]), new)
<1> HIDE DEF top
<1>5. new.l = top.l  BY <1>2 DEF Frame
<1>6. stack'[c] = s /\ at'[c] = "chain"  BY <1>3, <1>4 DEF TypeOK
<1>7. s \in Seq(Frame)
  <2>1. TypeInv'  BY CallNextTyped
  <2>2. stack' \in [Calls -> Seq(Frame)]  BY <2>1 DEF TypeOK
  <2> QED  BY <1>6, <2>2
<1>8. /\ Len(Front(stack[c])) = Len(stack[c]) - 1 /\ Front(stack[c]) \in Seq(Frame)
      /\ \A i \in 1..(Len(stack[c]) - 1) : Front(stack[c])[i] = stack[c][i]
  BY <1>1, Ends
<1> HIDE DEF new
<1>9. /\ Len(s) = Len(stack[c]) /\ s[Len(stack[c])] = new
      /\ \A i \in 1..(Len(stack[c]) - 1) : s[i] = stack[c][i]
  <2> DEFINE fr == Front(stack[c])
  <2>1. fr \in Seq(Frame) /\ s = Append(fr, new)  BY <1>8
  <2> HIDE DEF fr, s
  <2>2. /\ Len(s) = Len(fr) + 1 /\ s[Len(fr) + 1] = new
        /\ \A i \in 1..Len(fr) : s[i] = fr[i]
    BY <2>1
  <2> QED  BY <1>2, <1>8, <2>2 DEF fr
<1> HIDE DEF s
<1>10. ASSUME NEW i \in 1..Len(s)  PROVE s[i].l = stack[c][i].l
  <2>1. CASE i = Len(stack[c])  BY <1>2, <1>5, <1>9, <2>1
  <2>2. CASE i # Len(stack[c])  BY <1>2, <1>9, <2>2
  <2> QED  BY <2>1, <2>2
<1>11. \A d \in Calls \ {c} : stack'[d] = stack[d] /\ at'[d] = at[d]  BY <1>3, <1>4 DEF TypeOK
<1>12. at'[c] \notin Back /\ at'[c] \notin {"idle", "refused", "deliver", "handing", "done"}
  BY <1>6 DEF Back
<1>13. Len(s) <= Len(stack[c])  BY <1>2, <1>9
<1> QED  BY <1>4, <1>6, <1>7, <1>9, <1>10, <1>11, <1>12, <1>13, CallLock

(* The mutex that is let go is that of the listener on top.                *)
LEMMA DecideLock ==
  ASSUME TypeInv, LockInv, NEW c \in Calls, Decide(c)
  PROVE  LockInv'
<1> DEFINE top == Last(stack[c])
<1> USE DEF LockInv, TypeInv, Goto
<1>1. stack[c] \in Seq(Frame) /\ stack[c] # <<>>  BY DEF Decide, TypeOK, InsideHasFrame
<1>2. top \in Frame /\ Len(stack[c]) \in Nat \ {0} /\ top = stack[c][Len(stack[c])]
      /\ DOMAIN stack[c] = 1..Len(stack[c])
  BY <1>1, Ends
<1>3. /\ busy' = [busy EXCEPT ![top.l] = None] /\ at' = [at EXCEPT ![c] = "fold"]
      /\ UNCHANGED <<post, cell, chain, stack>>
  BY DEF Decide
<1> HIDE DEF top
<1>4. Leaving  BY <1>3 DEF Leaving, TypeOK
<1>5. (FramesAreKnown /\ ChainsAreKnown /\ InOrder)'  BY <1>4, LeavingKeeps
<1>6. OutsideIsEmpty'  BY <1>3 DEF OutsideIsEmpty, TypeOK
<1>7. HoldersAreInside'
  <2> SUFFICES ASSUME NEW l \in Listeners, busy'[l] # None
               PROVE  \E i \in DOMAIN stack[busy'[l]] :
                        /\ stack[busy'[l]][i].l = l
                        /\ at'[busy'[l]] \in Back => i < Len(stack[busy'[l]])
    BY <1>3 DEF HoldersAreInside
  <2>1. l # top.l /\ busy'[l] = busy[l] /\ busy[l] \in Calls  BY <1>3 DEF TypeOK
  <2>2. PICK i \in DOMAIN stack[busy[l]] :
          /\ stack[busy[l]][i].l = l
          /\ at[busy[l]] \in Back => i < Len(stack[busy[l]])
    BY <2>1 DEF HoldersAreInside
  <2>3. CASE busy[l] # c  BY <1>3, <2>1, <2>2, <2>3 DEF TypeOK
  <2>4. CASE busy[l] = c
    <3>1. i \in 1..Len(stack[c]) /\ i # Len(stack[c])  BY <1>2, <2>1, <2>2, <2>4
    <3>2. i < Len(stack[c])  BY <1>2, <3>1
    <3> QED  BY <2>1, <2>2, <2>4, <3>2
  <2> QED  BY <2>3, <2>4
<1> QED  BY <1>5, <1>6, <1>7

LEMMA FoldCellLock ==
  ASSUME TypeInv, LockInv, NEW c \in Calls, FoldCell(c)
  PROVE  LockInv'
<1> USE DEF LockInv, TypeInv, Goto
<1>1. /\ at' = [at EXCEPT ![c] = "restore"] /\ at[c] = "fold"
      /\ DOMAIN cell' = DOMAIN cell
      /\ UNCHANGED <<post, busy, chain, stack>>
  BY DEF FoldCell
<1>2. stack[c] \in Seq(Frame) /\ Len(stack[c]) <= Len(stack[c])  BY DEF TypeOK
<1>3. at[c] \in Back /\ at'[c] = "restore" /\ \A d \in Calls \ {c} : at'[d] = at[d]
  BY <1>1 DEF Back, TypeOK
<1> QED  BY <1>1, <1>2, <1>3, CallLock

LEMMA AfterwardsLock ==
  ASSUME TypeInv, LockInv, NEW c \in Calls, Deliver(c) \/ HandOn(c) \/ Notify(c)
  PROVE  LockInv'
<1> USE DEF LockInv, TypeInv
<1>1. /\ at[c] \in {"deliver", "handing"} /\ at'[c] \in {"deliver", "handing", "done"}
      /\ \A d \in Calls \ {c} : at'[d] = at[d]
      /\ UNCHANGED <<post, cell, busy, chain, stack>>
  BY DEF Deliver, HandOn, Notify, Goto, chainVars, TypeOK
<1>2. stack[c] = <<>> /\ stack[c] \in Seq(Frame) /\ Len(stack[c]) <= Len(stack[c])
  BY <1>1 DEF OutsideIsEmpty, TypeOK
<1> QED  BY <1>1, <1>2, CallLock DEF Back

----------------------------------------------------------------------------
LEMMA SafeStep == TypeInv /\ LockInv /\ [Next]_vars => (TypeInv /\ LockInv)'
<1> SUFFICES ASSUME TypeInv, LockInv, [Next]_vars PROVE (TypeInv /\ LockInv)'  OBVIOUS
<1>1. ASSUME NEW l \in Listeners, Register(l) \/ Dispose(l)  PROVE (TypeInv /\ LockInv)'
  BY <1>1, RegisterTyped, RegisterLock, DisposeTyped, DisposeLock
<1>2. ASSUME NEW c \in Calls, Refuse(c) \/ Execute(c)  PROVE (TypeInv /\ LockInv)'
  BY <1>2, StartTyped, StartLock
<1>3. ASSUME NEW c \in Calls, Continue(c)  PROVE (TypeInv /\ LockInv)'
  <2>1. CASE Enter(c)  BY <2>1, EnterTyped, EnterLock
  <2>2. CASE BuiltIn(c)  BY <2>2, BuiltInTyped, AnsweringLock
  <2>3. CASE CallNext(c)  BY <2>3, CallNextTyped, CallNextLock
  <2>4. CASE Decide(c)  BY <2>4, DecideTyped, DecideLock
  <2>5. CASE FoldCell(c)  BY <2>5, FoldCellTyped, FoldCellLock DEF LockInv
  <2>6. CASE Restore(c)  BY <2>6, RestoreTyped, AnsweringLock
  <2>7. CASE Deliver(c)  BY <2>7, DeliverTyped, AfterwardsLock
  <2>8. CASE HandOn(c)  BY <2>8, HandOnTyped, AfterwardsLock
  <2>9. CASE Notify(c)  BY <2>9, NotifyTyped, AfterwardsLock
  <2> QED  BY <1>3, <2>1, <2>2, <2>3, <2>4, <2>5, <2>6, <2>7, <2>8, <2>9 DEF Continue
<1>4. CASE InstallSink \/ Flush
  <2>1. UNCHANGED <<post, cell, busy, chain, stack, at>>
    BY <1>4 DEF InstallSink, Flush, chainVars
  <2>2. LockInv'
    BY <2>1 DEF LockInv, FramesAreKnown, ChainsAreKnown, InOrder, Ordered, Ascends,
                HoldersAreInside, OutsideIsEmpty
  <2> QED  BY <1>4, <2>2, SinkTyped
<1>5. CASE UNCHANGED vars
  <2>1. UNCHANGED <<env, at, answer, due, frozen, post, cell, busy, payload, chain, stack,
                    decision, blocked, sink, pending, flushing, sunk>>
    BY <1>5 DEF vars, chainVars, sinkVars
  <2>2. TypeInv'
    BY <2>1 DEF TypeInv, TypeOK, DecisionsCarry, InsideHasFrame, HandingHasDue
  <2>3. LockInv'
    BY <2>1 DEF LockInv, FramesAreKnown, ChainsAreKnown, InOrder, Ordered, Ascends,
                HoldersAreInside, OutsideIsEmpty
  <2> QED  BY <2>2, <2>3
<1> QED  BY <1>1, <1>2, <1>3, <1>4, <1>5 DEF Next

(* Every reachable state of ToolPipeline is well typed.                    *)
THEOREM ToolTypeOK == Spec => []TypeOK
<1>1. Init => TypeInv /\ LockInv  BY InitTyped, LockInit
<1>2. TypeInv => TypeOK  BY DEF TypeInv
<1> QED  BY <1>1, <1>2, SafeStep, PTL DEF Spec

(* Of the calls that run, the one that is to take the listener of highest  *)
(* rank does not wait: who holds that listener would be to take a higher.  *)
LEMMA SomeoneGoesOn == TypeInv /\ LockInv => NoDeadlyEmbrace
<1> SUFFICES ASSUME TypeInv, LockInv, NEW c0 \in Calls, Running(c0),
                    \A c \in Calls : Running(c) => Waiting(c)
             PROVE  FALSE
  BY DEF NoDeadlyEmbrace
<1> USE DEF TypeInv, LockInv
<1>1. PICK rank \in [Listeners -> Nat], n \in Nat : Ordered(rank, n)  BY DEF InOrder
<1> DEFINE To(c) == Head(chain[c])
           Left == {n - rank[To(c)] : c \in {d \in Calls : Running(d)}}
<1>2. ASSUME NEW c \in Calls, Running(c)
      PROVE  /\ To(c) \in Listeners /\ busy[To(c)] # None
             /\ 1 \in DOMAIN chain[c] /\ To(c) = chain[c][1]
             /\ rank[To(c)] \in Nat /\ n - rank[To(c)] \in Nat
  <2>1. chain[c] \in Seq(Listeners) /\ chain[c] # <<>> /\ busy[To(c)] # None
    BY <1>2 DEF Waiting, TypeOK
  <2>2. To(c) \in Listeners /\ 1 \in DOMAIN chain[c] /\ To(c) = chain[c][1]
    BY <2>1, Ends
  <2>3. rank[To(c)] < n  BY <1>1, <2>2 DEF Ordered, ChainsAreKnown
  <2> QED  BY <2>1, <2>2, <2>3
<1>3. PICK x \in Left : \A y \in Left : ~(y < x)
  <2>1. Left \subseteq Nat /\ Left # {}  BY <1>2
  <2> HIDE DEF Left
  <2>2. \E x \in Left : \A y \in Left : <<y, x>> \notin OpToRel(<, Nat)
    BY <2>1, NatLessThanWellFounded, WFMin
  <2> QED  BY <2>1, <2>2 DEF OpToRel
<1>4. PICK c \in Calls : Running(c) /\ x = n - rank[To(c)]  OBVIOUS
<1> DEFINE d == busy[To(c)]
<1>5. d \in Calls  BY <1>2, <1>4 DEF TypeOK
<1>6. PICK i \in DOMAIN stack[d] : stack[d][i].l = To(c)
  BY <1>2, <1>4 DEF HoldersAreInside
<1>7. Running(d)  BY <1>5, <1>6 DEF Running, OutsideIsEmpty
<1>8. rank[To(c)] < rank[To(d)]  BY <1>1, <1>2, <1>5, <1>6, <1>7, SMTT(30) DEF Ordered
<1>9. n - rank[To(d)] \in Left /\ n - rank[To(d)] < x
  BY <1>2, <1>4, <1>5, <1>7, <1>8
<1> QED  BY <1>3, <1>9

(* NoDeadlyEmbrace of ToolPipeline: however many calls run at once, and    *)
(* whatever is registered and disposed of meanwhile, not all of them wait  *)
(* for a listener's mutex.                                                 *)
THEOREM ToolNoDeadlyEmbrace == Spec => []NoDeadlyEmbrace
<1>1. Init => TypeInv /\ LockInv  BY InitTyped, LockInit
<1> QED  BY <1>1, SafeStep, SomeoneGoesOn, PTL DEF Spec

(* NothingStranded of ToolPipeline: once a sink is installed the registry  *)
(* keeps no context back.                                                  *)
THEOREM ToolNothingStranded == Spec => []NothingStranded
<1>1. Init => NothingStranded  BY SMTT(30) DEF Init, NothingStranded
<1>2. NothingStranded /\ [Next]_vars => NothingStranded'
  BY ZenonT(30) DEF NothingStranded, Next, Register, Dispose, Refuse, Execute, Continue, Enter,
         BuiltIn, CallNext, Decide, FoldCell, Restore, Deliver, HandOn, Notify,
         InstallSink, Flush, vars, sinkVars
<1> QED  BY <1>1, <1>2, PTL DEF Spec

----------------------------------------------------------------------------
(***************************************************************************)
(* AnswerStands of ToolPipeline, for every set of calls and of listeners   *)
(* that call next once, with one call at a time: what a call answers is    *)
(* its own, and one Block is final.  (A listener that vetoes finds what an *)
(* earlier call left in its cell; one that calls next twice gets the       *)
(* built-in accept the second time.)                                       *)
(*                                                                         *)
(* The invariant follows the one call that runs through its chain: what is *)
(* in the cell of the listener on top is what that activation's next       *)
(* answered, all the context on its way is the call's, and a Block stays   *)
(* in the outcome from the listener that said so to the end.               *)
(***************************************************************************)
OfCall(c, s) == \A i \in DOMAIN s : s[i][1] = c

(* The listener on top of c's stack has called next and was answered.      *)
Called(c) == Last(stack[c]).nexts > 0

(* Where a blocked call can be, and what keeps it denied there.            *)
StaysDenied(c) ==
  \/ at[c] = "refused"
  \/ at[c] = "restore" /\ answer[c].own.denied # None
  \/ /\ at[c] \in {"listen", "fold"} /\ Called(c)
     /\ \A o \in Last(stack[c]).own : o.denied # None
  \/ at[c] = "fold" /\ decision[c].kind = "block"

FrameIsOwn(c, f) == \A o \in f.inner : OfCall(c, o.context)

Own(c) ==
  /\ answer[c].real = answer[c].own
  /\ OfCall(c, due[c]) /\ OfCall(c, decision[c].context) /\ OfCall(c, answer[c].own.context)
  /\ \A i \in DOMAIN stack[c] :
       /\ i < Len(stack[c]) \/ at[c] = "chain" => stack[c][i].nexts > 0
       /\ FrameIsOwn(c, stack[c][i])
  /\ at[c] \in {"listen", "fold"} /\ Called(c) =>
       \E o \in Outcome : /\ Last(stack[c]).own = {o} /\ OfCall(c, o.context)
                          /\ cell[Last(stack[c]).l] = {o}
  /\ at[c] = "fold" => Called(c)
  /\ decision[c].kind = "block" => decision[c].reason # None
  /\ blocked[c] => StaysDenied(c)

Alone == \A c, d \in Calls : Running(c) /\ Running(d) => c = d

(* What was delivered is of calls that are done with their chain.          *)
Past == {"deliver", "handing", "done"}
Held(s) == \A i \in DOMAIN s : at[s[i][1]] \in Past
HeldAfter(s) == \A i \in DOMAIN s : at'[s[i][1]] \in Past
DeliveredIsPast == Held(pending) /\ Held(flushing) /\ Held(sunk)
FrozenIsDone == \A c \in frozen : at[c] = "done"

OwnCore == Alone /\ (\A c \in Calls : Own(c)) /\ DeliveredIsPast /\ FrozenIsDone
OwnInv == "overlap" \notin env => OwnCore

----------------------------------------------------------------------------
(* What a step of the running call c leaves to be shown: c's own part.     *)
LEMMA OthersKeep ==
  ASSUME TypeInv, OwnCore, NEW c \in Calls, Running(c),
         \A d \in Calls \ {c} :
           /\ at'[d] = at[d] /\ stack'[d] = stack[d] /\ answer'[d] = answer[d]
           /\ due'[d] = due[d] /\ decision'[d] = decision[d] /\ blocked'[d] = blocked[d],
         Own(c)'
  PROVE  Alone' /\ \A d \in Calls : Own(d)'
<1>1. \A d \in Calls \ {c} : ~Running(d)  BY DEF OwnCore, Alone
<1>2. Alone'  BY <1>1 DEF Alone, Running
<1>3. ASSUME NEW d \in Calls \ {c}  PROVE Own(d)'
  <2>1. Own(d) /\ at[d] \notin {"listen", "fold", "chain", "restore"}
    BY <1>1 DEF OwnCore, Running
  <2> QED  BY <2>1 DEF Own, StaysDenied, Called, FrameIsOwn, OfCall
<1> QED  BY <1>2, <1>3

LEMMA DeliveriesKeep ==
  ASSUME OwnCore, \A c \in Calls : at[c] \in Past => at'[c] = at[c], TypeOK,
         UNCHANGED <<pending, flushing, sunk, frozen>>
  PROVE  DeliveredIsPast' /\ FrozenIsDone'
<1>1. \A s \in Seq(Context) : \A i \in DOMAIN s : s[i][1] \in Calls  BY DEF Context
<1>2. pending \in Seq(Context) /\ flushing \in Seq(Context) /\ sunk \in Seq(Context)
      /\ frozen \subseteq Calls
  BY DEF TypeOK
<1>3. FrozenIsDone'  BY <1>2 DEF OwnCore, FrozenIsDone, Past
<1> QED  BY <1>1, <1>2, <1>3 DEF OwnCore, DeliveredIsPast, Held

(* The rest of the chain answered v, over cells.                           *)
LEMMA AnswerKeeps ==
  ASSUME TypeInv, NEW c \in Calls, NEW frames \in Seq(Frame),
         NEW cells \in [DOMAIN cell -> SUBSET Outcome], NEW v \in Outcome,
         Answer(c, frames, cells, v, v), OfCall(c, v.context), Own(c),
         \A i \in DOMAIN frames :
           /\ frames[i].nexts > 0 /\ FrameIsOwn(c, frames[i]) /\ frames[i].l \in DOMAIN cell,
         blocked[c] => v.denied # None,
         UNCHANGED <<decision, blocked>>
  PROVE  Own(c)' /\ at'[c] \in {"listen", "deliver", "refused"}
         /\ \A d \in Calls \ {c} :
              /\ at'[d] = at[d] /\ stack'[d] = stack[d] /\ answer'[d] = answer[d]
              /\ due'[d] = due[d]
<1> USE DEF TypeInv
<1>1. CASE frames = <<>>
  <2>1. /\ stack' = [stack EXCEPT ![c] = <<>>]
        /\ answer' = [answer EXCEPT ![c] = [real |-> v, own |-> v]]
        /\ due' = [due EXCEPT ![c] = IF v.denied = None THEN v.context ELSE <<>>]
        /\ at' = [at EXCEPT ![c] = IF v.denied = None THEN "deliver" ELSE "refused"]
    BY <1>1 DEF Answer, Settle, Goto
  <2>2. /\ stack'[c] = <<>> /\ answer'[c].real = v /\ answer'[c].own = v
        /\ due'[c] = v.context \/ due'[c] = <<>>
        /\ at'[c] \in {"deliver", "refused"} /\ (v.denied # None => at'[c] = "refused")
    BY <2>1 DEF TypeOK
  <2>3. OfCall(c, due'[c])  BY <2>2 DEF OfCall
  <2>4. blocked[c] => at'[c] = "refused"  BY <2>2
  <2>5. Own(c)'  BY <2>2, <2>3, <2>4 DEF Own, StaysDenied, OfCall
  <2> QED  BY <2>1, <2>2, <2>5 DEF TypeOK
<1>2. CASE frames # <<>>
  <2> DEFINE top == Last(frames)
             new == [top EXCEPT !.inner = {v}, !.own = {v}]
             s == Append(Front(frames), new)
             k == Len(frames)
  <2>1. top \in Frame /\ top = frames[k] /\ k \in Nat \ {0} /\ DOMAIN frames = 1..k
    BY <1>2, Ends
  <2>2. /\ new \in Frame /\ new.l = top.l /\ new.nexts = top.nexts
        /\ new.inner = {v} /\ new.own = {v}
    BY <2>1 DEF Frame
  <2>3. top.nexts > 0 /\ top.l \in DOMAIN cell  BY <2>1
  <2>4. /\ s \in Seq(Frame) /\ Len(s) = k /\ s[k] = new /\ Last(s) = new
        /\ \A i \in 1..(k - 1) : s[i] = frames[i]
    BY <1>2, <2>2, Retopped
  <2>5. DOMAIN s = 1..k  BY <2>4
  <2>6. /\ stack' = [stack EXCEPT ![c] = s] /\ at' = [at EXCEPT ![c] = "listen"]
        /\ cell' = [cells EXCEPT ![top.l] = {v}] /\ answer' = answer /\ due' = due
    BY <1>2 DEF Answer, Goto
  <2> HIDE DEF top, new, s, k
  <2>7. stack'[c] = s /\ at'[c] = "listen" /\ cell'[top.l] = {v}
    BY <2>3, <2>6 DEF TypeOK
  <2>8. ASSUME NEW i \in 1..k  PROVE s[i].nexts > 0 /\ FrameIsOwn(c, s[i])
    <3>1. CASE i = k  BY <2>2, <2>3, <2>4, <3>1 DEF FrameIsOwn
    <3>2. CASE i # k  BY <2>1, <2>4, <3>2
    <3> QED  BY <3>1, <3>2
  <2>9. Called(c)' /\ Last(stack'[c]) = new  BY <2>2, <2>3, <2>4, <2>7 DEF Called
  <2>10. /\ \E o \in Outcome : /\ Last(stack'[c]).own = {o} /\ OfCall(c, o.context)
                               /\ cell'[Last(stack'[c]).l] = {o}
    BY <2>2, <2>7, <2>9
  <2>11. blocked[c] => StaysDenied(c)'  BY <2>2, <2>7, <2>9 DEF StaysDenied
  <2>12. Own(c)'  BY <2>5, <2>6, <2>7, <2>8, <2>9, <2>10, <2>11 DEF Own, FrameIsOwn, OfCall
  <2> QED  BY <2>6, <2>7, <2>12 DEF TypeOK
<1> QED  BY <1>1, <1>2

----------------------------------------------------------------------------
LEMMA InitOwn == Init => OwnInv
<1> SUFFICES ASSUME Init PROVE OwnCore  BY DEF OwnInv
<1> USE DEF Init
<1>1. ASSUME NEW c \in Calls  PROVE Own(c)
  <2>1. /\ answer[c].real = answer[c].own /\ answer[c].own.context = <<>>
        /\ due[c] = <<>> /\ decision[c] = Accept /\ stack[c] = <<>>
        /\ at[c] = "idle" /\ ~blocked[c]
    BY DEF Accepted
  <2> QED  BY <2>1, DecisionKinds DEF Own, OfCall
<1>2. Alone /\ DeliveredIsPast /\ FrozenIsDone
  BY DEF Alone, Running, DeliveredIsPast, Held, FrozenIsDone
<1> QED  BY <1>1, <1>2 DEF OwnCore

(* What is registered does not touch the cells there are.                  *)
LEMMA RegistryOwn ==
  ASSUME TypeInv, LockInv, OwnCore, NEW l \in Listeners, Register(l) \/ Dispose(l)
  PROVE  OwnCore'
<1>1. /\ UNCHANGED <<at, answer, due, frozen, stack, decision, blocked, pending, flushing, sunk>>
      /\ \A m \in DOMAIN cell : cell'[m] = cell[m]
  BY DEF Register, Dispose, sinkVars
<1>2. ASSUME NEW c \in Calls  PROVE Own(c)'
  <2>1. Own(c)  BY DEF OwnCore
  <2>2. stack[c] # <<>> => Last(stack[c]).l \in DOMAIN cell
    BY Ends DEF TypeInv, TypeOK, LockInv, FramesAreKnown
  <2>3. at[c] \in {"listen", "fold"} => stack[c] # <<>>  BY DEF TypeInv, InsideHasFrame
  <2> QED  BY <1>1, <2>1, <2>2, <2>3 DEF Own, StaysDenied, Called, FrameIsOwn, OfCall
<1>3. Alone' /\ DeliveredIsPast' /\ FrozenIsDone'
  BY <1>1 DEF OwnCore, Alone, Running, DeliveredIsPast, Held, FrozenIsDone
<1> QED  BY <1>2, <1>3 DEF OwnCore

LEMMA StartOwn ==
  ASSUME TypeInv, LockInv, OwnCore, "overlap" \notin env, NEW c \in Calls,
         Refuse(c) \/ Execute(c)
  PROVE  OwnCore'
<1>1. /\ at[c] = "idle" /\ \A d \in Calls : ~Running(d)
      /\ UNCHANGED <<cell, answer, due, frozen, stack, decision, blocked, pending, flushing, sunk>>
      /\ at'[c] \in {"refused", "chain"} /\ \A d \in Calls \ {c} : at'[d] = at[d]
  BY DEF Refuse, Execute, MayStart, Goto, Running, chainVars, sinkVars, TypeInv, TypeOK
<1>2. stack[c] = <<>> /\ ~blocked[c]
  BY <1>1 DEF LockInv, OutsideIsEmpty, OwnCore, Own, StaysDenied
<1>3. Own(c)'  BY <1>1, <1>2 DEF OwnCore, Own, StaysDenied, OfCall
<1>4. ASSUME NEW d \in Calls \ {c}  PROVE Own(d)'
  <2>1. Own(d)  BY DEF OwnCore
  <2>2. /\ at'[d] = at[d] /\ stack'[d] = stack[d] /\ answer'[d] = answer[d] /\ cell' = cell
        /\ due'[d] = due[d] /\ decision'[d] = decision[d] /\ blocked'[d] = blocked[d]
    BY <1>1
  <2> QED  BY <2>1, <2>2 DEF Own, StaysDenied, Called, FrameIsOwn, OfCall
<1>5. Alone'  BY <1>1 DEF Alone, Running
<1>6. DeliveredIsPast' /\ FrozenIsDone'  BY <1>1, DeliveriesKeep DEF Past, TypeInv
<1> QED  BY <1>3, <1>4, <1>5, <1>6 DEF OwnCore

LEMMA EnterOwn ==
  ASSUME TypeInv, LockInv, OwnCore, NEW c \in Calls, Enter(c)
  PROVE  OwnCore'
<1> DEFINE f == [l |-> Head(chain[c]), handed |-> payload[c], nexts |-> 0,
                 sent |-> payload[c], inner |-> {}, own |-> {}]
           s == Append(stack[c], f)
           k == Len(stack[c])
<1>1. /\ at[c] = "chain" /\ stack' = [stack EXCEPT ![c] = s]
      /\ at' = [at EXCEPT ![c] = "listen"]
      /\ UNCHANGED <<cell, answer, due, frozen, decision, blocked, pending, flushing, sunk>>
  BY DEF Enter, Goto, sinkVars, TypeInv, TypeOK
<1>2. stack[c] \in Seq(Frame) /\ f \in Frame
  <2>1. Head(chain[c]) \in Listeners /\ payload[c] \in Value
    BY Ends DEF Enter, TypeInv, TypeOK
  <2>2. f \in Frame  BY <2>1 DEF Frame
  <2>3. stack[c] \in Seq(Frame)  BY DEF TypeInv, TypeOK
  <2> QED  BY <2>2, <2>3
<1>3. f.nexts = 0 /\ f.inner = {}  OBVIOUS
<1> HIDE DEF f
<1>4. /\ s \in Seq(Frame) /\ Len(s) = k + 1 /\ k \in Nat /\ s[k + 1] = f /\ Last(s) = f
      /\ \A i \in 1..k : s[i] = stack[c][i]
  BY <1>2, Pushed
<1>5. DOMAIN s = 1..(k + 1) /\ DOMAIN stack[c] = 1..k  BY <1>2, <1>4
<1> HIDE DEF s, k
<1>6. /\ stack'[c] = s /\ at'[c] = "listen"
      /\ \A d \in Calls \ {c} : stack'[d] = stack[d] /\ at'[d] = at[d]
  BY <1>1 DEF TypeInv, TypeOK
<1>7. Own(c) /\ ~blocked[c]  BY <1>1 DEF OwnCore, Own, StaysDenied
<1>8. ASSUME NEW i \in 1..(k + 1)
      PROVE  (i < k + 1 => s[i].nexts > 0) /\ FrameIsOwn(c, s[i])
  <2>1. CASE i = k + 1  BY <1>3, <1>4, <2>1 DEF FrameIsOwn
  <2>2. CASE i \in 1..k  BY <1>1, <1>4, <1>5, <1>7, <2>2 DEF Own
  <2> QED  BY <1>4, <2>1, <2>2
<1>9. ~Called(c)'  BY <1>3, <1>4, <1>6 DEF Called
<1>10. Own(c)'
  BY <1>1, <1>4, <1>5, <1>6, <1>7, <1>8, <1>9 DEF Own, FrameIsOwn, OfCall
<1>11. Running(c)  BY <1>1 DEF Running
<1>12. Alone' /\ \A d \in Calls : Own(d)'  BY <1>1, <1>6, <1>10, <1>11, OthersKeep
<1>13. DeliveredIsPast' /\ FrozenIsDone'  BY <1>1, <1>6, DeliveriesKeep DEF Past, TypeInv
<1> QED  BY <1>12, <1>13 DEF OwnCore

(* The built-in accept, or an outcome restored, is the answer.             *)
LEMMA AnsweringOwn ==
  ASSUME TypeInv, LockInv, OwnCore, NEW c \in Calls, BuiltIn(c) \/ Restore(c)
  PROVE  OwnCore'
<1> DEFINE v == IF at[c] = "chain" THEN Accepted(payload[c]) ELSE answer[c].own
           frames == IF at[c] = "chain" THEN stack[c] ELSE Front(stack[c])
           cells == IF at[c] = "chain" THEN cell
                    ELSE [cell EXCEPT ![Last(stack[c]).l] = {answer[c].real}]
<1>1. /\ at[c] \in {"chain", "restore"} /\ answer[c].real = answer[c].own
      /\ UNCHANGED <<frozen, decision, blocked, pending, flushing, sunk>> /\ Own(c)
  BY DEF BuiltIn, Restore, sinkVars, OwnCore, Own
<1>2. Answer(c, frames, cells, v, v)
  <2>1. CASE BuiltIn(c)  BY <2>1 DEF BuiltIn
  <2>2. CASE Restore(c)  BY <1>1, <2>2 DEF Restore
  <2> QED  BY <2>1, <2>2
<1>3. v \in Outcome /\ cells \in [DOMAIN cell -> SUBSET Outcome]
  <2>1. answer[c].real \in Outcome /\ answer[c].own \in Outcome /\ payload[c] \in Value
    BY DEF TypeInv, TypeOK
  <2> QED  BY <2>1, OutcomesTyped DEF TypeInv, TypeOK
<1>4. stack[c] \in Seq(Frame) /\ (at[c] = "restore" => stack[c] # <<>>)
  BY DEF TypeInv, TypeOK, InsideHasFrame
<1>5. frames \in Seq(Frame)  BY <1>1, <1>4, Ends
<1>6. ASSUME NEW i \in DOMAIN frames
      PROVE  /\ frames[i].nexts > 0 /\ FrameIsOwn(c, frames[i]) /\ frames[i].l \in DOMAIN cell
  <2>1. frames[i] = stack[c][i] /\ i \in DOMAIN stack[c]
        /\ (at[c] = "chain" \/ i < Len(stack[c]))
    <3>1. CASE at[c] = "chain"  BY <3>1
    <3>2. CASE at[c] = "restore"
      <4>1. /\ Len(frames) = Len(stack[c]) - 1 /\ DOMAIN frames = 1..Len(frames)
            /\ \A j \in 1..(Len(stack[c]) - 1) : frames[j] = stack[c][j]
            /\ Len(stack[c]) \in Nat \ {0} /\ DOMAIN stack[c] = 1..Len(stack[c])
        BY <1>4, <1>5, <3>2, Ends
      <4> QED  BY <4>1
    <3> QED  BY <1>1, <3>1, <3>2
  <2> QED  BY <1>1, <2>1 DEF Own, LockInv, FramesAreKnown
<1>7. OfCall(c, v.context)  BY <1>1 DEF Own, Accepted, OfCall
<1>8. blocked[c] => v.denied # None  BY <1>1 DEF Own, StaysDenied
<1> HIDE DEF v, frames, cells
<1>9. /\ Own(c)' /\ at'[c] \in {"listen", "deliver", "refused"}
      /\ \A d \in Calls \ {c} :
           /\ at'[d] = at[d] /\ stack'[d] = stack[d] /\ answer'[d] = answer[d]
           /\ due'[d] = due[d]
  BY <1>1, <1>2, <1>3, <1>5, <1>6, <1>7, <1>8, AnswerKeeps
<1>10. Running(c)  BY <1>1 DEF Running
<1>11. Alone' /\ \A d \in Calls : Own(d)'  BY <1>1, <1>9, <1>10, OthersKeep
<1>12. DeliveredIsPast' /\ FrozenIsDone'
  BY <1>1, <1>9, DeliveriesKeep DEF Past, TypeInv
<1> QED  BY <1>11, <1>12 DEF OwnCore

LEMMA CallNextOwn ==
  ASSUME TypeInv, LockInv, OwnCore, "twice" \notin env, NEW c \in Calls, CallNext(c)
  PROVE  OwnCore'
<1> DEFINE top == Last(stack[c])
           k == Len(stack[c])
<1>1. stack[c] \in Seq(Frame) /\ stack[c] # <<>>
  BY DEF CallNext, TypeInv, TypeOK, InsideHasFrame
<1>2. top \in Frame /\ k \in Nat \ {0} /\ top = stack[c][k] /\ DOMAIN stack[c] = 1..k
  BY <1>1, Ends
<1>3. PICK v \in {top.handed} \cup (IF "rewrite" \in env THEN {top.l} ELSE {}) :
        stack' = [stack EXCEPT ![c] =
          Append(Front(stack[c]), [top EXCEPT !.nexts = top.nexts + 1, !.sent = v])]
  BY DEF CallNext, TypeInv, TypeOK
<1>4. /\ at[c] = "listen" /\ at' = [at EXCEPT ![c] = "chain"] /\ ~(top.nexts > 0)
      /\ UNCHANGED <<cell, answer, due, frozen, decision, blocked, pending, flushing, sunk>>
  BY <1>2 DEF CallNext, Goto, sinkVars, Frame
<1>5. Own(c) /\ ~blocked[c]  BY <1>4 DEF OwnCore, Own, StaysDenied, Called
<1> DEFINE new == [top EXCEPT !.nexts = top.nexts + 1, !.sent = v]
           s == Append(Front(stack[c]), new)
<1>6. stack'[c] = s /\ at'[c] = "chain"
      /\ \A d \in Calls \ {c} : stack'[d] = stack[d] /\ at'[d] = at[d]
  BY <1>3, <1>4 DEF TypeInv, TypeOK
<1> HIDE DEF top
<1>7. new \in Frame /\ new.nexts > 0 /\ new.inner = top.inner
  <2>1. v \in Value  BY <1>2, <1>3 DEF Frame, Value
  <2>2. top.nexts + 1 \in 0..2 /\ top.nexts + 1 > 0  BY <1>2, <1>4 DEF Frame
  <2> QED  BY <1>2, <2>1, <2>2 DEF Frame
<1> HIDE DEF new
<1>8. /\ s \in Seq(Frame) /\ Len(s) = k /\ s[k] = new
      /\ \A i \in 1..(k - 1) : s[i] = stack[c][i]
  BY <1>1, <1>7, Retopped
<1>9. DOMAIN s = 1..k  BY <1>8
<1> HIDE DEF s, k
<1>10. ASSUME NEW i \in 1..k  PROVE s[i].nexts > 0 /\ FrameIsOwn(c, s[i])
  <2>1. CASE i = k  BY <1>2, <1>5, <1>7, <1>8, <2>1 DEF Own, FrameIsOwn
  <2>2. CASE i # k
    <3>1. i < Len(stack[c]) /\ i \in DOMAIN stack[c] /\ s[i] = stack[c][i]
      BY <1>2, <1>8, <2>2 DEF k
    <3> QED  BY <1>5, <3>1 DEF Own
  <2> QED  BY <2>1, <2>2
<1>11. Own(c)'  BY <1>4, <1>5, <1>6, <1>9, <1>10 DEF Own, FrameIsOwn, OfCall
<1>12. Running(c)  BY <1>4 DEF Running
<1>13. Alone' /\ \A d \in Calls : Own(d)'  BY <1>4, <1>6, <1>11, <1>12, OthersKeep
<1>14. DeliveredIsPast' /\ FrozenIsDone'  BY <1>4, <1>6, DeliveriesKeep DEF Past, TypeInv
<1> QED  BY <1>13, <1>14 DEF OwnCore

(* A decision is the listener's own, or passes on what next answered: with *)
(* the context of the call, and a Block has its reason.                    *)
LEMMA DecisionOwn ==
  ASSUME TypeInv, NEW c \in Calls, Own(c), at[c] = "listen", NEW d \in Decisions(c)
  PROVE  OfCall(c, d.context) /\ (d.kind = "block" => d.reason # None)
<1> DEFINE top == Last(stack[c])
           Plain == {Accept, Replace(top.l), AddContext(<<(<<c, top.l>>)>>), Block(top.l)}
<1>1. stack[c] \in Seq(Frame) /\ stack[c] # <<>>  BY DEF TypeInv, TypeOK, InsideHasFrame
<1>2. top \in Frame /\ top = stack[c][Len(stack[c])] /\ Len(stack[c]) \in DOMAIN stack[c]
  BY <1>1, Ends
<1>3. top.l # None /\ top.inner \subseteq Outcome /\ FrameIsOwn(c, top)
  BY <1>2, ToolPipelineAssumption DEF Frame, Own
<1>4. d \in Plain \/ \E o \in top.inner : d = AsDecision(o, top.sent)
  BY DEF Decisions
<1> HIDE DEF top
<1>5. OfCall(c, <<>>) /\ OfCall(c, <<(<<c, top.l>>)>>)  BY DEF OfCall
<1>6. ASSUME d \in Plain
      PROVE  OfCall(c, d.context) /\ (d.kind = "block" => d.reason # None)
  <2>1. CASE d = Accept  BY <1>5, <2>1, DecisionKinds
  <2>2. CASE d = Replace(top.l)  BY <1>5, <2>2, DecisionKinds
  <2>3. CASE d = AddContext(<<(<<c, top.l>>)>>)  BY <1>5, <2>3, DecisionKinds
  <2>4. CASE d = Block(top.l)  BY <1>3, <1>5, <2>4, DecisionKinds
  <2> QED  BY <1>6, <2>1, <2>2, <2>3, <2>4
<1>7. ASSUME NEW o \in top.inner, d = AsDecision(o, top.sent)
      PROVE  OfCall(c, d.context) /\ (d.kind = "block" => d.reason # None)
  <2>1. OfCall(c, o.context)  BY <1>3 DEF FrameIsOwn
  <2>2. \/ d = Block(o.denied) /\ o.denied # None
        \/ d = AddContext(o.context) \/ d = Replace(o.value) \/ d = Accept
    BY <1>7 DEF AsDecision
  <2> QED  BY <1>5, <2>1, <2>2, DecisionKinds
<1> HIDE DEF Plain
<1> QED  BY <1>4, <1>6, <1>7

LEMMA DecideOwn ==
  ASSUME TypeInv, LockInv, OwnCore, "veto" \notin env, NEW c \in Calls, Decide(c)
  PROVE  OwnCore'
<1>1. PICK d \in Decisions(c) :
        /\ decision' = [decision EXCEPT ![c] = d]
        /\ blocked' = [blocked EXCEPT ![c] = blocked[c] \/ d.kind = "block"]
  BY DEF Decide, TypeInv, TypeOK
<1>2. /\ at[c] = "listen" /\ at' = [at EXCEPT ![c] = "fold"] /\ Called(c)
      /\ UNCHANGED <<cell, answer, due, frozen, stack, pending, flushing, sunk>>
  BY DEF Decide, Goto, sinkVars, Called
<1>3. Own(c)  BY DEF OwnCore
<1>4. OfCall(c, d.context) /\ (d.kind = "block" => d.reason # None)
  BY <1>2, <1>3, DecisionOwn
<1>5. /\ at'[c] = "fold" /\ decision'[c] = d
      /\ \A e \in Calls \ {c} : at'[e] = at[e] /\ decision'[e] = decision[e]
  BY <1>1, <1>2 DEF TypeInv, TypeOK
<1>6. /\ blocked'[c] => blocked[c] \/ d.kind = "block"
      /\ \A e \in Calls \ {c} : blocked'[e] = blocked[e]
  BY <1>1, Zenon DEF TypeInv, TypeOK
<1>7. blocked'[c] => StaysDenied(c)'
  BY <1>2, <1>3, <1>5, <1>6 DEF Own, StaysDenied, Called
<1>8. Own(c)'  BY <1>2, <1>3, <1>4, <1>5, <1>7 DEF Own, Called, FrameIsOwn, OfCall
<1>9. Running(c)  BY <1>2 DEF Running
<1>10. Alone' /\ \A e \in Calls : Own(e)'  BY <1>2, <1>5, <1>6, <1>8, <1>9, OthersKeep
<1>11. DeliveredIsPast' /\ FrozenIsDone'  BY <1>2, <1>5, DeliveriesKeep DEF Past, TypeInv
<1> QED  BY <1>10, <1>11 DEF OwnCore

(* What is in the cell is what next answered: the decision amends it.      *)
LEMMA FoldCellOwn ==
  ASSUME TypeInv, LockInv, OwnCore, NEW c \in Calls, FoldCell(c)
  PROVE  OwnCore'
<1> DEFINE top == Last(stack[c])
           d == decision[c]
           real == Fold(cell[top.l], d, top.handed)
<1>1. /\ at[c] = "fold" /\ at' = [at EXCEPT ![c] = "restore"]
      /\ answer' = [answer EXCEPT ![c] = [real |-> real, own |-> Fold(top.own, d, top.handed)]]
      /\ decision' = [decision EXCEPT ![c] = Accept]
      /\ UNCHANGED <<due, frozen, stack, blocked, pending, flushing, sunk>>
  BY DEF FoldCell, Goto, sinkVars
<1>2. Own(c)  BY DEF OwnCore
<1>3. PICK o \in Outcome : top.own = {o} /\ OfCall(c, o.context) /\ cell[top.l] = {o}
  BY <1>1, <1>2 DEF Own
<1>4. d \in Decision  BY DEF TypeInv, TypeOK
<1>5. real = Amend(o, d) /\ Fold(top.own, d, top.handed) = Amend(o, d)
  BY <1>3 DEF Fold
<1> HIDE DEF real, top
<1>6. /\ at'[c] = "restore" /\ decision'[c] = Accept
      /\ answer'[c].real = Amend(o, d) /\ answer'[c].own = Amend(o, d)
      /\ \A e \in Calls \ {c} : /\ at'[e] = at[e] /\ decision'[e] = decision[e]
                                /\ answer'[e] = answer[e]
  BY <1>1, <1>5 DEF TypeInv, TypeOK
<1>7. /\ d.kind \in {"accept", "replace", "context", "block"} /\ d.context \in Seq(Context)
      /\ o.context \in Seq(Context) /\ OfCall(c, d.context)
  BY <1>2, <1>4, OutcomesTyped DEF Decision, Own
<1>8. OfCall(c, d.context \o o.context)
  <2> DEFINE x == d.context
             y == o.context
  <2>1. x \in Seq(Context) /\ y \in Seq(Context) /\ OfCall(c, x) /\ OfCall(c, y)
    BY <1>3, <1>7
  <2> HIDE DEF x, y
  <2>2. /\ x \o y \in Seq(Context) /\ Len(x \o y) = Len(x) + Len(y)
        /\ \A i \in 1..(Len(x) + Len(y)) :
             (x \o y)[i] = IF i <= Len(x) THEN x[i] ELSE y[i - Len(x)]
    BY <2>1, ConcatProperties
  <2>3. Len(x) \in Nat /\ Len(y) \in Nat /\ DOMAIN x = 1..Len(x) /\ DOMAIN y = 1..Len(y)
        /\ DOMAIN (x \o y) = 1..(Len(x) + Len(y))
    BY <2>1, <2>2
  <2>4. ASSUME NEW i \in 1..(Len(x) + Len(y))  PROVE (x \o y)[i][1] = c
    <3>1. CASE i <= Len(x)  BY <2>1, <2>2, <2>3, <3>1 DEF OfCall
    <3>2. CASE ~(i <= Len(x))
      <4>1. i - Len(x) \in DOMAIN y /\ (x \o y)[i] = y[i - Len(x)]  BY <2>2, <2>3, <3>2
      <4> QED  BY <2>1, <4>1 DEF OfCall
    <3> QED  BY <3>1, <3>2
  <2> QED  BY <2>3, <2>4 DEF OfCall, x, y
<1>9. /\ Amend(o, d).context \in {o.context, d.context \o o.context}
      /\ Amend(o, d).denied = IF d.kind = "block" THEN d.reason ELSE o.denied
  BY <1>7 DEF Amend, Outcome
<1>10. OfCall(c, Amend(o, d).context)  BY <1>3, <1>8, <1>9
<1>11. blocked[c] => Amend(o, d).denied # None
  BY <1>1, <1>2, <1>3, <1>9 DEF Own, StaysDenied, top
<1>12. Own(c)'
  BY <1>1, <1>2, <1>6, <1>10, <1>11, DecisionKinds DEF Own, StaysDenied, FrameIsOwn, OfCall
<1>13. Running(c)  BY <1>1 DEF Running
<1>14. Alone' /\ \A e \in Calls : Own(e)'  BY <1>1, <1>6, <1>12, <1>13, OthersKeep
<1>15. DeliveredIsPast' /\ FrozenIsDone'  BY <1>1, <1>6, DeliveriesKeep DEF Past, TypeInv
<1> QED  BY <1>14, <1>15 DEF OwnCore

(* What is delivered is the call's own, and the call is past its chain.    *)
LEMMA AfterwardsOwn ==
  ASSUME TypeInv, LockInv, OwnCore, NEW c \in Calls, Deliver(c) \/ HandOn(c) \/ Notify(c)
  PROVE  OwnCore'
<1>1. /\ at[c] \in {"deliver", "handing"} /\ at'[c] \in Past
      /\ \A d \in Calls \ {c} : at'[d] = at[d] /\ due'[d] = due[d]
      /\ UNCHANGED <<cell, stack, answer, decision, blocked, flushing>>
  <2>1. at \in [Calls -> Place] /\ due \in [Calls -> Seq(Context)]  BY DEF TypeInv, TypeOK
  <2>2. CASE Deliver(c)  BY <2>1, <2>2 DEF Deliver, Goto, chainVars, Past
  <2>3. CASE HandOn(c)  BY <2>1, <2>3 DEF HandOn, Goto, chainVars, Past
  <2>4. CASE Notify(c)  BY <2>1, <2>4 DEF Notify, Goto, chainVars, sinkVars, Past
  <2> QED  BY <2>2, <2>3, <2>4
<1>2. Own(c) /\ ~blocked[c] /\ stack[c] = <<>>
  BY <1>1 DEF OwnCore, Own, StaysDenied, LockInv, OutsideIsEmpty
<1>3. due[c] \in Seq(Context) /\ OfCall(c, due[c])  BY <1>2 DEF Own, TypeInv, TypeOK
<1>4. due'[c] = due[c] \/ (due[c] # <<>> /\ due'[c] = Tail(due[c]))
  BY DEF Deliver, HandOn, Notify, TypeInv, TypeOK, HandingHasDue
<1>5. due[c] # <<>> => /\ OfCall(c, Tail(due[c])) /\ Head(due[c])[1] = c
                       /\ Head(due[c]) \in Context
  <2> SUFFICES ASSUME due[c] # <<>>
               PROVE  /\ OfCall(c, Tail(due[c])) /\ Head(due[c])[1] = c
                      /\ Head(due[c]) \in Context
    OBVIOUS
  <2>1. /\ Len(due[c]) \in Nat \ {0} /\ DOMAIN due[c] = 1..Len(due[c])
        /\ Head(due[c]) = due[c][1] /\ Head(due[c]) \in Context
        /\ Tail(due[c]) \in Seq(Context) /\ Len(Tail(due[c])) = Len(due[c]) - 1
        /\ \A i \in 1..(Len(due[c]) - 1) : Tail(due[c])[i] = due[c][i + 1]
    BY <1>3, Ends
  <2>2. DOMAIN Tail(due[c]) = 1..(Len(due[c]) - 1)  BY <2>1
  <2>3. ASSUME NEW i \in 1..(Len(due[c]) - 1)  PROVE Tail(due[c])[i][1] = c
    <3>1. i + 1 \in DOMAIN due[c]  BY <2>1
    <3> QED  BY <1>3, <2>1, <3>1 DEF OfCall
  <2>4. 1 \in DOMAIN due[c]  BY <2>1
  <2> QED  BY <1>3, <2>1, <2>2, <2>3, <2>4 DEF OfCall
<1>6. Own(c)'
  BY <1>1, <1>2, <1>3, <1>4, <1>5 DEF Own, StaysDenied, OfCall, Past
<1>7. Running(c)  BY <1>1 DEF Running
<1>8. Alone' /\ \A d \in Calls : Own(d)'  BY <1>1, <1>6, <1>7, OthersKeep
<1>9. \A x \in Context : x[1] \in Calls /\ (at[x[1]] \in Past => at'[x[1]] \in Past)
  BY <1>1 DEF Context
<1>10. pending \in Seq(Context) /\ flushing \in Seq(Context) /\ sunk \in Seq(Context)
  BY DEF TypeInv, TypeOK
<1>11. \A s \in Seq(Context) : Held(s) => HeldAfter(s)
  <2> SUFFICES ASSUME NEW s \in Seq(Context), Held(s)
               PROVE  \A i \in DOMAIN s : at'[s[i][1]] \in Past
    BY DEF HeldAfter
  <2> QED  BY <1>9 DEF Held
<1>12. /\ pending' = pending \/ (due[c] # <<>> /\ pending' = Append(pending, Head(due[c])))
       /\ sunk' = sunk \/ (due[c] # <<>> /\ sunk' = Append(sunk, Head(due[c])))
  BY DEF Deliver, HandOn, Notify, sinkVars, TypeInv, HandingHasDue
<1>13. ASSUME NEW s \in Seq(Context), Held(s), due[c] # <<>>
       PROVE  HeldAfter(Append(s, Head(due[c])))
  <2> DEFINE x == Head(due[c])
  <2>1. x \in Context /\ x[1] = c  BY <1>5, <1>13
  <2> HIDE DEF x
  <2>2. /\ Append(s, x) \in Seq(Context) /\ Len(Append(s, x)) = Len(s) + 1 /\ Len(s) \in Nat
        /\ \A i \in 1..Len(s) : Append(s, x)[i] = s[i]
        /\ Append(s, x)[Len(s) + 1] = x
    BY <2>1, Pushed
  <2>3. ASSUME NEW i \in 1..(Len(s) + 1)  PROVE at'[Append(s, x)[i][1]] \in Past
    <3>1. CASE i = Len(s) + 1  BY <1>1, <2>1, <2>2, <3>1
    <3>2. CASE i \in 1..Len(s)
      <4>1. at'[s[i][1]] \in Past  BY <1>11, <1>13, <2>2, <3>2 DEF HeldAfter
      <4> QED  BY <2>2, <3>2, <4>1
    <3> QED  BY <2>2, <3>1, <3>2
  <2>4. DOMAIN Append(s, x) = 1..(Len(s) + 1)  BY <2>2
  <2> QED  BY <2>3, <2>4 DEF HeldAfter, x
<1>14. DeliveredIsPast'
  <2>1. Held(pending) /\ Held(flushing) /\ Held(sunk)  BY DEF OwnCore, DeliveredIsPast
  <2>2. HeldAfter(pending') /\ HeldAfter(sunk') /\ HeldAfter(flushing')
    BY <1>1, <1>10, <1>11, <1>12, <1>13, <2>1
  <2> QED  BY <2>2 DEF DeliveredIsPast, Held, HeldAfter
<1>15. FrozenIsDone'
  BY <1>1 DEF OwnCore, FrozenIsDone, Deliver, HandOn, Notify, Goto, TypeInv, TypeOK
<1> QED  BY <1>8, <1>14, <1>15 DEF OwnCore

(* Installing the sink and flushing to it moves what was delivered.        *)
LEMMA SinkOwn ==
  ASSUME TypeInv, OwnCore, InstallSink \/ Flush
  PROVE  OwnCore'
<1>1. UNCHANGED <<at, answer, due, frozen, cell, stack, decision, blocked>>
  BY DEF InstallSink, Flush, chainVars
<1>2. ASSUME NEW c \in Calls  PROVE Own(c)'
  <2>1. Own(c)  BY DEF OwnCore
  <2>2. /\ at'[c] = at[c] /\ stack'[c] = stack[c] /\ answer'[c] = answer[c] /\ cell' = cell
        /\ due'[c] = due[c] /\ decision'[c] = decision[c] /\ blocked'[c] = blocked[c]
    BY <1>1
  <2> QED  BY <2>1, <2>2 DEF Own, StaysDenied, Called, FrameIsOwn, OfCall
<1>3. Alone' /\ FrozenIsDone'  BY <1>1 DEF OwnCore, Alone, Running, FrozenIsDone
<1>4. Held(pending) /\ Held(flushing) /\ Held(sunk)  BY DEF OwnCore, DeliveredIsPast
<1>5. Held(<<>>)  BY DEF Held
<1>6. CASE InstallSink
  <2>1. pending' = <<>> /\ flushing' = pending /\ sunk' = sunk  BY <1>6 DEF InstallSink
  <2>2. HeldAfter(<<>>) /\ HeldAfter(pending) /\ HeldAfter(sunk)
    BY <1>1, <1>4, <1>5 DEF Held, HeldAfter
  <2>3. DeliveredIsPast'  BY <2>1, <2>2 DEF DeliveredIsPast, Held, HeldAfter
  <2> QED  BY <1>2, <1>3, <2>3 DEF OwnCore
<1>7. CASE Flush
  <2> DEFINE x == Head(flushing)
             s == Append(sunk, x)
             t == Tail(flushing)
  <2>1. flushing \in Seq(Context) /\ flushing # <<>> /\ sunk \in Seq(Context)
    BY <1>7 DEF Flush, TypeInv, TypeOK
  <2>2. /\ Len(flushing) \in Nat \ {0} /\ DOMAIN flushing = 1..Len(flushing)
        /\ x \in Context /\ x = flushing[1]
        /\ t \in Seq(Context) /\ Len(t) = Len(flushing) - 1
        /\ \A i \in 1..(Len(flushing) - 1) : t[i] = flushing[i + 1]
    BY <2>1, Ends
  <2>3. sunk' = s /\ flushing' = t /\ pending' = pending  BY <1>7 DEF Flush
  <2> HIDE DEF x, t
  <2>4. /\ s \in Seq(Context) /\ Len(s) = Len(sunk) + 1 /\ Len(sunk) \in Nat
        /\ \A i \in 1..Len(sunk) : s[i] = sunk[i]
        /\ s[Len(sunk) + 1] = x
    BY <2>1, <2>2, Pushed
  <2> HIDE DEF s
  <2>5. DOMAIN t = 1..(Len(flushing) - 1) /\ DOMAIN s = 1..(Len(sunk) + 1)
        /\ DOMAIN sunk = 1..Len(sunk)
    BY <2>1, <2>2, <2>4
  <2>6. Held(t)
    <3> SUFFICES ASSUME NEW i \in 1..(Len(flushing) - 1)  PROVE at[t[i][1]] \in Past
      BY <2>5 DEF Held
    <3>1. i + 1 \in DOMAIN flushing  BY <2>2
    <3> QED  BY <1>4, <2>2, <3>1 DEF Held
  <2>7. Held(s)
    <3> SUFFICES ASSUME NEW i \in 1..(Len(sunk) + 1)  PROVE at[s[i][1]] \in Past
      BY <2>5 DEF Held
    <3>1. CASE i = Len(sunk) + 1
      <4>1. 1 \in DOMAIN flushing  BY <2>2
      <4> QED  BY <1>4, <2>2, <2>4, <3>1, <4>1 DEF Held
    <3>2. CASE i \in 1..Len(sunk)  BY <1>4, <2>4, <2>5, <3>2 DEF Held
    <3> QED  BY <2>4, <3>1, <3>2
  <2>8. DeliveredIsPast'  BY <1>1, <1>4, <2>3, <2>6, <2>7 DEF DeliveredIsPast, Held
  <2> QED  BY <1>2, <1>3, <2>8 DEF OwnCore
<1> QED  BY <1>1, <1>2, <1>3, <1>6, <1>7 DEF OwnCore

----------------------------------------------------------------------------
LEMMA OwnStep ==
  ASSUME \A e \in Environments : "veto" \notin e /\ "twice" \notin e,
         TypeInv, LockInv, OwnInv, [Next]_vars
  PROVE  OwnInv'
<1>1. env \in Environments  BY SMTT(30) DEF TypeInv, TypeOK
<1>2. env' = env
  BY ZenonT(30) DEF Next, Register, Dispose, Refuse, Execute, Continue, Enter, BuiltIn, CallNext,
         Decide, FoldCell, Restore, Deliver, HandOn, Notify, InstallSink, Flush, vars
<1> SUFFICES ASSUME "overlap" \notin env  PROVE OwnCore'  BY <1>2 DEF OwnInv
<1>3. OwnCore /\ "veto" \notin env /\ "twice" \notin env  BY <1>1 DEF OwnInv
<1>4. ASSUME NEW l \in Listeners, Register(l) \/ Dispose(l)  PROVE OwnCore'
  BY <1>3, <1>4, RegistryOwn
<1>5. ASSUME NEW c \in Calls, Refuse(c) \/ Execute(c)  PROVE OwnCore'
  BY <1>3, <1>5, StartOwn
<1>6. ASSUME NEW c \in Calls, Continue(c)  PROVE OwnCore'
  BY <1>3, <1>6, EnterOwn, AnsweringOwn, CallNextOwn, DecideOwn, FoldCellOwn, AfterwardsOwn
     DEF Continue
<1>7. CASE InstallSink \/ Flush  BY <1>3, <1>7, SinkOwn
<1>8. CASE UNCHANGED vars
  <2>1. UNCHANGED <<at, answer, due, frozen, cell, stack, decision, blocked,
                    pending, flushing, sunk>>
    BY <1>8 DEF vars, chainVars, sinkVars
  <2>2. ASSUME NEW c \in Calls  PROVE Own(c)'
    <3>1. Own(c)  BY <1>3 DEF OwnCore
    <3>2. /\ at'[c] = at[c] /\ stack'[c] = stack[c] /\ answer'[c] = answer[c] /\ cell' = cell
          /\ due'[c] = due[c] /\ decision'[c] = decision[c] /\ blocked'[c] = blocked[c]
      BY <2>1
    <3> QED  BY <3>1, <3>2 DEF Own, StaysDenied, Called, FrameIsOwn, OfCall
  <2>3. Alone' /\ DeliveredIsPast' /\ FrozenIsDone'
    BY <1>3, <2>1 DEF OwnCore, Alone, Running, DeliveredIsPast, Held, FrozenIsDone
  <2> QED  BY <2>2, <2>3 DEF OwnCore
<1> QED  BY <1>4, <1>5, <1>6, <1>7, <1>8 DEF Next

(* A blocked call never gets past its chain, and only calls that did       *)
(* deliver and notify.                                                     *)
LEMMA OwnStands == TypeInv /\ OwnInv => AnswerStands
<1> SUFFICES ASSUME TypeInv, OwnInv  PROVE AnswerStands  OBVIOUS
<1>1. TypeOK  BY DEF TypeInv
<1>2. AnswerIsOwn  BY DEF AnswerIsOwn, OwnInv, OwnCore, Own
<1>3. BlockDenies
  <2> SUFFICES ASSUME NEW c \in Calls, "overlap" \notin env, blocked[c]
               PROVE  /\ c \notin frozen
                      /\ \A i \in DOMAIN (sunk \o flushing \o pending) :
                           (sunk \o flushing \o pending)[i][1] # c
    BY DEF BlockDenies
  <2>1. at[c] \notin Past  BY DEF OwnInv, OwnCore, Own, StaysDenied, Past
  <2>2. c \notin frozen  BY <2>1 DEF OwnInv, OwnCore, FrozenIsDone, Past
  <2> DEFINE NotOf(s) == \A i \in DOMAIN s : s[i][1] # c
  <2>3. sunk \in Seq(Context) /\ flushing \in Seq(Context) /\ pending \in Seq(Context)
    BY <1>1 DEF TypeOK
  <2>4. NotOf(sunk) /\ NotOf(flushing) /\ NotOf(pending)
    BY <2>1 DEF OwnInv, OwnCore, DeliveredIsPast, Held
  <2>5. ASSUME NEW s \in Seq(Context), NEW t \in Seq(Context), NotOf(s), NotOf(t)
        PROVE  s \o t \in Seq(Context) /\ NotOf(s \o t)
    <3>1. /\ s \o t \in Seq(Context) /\ Len(s \o t) = Len(s) + Len(t)
          /\ \A i \in 1..(Len(s) + Len(t)) :
               (s \o t)[i] = IF i <= Len(s) THEN s[i] ELSE t[i - Len(s)]
      BY ConcatProperties
    <3>2. /\ Len(s) \in Nat /\ Len(t) \in Nat /\ DOMAIN s = 1..Len(s)
          /\ DOMAIN t = 1..Len(t) /\ DOMAIN (s \o t) = 1..(Len(s) + Len(t))
      BY <3>1
    <3>3. ASSUME NEW i \in 1..(Len(s) + Len(t))  PROVE (s \o t)[i][1] # c
      <4>1. CASE i <= Len(s)  BY <2>5, <3>1, <3>2, <4>1
      <4>2. CASE ~(i <= Len(s))
        <5>1. i - Len(s) \in DOMAIN t /\ (s \o t)[i] = t[i - Len(s)]  BY <3>1, <3>2, <4>2
        <5> QED  BY <2>5, <5>1
      <4> QED  BY <4>1, <4>2
    <3> QED  BY <3>1, <3>2, <3>3
  <2> HIDE DEF NotOf
  <2>6. NotOf(sunk \o flushing \o pending)  BY <2>3, <2>4, <2>5
  <2> QED  BY <2>2, <2>6 DEF NotOf
<1> QED  BY <1>1, <1>2, <1>3 DEF AnswerStands

(* AnswerStands of ToolPipeline where every listener calls next, once:     *)
(* with one call at a time its answer comes from its own body and          *)
(* listeners, and one Block among them is final.                           *)
THEOREM ToolAnswerStands ==
  ASSUME \A e \in Environments : "veto" \notin e /\ "twice" \notin e
  PROVE  Spec => []AnswerStands
<1>1. Init => TypeInv /\ LockInv /\ OwnInv  BY InitTyped, LockInit, InitOwn
<1>2. TypeInv /\ LockInv /\ OwnInv /\ [Next]_vars => (TypeInv /\ LockInv /\ OwnInv)'
  BY SafeStep, OwnStep
<1> QED  BY <1>1, <1>2, OwnStands, PTL DEF Spec

----------------------------------------------------------------------------
(***************************************************************************)
(* ModelStream                                                             *)
(***************************************************************************)

StreamSpec == ModelInit /\ [][ModelNext]_modelVars

JoinFold == INSTANCE FoldFacts WITH Op <- Join

Said      == Seq(STRING)
UsageOf   == [uncached : Nat, reads : Nat, output : Nat, reasoning : Nat]
BlockKind == OneBlock \cup {"tool_call"}
SeamEvent ==
  { ev \in [e : EventName, at : Int,
            kind : BlockKind \cup {""}, call : Nat, said : Said,
            usage : SUBSET UsageOf, code : EventCode] : ev.e # "usage" => ev.usage = {} }

(* The text of block i so far, as the consumer puts it together.           *)
TextOf(out, i) == FoldLeft(Join, <<>>, Fragments(out, i))

(* Block i was not heard of; it is open, as kind, with the text w; it was  *)
(* started once, grew and was ended once, with its text.                   *)
BlockNew(out, i) == \A k \in DOMAIN out : out[k].at # i
BlockOpen(out, i, kind, w) ==
  \E a \in DOMAIN out :
    /\ out[a].e = "start" /\ out[a].at = i /\ out[a].kind = kind /\ TextOf(out, i) = w
    /\ \A k \in DOMAIN out : k # a /\ out[k].at = i => out[k].e = "delta" /\ a < k
BlockShut(out, i) ==
  \E a, z \in DOMAIN out :
    /\ out[a].e = "start" /\ out[a].at = i /\ out[z].e = "end" /\ out[z].at = i /\ a < z
    /\ out[a].kind = out[z].kind /\ out[z].said = TextOf(out, i)
    /\ \A k \in DOMAIN out : k \notin {a, z} /\ out[k].at = i => out[k].e = "delta" /\ a < k /\ k < z

LEMMA JoinIs == ASSUME NEW base, NEW f PROVE JoinFold!Folded(base, f) = FoldLeft(Join, base, f)
BY DEF JoinFold!Folded, JoinFold!FoldLeft, JoinFold!MapThenFoldSet, JoinFold!Max,
       FoldLeft, MapThenFoldSet, Max

(* Where the elements of a concatenation come from.                        *)
LEMMA ConcatParts ==
  ASSUME NEW S, NEW s \in Seq(S), NEW t \in Seq(S)
  PROVE  /\ s \o t \in Seq(S) /\ Len(s \o t) = Len(s) + Len(t)
         /\ \A k \in DOMAIN s : k \in DOMAIN (s \o t) /\ (s \o t)[k] = s[k]
         /\ \A j \in DOMAIN t : Len(s) + j \in DOMAIN (s \o t) /\ (s \o t)[Len(s) + j] = t[j]
         /\ \A k \in DOMAIN (s \o t) : k \notin DOMAIN s => \E j \in DOMAIN t : k = Len(s) + j
<1>1. /\ Len(s) \in Nat /\ Len(t) \in Nat /\ DOMAIN s = 1..Len(s) /\ DOMAIN t = 1..Len(t)
      /\ s \o t \in Seq(S) /\ Len(s \o t) = Len(s) + Len(t)
  OBVIOUS
<1>2. DOMAIN (s \o t) = 1..(Len(s) + Len(t))
  OBVIOUS
<1>3. \A k \in DOMAIN s : k \in DOMAIN (s \o t) /\ (s \o t)[k] = s[k]
  BY <1>1, <1>2
<1>4. ASSUME NEW j \in DOMAIN t
      PROVE  Len(s) + j \in DOMAIN (s \o t) /\ (s \o t)[Len(s) + j] = t[j]
  BY <1>1, <1>2
<1>5. ASSUME NEW k \in DOMAIN (s \o t), k \notin DOMAIN s
      PROVE  \E j \in DOMAIN t : k = Len(s) + j
  <2>1. k - Len(s) \in DOMAIN t /\ k = Len(s) + (k - Len(s))
    BY <1>1, <1>2, <1>5
  <2> QED BY <2>1
<1> QED BY <1>1, <1>3, <1>4, <1>5

(* The fields of an event of the seam.                                     *)
LEMMA EventFields ==
  ASSUME NEW ev \in SeamEvent
  PROVE  /\ ev.at \in Int /\ ev.call \in Nat
         /\ ev.said \in Said /\ ev.usage \subseteq UsageOf
         /\ ev.e # "usage" => ev.usage = {}
<1> HIDE DEF Said, UsageOf
<1> QED BY DEF SeamEvent, EventName

LEMMA FragmentsTyped ==
  ASSUME NEW out \in Seq(SeamEvent), NEW i
  PROVE  Fragments(out, i) \in Seq(Said) /\ DOMAIN Fragments(out, i) = DOMAIN out
<1>1. \A k \in DOMAIN out : out[k].said \in Said
  <2>1. \A k \in DOMAIN out : out[k] \in SeamEvent
    OBVIOUS
  <2> QED BY <2>1, EventFields
<1>2. <<>> \in Said
  BY DEF Said
<1>3. DOMAIN out = 1..Len(out) /\ Len(out) \in Nat
  OBVIOUS
<1> QED BY <1>1, <1>2, <1>3 DEF Fragments

LEMMA JoinTyped ==
  ASSUME NEW w \in Said, NEW f \in Seq(Said)
  PROVE  FoldLeft(Join, w, f) \in Said
<1>1. \A d \in Said, x \in Said : Join(d, x) \in Said
  BY DEF Join, Said
<1>2. JoinFold!Folded(w, f) \in Said
  BY <1>1, JoinFold!FoldStaysIn
<1> QED BY <1>2, JoinIs

LEMMA TextTyped ==
  ASSUME NEW out \in Seq(SeamEvent), NEW i
  PROVE  TextOf(out, i) \in Said
<1>1. <<>> \in Said
  BY DEF Said
<1> QED BY <1>1, FragmentsTyped, JoinTyped DEF TextOf

(* Nothing is joined by fragments that are empty.                          *)
LEMMA JoinNothing ==
  ASSUME NEW w \in Said, NEW f \in Seq({<<>>})
  PROVE  FoldLeft(Join, w, f) = w
<1>1. \A d \in {w}, x \in {<<>>} : Join(d, x) \in {w}
  BY DEF Join, Said
<1>2. JoinFold!Folded(w, f) \in {w}
  <2>1. w \in {w}
    OBVIOUS
  <2> QED BY <1>1, <2>1, JoinFold!FoldStaysIn
<1> QED BY <1>2, JoinIs

LEMMA NoFragments ==
  ASSUME NEW es \in Seq(SeamEvent), NEW i,
         \A k \in DOMAIN es : ~(es[k].e = "delta" /\ es[k].at = i)
  PROVE  Fragments(es, i) \in Seq({<<>>})
<1>1. DOMAIN es = 1..Len(es) /\ Len(es) \in Nat
  OBVIOUS
<1> QED BY <1>1 DEF Fragments

LEMMA FragmentsOfConcat ==
  ASSUME NEW out \in Seq(SeamEvent), NEW es \in Seq(SeamEvent), NEW i
  PROVE  Fragments(out \o es, i) = Fragments(out, i) \o Fragments(es, i)
<1> DEFINE u == out \o es
           f == Fragments(out, i)
           g == Fragments(es, i)
<1>1. f \in Seq(Said) /\ g \in Seq(Said) /\ Fragments(u, i) \in Seq(Said)
  BY FragmentsTyped, ConcatParts
<1>2. /\ Len(f) = Len(out) /\ Len(g) = Len(es) /\ Len(Fragments(u, i)) = Len(out) + Len(es)
      /\ Len(out) \in Nat /\ Len(es) \in Nat
  <2>1. u \in Seq(SeamEvent) /\ Len(u) = Len(out) + Len(es) /\ Len(out) \in Nat /\ Len(es) \in Nat
    OBVIOUS
  <2>2. DOMAIN f = DOMAIN out /\ DOMAIN g = DOMAIN es /\ DOMAIN Fragments(u, i) = DOMAIN u
    BY <2>1, FragmentsTyped
  <2> HIDE DEF f, g, u
  <2> QED BY <1>1, <2>1, <2>2
<1>3. ASSUME NEW k \in 1..(Len(out) + Len(es)) PROVE Fragments(u, i)[k] = (f \o g)[k]
  <2>1. CASE k \in DOMAIN out
    BY <1>1, <1>2, <2>1, ConcatParts DEF Fragments
  <2>2. CASE k \notin DOMAIN out
    <3>1. PICK j \in DOMAIN es : k = Len(out) + j
      <4>1. k - Len(out) \in DOMAIN es /\ k = Len(out) + (k - Len(out))
        BY <1>2, <2>2, <1>3
      <4> QED BY <4>1
    <3>2. u[k] = es[j] /\ k \in DOMAIN u
      BY <3>1, ConcatParts
    <3>3. (f \o g)[k] = g[j]
      BY <1>1, <1>2, <3>1
    <3> QED BY <3>2, <3>3, <3>1 DEF Fragments
  <2> QED BY <2>1, <2>2
<1> HIDE DEF f, g, u
<1>4. f \o g \in Seq(Said) /\ Len(f \o g) = Len(out) + Len(es)
  <2>1. f \o g \in Seq(Said) /\ Len(f \o g) = Len(f) + Len(g)
    BY <1>1, ConcatParts
  <2> QED BY <1>2, <2>1
<1>5. Fragments(u, i) = f \o g
  BY <1>1, <1>2, <1>3, <1>4, SeqEqual
<1> QED BY <1>5 DEF f, g, u

LEMMA TextKept ==
  ASSUME NEW out \in Seq(SeamEvent), NEW es \in Seq(SeamEvent), NEW i,
         \A k \in DOMAIN es : ~(es[k].e = "delta" /\ es[k].at = i)
  PROVE  TextOf(out \o es, i) = TextOf(out, i)
<1> DEFINE f == Fragments(out, i)
           g == Fragments(es, i)
<1>1. f \in Seq(Said) /\ g \in Seq(Said) /\ g \in Seq({<<>>})
  BY FragmentsTyped, NoFragments
<1>2. TextOf(out \o es, i) = FoldLeft(Join, <<>>, f \o g)
  BY FragmentsOfConcat DEF TextOf
<1>3. TextOf(out, i) = FoldLeft(Join, <<>>, f) /\ TextOf(out, i) \in Said
  BY TextTyped DEF TextOf
<1> HIDE DEF f, g
<1>4. JoinFold!Folded(<<>>, f \o g) = JoinFold!Folded(JoinFold!Folded(<<>>, f), g)
  BY <1>1, JoinFold!FoldOfConcat
<1>5. FoldLeft(Join, <<>>, f \o g) = FoldLeft(Join, FoldLeft(Join, <<>>, f), g)
  BY <1>4, JoinIs
<1> QED BY <1>1, <1>2, <1>3, <1>5, JoinNothing

LEMMA TextGrows ==
  ASSUME NEW out \in Seq(SeamEvent), NEW i, NEW ev \in SeamEvent, ev.e = "delta", ev.at = i
  PROVE  TextOf(out \o <<ev>>, i) = TextOf(out, i) \o ev.said
<1> DEFINE f == Fragments(out, i)
<1>1. f \in Seq(Said) /\ <<ev>> \in Seq(SeamEvent) /\ ev.said \in Said
  BY FragmentsTyped, EventFields
<1>2. Fragments(<<ev>>, i) = <<ev.said>>
  BY DEF Fragments
<1>3. TextOf(out \o <<ev>>, i) = FoldLeft(Join, <<>>, f \o <<ev.said>>)
  BY <1>1, <1>2, FragmentsOfConcat, ZenonT(30) DEF TextOf
<1>4. TextOf(out, i) = FoldLeft(Join, <<>>, f)
  BY DEF TextOf
<1> HIDE DEF f
<1>5. f \o <<ev.said>> = Append(f, ev.said)
  BY <1>1
<1>6. JoinFold!Folded(<<>>, Append(f, ev.said)) = Join(JoinFold!Folded(<<>>, f), ev.said)
  BY <1>1, JoinFold!FoldOfAppend
<1> QED BY <1>3, <1>4, <1>5, <1>6, JoinIs DEF Join

----------------------------------------------------------------------------
(* How the story of a block goes on.                                       *)

LEMMA BlockKept ==
  ASSUME NEW out \in Seq(SeamEvent), NEW es \in Seq(SeamEvent), NEW i, BlockNew(es, i)
  PROVE  /\ BlockNew(out, i) => BlockNew(out \o es, i)
         /\ \A kind, w : BlockOpen(out, i, kind, w) => BlockOpen(out \o es, i, kind, w)
         /\ BlockShut(out, i) => BlockShut(out \o es, i)
<1> DEFINE u == out \o es
<1>1. TextOf(u, i) = TextOf(out, i)
  BY TextKept DEF BlockNew
<1>2. /\ \A k \in DOMAIN out : k \in DOMAIN u /\ u[k] = out[k]
      /\ \A k \in DOMAIN u : u[k].at = i => k \in DOMAIN out
  <2>1. \A k \in DOMAIN out : k \in DOMAIN u /\ u[k] = out[k]
    BY ConcatParts
  <2>2. ASSUME NEW k \in DOMAIN u, k \notin DOMAIN out PROVE u[k].at # i
    <3>1. PICK j \in DOMAIN es : k = Len(out) + j
      BY <2>2, ConcatParts
    <3>2. u[k] = es[j]
      BY <3>1, ConcatParts
    <3> QED BY <3>2 DEF BlockNew
  <2> QED BY <2>1, <2>2
<1> HIDE DEF u
<1>3. BlockNew(out, i) => BlockNew(u, i)
  BY <1>2 DEF BlockNew
<1>4. ASSUME NEW kind, NEW w, BlockOpen(out, i, kind, w) PROVE BlockOpen(u, i, kind, w)
  BY <1>1, <1>2, <1>4 DEF BlockOpen
<1>5. BlockShut(out, i) => BlockShut(u, i)
  BY <1>1, <1>2 DEF BlockShut
<1> QED BY <1>3, <1>4, <1>5 DEF u

LEMMA BlockStarts ==
  ASSUME NEW out \in Seq(SeamEvent), NEW i, BlockNew(out, i),
         NEW ev \in SeamEvent, ev.e = "start", ev.at = i
  PROVE  BlockOpen(out \o <<ev>>, i, ev.kind, <<>>)
<1> DEFINE u == out \o <<ev>>
<1>1. TextOf(u, i) = <<>>
  <2>1. /\ u \in Seq(SeamEvent) /\ Len(u) = Len(out) + 1 /\ Len(out) \in Nat
        /\ \A k \in DOMAIN u : (k \in DOMAIN out /\ u[k] = out[k]) \/ u[k] = ev
    OBVIOUS
  <2> HIDE DEF u
  <2>2. Fragments(u, i) \in Seq({<<>>})
    BY <2>1, NoFragments DEF BlockNew
  <2>3. <<>> \in Said
    BY DEF Said
  <2> QED BY <2>2, <2>3, JoinNothing DEF TextOf
<1>2. /\ Len(out) + 1 \in DOMAIN u /\ u[Len(out) + 1] = ev
      /\ \A k \in DOMAIN u : k # Len(out) + 1 => k \in DOMAIN out /\ u[k] = out[k]
  OBVIOUS
<1> HIDE DEF u
<1> QED BY <1>1, <1>2 DEF BlockNew, BlockOpen, u

LEMMA BlockGrows ==
  ASSUME NEW out \in Seq(SeamEvent), NEW i, NEW kind, NEW w, BlockOpen(out, i, kind, w),
         NEW ev \in SeamEvent, ev.e = "delta", ev.at = i
  PROVE  BlockOpen(out \o <<ev>>, i, kind, w \o ev.said)
<1> DEFINE u == out \o <<ev>>
<1>1. TextOf(u, i) = TextOf(out, i) \o ev.said
  BY TextGrows
<1>2. /\ Len(out) + 1 \in DOMAIN u /\ u[Len(out) + 1] = ev /\ Len(out) \in Nat
      /\ \A k \in DOMAIN out : k \in DOMAIN u /\ u[k] = out[k] /\ k \in Nat /\ k < Len(out) + 1
      /\ \A k \in DOMAIN u : k # Len(out) + 1 => k \in DOMAIN out
  OBVIOUS
<1> HIDE DEF u
<1> QED BY <1>1, <1>2, ZenonT(30) DEF BlockOpen, u

LEMMA BlockEnds ==
  ASSUME NEW out \in Seq(SeamEvent), NEW es \in Seq(SeamEvent), NEW i,
         NEW j \in DOMAIN es, es[j].e = "end", es[j].at = i,
         BlockOpen(out, i, es[j].kind, es[j].said),
         \A k \in DOMAIN es : k # j => es[k].at # i
  PROVE  BlockShut(out \o es, i)
<1> DEFINE u == out \o es
           z == Len(out) + j
<1>1. TextOf(u, i) = TextOf(out, i)
  BY TextKept
<1>2. /\ \A k \in DOMAIN out : k \in DOMAIN u /\ u[k] = out[k] /\ k < z
      /\ z \in DOMAIN u /\ u[z] = es[j] /\ z \notin DOMAIN out
      /\ \A k \in DOMAIN u : u[k].at = i /\ k # z => k \in DOMAIN out
  <2>1. \A k \in DOMAIN out : k \in DOMAIN u /\ u[k] = out[k]
    BY ConcatParts
  <2>2. z \in DOMAIN u /\ u[z] = es[j]
    BY ConcatParts
  <2>3. z \notin DOMAIN out /\ \A k \in DOMAIN out : k < z
    OBVIOUS
  <2>4. ASSUME NEW k \in DOMAIN u, k \notin DOMAIN out, k # z PROVE u[k].at # i
    <3>1. PICK m \in DOMAIN es : k = Len(out) + m
      BY <2>4, ConcatParts
    <3>2. u[k] = es[m] /\ m # j
      BY <2>4, <3>1, ConcatParts, SMTT(30)
    <3> QED BY <3>2
  <2> QED BY <2>1, <2>2, <2>3, <2>4
<1> HIDE DEF u, z
<1>3. PICK a \in DOMAIN out :
        /\ out[a].e = "start" /\ out[a].at = i /\ out[a].kind = es[j].kind /\ TextOf(out, i) = es[j].said
        /\ \A k \in DOMAIN out : k # a /\ out[k].at = i => out[k].e = "delta" /\ a < k
  BY DEF BlockOpen
<1>4. a \in DOMAIN u /\ u[a] = out[a] /\ a < z
  BY <1>2
<1>5. \A k \in DOMAIN u : k \notin {a, z} /\ u[k].at = i => u[k].e = "delta" /\ a < k /\ k < z
  BY <1>2, <1>3
<1> QED BY <1>1, <1>2, <1>3, <1>4, <1>5 DEF BlockShut, u

(* The story of a block is sound as long as it is open, and once it ended. *)
LEMMA StoryIsSound ==
  ASSUME NEW out \in Seq(SeamEvent), NEW i,
         BlockShut(out, i) \/ \E kind, w : BlockOpen(out, i, kind, w)
  PROVE  BlockIsSound(out, i)
<1> DEFINE starts == { k \in DOMAIN out : out[k].e = "start" /\ out[k].at = i }
           deltas == { k \in DOMAIN out : out[k].e = "delta" /\ out[k].at = i }
           ends   == { k \in DOMAIN out : out[k].e = "end" /\ out[k].at = i }
<1>1. ASSUME \/ \E a \in DOMAIN out : starts = {a} /\ ends = {}
             \/ \E a, z \in DOMAIN out :
                  /\ starts = {a} /\ ends = {z} /\ a < z /\ out[a].kind = out[z].kind
                  /\ out[z].said = TextOf(out, i) /\ \A d \in deltas : a < d /\ d < z
      PROVE  BlockIsSound(out, i)
  <2> HIDE DEF starts, deltas, ends
  <2>1. \A a : Cardinality({a}) = 1
    BY FS_Singleton
  <2>2. Cardinality({}) = 0
    BY FS_EmptySet
  <2>3. Cardinality(starts) = 1 /\ Cardinality(ends) <= 1
    <3>1. PICK a : starts = {a}
      BY <1>1
    <3>2. ends = {} \/ \E z : ends = {z}
      BY <1>1
    <3>3. Cardinality(ends) = 0 \/ Cardinality(ends) = 1
      BY <2>1, <2>2, <3>2
    <3>4. Cardinality({a}) = 1
      BY <2>1
    <3>5. Cardinality(starts) = 1
      BY <3>1, <3>4
    <3> QED BY <3>3, <3>5
  <2>4. \A a \in starts, d \in deltas, z \in ends : a < d /\ d < z /\ out[z].said = TextOf(out, i)
    BY <1>1
  <2>5. \A a \in starts, z \in ends : a < z /\ out[a].kind = out[z].kind
    BY <1>1
  <2> QED BY <2>3, <2>4, <2>5 DEF BlockIsSound, Positions, TextOf, starts, deltas, ends
<1>2. CASE BlockShut(out, i)
  <2>1. PICK a, z \in DOMAIN out :
          /\ out[a].e = "start" /\ out[a].at = i /\ out[z].e = "end" /\ out[z].at = i /\ a < z
          /\ out[a].kind = out[z].kind /\ out[z].said = TextOf(out, i)
          /\ \A k \in DOMAIN out : k \notin {a, z} /\ out[k].at = i => out[k].e = "delta" /\ a < k /\ k < z
    BY <1>2 DEF BlockShut
  <2>2. starts = {a} /\ ends = {z} /\ \A d \in deltas : a < d /\ d < z
    BY <2>1
  <2> HIDE DEF starts, deltas, ends
  <2> QED BY <1>1, <2>1, <2>2
<1>3. CASE \E kind, w : BlockOpen(out, i, kind, w)
  <2>1. PICK a \in DOMAIN out :
          /\ out[a].e = "start" /\ out[a].at = i
          /\ \A k \in DOMAIN out : k # a /\ out[k].at = i => out[k].e = "delta" /\ a < k
    BY <1>3 DEF BlockOpen
  <2>2. starts = {a} /\ ends = {}
    BY <2>1
  <2> HIDE DEF starts, deltas, ends
  <2> QED BY <1>1, <2>2
<1> QED BY <1>2, <1>3

StrictOrder(S, R) ==
  /\ \A x \in S : <<x, x>> \notin R
  /\ \A x, y \in S : x # y => <<x, y>> \in R \/ <<y, x>> \in R
  /\ \A x, y, z \in S : <<x, y>> \in R /\ <<y, z>> \in R => <<x, z>> \in R

(* A finite set, listed in a strict total order.                           *)
LEMMA RankedLists ==
  ASSUME NEW S, IsFiniteSet(S), NEW R,
         StrictOrder(S, R)
  PROVE  /\ Ranked(S, R) \in Seq(S) /\ DOMAIN Ranked(S, R) = 1..Cardinality(S)
         /\ \A x \in S : \E i \in DOMAIN Ranked(S, R) : Ranked(S, R)[i] = x
         /\ \A i, j \in DOMAIN Ranked(S, R) : Ranked(S, R)[i] = Ranked(S, R)[j] => i = j
<1> DEFINE n == Cardinality(S)
           Below(x) == { y \in S : <<y, x>> \in R }
           I == 0..(n-1)
           f == [x \in S |-> Cardinality(Below(x))]
<1>1. n \in Nat
  BY FS_CardinalityType
<1>2. /\ \A x \in S : <<x, x>> \notin R
      /\ \A x, y \in S : x # y => <<x, y>> \in R \/ <<y, x>> \in R
      /\ \A x, y, z \in S : <<x, y>> \in R /\ <<y, z>> \in R => <<x, z>> \in R
  <2> HIDE DEF n, Below, I, f
  <2> QED BY DEF StrictOrder
<1>3. ASSUME NEW x \in S PROVE IsFiniteSet(Below(x)) /\ Cardinality(Below(x)) \in I
  <2>1. Below(x) \in SUBSET S /\ x \notin Below(x)
    BY <1>3, <1>2
  <2> HIDE DEF Below
  <2>2. IsFiniteSet(Below(x)) /\ Cardinality(Below(x)) <= n /\ (Cardinality(Below(x)) = n => Below(x) = S)
    BY <2>1, FS_Subset
  <2>3. Cardinality(Below(x)) \in Nat
    BY <2>2, FS_CardinalityType
  <2>4. Cardinality(Below(x)) # n
    BY <2>1, <2>2, <1>3
  <2> HIDE DEF n
  <2> QED BY <1>1, <2>2, <2>3, <2>4
<1>4. ASSUME NEW x \in S, NEW y \in S, <<x, y>> \in R PROVE Cardinality(Below(x)) < Cardinality(Below(y))
  <2>1. Below(x) \in SUBSET Below(y) /\ x \in Below(y) /\ x \notin Below(x)
    <3>1. /\ \A z \in S : <<z, x>> \in R => <<z, y>> \in R
          /\ <<x, x>> \notin R
      <4> HIDE DEF f, Below
      <4> QED BY <1>4, <1>2
    <3> QED BY <1>4, <3>1
  <2>2. IsFiniteSet(Below(y))
    BY <1>3
  <2> HIDE DEF Below
  <2>3. /\ Cardinality(Below(x)) <= Cardinality(Below(y))
        /\ Cardinality(Below(y)) = Cardinality(Below(x)) => Below(y) = Below(x)
    BY <2>1, <2>2, FS_Subset
  <2>4. Cardinality(Below(x)) # Cardinality(Below(y))
    BY <2>1, <2>3
  <2>5. Cardinality(Below(x)) \in Nat /\ Cardinality(Below(y)) \in Nat
    BY <1>3
  <2> QED BY <2>3, <2>4, <2>5
<1>5. f \in [S -> I]
  BY <1>3
<1>6. \A x, y \in S : f[x] = f[y] => x = y
  <2> SUFFICES ASSUME NEW x \in S, NEW y \in S, x # y PROVE f[x] # f[y]
    OBVIOUS
  <2>1. <<x, y>> \in R \/ <<y, x>> \in R
    <3> HIDE DEF f, Below
    <3> QED BY <1>2
  <2>2. Cardinality(Below(x)) \in Nat /\ Cardinality(Below(y)) \in Nat
    <3> HIDE DEF f, Below, n
    <3> QED BY <1>1, <1>3
  <2>3. Cardinality(Below(x)) # Cardinality(Below(y))
    <3> HIDE DEF Below
    <3> QED BY <2>1, <2>2, <1>4
  <2> QED BY <2>3
<1>7. IsFiniteSet(I) /\ Cardinality(I) = n
  <2>1. 0 \in Int /\ n - 1 \in Int
    BY <1>1
  <2> HIDE DEF n
  <2>2. IsFiniteSet(0..(n-1)) /\ Cardinality(0..(n-1)) = IF 0 > n - 1 THEN 0 ELSE n - 1 - 0 + 1
    BY <2>1, FS_Interval
  <2> QED BY <1>1, <2>2
<1>8. f \in Surjection(S, I)
  <2>1. f \in Injection(S, I)
    <3> HIDE DEF f, I
    <3> QED BY <1>5, <1>6 DEF Injection, IsInjective
  <2> HIDE DEF f, I
  <2> QED BY <2>1, <1>7, FS_Injection
<1> DEFINE g == Ranked(S, R)
<1>9. ASSUME NEW i \in 1..n
      PROVE  g[i] \in S /\ f[g[i]] = i - 1
  <2>1. i - 1 \in I
    BY <1>1
  <2>2. PICK x \in S : f[x] = i - 1
    <3> HIDE DEF f, I
    <3> QED BY <2>1, <1>8 DEF Surjection
  <2>3. Cardinality({ y \in S : <<y, x>> \in R }) = i - 1
    BY <2>2
  <2>4. g[i] = CHOOSE z \in S : Cardinality({ y \in S : <<y, z>> \in R }) = i - 1
    BY DEF Ranked
  <2>5. g[i] \in S /\ Cardinality({ y \in S : <<y, g[i]>> \in R }) = i - 1
    <3> HIDE DEF g
    <3> QED BY <2>3, <2>4
  <2> HIDE DEF g
  <2> QED BY <2>5
<1> DEFINE e(i) == CHOOSE x \in S : Cardinality({ y \in S : <<y, x>> \in R }) = i - 1
<1>10. g = [i \in 1..n |-> e(i)]
  BY DEF Ranked
<1> HIDE DEF e
<1>11. DOMAIN g = 1..n
  BY <1>10
<1>12. g = [i \in 1..n |-> g[i]]
  BY <1>11, <1>10
<1> HIDE DEF g, n
<1>13. g \in Seq(S)
  <2>1. \A i \in 1..n : g[i] \in S
    BY <1>9
  <2> HIDE DEF f
  <2> QED BY <1>1, <1>12, <2>1
<1>14. ASSUME NEW x \in S PROVE \E i \in 1..n : g[i] = x
  <2>1. f[x] \in I /\ f[x] \in Int
    BY <1>5, <1>1
  <2>2. f[x] + 1 \in 1..n /\ (f[x] + 1) - 1 = f[x]
    <3> HIDE DEF f
    <3> QED BY <2>1, <1>1
  <2> HIDE DEF f, I
  <2>3. g[f[x] + 1] \in S /\ f[g[f[x] + 1]] = f[x]
    BY <2>2, <1>9
  <2> QED BY <2>2, <2>3, <1>6
<1>15. ASSUME NEW i \in 1..n, NEW j \in 1..n, g[i] = g[j] PROVE i = j
  <2> HIDE DEF f
  <2>1. f[g[i]] = i - 1 /\ f[g[j]] = j - 1
    BY <1>9
  <2> HIDE DEF g
  <2>2. f[g[i]] = f[g[j]]
    BY <1>15
  <2>3. i \in Int /\ j \in Int
    BY <1>1
  <2>4. i - 1 = j - 1 /\ i \in Int /\ j \in Int
    BY <2>1, <2>2, <2>3
  <2> QED BY <2>4
<1> DEFINE Found   == \A x \in S : \E i \in DOMAIN g : g[i] = x
           OnlyOnce == \A i, j \in DOMAIN g : g[i] = g[j] => i = j
<1>16. Found /\ OnlyOnce
  BY <1>11, <1>14, <1>15
<1> HIDE DEF Found, OnlyOnce
<1> QED BY <1>11, <1>13, <1>16 DEF g, n, Found, OnlyOnce

(* A finite set of numbers, listed in ascending order.                     *)
LEMMA AscendingLists ==
  ASSUME NEW S, IsFiniteSet(S), S \subseteq Nat
  PROVE  /\ Ascending(S) \in Seq(S) /\ DOMAIN Ascending(S) = 1..Cardinality(S)
         /\ \A x \in S : \E i \in DOMAIN Ascending(S) : Ascending(S)[i] = x
         /\ \A i, j \in DOMAIN Ascending(S) : Ascending(S)[i] = Ascending(S)[j] => i = j
<1> DEFINE R == { p \in S \X S : p[1] < p[2] }
<1>1. \A x, y \in S : <<x, y>> \in R <=> x < y
  OBVIOUS
<1> HIDE DEF R
<1>2. \A x, y, z \in S : x \in Nat /\ y \in Nat /\ z \in Nat
  OBVIOUS
<1>3. \A x \in S : <<x, x>> \notin R
  BY <1>1, <1>2
<1>4. \A x, y \in S : x # y => <<x, y>> \in R \/ <<y, x>> \in R
  BY <1>1, <1>2
<1>5. \A x, y, z \in S : <<x, y>> \in R /\ <<y, z>> \in R => <<x, z>> \in R
  BY <1>1, <1>2
<1>6. Ascending(S) = Ranked(S, R)
  BY DEF Ascending, R
<1>7. StrictOrder(S, R)
  BY <1>3, <1>4, <1>5 DEF StrictOrder
<1> QED BY <1>6, <1>7, RankedLists

(* The events a decoder makes.                                             *)
LEMMA StartIs ==
  ASSUME NEW i, NEW kind
  PROVE  /\ i \in Int /\ kind \in BlockKind => Start(i, kind) \in SeamEvent
         /\ Start(i, kind).e = "start"
         /\ Start(i, kind).at = i
         /\ Start(i, kind).kind = kind
         /\ Start(i, kind).usage = {}
<1>1. /\ Start(i, kind).e = "start"
      /\ Start(i, kind).at = i
      /\ Start(i, kind).kind = kind
      /\ Start(i, kind).usage = {}
  BY DEF Start, NoEvent
<1>2. {} \in SUBSET UsageOf /\ 0 \in Nat /\ <<>> \in Said /\ NoIndex \in Int
  BY DEF Said, NoIndex
<1>3. i \in Int /\ kind \in BlockKind => Start(i, kind) \in SeamEvent
  <2> HIDE DEF Said, UsageOf
  <2> QED BY <1>2 DEF Start, NoEvent, SeamEvent, EventName, BlockKind, OneBlock, EventCode
<1> QED BY <1>1, <1>3

LEMMA DeltaIs ==
  ASSUME NEW i, NEW kind, NEW call, NEW w
  PROVE  /\ i \in Int /\ kind \in BlockKind /\ call \in Nat /\ w \in Said => Delta(i, kind, call, w) \in SeamEvent
         /\ Delta(i, kind, call, w).e = "delta"
         /\ Delta(i, kind, call, w).at = i
         /\ Delta(i, kind, call, w).said = w
         /\ Delta(i, kind, call, w).usage = {}
<1>1. /\ Delta(i, kind, call, w).e = "delta"
      /\ Delta(i, kind, call, w).at = i
      /\ Delta(i, kind, call, w).said = w
      /\ Delta(i, kind, call, w).usage = {}
  BY DEF Delta, NoEvent
<1>2. {} \in SUBSET UsageOf /\ 0 \in Nat /\ <<>> \in Said /\ NoIndex \in Int
  BY DEF Said, NoIndex
<1>3. i \in Int /\ kind \in BlockKind /\ call \in Nat /\ w \in Said => Delta(i, kind, call, w) \in SeamEvent
  <2> HIDE DEF Said, UsageOf
  <2> QED BY <1>2 DEF Delta, NoEvent, SeamEvent, EventName, BlockKind, OneBlock, EventCode
<1> QED BY <1>1, <1>3

LEMMA EndIs ==
  ASSUME NEW i, NEW kind, NEW w
  PROVE  /\ i \in Int /\ kind \in BlockKind /\ w \in Said => End(i, kind, w) \in SeamEvent
         /\ End(i, kind, w).e = "end"
         /\ End(i, kind, w).at = i
         /\ End(i, kind, w).kind = kind
         /\ End(i, kind, w).said = w
         /\ End(i, kind, w).usage = {}
<1>1. /\ End(i, kind, w).e = "end"
      /\ End(i, kind, w).at = i
      /\ End(i, kind, w).kind = kind
      /\ End(i, kind, w).said = w
      /\ End(i, kind, w).usage = {}
  BY DEF End, NoEvent
<1>2. {} \in SUBSET UsageOf /\ 0 \in Nat /\ <<>> \in Said /\ NoIndex \in Int
  BY DEF Said, NoIndex
<1>3. i \in Int /\ kind \in BlockKind /\ w \in Said => End(i, kind, w) \in SeamEvent
  <2> HIDE DEF Said, UsageOf
  <2> QED BY <1>2 DEF End, NoEvent, SeamEvent, EventName, BlockKind, OneBlock, EventCode
<1> QED BY <1>1, <1>3

LEMMA UsageFrameIs ==
  ASSUME NEW u
  PROVE  /\ u \in UsageOf => UsageFrame(u) \in SeamEvent
         /\ UsageFrame(u).e = "usage"
         /\ UsageFrame(u).at = NoIndex
         /\ UsageFrame(u).usage = {u}
<1>1. /\ UsageFrame(u).e = "usage"
      /\ UsageFrame(u).at = NoIndex
      /\ UsageFrame(u).usage = {u}
  BY DEF UsageFrame, NoEvent
<1>2. {} \in SUBSET UsageOf /\ 0 \in Nat /\ <<>> \in Said /\ NoIndex \in Int
  BY DEF Said, NoIndex
<1>3. u \in UsageOf => UsageFrame(u) \in SeamEvent
  <2> HIDE DEF Said, UsageOf
  <2> QED BY <1>2 DEF UsageFrame, NoEvent, SeamEvent, EventName, BlockKind, OneBlock, EventCode
<1> QED BY <1>1, <1>3

LEMMA FinishIs ==
  /\ Finish \in SeamEvent
  /\ Finish.e = "finish"
  /\ Finish.at = NoIndex
  /\ Finish.usage = {}
<1>1. /\ Finish.e = "finish"
      /\ Finish.at = NoIndex
      /\ Finish.usage = {}
  BY DEF Finish, NoEvent
<1>2. {} \in SUBSET UsageOf /\ 0 \in Nat /\ <<>> \in Said /\ NoIndex \in Int
  BY DEF Said, NoIndex
<1>3. Finish \in SeamEvent
  <2> HIDE DEF Said, UsageOf
  <2> QED BY <1>2 DEF Finish, NoEvent, SeamEvent, EventName, BlockKind, OneBlock, EventCode
<1> QED BY <1>1, <1>3

LEMMA FailedIs ==
  ASSUME NEW code
  PROVE  /\ code \in EventCode => Failed(code) \in SeamEvent
         /\ Failed(code).e = "failed"
         /\ Failed(code).at = NoIndex
         /\ Failed(code).usage = {}
<1>1. /\ Failed(code).e = "failed"
      /\ Failed(code).at = NoIndex
      /\ Failed(code).usage = {}
  BY DEF Failed, NoEvent
<1>2. {} \in SUBSET UsageOf /\ 0 \in Nat /\ <<>> \in Said /\ NoIndex \in Int
  BY DEF Said, NoIndex
<1>3. code \in EventCode => Failed(code) \in SeamEvent
  <2> HIDE DEF Said, UsageOf
  <2> QED BY <1>2 DEF Failed, NoEvent, SeamEvent, EventName, BlockKind, OneBlock, EventCode
<1> QED BY <1>1, <1>3

(* A stream's decoder, and what it has said while blocks are open: every   *)
(* block it keeps is open in the story with the text it keeps, and every   *)
(* block of the story is one of its own.                                   *)
CallState == [at : Nat, call : Nat, args : Said]
IsDecoder(d) ==
  /\ DOMAIN d = {"next", "at", "said", "calls", "nextCall", "usage", "finished"}
  /\ d.next \in Nat /\ d.nextCall \in Nat /\ d.finished \in BOOLEAN
  /\ d.at \in [OneBlock -> Int] /\ d.said \in [OneBlock -> Said]
  /\ IsFiniteSet(DOMAIN d.calls) /\ DOMAIN d.calls \subseteq Nat
  /\ \A x \in DOMAIN d.calls : d.calls[x] \in CallState
  /\ d.usage \subseteq UsageOf /\ \A u, v \in d.usage : u = v

HasBlock(d, i) ==
  (\E kind \in OneBlock : d.at[kind] = i) \/ \E x \in DOMAIN d.calls : d.calls[x].at = i
BlocksOpen(d, out) ==
  \A kind \in OneBlock :
    IF d.at[kind] = NoIndex THEN d.said[kind] = <<>>
    ELSE d.at[kind] \in 0..(d.next - 1) /\ BlockOpen(out, d.at[kind], kind, d.said[kind])
CallsOpen(d, out) ==
  /\ \A x \in DOMAIN d.calls :
       d.calls[x].at < d.next /\ BlockOpen(out, d.calls[x].at, "tool_call", d.calls[x].args)
  /\ \A x, y \in DOMAIN d.calls : d.calls[x].at = d.calls[y].at => x = y
Heard(d, out) ==
  \A k \in DOMAIN out : out[k].e \in {"start", "delta", "end"} /\ out[k].at \in 0..(d.next - 1)

StoryOpen(d, out) ==
  /\ IsDecoder(d) /\ out \in Seq(SeamEvent) /\ ~d.finished
  /\ Heard(d, out) /\ BlocksOpen(d, out) /\ CallsOpen(d, out)
  /\ \A k \in DOMAIN out : HasBlock(d, out[k].at)
StoryShut(d, out) ==
  /\ IsDecoder(d) /\ out \in Seq(SeamEvent) /\ d.finished /\ (HadContent(d) => out # <<>>)
  /\ Heard(d, out) /\ \A k \in DOMAIN out : BlockShut(out, out[k].at)

(* A decoder and the frames it made of a chunk so far, after out.          *)
Going(out, r) == r.frames \in Seq(SeamEvent) /\ StoryOpen(r.dec, out \o r.frames)

LEMMA KindsApart ==
  ASSUME NEW out \in Seq(SeamEvent), NEW i, NEW k1, NEW k2, NEW w1, NEW w2,
         BlockOpen(out, i, k1, w1), BlockOpen(out, i, k2, w2)
  PROVE  k1 = k2 /\ w1 = w2
<1>1. PICK a \in DOMAIN out :
        /\ out[a].e = "start" /\ out[a].at = i /\ out[a].kind = k1 /\ TextOf(out, i) = w1
        /\ \A k \in DOMAIN out : k # a /\ out[k].at = i => out[k].e = "delta"
  BY DEF BlockOpen
<1>2. PICK b \in DOMAIN out :
        /\ out[b].e = "start" /\ out[b].at = i /\ out[b].kind = k2 /\ TextOf(out, i) = w2
  BY DEF BlockOpen
<1> QED BY <1>1, <1>2

(* A block is started if it is new, and is told what is said of it.        *)
TellsOf(u, i, kind, call, w0, w, s1, s2) ==
  /\ u \in Seq(SeamEvent) /\ i \in Nat /\ kind \in BlockKind /\ call \in Nat /\ w0 \in Said /\ w \in Said
  /\ \/ s1 = <<Start(i, kind)>> /\ BlockNew(u, i) /\ w0 = <<>>
     \/ s1 = <<>> /\ BlockOpen(u, i, kind, w0)
  /\ s2 = <<Delta(i, kind, call, w)>> \/ (s2 = <<>> /\ w = <<>>)
Grown(u, es, i, kind, w) ==
  /\ es \in Seq(SeamEvent) /\ BlockOpen(u \o es, i, kind, w)
  /\ \A k \in DOMAIN es : es[k].at = i /\ es[k].e \in {"start", "delta"}

LEMMA BlockGoesOn ==
  ASSUME NEW u, NEW i, NEW kind, NEW call, NEW w0, NEW w, NEW s1, NEW s2,
         TellsOf(u, i, kind, call, w0, w, s1, s2)
  PROVE  s1 \in Seq(SeamEvent) /\ s2 \in Seq(SeamEvent) /\ Grown(u, s1 \o s2, i, kind, w0 \o w)
<1>1. u \in Seq(SeamEvent) /\ i \in Nat /\ kind \in BlockKind /\ call \in Nat /\ w0 \in Said /\ w \in Said
  BY DEF TellsOf
<1> DEFINE st == Start(i, kind)
           dl == Delta(i, kind, call, w)
<1>2. /\ st \in SeamEvent /\ st.e = "start" /\ st.at = i /\ st.kind = kind
      /\ dl \in SeamEvent /\ dl.e = "delta" /\ dl.at = i /\ dl.said = w
  BY <1>1, StartIs, DeltaIs
<1>3. /\ (s1 = <<st>> /\ BlockNew(u, i) /\ w0 = <<>>) \/ (s1 = <<>> /\ BlockOpen(u, i, kind, w0))
      /\ s2 = <<dl>> \/ (s2 = <<>> /\ w = <<>>)
  BY DEF TellsOf
<1> HIDE DEF st, dl
<1>4. /\ s1 \in Seq(SeamEvent) /\ s2 \in Seq(SeamEvent) /\ s1 \o s2 \in Seq(SeamEvent)
      /\ u \o s1 \in Seq(SeamEvent)
  <2>1. <<st>> \in Seq(SeamEvent) /\ <<dl>> \in Seq(SeamEvent) /\ <<>> \in Seq(SeamEvent)
    BY <1>2
  <2>2. s1 \in Seq(SeamEvent) /\ s2 \in Seq(SeamEvent)
    BY <1>3, <2>1, Zenon
  <2> QED BY <1>1, <2>2, ConcatParts
<1>5. BlockOpen(u \o s1, i, kind, w0)
  <2>1. CASE s1 = <<st>> /\ BlockNew(u, i) /\ w0 = <<>>
    BY <1>1, <1>2, <2>1, BlockStarts
  <2>2. CASE s1 = <<>> /\ BlockOpen(u, i, kind, w0)
    <3>1. u \o s1 = u
      BY <1>1, <2>2
    <3> QED BY <2>2, <3>1
  <2> QED BY <1>3, <2>1, <2>2
<1>6. BlockOpen((u \o s1) \o s2, i, kind, w0 \o w)
  <2>1. CASE s2 = <<dl>>
    BY <1>1, <1>2, <1>4, <1>5, <2>1, BlockGrows
  <2>2. CASE s2 = <<>> /\ w = <<>>
    <3>1. w0 \o w = w0
      BY <1>1, <2>2 DEF Said
    <3>2. (u \o s1) \o s2 = u \o s1
      BY <1>1, <1>4, <2>2
    <3> QED BY <1>5, <3>1, <3>2
  <2> QED BY <1>3, <2>1, <2>2
<1>7. (u \o s1) \o s2 = u \o (s1 \o s2)
  BY <1>1, <1>4, ConcatAssociative
<1>8. \A k \in DOMAIN (s1 \o s2) : (s1 \o s2)[k].at = i /\ (s1 \o s2)[k].e \in {"start", "delta"}
  BY <1>2, <1>3
<1> QED BY <1>4, <1>6, <1>7, <1>8 DEF Grown

(* The other blocks do not hear of it.                                     *)
LEMMA OthersKept ==
  ASSUME NEW u \in Seq(SeamEvent), NEW es \in Seq(SeamEvent), NEW i, NEW j, i # j,
         \A k \in DOMAIN es : es[k].at = i
  PROVE  \A kind, w : BlockOpen(u, j, kind, w) => BlockOpen(u \o es, j, kind, w)
<1>1. BlockNew(es, j)
  BY DEF BlockNew
<1> QED BY <1>1, BlockKept

LEMMA HeardOn ==
  ASSUME NEW d, NEW e, NEW u \in Seq(SeamEvent), NEW es \in Seq(SeamEvent), NEW i \in Nat,
         Heard(d, u), d.next \in Nat, e.next \in Nat, d.next <= e.next, i < e.next,
         \A k \in DOMAIN es : es[k].at = i /\ es[k].e \in {"start", "delta"}
  PROVE  /\ Heard(e, u \o es) /\ u \o es \in Seq(SeamEvent)
         /\ \A k \in DOMAIN (u \o es) :
              (u \o es)[k].at = i \/ \E j \in DOMAIN u : (u \o es)[k] = u[j]
<1> DEFINE v == u \o es
<1>1. v \in Seq(SeamEvent)
  BY ConcatParts
<1>2. ASSUME NEW k \in DOMAIN v
      PROVE  \/ \E j \in DOMAIN u : v[k] = u[j]
             \/ v[k].at = i /\ v[k].e \in {"start", "delta"}
  <2>1. CASE k \in DOMAIN u
    BY <2>1, ConcatParts
  <2>2. CASE k \notin DOMAIN u
    <3>1. PICK j \in DOMAIN es : k = Len(u) + j
      BY <2>2, ConcatParts
    <3>2. v[k] = es[j]
      BY <3>1, ConcatParts
    <3> QED BY <3>2
  <2> QED BY <2>1, <2>2
<1> HIDE DEF v
<1>3. \A j \in DOMAIN u : u[j].e \in {"start", "delta", "end"} /\ u[j].at \in 0..(e.next - 1)
  BY DEF Heard
<1>4. Heard(e, v)
  BY <1>2, <1>3 DEF Heard
<1> QED BY <1>1, <1>2, <1>4 DEF v

(* A story goes on by frames of one block.                                 *)
LEMMA StoryGoesOn ==
  ASSUME NEW d, NEW u, StoryOpen(d, u), NEW e, IsDecoder(e), ~e.finished, d.next <= e.next,
         NEW i \in Nat, i < e.next, NEW es \in Seq(SeamEvent),
         \A k \in DOMAIN es : es[k].at = i /\ es[k].e \in {"start", "delta"},
         HasBlock(e, i), \A j \in Nat : HasBlock(d, j) => HasBlock(e, j),
         BlocksOpen(e, u \o es), CallsOpen(e, u \o es)
  PROVE  StoryOpen(e, u \o es)
<1>1. /\ u \in Seq(SeamEvent) /\ Heard(d, u) /\ \A k \in DOMAIN u : HasBlock(d, u[k].at)
      /\ d.next \in Nat /\ e.next \in Nat
  BY DEF StoryOpen, IsDecoder
<1>2. /\ Heard(e, u \o es) /\ u \o es \in Seq(SeamEvent)
      /\ \A k \in DOMAIN (u \o es) :
           (u \o es)[k].at = i \/ \E j \in DOMAIN u : (u \o es)[k] = u[j]
  BY <1>1, HeardOn
<1>3. \A k \in DOMAIN (u \o es) : HasBlock(e, (u \o es)[k].at)
  BY <1>1, <1>2 DEF Heard
<1> QED BY <1>2, <1>3 DEF StoryOpen

(* Frames after frames, after what was told.                               *)
LEMMA ConcatThree ==
  ASSUME NEW S, NEW s \in Seq(S), NEW t \in Seq(S), NEW v \in Seq(S)
  PROVE  s \o t \in Seq(S) /\ t \o v \in Seq(S) /\ (s \o t) \o v = s \o (t \o v)
BY ConcatAssociative

LEMMA FramesAfter ==
  ASSUME NEW out \in Seq(SeamEvent), NEW f \in Seq(SeamEvent),
         NEW a \in Seq(SeamEvent), NEW b \in Seq(SeamEvent), NEW e, StoryOpen(e, (out \o f) \o (a \o b))
  PROVE  Going(out, [dec |-> e, frames |-> f \o a \o b])
<1>1. f \o a \in Seq(SeamEvent) /\ a \o b \in Seq(SeamEvent) /\ (f \o a) \o b = f \o (a \o b)
  BY ConcatThree, SMTT(30)
<1>2. ASSUME NEW g \in Seq(SeamEvent)
      PROVE  f \o g \in Seq(SeamEvent) /\ (out \o f) \o g = out \o (f \o g)
  BY ConcatThree, SMTT(30)
<1>3. f \o a \o b \in Seq(SeamEvent) /\ out \o (f \o a \o b) = (out \o f) \o (a \o b)
  BY <1>1, <1>2
<1> QED BY <1>3 DEF Going

LEMMA FreshIsNew ==
  ASSUME NEW d, NEW u, StoryOpen(d, u)
  PROVE  BlockNew(u, d.next) /\ ~HasBlock(d, d.next)
<1>1. BlockNew(u, d.next)
  BY DEF StoryOpen, Heard, BlockNew, IsDecoder
<1>2. ASSUME NEW kind \in OneBlock PROVE d.at[kind] # d.next
  BY DEF StoryOpen, BlocksOpen, IsDecoder, NoIndex
<1>3. ASSUME NEW x \in DOMAIN d.calls PROVE d.calls[x].at # d.next
  BY DEF StoryOpen, CallsOpen, IsDecoder
<1> QED BY <1>1, <1>2, <1>3 DEF HasBlock

(* What keeps a story going: the decoder becomes e, block i, of that kind,  *)
(* is started if it is new and is told w if anything, and e keeps what the  *)
(* block and the others now are.                                           *)
StillKept(u, v, i) == \A j, kind, w : j # i /\ BlockOpen(u, j, kind, w) => BlockOpen(v, j, kind, w)
Keeps(u, d, e, i, kind, w) ==
  /\ IsDecoder(e) /\ ~e.finished /\ d.next <= e.next /\ i < e.next
  /\ HasBlock(e, i) /\ \A j \in Nat : HasBlock(d, j) => HasBlock(e, j)
  /\ \A v : BlockOpen(v, i, kind, w) /\ StillKept(u, v, i) => BlocksOpen(e, v) /\ CallsOpen(e, v)

LEMMA GrownGoesOn ==
  ASSUME NEW u \in Seq(SeamEvent), NEW d, StoryOpen(d, u), NEW e, NEW i \in Nat, NEW kind, NEW w,
         Keeps(u, d, e, i, kind, w), NEW es, Grown(u, es, i, kind, w)
  PROVE  StoryOpen(e, u \o es)
<1>1. /\ es \in Seq(SeamEvent) /\ BlockOpen(u \o es, i, kind, w)
      /\ \A k \in DOMAIN es : es[k].at = i /\ es[k].e \in {"start", "delta"}
  BY DEF Grown
<1>2. StillKept(u, u \o es, i)
  BY <1>1, OthersKept DEF StillKept
<1>3. BlocksOpen(e, u \o es) /\ CallsOpen(e, u \o es)
  BY <1>1, <1>2 DEF Keeps
<1>4. IsDecoder(e) /\ ~e.finished /\ d.next <= e.next /\ i < e.next /\ HasBlock(e, i)
  BY DEF Keeps
<1>5. \A j \in Nat : HasBlock(d, j) => HasBlock(e, j)
  BY DEF Keeps
<1> QED BY <1>1, <1>3, <1>4, <1>5, StoryGoesOn

LEMMA TellGoesOn ==
  ASSUME NEW out \in Seq(SeamEvent), NEW f \in Seq(SeamEvent), NEW d, StoryOpen(d, out \o f),
         NEW e, NEW i, NEW kind, NEW call, NEW w0, NEW w, NEW s1, NEW s2,
         Keeps(out \o f, d, e, i, kind, w0 \o w), TellsOf(out \o f, i, kind, call, w0, w, s1, s2)
  PROVE  Going(out, [dec |-> e, frames |-> f \o s1 \o s2])
<1>1. out \o f \in Seq(SeamEvent) /\ i \in Nat
  BY DEF TellsOf
<1>2. s1 \in Seq(SeamEvent) /\ s2 \in Seq(SeamEvent) /\ Grown(out \o f, s1 \o s2, i, kind, w0 \o w)
  BY BlockGoesOn
<1>3. StoryOpen(e, (out \o f) \o (s1 \o s2))
  BY <1>1, <1>2, GrownGoesOn
<1> QED BY <1>2, <1>3, FramesAfter

LEMMA SayGoesOn ==
  ASSUME NEW out \in Seq(SeamEvent), NEW r, Going(out, r), NEW kind \in OneBlock, NEW w \in Said
  PROVE  Going(out, Say(r, kind, w)) /\ Say(r, kind, w).dec.usage = r.dec.usage
<1>1. CASE w = <<>>
  BY <1>1 DEF Say
<1>2. CASE w # <<>>
  <2> DEFINE d     == r.dec
             f     == r.frames
             u     == out \o f
             fresh == d.at[kind] = NoIndex
             i     == IF fresh THEN d.next ELSE d.at[kind]
             e     == [d EXCEPT !.next = IF fresh THEN @ + 1 ELSE @, !.at[kind] = i, !.said[kind] = @ \o w]
             a     == IF fresh THEN <<Start(i, kind)>> ELSE <<>>
             b     == <<Delta(i, kind, 0, w)>>
  <2>1. Say(r, kind, w) = [dec |-> e, frames |-> f \o a \o b]
    BY <1>2 DEF Say
  <2>2. StoryOpen(d, u) /\ IsDecoder(d) /\ u \in Seq(SeamEvent) /\ f \in Seq(SeamEvent) /\ ~d.finished
    BY DEF Going, StoryOpen
  <2>3. d.next \in Nat /\ d.at[kind] \in Int /\ d.said[kind] \in Said
    BY <2>2 DEF IsDecoder
  <2>4. /\ ~fresh => d.at[kind] \in 0..(d.next - 1) /\ BlockOpen(u, d.at[kind], kind, d.said[kind])
        /\ fresh => d.said[kind] = <<>>
    BY <2>2 DEF StoryOpen, BlocksOpen
  <2>5. i \in Nat /\ i < IF fresh THEN d.next + 1 ELSE d.next
    BY <2>3, <2>4
  <2>6. /\ IsDecoder(e) /\ e.finished = d.finished /\ e.usage = d.usage /\ e.calls = d.calls
        /\ e.next = IF fresh THEN d.next + 1 ELSE d.next
        /\ e.at[kind] = i /\ e.said[kind] = d.said[kind] \o w
        /\ \A k \in OneBlock \ {kind} : e.at[k] = d.at[k] /\ e.said[k] = d.said[k]
    <3> HIDE DEF d, i, fresh
    <3>1. /\ DOMAIN e = DOMAIN d /\ e.finished = d.finished /\ e.usage = d.usage /\ e.calls = d.calls
          /\ e.nextCall = d.nextCall /\ e.next = IF fresh THEN d.next + 1 ELSE d.next
          /\ e.at = [d.at EXCEPT ![kind] = i] /\ e.said = [d.said EXCEPT ![kind] = @ \o w]
      BY <2>2 DEF IsDecoder
    <3> HIDE DEF e
    <3>2. d.said[kind] \o w \in Said
      BY <2>3 DEF Said
    <3>3. e.at \in [OneBlock -> Int] /\ e.said \in [OneBlock -> Said]
      <4> HIDE DEF Said
      <4> QED BY <2>2, <2>5, <3>1, <3>2 DEF IsDecoder
    <3>4. /\ e.at[kind] = i /\ e.said[kind] = d.said[kind] \o w
          /\ \A k \in OneBlock \ {kind} : e.at[k] = d.at[k] /\ e.said[k] = d.said[k]
      BY <2>2, <3>1 DEF IsDecoder
    <3>5. IsDecoder(e)
      BY <2>2, <2>3, <3>1, <3>3 DEF IsDecoder
    <3> QED BY <3>1, <3>4, <3>5
  <2> HIDE DEF e
  <2>7. \/ a = <<Start(i, kind)>> /\ BlockNew(u, i) /\ d.said[kind] = <<>>
        \/ a = <<>> /\ BlockOpen(u, i, kind, d.said[kind])
    BY <2>2, <2>4, FreshIsNew
  <2>8. kind \in BlockKind /\ "tool_call" \notin OneBlock
    BY DEF BlockKind, OneBlock
  <2>9. b = <<Delta(i, kind, 0, w)>> \/ (b = <<>> /\ w = <<>>)
    OBVIOUS
  <2> HIDE DEF a, b, u
  <2>10. ASSUME NEW k \in OneBlock, k # kind, d.at[k] # NoIndex
         PROVE  d.at[k] # i /\ d.at[k] \in 0..(d.next - 1) /\ BlockOpen(u, d.at[k], k, d.said[k])
    <3>1. d.at[k] \in 0..(d.next - 1) /\ BlockOpen(u, d.at[k], k, d.said[k])
      BY <2>2, <2>10 DEF StoryOpen, BlocksOpen
    <3>2. CASE fresh
      BY <2>3, <3>1, <3>2
    <3>3. CASE ~fresh
      BY <2>2, <2>4, <2>10, <3>1, <3>3, KindsApart
    <3> QED BY <3>1, <3>2, <3>3
  <2>11. ASSUME NEW x \in DOMAIN d.calls
         PROVE  /\ d.calls[x].at # i /\ d.calls[x].at \in Nat /\ d.calls[x].at < d.next
                /\ BlockOpen(u, d.calls[x].at, "tool_call", d.calls[x].args)
    <3>1. d.calls[x].at < d.next /\ BlockOpen(u, d.calls[x].at, "tool_call", d.calls[x].args)
      BY <2>2, <2>11 DEF StoryOpen, CallsOpen
    <3>2. d.calls[x].at \in Nat
      BY <2>2, <2>11 DEF IsDecoder, CallState
    <3>3. CASE fresh
      BY <2>3, <3>1, <3>2, <3>3
    <3>4. CASE ~fresh
      BY <2>2, <2>4, <2>8, <3>1, <3>2, <3>4, KindsApart
    <3> QED BY <3>1, <3>2, <3>3, <3>4
  <2>12. d.next <= e.next /\ i < e.next
    BY <2>3, <2>5, <2>6
  <2> HIDE DEF i
  <2>13. ASSUME NEW v, BlockOpen(v, i, kind, d.said[kind] \o w), StillKept(u, v, i)
         PROVE  BlocksOpen(e, v)
    <3> SUFFICES ASSUME NEW k \in OneBlock
                 PROVE  IF e.at[k] = NoIndex THEN e.said[k] = <<>>
                        ELSE e.at[k] \in 0..(e.next - 1) /\ BlockOpen(v, e.at[k], k, e.said[k])
      BY DEF BlocksOpen
    <3>1. CASE k = kind
      <4>1. i \in 0..(e.next - 1) /\ i # NoIndex
        BY <2>3, <2>5, <2>6 DEF NoIndex
      <4> QED BY <2>6, <2>13, <3>1, <4>1
    <3>2. CASE k # kind /\ d.at[k] = NoIndex
      BY <2>2, <2>6, <3>2 DEF StoryOpen, BlocksOpen
    <3>3. CASE k # kind /\ d.at[k] # NoIndex
      <4>1. BlockOpen(v, d.at[k], k, d.said[k])
        BY <2>10, <2>13, <3>3 DEF StillKept
      <4> QED BY <2>3, <2>6, <2>10, <3>3, <4>1
    <3> QED BY <3>1, <3>2, <3>3
  <2>14. ASSUME NEW v, StillKept(u, v, i) PROVE CallsOpen(e, v)
    <3>1. ASSUME NEW x \in DOMAIN d.calls
          PROVE  d.calls[x].at < e.next /\ BlockOpen(v, d.calls[x].at, "tool_call", d.calls[x].args)
      BY <2>3, <2>6, <2>11, <2>14 DEF StillKept
    <3>2. \A x, y \in DOMAIN d.calls : d.calls[x].at = d.calls[y].at => x = y
      BY <2>2 DEF StoryOpen, CallsOpen
    <3> QED BY <2>6, <3>1, <3>2 DEF CallsOpen
  <2>15. HasBlock(e, i)
    BY <2>6 DEF HasBlock
  <2>16. ASSUME NEW j \in Nat, HasBlock(d, j) PROVE HasBlock(e, j)
    <3>1. ASSUME NEW k \in OneBlock, d.at[k] = j PROVE HasBlock(e, j)
      <4>1. j # NoIndex
        BY DEF NoIndex
      <4>2. CASE k = kind
        BY <2>15, <3>1, <4>1, <4>2 DEF i
      <4>3. CASE k # kind
        BY <2>6, <3>1, <4>3 DEF HasBlock
      <4> QED BY <4>2, <4>3
    <3>2. ASSUME NEW x \in DOMAIN d.calls, d.calls[x].at = j PROVE HasBlock(e, j)
      BY <2>6, <3>2 DEF HasBlock
    <3> QED BY <2>16, <3>1, <3>2 DEF HasBlock
  <2>17. TellsOf(u, i, kind, 0, d.said[kind], w, a, b)
    BY <2>2, <2>3, <2>5, <2>7, <2>8, <2>9 DEF TellsOf
  <2>18. Keeps(u, d, e, i, kind, d.said[kind] \o w)
    BY <2>2, <2>6, <2>12, <2>13, <2>14, <2>15, <2>16 DEF Keeps
  <2>19. Going(out, [dec |-> e, frames |-> f \o a \o b])
    <3> HIDE DEF d, f, fresh
    <3> QED BY <2>2, <2>17, <2>18, TellGoesOn DEF u
  <2> QED BY <2>1, <2>6, <2>19
<1> QED BY <1>1, <1>2

LEMMA CallGoesOn ==
  ASSUME NEW out \in Seq(SeamEvent), NEW r, Going(out, r), NEW c \in CallParts
  PROVE  Going(out, ApplyToolCall(r, c)) /\ ApplyToolCall(r, c).dec.usage = r.dec.usage
<1> DEFINE d     == r.dec
           f     == r.frames
           u     == out \o f
           x     == c.index
           fresh == x \notin DOMAIN d.calls
           entry == IF fresh THEN [at |-> d.next, call |-> d.nextCall + 1, args |-> <<>>] ELSE d.calls[x]
           full  == [entry EXCEPT !.args = @ \o c.args]
           i     == entry.at
           grown == [y \in DOMAIN d.calls \cup {x} |-> IF y = x THEN full ELSE d.calls[y]]
           e     == [d EXCEPT !.next = IF fresh THEN @ + 1 ELSE @, !.nextCall = IF fresh THEN @ + 1 ELSE @,
                              !.calls = grown]
           a     == IF fresh THEN <<Start(i, "tool_call")>> ELSE <<>>
           b     == IF c.carries THEN <<Delta(i, "tool_call", entry.call, c.args)>> ELSE <<>>
           kind  == "tool_call"
<1>1. ApplyToolCall(r, c) = [dec |-> e, frames |-> f \o a \o b]
  BY DEF ApplyToolCall
<1>2. StoryOpen(d, u) /\ IsDecoder(d) /\ u \in Seq(SeamEvent) /\ f \in Seq(SeamEvent) /\ ~d.finished
  BY DEF Going, StoryOpen
<1>3. d.next \in Nat /\ d.nextCall \in Nat /\ DOMAIN d.calls \subseteq Nat /\ IsFiniteSet(DOMAIN d.calls)
  BY <1>2 DEF IsDecoder
<1>4. x \in Nat /\ c.carries \in BOOLEAN /\ c.args \in Said /\ (~c.carries => c.args = <<>>)
  BY DEF CallParts, Said
<1>5. /\ entry \in CallState
      /\ ~fresh => i < d.next /\ BlockOpen(u, i, kind, entry.args)
      /\ fresh => i = d.next /\ entry.args = <<>>
  <2>1. CASE fresh
    BY <1>3, <2>1 DEF CallState, Said
  <2>2. CASE ~fresh
    BY <1>2, <2>2 DEF StoryOpen, CallsOpen, IsDecoder
  <2> QED BY <2>1, <2>2
<1>6. /\ i \in Nat /\ entry.args \in Said /\ entry.call \in Nat
      /\ i < IF fresh THEN d.next + 1 ELSE d.next
  BY <1>3, <1>5 DEF CallState
<1>7. full \in CallState /\ full.at = i /\ full.args = entry.args \o c.args
  <2>1. entry.args \o c.args \in Said
    BY <1>4, <1>6 DEF Said
  <2> HIDE DEF entry, Said
  <2> QED BY <1>5, <2>1 DEF CallState
<1>8. \A j \in DOMAIN d.calls : d.calls[j].at \in Nat /\ d.calls[j] \in CallState
  BY <1>2 DEF IsDecoder, CallState
<1> HIDE DEF entry, full
<1>9. /\ DOMAIN grown = DOMAIN d.calls \cup {x} /\ grown[x] = full
      /\ \A y \in DOMAIN d.calls : y # x => grown[y] = d.calls[y]
  OBVIOUS
<1> HIDE DEF grown
<1>10. /\ DOMAIN e = DOMAIN d /\ e.finished = d.finished /\ e.usage = d.usage
       /\ e.at = d.at /\ e.said = d.said /\ e.calls = grown
       /\ e.nextCall = IF fresh THEN d.nextCall + 1 ELSE d.nextCall
       /\ e.next = IF fresh THEN d.next + 1 ELSE d.next
  <2> HIDE DEF fresh
  <2> QED BY <1>2 DEF IsDecoder
<1> HIDE DEF e
<1>11. IsDecoder(e)
  <2>1. IsFiniteSet(DOMAIN e.calls) /\ DOMAIN e.calls \subseteq Nat
    BY <1>3, <1>4, <1>9, <1>10, FS_AddElement
  <2>2. \A y \in DOMAIN e.calls : e.calls[y] \in CallState
    BY <1>7, <1>8, <1>9, <1>10
  <2>3. e.next \in Nat /\ e.nextCall \in Nat
    BY <1>3, <1>10
  <2> HIDE DEF fresh
  <2> QED BY <1>2, <1>10, <2>1, <2>2, <2>3 DEF IsDecoder
<1>12. \/ a = <<Start(i, kind)>> /\ BlockNew(u, i) /\ entry.args = <<>>
       \/ a = <<>> /\ BlockOpen(u, i, kind, entry.args)
  BY <1>2, <1>5, FreshIsNew
<1>13. b = <<Delta(i, kind, entry.call, c.args)>> \/ (b = <<>> /\ c.args = <<>>)
  BY <1>4
<1>14. kind \in BlockKind /\ kind \notin OneBlock
  BY DEF BlockKind, OneBlock
<1> HIDE DEF a, b, u
<1>15. TellsOf(u, i, kind, entry.call, entry.args, c.args, a, b)
  BY <1>2, <1>4, <1>6, <1>12, <1>13, <1>14 DEF TellsOf
<1> HIDE DEF kind
<1>16. ASSUME NEW k \in OneBlock, d.at[k] # NoIndex
       PROVE  d.at[k] # i /\ d.at[k] \in 0..(d.next - 1) /\ BlockOpen(u, d.at[k], k, d.said[k])
  <2>1. d.at[k] \in 0..(d.next - 1) /\ BlockOpen(u, d.at[k], k, d.said[k])
    BY <1>2, <1>16 DEF StoryOpen, BlocksOpen
  <2>2. CASE fresh
    BY <1>3, <1>5, <2>1, <2>2
  <2>3. CASE ~fresh
    <3>1. k # kind
      BY <1>14
    <3> QED BY <1>2, <1>5, <2>1, <2>3, <3>1, KindsApart
  <2> QED BY <2>1, <2>2, <2>3
<1>17. ASSUME NEW y \in DOMAIN d.calls, y # x
       PROVE  /\ d.calls[y].at # i /\ d.calls[y].at < d.next
              /\ BlockOpen(u, d.calls[y].at, kind, d.calls[y].args)
  <2>1. d.calls[y].at < d.next /\ BlockOpen(u, d.calls[y].at, kind, d.calls[y].args)
    BY <1>2, <1>17 DEF StoryOpen, CallsOpen, kind
  <2>2. CASE fresh
    BY <1>3, <1>5, <1>8, <2>1, <2>2
  <2>3. CASE ~fresh
    <3>1. i = d.calls[x].at
      BY <2>3 DEF entry
    <3> QED BY <1>2, <1>17, <2>1, <2>3, <3>1 DEF StoryOpen, CallsOpen
  <2> QED BY <2>2, <2>3, <2>1
<1>18. d.next <= e.next /\ i < e.next
  BY <1>3, <1>6, <1>10
<1> HIDE DEF i
<1>19. ASSUME NEW v, StillKept(u, v, i) PROVE BlocksOpen(e, v)
  <2> SUFFICES ASSUME NEW k \in OneBlock
               PROVE  IF e.at[k] = NoIndex THEN e.said[k] = <<>>
                      ELSE e.at[k] \in 0..(e.next - 1) /\ BlockOpen(v, e.at[k], k, e.said[k])
    BY DEF BlocksOpen
  <2>1. CASE d.at[k] = NoIndex
    BY <1>2, <1>10, <2>1 DEF StoryOpen, BlocksOpen
  <2>2. CASE d.at[k] # NoIndex
    <3>1. BlockOpen(v, d.at[k], k, d.said[k])
      BY <1>16, <1>19, <2>2 DEF StillKept
    <3>2. d.at[k] \in 0..(e.next - 1)
      BY <1>3, <1>10, <1>16, <2>2
    <3> QED BY <1>10, <2>2, <3>1, <3>2
  <2> QED BY <2>1, <2>2
<1>20. ASSUME NEW v, BlockOpen(v, i, kind, entry.args \o c.args), StillKept(u, v, i) PROVE CallsOpen(e, v)
  <2>1. ASSUME NEW y \in DOMAIN d.calls, y # x
        PROVE  /\ e.calls[y].at < e.next /\ e.calls[y].at # i
               /\ BlockOpen(v, e.calls[y].at, "tool_call", e.calls[y].args)
    <3>1. BlockOpen(v, d.calls[y].at, kind, d.calls[y].args)
      BY <1>17, <1>20, <2>1 DEF StillKept
    <3>2. d.calls[y].at < e.next
      BY <1>3, <1>8, <1>10, <1>17, <2>1
    <3> QED BY <1>9, <1>10, <1>17, <2>1, <3>1, <3>2 DEF kind
  <2>2. e.calls[x].at = i /\ BlockOpen(v, e.calls[x].at, "tool_call", e.calls[x].args)
    BY <1>7, <1>9, <1>10, <1>20 DEF kind
  <2>3. \A y, z \in DOMAIN d.calls : d.calls[y].at = d.calls[z].at => y = z
    BY <1>2 DEF StoryOpen, CallsOpen
  <2> QED BY <1>9, <1>10, <1>18, <2>1, <2>2, <2>3 DEF CallsOpen
<1>21. HasBlock(e, i)
  BY <1>7, <1>9, <1>10 DEF HasBlock
<1>22. ASSUME NEW j \in Nat, HasBlock(d, j) PROVE HasBlock(e, j)
  <2>1. ASSUME NEW k \in OneBlock, d.at[k] = j PROVE HasBlock(e, j)
    BY <1>10, <2>1 DEF HasBlock
  <2>2. ASSUME NEW y \in DOMAIN d.calls, d.calls[y].at = j PROVE HasBlock(e, j)
    <3>1. CASE y # x
      BY <1>9, <1>10, <2>2, <3>1 DEF HasBlock
    <3>2. CASE y = x
      BY <1>21, <2>2, <3>2 DEF i, entry
    <3> QED BY <3>1, <3>2
  <2> QED BY <1>22, <2>1, <2>2 DEF HasBlock
<1>23. Keeps(u, d, e, i, kind, entry.args \o c.args)
  BY <1>2, <1>10, <1>11, <1>18, <1>19, <1>20, <1>21, <1>22 DEF Keeps
<1>24. Going(out, [dec |-> e, frames |-> f \o a \o b])
  <2> HIDE DEF d, f, fresh
  <2> QED BY <1>2, <1>15, <1>23, TellGoesOn DEF u
<1> QED BY <1>1, <1>10, <1>24

CallsFold == INSTANCE FoldFacts WITH Op <- ApplyToolCall

LEMMA CallsFoldIs == ASSUME NEW base, NEW f PROVE CallsFold!Folded(base, f) = FoldLeft(ApplyToolCall, base, f)
BY DEF CallsFold!Folded, CallsFold!FoldLeft, CallsFold!MapThenFoldSet, CallsFold!Max,
       FoldLeft, MapThenFoldSet, Max

(* A chunk keeps the story going, and adds no usage by itself.             *)
LEMMA DeltaGoesOn ==
  ASSUME NEW out \in Seq(SeamEvent), NEW r, Going(out, r), NEW chunk, IsChunk(chunk)
  PROVE  Going(out, ApplyDelta(r, chunk)) /\ ApplyDelta(r, chunk).dec.usage = r.dec.usage
<1> DEFINE r1 == Say(r, "text", chunk.text)
           r2 == Say(r1, "reasoning", chunk.reasoning)
           T == { cs \in Seq(CallParts) :
                    /\ Going(out, CallsFold!Folded(r2, cs))
                    /\ CallsFold!Folded(r2, cs).dec.usage = r.dec.usage }
<1>1. chunk.text \in Said /\ chunk.reasoning \in Said /\ chunk.calls \in Seq(CallParts)
  BY DEF IsChunk, Said
<1>2. "text" \in OneBlock /\ "reasoning" \in OneBlock
  BY DEF OneBlock
<1>3. Going(out, r1) /\ r1.dec.usage = r.dec.usage
  BY <1>1, <1>2, SayGoesOn
<1>4. Going(out, r2) /\ r2.dec.usage = r.dec.usage
  <2> HIDE DEF r1
  <2> QED BY <1>1, <1>2, <1>3, SayGoesOn
<1> HIDE DEF r2
<1>5. <<>> \in T
  <2>1. CallsFold!Folded(r2, <<>>) = r2
    BY CallsFold!FoldOfEmpty
  <2> QED BY <1>4, <2>1
<1>6. \A cs \in Seq(CallParts), c \in CallParts : cs \in T => Append(cs, c) \in T
  <2> SUFFICES ASSUME NEW cs \in Seq(CallParts), NEW c \in CallParts, cs \in T
               PROVE  Append(cs, c) \in T
    OBVIOUS
  <2> DEFINE g == CallsFold!Folded(r2, cs)
  <2>1. CallsFold!Folded(r2, Append(cs, c)) = ApplyToolCall(g, c)
    BY CallsFold!FoldOfAppend
  <2>2. Going(out, g) /\ g.dec.usage = r.dec.usage
    OBVIOUS
  <2>3. Going(out, ApplyToolCall(g, c)) /\ ApplyToolCall(g, c).dec.usage = g.dec.usage
    <3> HIDE DEF g
    <3> QED BY <2>2, CallGoesOn
  <2>4. Append(cs, c) \in Seq(CallParts)
    OBVIOUS
  <2> QED BY <2>1, <2>2, <2>3, <2>4
<1>7. Seq(CallParts) \subseteq T
  <2> HIDE DEF T
  <2> QED BY <1>5, <1>6, CallsFold!SequenceInduction
<1>8. ApplyDelta(r, chunk) = CallsFold!Folded(r2, chunk.calls)
  BY CallsFoldIs DEF ApplyDelta, r2
<1> QED BY <1>1, <1>7, <1>8

(* What closes a decoder's blocks: an end of each, and of no block two.    *)
Closes(es, B) ==
  /\ es \in Seq(B) /\ \A b \in B : \E j \in DOMAIN es : es[j] = b
  /\ \A j, k \in DOMAIN es : es[j].at = es[k].at => j = k
EndOf(d, kind) == End(d.at[kind], kind, d.said[kind])
EndOfCall(d, x) == End(d.calls[x].at, "tool_call", d.calls[x].args)
EndsOfKind(d, kind) == IF d.at[kind] = NoIndex THEN {} ELSE {EndOf(d, kind)}
EndsOfCalls(d) == { EndOfCall(d, x) : x \in DOMAIN d.calls }

LEMMA ClosesBoth ==
  ASSUME NEW s, NEW t, NEW A, NEW B, Closes(s, A), Closes(t, B), \A a \in A, b \in B : a.at # b.at
  PROVE  Closes(s \o t, A \cup B)
<1> DEFINE S == A \cup B
           v == s \o t
<1>1. s \in Seq(S) /\ t \in Seq(S) /\ s \in Seq(A) /\ t \in Seq(B)
  BY DEF Closes
<1> HIDE DEF S
<1>2. /\ v \in Seq(S) /\ Len(v) = Len(s) + Len(t)
      /\ \A k \in DOMAIN s : k \in DOMAIN v /\ v[k] = s[k]
      /\ \A j \in DOMAIN t : Len(s) + j \in DOMAIN v /\ v[Len(s) + j] = t[j]
      /\ \A k \in DOMAIN v : k \notin DOMAIN s => \E j \in DOMAIN t : k = Len(s) + j
  BY <1>1, ConcatParts
<1>3. (\A j \in DOMAIN s : s[j] \in A) /\ (\A j \in DOMAIN t : t[j] \in B) /\ Len(s) \in Nat /\ DOMAIN t \subseteq Nat
  BY <1>1
<1> HIDE DEF v
<1>4. ASSUME NEW b \in S PROVE \E j \in DOMAIN v : v[j] = b
  <2>1. CASE b \in A
    BY <1>2, <2>1 DEF Closes
  <2>2. CASE b \in B
    BY <1>2, <2>2 DEF Closes
  <2> QED BY <2>1, <2>2 DEF S
<1>5. ASSUME NEW j \in DOMAIN v, NEW k \in DOMAIN v, v[j].at = v[k].at PROVE j = k
  <2>1. CASE j \in DOMAIN s /\ k \in DOMAIN s
    BY <1>2, <1>5, <2>1 DEF Closes
  <2>2. CASE j \in DOMAIN s /\ k \notin DOMAIN s
    BY <1>2, <1>3, <1>5, <2>2
  <2>3. CASE j \notin DOMAIN s /\ k \in DOMAIN s
    BY <1>2, <1>3, <1>5, <2>3
  <2>4. CASE j \notin DOMAIN s /\ k \notin DOMAIN s
    <3>1. PICK m \in DOMAIN t : j = Len(s) + m /\ v[j] = t[m]
      BY <1>2, <2>4
    <3>2. PICK n \in DOMAIN t : k = Len(s) + n /\ v[k] = t[n]
      BY <1>2, <2>4
    <3> QED BY <1>5, <3>1, <3>2 DEF Closes
  <2> QED BY <2>1, <2>2, <2>3, <2>4
<1> QED BY <1>2, <1>4, <1>5 DEF Closes, S, v

LEMMA OneCloses ==
  ASSUME NEW d, NEW kind
  PROVE  Closes(CloseOne(d, kind), EndsOfKind(d, kind))
<1>1. CASE d.at[kind] = NoIndex
  BY <1>1 DEF Closes, CloseOne, EndsOfKind
<1>2. CASE d.at[kind] # NoIndex
  <2> DEFINE b == EndOf(d, kind)
  <2>1. CloseOne(d, kind) = <<b>> /\ EndsOfKind(d, kind) = {b}
    BY <1>2 DEF CloseOne, EndsOfKind, EndOf
  <2> HIDE DEF b
  <2> QED BY <2>1 DEF Closes
<1> QED BY <1>1, <1>2

LEMMA CallsClose ==
  ASSUME NEW d, IsFiniteSet(DOMAIN d.calls), DOMAIN d.calls \subseteq Nat,
         \A x, y \in DOMAIN d.calls : d.calls[x].at = d.calls[y].at => x = y
  PROVE  Closes(CloseCalls(d), EndsOfCalls(d))
<1> DEFINE S   == DOMAIN d.calls
           ids == Ascending(S)
           es  == CloseCalls(d)
           B   == EndsOfCalls(d)
<1>1. /\ ids \in Seq(S)
      /\ \A x \in S : \E i \in DOMAIN ids : ids[i] = x
      /\ \A i, j \in DOMAIN ids : ids[i] = ids[j] => i = j
  <2> HIDE DEF S
  <2>1. IsFiniteSet(S) /\ S \subseteq Nat
    BY DEF S
  <2> QED BY <2>1, AscendingLists
<1>2. es = [i \in DOMAIN ids |-> EndOfCall(d, ids[i])]
  BY DEF CloseCalls, EndOfCall
<1>3. B = { EndOfCall(d, x) : x \in S }
  BY DEF EndsOfCalls
<1>4. \A x : EndOfCall(d, x).at = d.calls[x].at
  BY EndIs DEF EndOfCall
<1> HIDE DEF ids, es, B, S
<1>5. es \in Seq(B)
  BY <1>1, <1>2, <1>3
<1>6. DOMAIN es = DOMAIN ids /\ \A i \in DOMAIN ids : es[i] = EndOfCall(d, ids[i]) /\ ids[i] \in S
  BY <1>1, <1>2
<1>7. \A b \in B : \E j \in DOMAIN es : es[j] = b
  BY <1>1, <1>3, <1>6
<1>8. \A j, k \in DOMAIN es : es[j].at = es[k].at => j = k
  BY <1>1, <1>4, <1>6 DEF S
<1> QED BY <1>5, <1>7, <1>8 DEF Closes, es, B

(* What closes a decoder shuts every block of its story.                   *)
AllEnds(d) == (EndsOfKind(d, "text") \cup EndsOfKind(d, "reasoning")) \cup EndsOfCalls(d)

LEMMA OwnersApart ==
  ASSUME NEW d, NEW u, StoryOpen(d, u)
  PROVE  /\ \A a \in EndsOfKind(d, "text"), b \in EndsOfKind(d, "reasoning") : a.at # b.at
         /\ \A a \in EndsOfKind(d, "text") \cup EndsOfKind(d, "reasoning"), b \in EndsOfCalls(d) : a.at # b.at
<1>1. u \in Seq(SeamEvent) /\ BlocksOpen(d, u) /\ CallsOpen(d, u)
  BY DEF StoryOpen
<1>2. ASSUME NEW kind \in OneBlock, NEW a \in EndsOfKind(d, kind)
      PROVE  a.at = d.at[kind] /\ BlockOpen(u, d.at[kind], kind, d.said[kind])
  <2>1. a = EndOf(d, kind) /\ d.at[kind] # NoIndex
    BY <1>2 DEF EndsOfKind
  <2>2. a.at = d.at[kind]
    BY <2>1, EndIs DEF EndOf
  <2> QED BY <1>1, <2>1, <2>2 DEF BlocksOpen
<1>3. ASSUME NEW b \in EndsOfCalls(d)
      PROVE  \E x \in DOMAIN d.calls : b.at = d.calls[x].at /\ BlockOpen(u, b.at, "tool_call", d.calls[x].args)
  <2>1. PICK x \in DOMAIN d.calls : b = EndOfCall(d, x)
    BY <1>3 DEF EndsOfCalls
  <2>2. b.at = d.calls[x].at
    BY <2>1, EndIs DEF EndOfCall
  <2> QED BY <1>1, <2>2 DEF CallsOpen
<1>4. "text" \in OneBlock /\ "reasoning" \in OneBlock /\ "tool_call" \notin OneBlock /\ "text" # "reasoning"
  BY DEF OneBlock
<1>5. ASSUME NEW a \in EndsOfKind(d, "text"), NEW b \in EndsOfKind(d, "reasoning"), a.at = b.at PROVE FALSE
  <2>1. BlockOpen(u, a.at, "text", d.said["text"]) /\ BlockOpen(u, b.at, "reasoning", d.said["reasoning"])
    BY <1>2, <1>4
  <2> QED BY <1>1, <1>4, <1>5, <2>1, KindsApart
<1>6. ASSUME NEW kind \in OneBlock, NEW a \in EndsOfKind(d, kind), NEW b \in EndsOfCalls(d), a.at = b.at PROVE FALSE
  <2>1. BlockOpen(u, a.at, kind, d.said[kind])
    BY <1>2
  <2>2. PICK w : BlockOpen(u, b.at, "tool_call", w)
    BY <1>3
  <2> QED BY <1>1, <1>4, <1>6, <2>1, <2>2, KindsApart
<1> QED BY <1>4, <1>5, <1>6

LEMMA AllClose ==
  ASSUME NEW d, NEW u, StoryOpen(d, u)
  PROVE  Closes(CloseOne(d, "text") \o CloseOne(d, "reasoning") \o CloseCalls(d), AllEnds(d))
<1>1. Closes(CloseOne(d, "text"), EndsOfKind(d, "text")) /\ Closes(CloseOne(d, "reasoning"), EndsOfKind(d, "reasoning"))
  BY OneCloses
<1>2. Closes(CloseCalls(d), EndsOfCalls(d))
  BY CallsClose DEF StoryOpen, CallsOpen, IsDecoder
<1>3. Closes(CloseOne(d, "text") \o CloseOne(d, "reasoning"), EndsOfKind(d, "text") \cup EndsOfKind(d, "reasoning"))
  BY <1>1, OwnersApart, ClosesBoth
<1> QED BY <1>2, <1>3, OwnersApart, ClosesBoth DEF AllEnds

(* What an end of a decoder's blocks is.                                   *)
LEMMA EndsAre ==
  ASSUME NEW d, NEW u, StoryOpen(d, u)
  PROVE  /\ \A b \in AllEnds(d) :
              /\ b \in SeamEvent /\ b.e = "end" /\ b.at \in 0..(d.next - 1) /\ HasBlock(d, b.at)
              /\ BlockOpen(u, b.at, b.kind, b.said)
         /\ \A i \in Nat : HasBlock(d, i) => \E b \in AllEnds(d) : b.at = i
<1>1. BlocksOpen(d, u) /\ CallsOpen(d, u) /\ IsDecoder(d)
  BY DEF StoryOpen
<1>2. ASSUME NEW kind \in OneBlock, d.at[kind] # NoIndex
      PROVE  LET b == EndOf(d, kind)
             IN  /\ b \in SeamEvent /\ b.e = "end" /\ b.at \in 0..(d.next - 1) /\ HasBlock(d, b.at)
                 /\ BlockOpen(u, b.at, b.kind, b.said) /\ b.at = d.at[kind]
  <2> DEFINE b == EndOf(d, kind)
  <2>1. d.at[kind] \in Int /\ d.said[kind] \in Said /\ kind \in BlockKind
    BY <1>1 DEF IsDecoder, BlockKind
  <2>2. b \in SeamEvent /\ b.e = "end" /\ b.at = d.at[kind] /\ b.kind = kind /\ b.said = d.said[kind]
    BY <2>1, EndIs DEF EndOf
  <2>3. d.at[kind] \in 0..(d.next - 1) /\ BlockOpen(u, d.at[kind], kind, d.said[kind])
    BY <1>1, <1>2 DEF BlocksOpen
  <2>4. HasBlock(d, d.at[kind])
    BY DEF HasBlock
  <2> QED BY <2>2, <2>3, <2>4
<1>3. ASSUME NEW x \in DOMAIN d.calls
      PROVE  LET b == EndOfCall(d, x)
             IN  /\ b \in SeamEvent /\ b.e = "end" /\ b.at \in 0..(d.next - 1) /\ HasBlock(d, b.at)
                 /\ BlockOpen(u, b.at, b.kind, b.said) /\ b.at = d.calls[x].at
  <2> DEFINE b == EndOfCall(d, x)
  <2>1. d.calls[x].at \in Nat /\ d.calls[x].args \in Said /\ "tool_call" \in BlockKind /\ d.next \in Nat
    BY <1>1 DEF IsDecoder, BlockKind, CallState
  <2>2. /\ b \in SeamEvent /\ b.e = "end" /\ b.at = d.calls[x].at /\ b.kind = "tool_call"
        /\ b.said = d.calls[x].args
    BY <2>1, EndIs DEF EndOfCall
  <2>3. d.calls[x].at < d.next /\ BlockOpen(u, d.calls[x].at, "tool_call", d.calls[x].args)
    BY <1>1 DEF CallsOpen
  <2>4. HasBlock(d, d.calls[x].at)
    BY DEF HasBlock
  <2> QED BY <2>1, <2>2, <2>3, <2>4
<1>4. "text" \in OneBlock /\ "reasoning" \in OneBlock /\ OneBlock = {"text", "reasoning"}
  BY DEF OneBlock
<1>5. ASSUME NEW b \in AllEnds(d)
      PROVE  \/ \E kind \in OneBlock : d.at[kind] # NoIndex /\ b = EndOf(d, kind)
             \/ \E x \in DOMAIN d.calls : b = EndOfCall(d, x)
  BY <1>4 DEF AllEnds, EndsOfKind, EndsOfCalls
<1>6. ASSUME NEW kind \in OneBlock, d.at[kind] # NoIndex PROVE EndOf(d, kind) \in AllEnds(d)
  BY <1>4, <1>6 DEF AllEnds, EndsOfKind
<1>7. ASSUME NEW x \in DOMAIN d.calls PROVE EndOfCall(d, x) \in AllEnds(d)
  BY DEF AllEnds, EndsOfCalls
<1>8. ASSUME NEW i \in Nat, HasBlock(d, i) PROVE \E b \in AllEnds(d) : b.at = i
  <2>1. i # NoIndex
    BY DEF NoIndex
  <2>2. CASE \E kind \in OneBlock : d.at[kind] = i
    BY <1>2, <1>6, <2>1, <2>2
  <2>3. CASE \E x \in DOMAIN d.calls : d.calls[x].at = i
    BY <1>3, <1>7, <2>3
  <2> QED BY <1>8, <2>2, <2>3 DEF HasBlock
<1> QED BY <1>2, <1>3, <1>5, <1>8

LEMMA StoryCloses ==
  ASSUME NEW d, NEW u, StoryOpen(d, u), NEW es, Closes(es, AllEnds(d)),
         NEW e, IsDecoder(e), e.finished, e.next = d.next, HadContent(e) => HadContent(d)
  PROVE  es \in Seq(SeamEvent) /\ StoryShut(e, u \o es)
<1>1. /\ u \in Seq(SeamEvent) /\ Heard(d, u) /\ \A k \in DOMAIN u : HasBlock(d, u[k].at)
      /\ d.next \in Nat
  BY DEF StoryOpen, IsDecoder
<1>2. \A j \in DOMAIN es : es[j] \in AllEnds(d)
  BY DEF Closes
<1>3. es \in Seq(SeamEvent)
  <2>1. AllEnds(d) \subseteq SeamEvent
    BY EndsAre
  <2>2. es \in Seq(AllEnds(d))
    BY DEF Closes
  <2> QED BY <2>1, <2>2
<1>4. ASSUME NEW i \in Nat, HasBlock(d, i) PROVE BlockShut(u \o es, i)
  <2>1. PICK b \in AllEnds(d) : b.at = i
    BY <1>4, EndsAre
  <2>2. b.e = "end" /\ BlockOpen(u, i, b.kind, b.said)
    BY <2>1, EndsAre
  <2>3. PICK j \in DOMAIN es : es[j] = b
    BY DEF Closes
  <2>4. \A k \in DOMAIN es : k # j => es[k].at # i
    BY <2>1, <2>3 DEF Closes
  <2> QED BY <1>1, <1>3, <2>1, <2>2, <2>3, <2>4, BlockEnds
<1>5. /\ u \o es \in Seq(SeamEvent)
      /\ \A k \in DOMAIN u : k \in DOMAIN (u \o es) /\ (u \o es)[k] = u[k]
      /\ \A k \in DOMAIN (u \o es) : k \notin DOMAIN u => \E j \in DOMAIN es : k = Len(u) + j
      /\ \A j \in DOMAIN es : (u \o es)[Len(u) + j] = es[j]
  BY <1>1, <1>3, ConcatParts
<1>6. ASSUME NEW k \in DOMAIN (u \o es)
      PROVE  /\ (u \o es)[k].at \in 0..(d.next - 1) /\ HasBlock(d, (u \o es)[k].at)
             /\ (u \o es)[k].e \in {"start", "delta", "end"}
  <2>1. CASE k \in DOMAIN u
    BY <1>1, <1>5, <2>1 DEF Heard
  <2>2. CASE k \notin DOMAIN u
    <3>1. PICK j \in DOMAIN es : (u \o es)[k] = es[j]
      BY <1>5, <2>2
    <3> QED BY <1>2, <3>1, EndsAre
  <2> QED BY <2>1, <2>2
<1>7. \A k \in DOMAIN (u \o es) : BlockShut(u \o es, (u \o es)[k].at)
  BY <1>1, <1>4, <1>6
<1>8. Heard(e, u \o es)
  BY <1>6 DEF Heard
<1>9. HadContent(e) => u \o es # <<>>
  <2>1. HadContent(d) => \E k : k \in DOMAIN u
    <3>1. ASSUME NEW kind \in OneBlock, d.said[kind] # <<>> PROVE \E k : k \in DOMAIN u
      <4>1. BlockOpen(u, d.at[kind], kind, d.said[kind])
        BY <3>1 DEF StoryOpen, BlocksOpen
      <4> QED BY <4>1 DEF BlockOpen
    <3>2. ASSUME NEW x \in DOMAIN d.calls PROVE \E k : k \in DOMAIN u
      <4>1. BlockOpen(u, d.calls[x].at, "tool_call", d.calls[x].args)
        BY DEF StoryOpen, CallsOpen
      <4> QED BY <4>1 DEF BlockOpen
    <3> QED BY <3>1, <3>2 DEF HadContent, OneBlock
  <2> QED BY <1>5, <2>1
<1> QED BY <1>3, <1>5, <1>7, <1>8, <1>9 DEF StoryShut

(* A stream's story so far: blocks are open, or all of them shut.          *)
Story(d, out) == StoryOpen(d, out) \/ StoryShut(d, out)

LEMMA CloseShuts ==
  ASSUME NEW out \in Seq(SeamEvent), NEW r, Going(out, r)
  PROVE  LET c == CloseBlocks(r)
         IN  /\ c.frames \in Seq(SeamEvent) /\ StoryShut(c.dec, out \o c.frames)
             /\ c.dec.usage = r.dec.usage
<1> DEFINE d  == r.dec
           f  == r.frames
           e  == [d EXCEPT !.at = [k \in OneBlock |-> NoIndex], !.calls = <<>>, !.finished = TRUE]
           a  == CloseOne(d, "text")
           b  == CloseOne(d, "reasoning")
           z  == CloseCalls(d)
<1>1. CloseBlocks(r) = [dec |-> e, frames |-> f \o a \o b \o z]
  BY DEF CloseBlocks
<1>2. f \in Seq(SeamEvent) /\ StoryOpen(d, out \o f) /\ IsDecoder(d)
  BY DEF Going, StoryOpen
<1>3. IsDecoder(e) /\ e.finished /\ e.next = d.next /\ e.usage = d.usage /\ (HadContent(e) => HadContent(d))
  <2>1. /\ DOMAIN e = DOMAIN d /\ e.finished = TRUE /\ e.next = d.next /\ e.usage = d.usage
        /\ e.said = d.said /\ e.nextCall = d.nextCall /\ e.calls = <<>> /\ e.at = [k \in OneBlock |-> NoIndex]
    BY <1>2 DEF IsDecoder
  <2>2. e.at \in [OneBlock -> Int]
    BY <2>1 DEF NoIndex
  <2>3. DOMAIN e.calls = {} /\ IsFiniteSet({})
    BY <2>1, FS_EmptySet
  <2> HIDE DEF e
  <2>4. HadContent(e) => HadContent(d)
    BY <2>1, <2>3 DEF HadContent
  <2> QED BY <1>2, <2>1, <2>2, <2>3, <2>4 DEF IsDecoder
<1> HIDE DEF e
<1>4. Closes(a \o b \o z, AllEnds(d))
  BY <1>2, AllClose
<1>5. a \in Seq(SeamEvent) /\ b \in Seq(SeamEvent) /\ z \in Seq(SeamEvent)
  <2>1. a \in Seq(EndsOfKind(d, "text")) /\ b \in Seq(EndsOfKind(d, "reasoning")) /\ z \in Seq(EndsOfCalls(d))
    BY <1>2, OneCloses, CallsClose DEF Closes, StoryOpen, CallsOpen, IsDecoder
  <2>2. AllEnds(d) \subseteq SeamEvent
    BY <1>2, EndsAre
  <2> HIDE DEF a, b, z
  <2> QED BY <2>1, <2>2 DEF AllEnds
<1>6. StoryShut(e, (out \o f) \o (a \o b \o z))
  <2> HIDE DEF a, b, z, d
  <2> QED BY <1>2, <1>3, <1>4, StoryCloses
<1> HIDE DEF a, b, z, d
<1>7. f \o a \o b \o z \in Seq(SeamEvent) /\ out \o (f \o a \o b \o z) = (out \o f) \o (a \o b \o z)
  <2> HIDE DEF f
  <2>1. f \o a \in Seq(SeamEvent) /\ a \o b \in Seq(SeamEvent) /\ (f \o a) \o b = f \o (a \o b)
    BY <1>2, <1>5, ConcatThree, SMTT(30)
  <2>2. ASSUME NEW g \in Seq(SeamEvent)
        PROVE  f \o g \in Seq(SeamEvent) /\ g \o z \in Seq(SeamEvent) /\ (f \o g) \o z = f \o (g \o z)
    BY <1>2, <1>5, ConcatThree, SMTT(30)
  <2>3. ASSUME NEW g \in Seq(SeamEvent)
        PROVE  f \o g \in Seq(SeamEvent) /\ (out \o f) \o g = out \o (f \o g)
    BY <1>2, ConcatThree
  <2>4. f \o a \o b \o z = f \o (a \o b \o z) /\ a \o b \o z \in Seq(SeamEvent)
    BY <2>1, <2>2
  <2> QED BY <2>3, <2>4
<1>8. CloseBlocks(r).dec = e /\ CloseBlocks(r).frames = f \o a \o b \o z
  BY <1>1
<1>9. e.usage = r.dec.usage
  BY <1>3 DEF d
<1> HIDE DEF f
<1>10. StoryShut(e, out \o (f \o a \o b \o z))
  BY <1>6, <1>7
<1> QED BY <1>7, <1>8, <1>9, <1>10

(* The usage of the seam: four counts, the prompt's split in two.          *)
LEMMA UsageSplit ==
  ASSUME NEW v \in Counts
  PROVE  /\ UsageFromValue(v) \in UsageOf /\ UsageFromValue(v).output = v.completion
         /\ Consistent(v) => UsageFromValue(v).uncached + UsageFromValue(v).reads = v.prompt
<1>1. /\ v.prompt \in Nat /\ v.hit \in Nat /\ v.miss \in Nat /\ v.cached \in Nat
      /\ v.completion \in Nat /\ v.reasoning \in Nat
  BY DEF Counts
<1>2. \A a, b \in Nat : Saturating(a, b) \in Nat /\ (b <= a => Saturating(a, b) + b = a)
  BY DEF Saturating
<1>3. CASE v.miss > 0
  BY <1>1, <1>3 DEF UsageFromValue, UsageOf, Consistent
<1>4. CASE ~(v.miss > 0) /\ v.hit > 0
  BY <1>1, <1>2, <1>4 DEF UsageFromValue, UsageOf, Consistent
<1>5. CASE ~(v.miss > 0) /\ ~(v.hit > 0)
  BY <1>1, <1>2, <1>5 DEF UsageFromValue, UsageOf, Consistent
<1> QED BY <1>3, <1>4, <1>5

LEMMA NothingTold ==
  ASSUME NEW out \in Seq(SeamEvent)
  PROVE  <<>> \in Seq(SeamEvent) /\ out \o <<>> = out
OBVIOUS

(* A chunk that is told keeps the story a story.                           *)
LEMMA PushGoesOn ==
  ASSUME NEW d, NEW out, Story(d, out), NEW chunk, IsChunk(chunk)
  PROVE  LET p == Push(d, chunk)
         IN  /\ p.frames \in Seq(SeamEvent) /\ Story(p.dec, out \o p.frames)
             /\ p.dec.usage \in {d.usage, { UsageFromValue(u) : u \in chunk.usage }}
<1> DEFINE given   == { UsageFromValue(u) : u \in chunk.usage }
           counted == [d EXCEPT !.usage = IF chunk.usage = {} THEN @ ELSE given]
           r0      == [dec |-> counted, frames |-> <<>>]
           after    == ApplyDelta(r0, chunk)
<1>1. out \in Seq(SeamEvent) /\ IsDecoder(d) /\ d.finished \in BOOLEAN
  BY DEF Story, StoryOpen, StoryShut, IsDecoder
<1>2. CASE d.finished
  <2>1. Push(d, chunk) = [dec |-> d, frames |-> <<>>]
    BY <1>2 DEF Push
  <2> QED BY <1>1, <2>1, NothingTold
<1>3. CASE ~d.finished
  <2>1. Push(d, chunk) = IF chunk.finish THEN CloseBlocks(after) ELSE after
    BY <1>3 DEF Push
  <2>2. StoryOpen(d, out)
    BY <1>3 DEF Story, StoryShut
  <2>3. given \subseteq UsageOf /\ \A u, v \in given : u = v
    BY UsageSplit DEF IsChunk
  <2> HIDE DEF given
  <2>4. /\ DOMAIN counted = DOMAIN d /\ counted.finished = d.finished /\ counted.next = d.next
        /\ counted.said = d.said /\ counted.nextCall = d.nextCall /\ counted.calls = d.calls
        /\ counted.at = d.at /\ counted.usage = IF chunk.usage = {} THEN d.usage ELSE given
    BY <1>1 DEF IsDecoder
  <2> HIDE DEF counted
  <2>5. IsDecoder(counted)
    BY <1>1, <2>3, <2>4 DEF IsDecoder
  <2>6. StoryOpen(counted, out)
    BY <2>2, <2>4, <2>5 DEF StoryOpen, Heard, BlocksOpen, CallsOpen, HasBlock
  <2>7. Going(out, r0)
    BY <1>1, <2>6, NothingTold DEF Going
  <2>8. r0.dec.usage \in {d.usage, given}
    BY <2>4
  <2> HIDE DEF r0
  <2>9. Going(out, after) /\ after.dec.usage = r0.dec.usage
    BY <1>1, <2>7, DeltaGoesOn
  <2> HIDE DEF after
  <2>10. CASE chunk.finish
    <3>1. /\ CloseBlocks(after).frames \in Seq(SeamEvent)
          /\ StoryShut(CloseBlocks(after).dec, out \o CloseBlocks(after).frames)
          /\ CloseBlocks(after).dec.usage = after.dec.usage
      BY <1>1, <2>9, CloseShuts
    <3> QED BY <2>1, <2>8, <2>9, <2>10, <3>1 DEF Story, given
  <2>11. CASE ~chunk.finish
    BY <2>1, <2>8, <2>9, <2>11 DEF Story, Going, given
  <2> QED BY <2>10, <2>11
<1> QED BY <1>1, <1>2, <1>3

LEMMA FinishShuts ==
  ASSUME NEW d, NEW out, Story(d, out)
  PROVE  LET p == FinishDecoder(d)
         IN  /\ p.frames \in Seq(SeamEvent) /\ StoryShut(p.dec, out \o p.frames)
             /\ p.dec.usage = d.usage
<1>1. out \in Seq(SeamEvent) /\ d.finished \in BOOLEAN
  BY DEF Story, StoryOpen, StoryShut, IsDecoder
<1>2. CASE d.finished
  <2>1. FinishDecoder(d) = [dec |-> d, frames |-> <<>>]
    BY <1>2 DEF FinishDecoder
  <2>2. StoryShut(d, out)
    BY <1>2 DEF Story, StoryOpen
  <2> QED BY <1>1, <2>1, <2>2, NothingTold
<1>3. CASE ~d.finished
  <2> DEFINE r0 == [dec |-> d, frames |-> <<>>]
  <2>1. FinishDecoder(d) = CloseBlocks(r0)
    BY <1>3 DEF FinishDecoder
  <2>2. Going(out, r0) /\ r0.dec.usage = d.usage
    BY <1>1, <1>3, NothingTold DEF Story, StoryShut, Going
  <2> HIDE DEF r0
  <2> QED BY <1>1, <2>1, <2>2, CloseShuts
<1> QED BY <1>1, <1>2, <1>3

(* A list of at most one thing.                                            *)
LEMMA OneListed ==
  ASSUME NEW S, \A x, y \in S : x = y
  PROVE  SetToSeq(S) \in Seq(S) /\ (SetToSeq(S) = <<>> \/ \E x \in S : SetToSeq(S) = <<x>>)
<1>1. CASE S = {}
  <2>1. Cardinality(S) = 0
    BY <1>1, FS_EmptySet
  <2>2. <<>> \in [1..0 -> S] /\ \A f \in [1..0 -> S] : f = <<>>
    OBVIOUS
  <2>3. IsInjective(<<>>)
    BY DEF IsInjective
  <2>4. SetToSeq(S) = <<>>
    BY <2>1, <2>2, <2>3 DEF SetToSeq
  <2> QED BY <2>4
<1>2. CASE S # {}
  <2>1. PICK x : S = {x}
    BY <1>2
  <2>2. Cardinality(S) = 1
    BY <2>1, FS_Singleton
  <2>3. <<x>> \in [1..1 -> S] /\ \A f \in [1..1 -> S] : f = <<x>>
    BY <2>1
  <2>4. IsInjective(<<x>>)
    BY DEF IsInjective
  <2>5. SetToSeq(S) = <<x>>
    BY <2>2, <2>3, <2>4 DEF SetToSeq
  <2>6. x \in S /\ <<x>> \in Seq(S)
    BY <2>1
  <2> QED BY <2>5, <2>6
<1> QED BY <1>1, <1>2

(* A story told to its end is well formed: the usage if there is one, then *)
(* the terminal event, after a story whose blocks are shut if it finishes. *)
LEMMA EndsWell ==
  ASSUME NEW d, NEW out, Story(d, out), NEW us \in Seq(SeamEvent),
         us = <<>> \/ \E x : us = <<x>> /\ x.e = "usage" /\ x.at = NoIndex,
         NEW ev \in SeamEvent, ev.at = NoIndex, ev.e = "failed" \/ (ev.e = "finish" /\ StoryShut(d, out))
  PROVE  LET v == Append(out \o us, ev)
         IN  WellFormed(v) /\ \E i \in DOMAIN v : Terminal(v[i])
<1> DEFINE v == Append(out \o us, ev)
           n == Len(v)
           after == DOMAIN out
<1>1. out \in Seq(SeamEvent) /\ Heard(d, out) /\ d.next \in Nat
  BY DEF Story, StoryOpen, StoryShut, IsDecoder
<1>2. /\ DOMAIN out = 1..Len(out) /\ Len(out) \in Nat /\ DOMAIN v = 1..n /\ v \in Seq(SeamEvent)
      /\ v[n] = ev /\ n \in DOMAIN v /\ Len(out) < n /\ n <= Len(out) + 2
      /\ \A k \in after : k \in DOMAIN v /\ v[k] = out[k] /\ k < n
      /\ \A k \in DOMAIN v : k \in after \/ k = n \/ (k = n - 1 /\ v[k].e = "usage" /\ v[k].at = NoIndex)
  <2>1. CASE us = <<>>
    BY <1>1, <2>1
  <2>2. CASE \E x : us = <<x>> /\ x.e = "usage" /\ x.at = NoIndex
    <3>1. PICK x : us = <<x>> /\ x.e = "usage" /\ x.at = NoIndex
      BY <2>2
    <3>2. x \in SeamEvent
      BY <3>1
    <3>3. v = Append(Append(out, x), ev)
      BY <1>1, <3>1, <3>2
    <3> HIDE DEF v
    <3>4. v \in Seq(SeamEvent) /\ Len(v) = Len(out) + 2 /\ Len(out) \in Nat /\ DOMAIN v = 1..(Len(out) + 2)
      BY <1>1, <3>2, <3>3
    <3>5. v[Len(out) + 1] = x /\ v[Len(out) + 2] = ev /\ \A k \in 1..Len(out) : v[k] = out[k]
      BY <1>1, <3>2, <3>3
    <3> QED BY <1>1, <3>1, <3>4, <3>5, SMTT(30)
  <2> QED BY <2>1, <2>2
<1>3. PICK t \in Seq(SeamEvent) : v = out \o t /\ \A k \in DOMAIN t : t[k].at = NoIndex
  <2>1. CASE us = <<>>
    <3>1. v = out \o <<ev>> /\ <<ev>> \in Seq(SeamEvent)
      BY <1>1, <2>1
    <3>2. \A k \in DOMAIN <<ev>> : <<ev>>[k].at = NoIndex
      OBVIOUS
    <3> HIDE DEF v
    <3> QED BY <3>1, <3>2
  <2>2. CASE \E x : us = <<x>> /\ x.e = "usage" /\ x.at = NoIndex
    <3>1. PICK x : us = <<x>> /\ x.e = "usage" /\ x.at = NoIndex
      BY <2>2
    <3>2. x \in SeamEvent
      BY <3>1
    <3>3. v = out \o <<x, ev>> /\ <<x, ev>> \in Seq(SeamEvent)
      BY <1>1, <3>1, <3>2
    <3>4. \A k \in DOMAIN <<x, ev>> : <<x, ev>>[k].at = NoIndex
      BY <3>1
    <3> HIDE DEF v
    <3> QED BY <3>3, <3>4
  <2> QED BY <2>1, <2>2
<1> HIDE DEF v, n
<1>4. ASSUME NEW i \in Nat
      PROVE  /\ \A kind, w : BlockOpen(out, i, kind, w) => BlockOpen(v, i, kind, w)
             /\ BlockShut(out, i) => BlockShut(v, i)
  <2>1. BlockNew(t, i)
    BY <1>3 DEF BlockNew, NoIndex
  <2> QED BY <1>1, <1>3, <2>1, BlockKept
<1>5. ASSUME NEW k \in after
      PROVE  /\ out[k].at \in Nat /\ out[k].e \in {"start", "delta", "end"} /\ out[k].at # NoIndex
  BY <1>1 DEF Heard, NoIndex
<1>6. ASSUME NEW k \in after PROVE BlockIsSound(v, out[k].at)
  <2> DEFINE i == out[k].at
  <2>1. i \in Nat
    BY <1>5
  <2>2. CASE StoryShut(d, out)
    <3>1. BlockShut(out, i)
      BY <2>2 DEF StoryShut
    <3> HIDE DEF i
    <3> QED BY <1>2, <1>4, <2>1, <3>1, StoryIsSound DEF i
  <2>3. CASE StoryOpen(d, out)
    <3>1. HasBlock(d, i) /\ BlocksOpen(d, out) /\ CallsOpen(d, out)
      BY <2>3 DEF StoryOpen
    <3>2. \E kind, w : BlockOpen(out, i, kind, w)
      <4>1. CASE \E kind \in OneBlock : d.at[kind] = i
        BY <1>5, <3>1, <4>1 DEF BlocksOpen
      <4>2. CASE \E x \in DOMAIN d.calls : d.calls[x].at = i
        BY <3>1, <4>2 DEF CallsOpen
      <4> QED BY <3>1, <4>1, <4>2 DEF HasBlock
    <3> HIDE DEF i
    <3> QED BY <1>2, <1>4, <2>1, <3>2, StoryIsSound DEF i
  <2> QED BY <2>2, <2>3 DEF Story
<1>7. \A k \in DOMAIN v : Terminal(v[k]) <=> k = n
  BY <1>2, <1>5 DEF Terminal
<1> DEFINE usages == Positions(v, LAMBDA x : x.e = "usage")
<1>8. usages = { k \in DOMAIN v : v[k].e = "usage" }
  BY DEF Positions
<1>9. \A k \in usages : k = n - 1
  BY <1>2, <1>5, <1>8
<1>10. Cardinality(usages) <= 1
  <2> HIDE DEF usages
  <2>1. CASE usages = {}
    BY <2>1, FS_EmptySet
  <2>2. CASE usages # {}
    <3>1. usages = {n - 1}
      BY <1>9, <2>2
    <3>2. Cardinality({n - 1}) = 1
      BY FS_Singleton
    <3> QED BY <3>1, <3>2
  <2> QED BY <2>1, <2>2
<1>11. \A i \in { v[k].at : k \in DOMAIN v } \ {NoIndex} : BlockIsSound(v, i)
  <2> SUFFICES ASSUME NEW k \in DOMAIN v, v[k].at # NoIndex PROVE BlockIsSound(v, v[k].at)
    OBVIOUS
  <2>1. k \in after /\ v[k] = out[k]
    BY <1>2
  <2> QED BY <1>6, <2>1
<1> DEFINE starts == Positions(v, LAMBDA x : x.e = "start")
           ends   == Positions(v, LAMBDA x : x.e = "end")
<1>12. ASSUME ev.e = "finish" PROVE { v[k].at : k \in starts } = { v[k].at : k \in ends }
  <2>1. StoryShut(d, out)
    BY <1>12
  <2>2. ASSUME NEW k \in after
        PROVE  \E a, z \in DOMAIN v : v[a].e = "start" /\ v[a].at = out[k].at /\ v[z].e = "end" /\ v[z].at = out[k].at
    <3>1. BlockShut(v, out[k].at)
      BY <1>4, <1>5, <2>1 DEF StoryShut
    <3> QED BY <3>1 DEF BlockShut
  <2>3. starts = { k \in DOMAIN v : v[k].e = "start" } /\ ends = { k \in DOMAIN v : v[k].e = "end" }
    BY DEF Positions
  <2>4. \A k \in DOMAIN v : v[k].e \in {"start", "end"} => k \in after /\ v[k] = out[k]
    BY <1>2
  <2> HIDE DEF starts, ends
  <2>5. ASSUME NEW k \in starts PROVE \E z \in ends : v[z].at = v[k].at
    BY <2>2, <2>3, <2>4
  <2>6. ASSUME NEW k \in ends PROVE \E a \in starts : v[a].at = v[k].at
    BY <2>2, <2>3, <2>4
  <2> QED BY <2>5, <2>6
<1>13. WellFormed(v)
  <2> HIDE DEF usages, starts, ends
  <2>1. \A i \in usages : i >= Len(v) - 1
    <3>1. Len(v) \in Nat
      BY <1>2
    <3> QED BY <1>9, <3>1 DEF n
  <2>2. v # <<>> /\ v[Len(v)] = ev
    BY <1>2 DEF n
  <2>3. \A i \in DOMAIN v : Terminal(v[i]) => i = Len(v)
    BY <1>7 DEF n
  <2> QED BY <1>10, <1>11, <1>12, <2>1, <2>2, <2>3 DEF WellFormed, usages, starts, ends
<1> QED BY <1>2, <1>7, <1>13 DEF v

(* A story that is going on is well formed as it stands.                   *)
LEMMA StoryIsWell ==
  ASSUME NEW d, NEW out, Story(d, out)
  PROVE  WellFormed(out) /\ \A k \in DOMAIN out : ~Terminal(out[k]) /\ out[k].usage = {}
<1>1. out \in Seq(SeamEvent) /\ Heard(d, out) /\ d.next \in Nat
  BY DEF Story, StoryOpen, StoryShut, IsDecoder
<1>2. ASSUME NEW k \in DOMAIN out
      PROVE  /\ out[k].at \in Nat /\ out[k].at # NoIndex
             /\ out[k].e \in {"start", "delta", "end"} /\ out[k].usage = {}
  <2>1. out[k] \in SeamEvent
    BY <1>1
  <2> QED BY <1>1, <2>1, EventFields DEF Heard, NoIndex
<1>3. ASSUME NEW k \in DOMAIN out PROVE BlockIsSound(out, out[k].at)
  <2> DEFINE i == out[k].at
  <2>1. CASE StoryShut(d, out)
    BY <1>1, <2>1, StoryIsSound DEF StoryShut
  <2>2. CASE StoryOpen(d, out)
    <3>1. HasBlock(d, i) /\ BlocksOpen(d, out) /\ CallsOpen(d, out)
      BY <2>2 DEF StoryOpen
    <3>2. \E kind, w : BlockOpen(out, i, kind, w)
      <4>1. CASE \E kind \in OneBlock : d.at[kind] = i
        BY <1>2, <3>1, <4>1 DEF BlocksOpen
      <4>2. CASE \E x \in DOMAIN d.calls : d.calls[x].at = i
        BY <3>1, <4>2 DEF CallsOpen
      <4> QED BY <3>1, <4>1, <4>2 DEF HasBlock
    <3> HIDE DEF i
    <3> QED BY <1>1, <3>2, StoryIsSound DEF i
  <2> QED BY <2>1, <2>2 DEF Story
<1>4. \A k \in DOMAIN out : ~Terminal(out[k])
  BY <1>2 DEF Terminal
<1> DEFINE usages == Positions(out, LAMBDA x : x.e = "usage")
<1>5. usages = {}
  BY <1>2 DEF Positions
<1>6. Cardinality(usages) <= 1
  BY <1>5, FS_EmptySet
<1>7. \A i \in { out[k].at : k \in DOMAIN out } \ {NoIndex} : BlockIsSound(out, i)
  BY <1>3
<1>8. ~(out # <<>> /\ out[Len(out)].e = "finish")
  <2>1. out # <<>> => Len(out) \in DOMAIN out
    BY <1>1
  <2> QED BY <1>2, <2>1
<1>9. WellFormed(out)
  <2> HIDE DEF usages
  <2> QED BY <1>4, <1>5, <1>6, <1>7, <1>8 DEF WellFormed, usages
<1> QED BY <1>2, <1>4, <1>9

LEMMA FreshStory ==
  ASSUME NEW n \in Nat
  PROVE  Story(NewDecoder(n), <<>>) /\ NewDecoder(n).usage = {}
<1> DEFINE d == NewDecoder(n)
<1>1. /\ DOMAIN d = {"next", "at", "said", "calls", "nextCall", "usage", "finished"}
      /\ d.next = 0 /\ d.nextCall = n /\ d.finished \in BOOLEAN /\ ~d.finished /\ d.usage = {} /\ d.calls = <<>>
      /\ d.at = [k \in OneBlock |-> NoIndex] /\ d.said = [k \in OneBlock |-> <<>>]
  BY DEF NewDecoder
<1> HIDE DEF d
<1>2. d.at \in [OneBlock -> Int] /\ d.said \in [OneBlock -> Said]
  BY <1>1 DEF NoIndex, Said
<1>3. DOMAIN d.calls = {} /\ IsFiniteSet({})
  BY <1>1, FS_EmptySet
<1>4. IsDecoder(d)
  <2>1. d.next \in Nat /\ d.nextCall \in Nat /\ d.finished \in BOOLEAN
    BY <1>1
  <2>2. d.usage \subseteq UsageOf /\ \A u, v \in d.usage : u = v
    BY <1>1
  <2>3. /\ IsFiniteSet(DOMAIN d.calls) /\ DOMAIN d.calls \subseteq Nat
        /\ \A x \in DOMAIN d.calls : d.calls[x] \in CallState
    BY <1>3
  <2> HIDE DEF Said
  <2> QED BY <1>1, <1>2, <2>1, <2>2, <2>3 DEF IsDecoder
<1>5. StoryOpen(d, <<>>)
  BY <1>1, <1>3, <1>4 DEF StoryOpen, Heard, BlocksOpen, CallsOpen
<1> QED BY <1>1, <1>5 DEF Story, d

(* A stream: a story that goes on, or one that is told and well formed,    *)
(* and every usage in it is of a chunk that was read.                      *)
StreamFields == {"at", "sent", "body", "buf", "dec", "chunks", "malformed", "out"}
Accounted(u, chunks) == \E c \in ToSet(chunks) : \E v \in ChunkOf[c].usage : u = UsageFromValue(v)
EndsAs(out) ==
  /\ out \in Seq(SeamEvent) /\ out # <<>>
  /\ \/ \E code \in EventCode \ {NoFailure} : out[Len(out)] = Failed(code)
     \/ out[Len(out)] = Finish /\ HasContent(out)
StreamOk(r) ==
  /\ DOMAIN r = StreamFields /\ r.chunks \in Seq(DOMAIN ChunkOf)
  /\ r.at # "ended" => Story(r.dec, r.out) /\ \A u \in r.dec.usage : Accounted(u, r.chunks)
  /\ r.at = "ended" =>
       /\ WellFormed(r.out) /\ EndsAs(r.out) /\ \E i \in DOMAIN r.out : Terminal(r.out[i])
       /\ \A i \in DOMAIN r.out : \A u \in r.out[i].usage : Accounted(u, r.chunks)
StreamInv == DOMAIN streams = Streams /\ \A s \in Streams : StreamOk(streams[s])

LEMMA StreamSame ==
  ASSUME NEW r, StreamOk(r), NEW q, DOMAIN q = StreamFields, r.at # "ended", q.at # "ended",
         q.dec = r.dec, q.out = r.out, q.chunks = r.chunks
  PROVE  StreamOk(q)
BY DEF StreamOk

LEMMA AccountedOn ==
  ASSUME NEW u, NEW cs \in Seq(DOMAIN ChunkOf), NEW c \in DOMAIN ChunkOf
  PROVE  /\ Accounted(u, cs) => Accounted(u, Append(cs, c))
         /\ (\E v \in ChunkOf[c].usage : u = UsageFromValue(v)) => Accounted(u, Append(cs, c))
<1>1. \A x \in ToSet(cs) : x \in ToSet(Append(cs, c))
  BY DEF ToSet
<1>2. c \in ToSet(Append(cs, c))
  <2>1. Len(cs) + 1 \in DOMAIN Append(cs, c) /\ Append(cs, c)[Len(cs) + 1] = c
    OBVIOUS
  <2> QED BY <2>1 DEF ToSet
<1> QED BY <1>1, <1>2 DEF Accounted

(* How a stream ends.                                                      *)
LEMMA FailsWell ==
  ASSUME NEW r, StreamOk(r), r.at # "ended", NEW code \in EventCode \ {NoFailure}
  PROVE  StreamOk(Ended(r, Failed(code)))
<1> DEFINE ev == Failed(code)
           q  == Ended(r, ev)
           v  == Append(r.out \o <<>>, ev)
<1>1. Story(r.dec, r.out) /\ DOMAIN r = StreamFields /\ r.chunks \in Seq(DOMAIN ChunkOf)
  BY DEF StreamOk
<1>2. r.out \in Seq(SeamEvent)
  BY <1>1 DEF Story, StoryOpen, StoryShut
<1>3. ev \in SeamEvent /\ ev.e = "failed" /\ ev.at = NoIndex /\ ev.usage = {}
  BY FailedIs
<1> HIDE DEF ev
<1>4. DOMAIN q = StreamFields /\ q.at = "ended" /\ q.chunks = r.chunks /\ q.out = Append(r.out, ev)
  BY <1>1 DEF Ended, StreamFields
<1>5. <<>> \in Seq(SeamEvent) /\ v = q.out
  BY <1>2, <1>4
<1> HIDE DEF q
<1>6. EndsAs(q.out)
  <2>1. q.out \in Seq(SeamEvent) /\ q.out # <<>> /\ q.out[Len(q.out)] = ev
    BY <1>2, <1>3, <1>4
  <2> QED BY <2>1 DEF EndsAs, ev
<1>7. WellFormed(v) /\ \E i \in DOMAIN v : Terminal(v[i])
  BY <1>1, <1>3, <1>5, EndsWell
<1>8. \A i \in DOMAIN q.out : q.out[i].usage = {}
  <2>1. \A k \in DOMAIN r.out : r.out[k].usage = {}
    BY <1>1, StoryIsWell
  <2> QED BY <1>2, <1>3, <1>4, <2>1
<1> HIDE DEF v
<1> QED BY <1>1, <1>4, <1>5, <1>7, <1>8, <1>6 DEF StreamOk, q, ev

LEMMA ClosesWell ==
  ASSUME NEW r, StreamOk(r), r.at # "ended"
  PROVE  StreamOk(Closing(r))
<1> DEFINE f   == FinishDecoder(r.dec)
           out == r.out \o f.frames
           S   == { UsageFrame(u) : u \in f.dec.usage }
           us  == SetToSeq(S)
           ev  == IF HadContent(f.dec) THEN Finish ELSE Failed("empty-completion")
           q   == Closing(r)
<1>1. /\ Story(r.dec, r.out) /\ DOMAIN r = StreamFields /\ r.chunks \in Seq(DOMAIN ChunkOf)
      /\ \A u \in r.dec.usage : Accounted(u, r.chunks)
  BY DEF StreamOk
<1>2. DOMAIN q = StreamFields /\ q.at = "ended" /\ q.chunks = r.chunks /\ q.out = Append(r.out \o f.frames \o us, ev)
  BY <1>1 DEF Closing, Ended, StreamFields
<1> HIDE DEF q
<1>3. StoryShut(f.dec, out) /\ f.dec.usage = r.dec.usage
  BY <1>1, FinishShuts
<1> HIDE DEF f
<1>4. IsDecoder(f.dec) /\ out \in Seq(SeamEvent)
  BY <1>3 DEF StoryShut
<1>5. /\ \A x \in S : x \in SeamEvent /\ x.e = "usage" /\ x.at = NoIndex /\ \A u \in x.usage : u \in r.dec.usage
      /\ \A x, y \in S : x = y
  <2>1. \A u \in f.dec.usage : u \in UsageOf
    BY <1>4 DEF IsDecoder
  <2>2. \A u, v \in f.dec.usage : u = v
    BY <1>4 DEF IsDecoder
  <2> QED BY <1>3, <2>1, <2>2, UsageFrameIs
<1>6. /\ us \in Seq(S) /\ (us = <<>> \/ \E x \in S : us = <<x>>)
  <2> HIDE DEF S
  <2> QED BY <1>5, OneListed
<1>7. /\ ev \in SeamEvent /\ ev.at = NoIndex /\ ev.e \in {"finish", "failed"} /\ ev.usage = {}
  BY FinishIs, FailedIs DEF EventCode
<1>8. \/ ev = Finish /\ HadContent(f.dec)
      \/ \E code \in EventCode \ {NoFailure} : ev = Failed(code)
  BY DEF EventCode, NoFailure
<1> HIDE DEF S, us, ev
<1>9. us \in Seq(SeamEvent) /\ (us = <<>> \/ \E x : us = <<x>> /\ x.e = "usage" /\ x.at = NoIndex)
  BY <1>5, <1>6
<1> DEFINE v == Append(out \o us, ev)
<1>10. WellFormed(v) /\ \E i \in DOMAIN v : Terminal(v[i])
  <2> HIDE DEF out
  <2> QED BY <1>3, <1>7, <1>9, EndsWell DEF Story
<1>11. \A k \in DOMAIN out : out[k].usage = {}
  BY <1>3, StoryIsWell DEF Story
<1>12. \A k \in DOMAIN out : out[k].e \in {"start", "delta", "end"}
  BY <1>3 DEF StoryShut, Heard
<1>13. HadContent(f.dec) => out # <<>>
  BY <1>3 DEF StoryShut
<1> HIDE DEF out
<1>14. EndsAs(v)
  <2>1. out \o us \in Seq(SeamEvent) /\ \A k \in DOMAIN out : k \in DOMAIN (out \o us) /\ (out \o us)[k] = out[k]
    BY <1>4, <1>9, ConcatParts
  <2>2. /\ v \in Seq(SeamEvent) /\ v # <<>> /\ v[Len(v)] = ev
        /\ \A k \in DOMAIN (out \o us) : k \in DOMAIN v /\ v[k] = (out \o us)[k]
    BY <1>7, <2>1
  <2>3. ASSUME HadContent(f.dec) PROVE HasContent(v)
    <3>1. 1 \in DOMAIN out
      BY <1>4, <1>13, <2>3
    <3>2. 1 \in DOMAIN v /\ v[1].e \in {"start", "delta", "end"}
      BY <1>12, <2>1, <2>2, <3>1
    <3> QED BY <3>2 DEF HasContent
  <2> QED BY <1>8, <2>2, <2>3 DEF EndsAs
<1>15. ASSUME NEW i \in DOMAIN v, NEW u \in v[i].usage PROVE u \in r.dec.usage
  <2>1. CASE us = <<>>
    <3>1. v = Append(out, ev)
      BY <1>4, <2>1
    <3> HIDE DEF v
    <3> QED BY <1>4, <1>7, <1>11, <1>15, <3>1
  <2>2. CASE us # <<>>
    <3>1. PICK x \in S : us = <<x>>
      BY <1>6, <2>2
    <3>2. x \in SeamEvent /\ \A w \in x.usage : w \in r.dec.usage
      BY <1>5
    <3>3. v = Append(Append(out, x), ev)
      BY <1>4, <3>1, <3>2
    <3> HIDE DEF v
    <3>4. (i \in DOMAIN out /\ v[i] = out[i]) \/ v[i] = x \/ v[i] = ev
      BY <1>4, <1>7, <1>15, <3>2, <3>3
    <3> QED BY <1>7, <1>11, <1>15, <3>2, <3>4
  <2> QED BY <2>1, <2>2
<1>16. q.out = v
  BY <1>2 DEF out
<1> HIDE DEF v
<1> QED BY <1>1, <1>2, <1>10, <1>15, <1>16, <1>14 DEF StreamOk, q

LEMMA StreamSet ==
  ASSUME StreamInv, NEW s \in Streams, NEW q, StreamOk(q), Set(s, q)
  PROVE  StreamInv'
<1>1. DOMAIN streams' = Streams /\ \A t \in Streams : streams'[t] = IF t = s THEN q ELSE streams[t]
  BY DEF StreamInv, Set
<1>2. \A t \in Streams : StreamOk(streams'[t])
  BY <1>1 DEF StreamInv
<1> QED BY <1>1, <1>2 DEF StreamInv, StreamOk

LEMMA StreamStarts == ModelInit => StreamInv
<1> SUFFICES ASSUME ModelInit PROVE StreamInv
  OBVIOUS
<1>1. streams = [s \in Streams |-> IdleStream]
  BY DEF ModelInit, ModelFrom
<1>2. /\ DOMAIN IdleStream = StreamFields /\ IdleStream.at = "idle" /\ IdleStream.chunks = <<>>
      /\ IdleStream.dec = NewDecoder(0) /\ IdleStream.out = <<>>
  BY DEF IdleStream, StreamFields
<1>3. Story(IdleStream.dec, IdleStream.out) /\ IdleStream.dec.usage = {}
  BY <1>2, FreshStory
<1>4. StreamOk(IdleStream)
  BY <1>2, <1>3 DEF StreamOk
<1> QED BY <1>1, <1>4 DEF StreamInv

LEMMA StreamDecodes ==
  ASSUME StreamInv, NEW s \in Streams, DecodeEvent(s)
  PROVE  StreamInv'
<1> DEFINE r     == streams[s]
           i     == FirstBlank(r.buf)
           lines == DataLines(SubSeq(r.buf, 1, i - 1))
           rest  == [r EXCEPT !.buf = SubSeq(@, i + 2, Len(@))]
           name  == lines[1][2]
           chunk == ChunkOf[name]
           p     == Push(r.dec, chunk)
           heard == [rest EXCEPT !.chunks = Append(@, name)]
           bad   == [rest EXCEPT !.malformed = @ + 1]
           after  == [heard EXCEPT !.dec = p.dec, !.out = @ \o p.frames]
           q     == IF lines = <<>> THEN rest
                    ELSE IF ~Parses(lines) THEN bad
                    ELSE IF chunk.error # "none" THEN Ended(heard, InBandError(chunk))
                    ELSE after
<1>1. r.at = "open" /\ Set(s, q)
  BY ZenonT(30) DEF DecodeEvent
<1>2. StreamOk(r)
  BY SMTT(30) DEF StreamInv
<1>3. DOMAIN r = StreamFields /\ r.chunks \in Seq(DOMAIN ChunkOf) /\ r.at # "ended"
      /\ Story(r.dec, r.out) /\ \A u \in r.dec.usage : Accounted(u, r.chunks)
  BY <1>1, <1>2, ZenonT(30) DEF StreamOk
<1> HIDE DEF r, i, lines
<1>4. /\ DOMAIN rest = StreamFields /\ rest.at = r.at /\ rest.dec = r.dec
      /\ rest.out = r.out /\ rest.chunks = r.chunks
  BY <1>3 DEF StreamFields
<1> HIDE DEF rest
<1>5. StreamOk(rest)
  BY <1>2, <1>3, <1>4, StreamSame
<1>6. StreamOk(bad)
  <2>1. /\ DOMAIN bad = StreamFields /\ bad.at = rest.at /\ bad.dec = rest.dec
        /\ bad.out = rest.out /\ bad.chunks = rest.chunks
    BY <1>4 DEF StreamFields
  <2> HIDE DEF bad
  <2> QED BY <1>3, <1>4, <1>5, <2>1, StreamSame
<1>7. ASSUME Parses(lines)
      PROVE  StreamOk(Ended(heard, InBandError(chunk))) /\ StreamOk(after)
  <2>1. name \in DOMAIN ChunkOf
    BY <1>7 DEF Parses
  <2> HIDE DEF name
  <2>2. IsChunk(chunk)
    BY <2>1, ModelAssumption
  <2>3. /\ DOMAIN heard = StreamFields /\ heard.at = r.at /\ heard.dec = r.dec
        /\ heard.out = r.out /\ heard.chunks = Append(r.chunks, name)
    BY <1>3, <1>4 DEF StreamFields
  <2> HIDE DEF heard
  <2>4. heard.chunks \in Seq(DOMAIN ChunkOf)
    BY <1>3, <2>1, <2>3
  <2>5. \A u : Accounted(u, r.chunks) => Accounted(u, heard.chunks)
    BY <1>3, <2>1, <2>3, AccountedOn
  <2>6. \A v \in chunk.usage : Accounted(UsageFromValue(v), heard.chunks)
    BY <1>3, <2>1, <2>3, AccountedOn
  <2>7. StreamOk(heard)
    BY <1>3, <2>3, <2>4, <2>5 DEF StreamOk
  <2>8. StreamOk(Ended(heard, InBandError(chunk)))
    <3>1. {"context-overflow", "provider-failure"} \subseteq EventCode \ {NoFailure}
      BY DEF EventCode, NoFailure
    <3>2. InBandError(chunk) = Failed("context-overflow") \/ InBandError(chunk) = Failed("provider-failure")
      BY DEF InBandError
    <3>3. \E code \in EventCode \ {NoFailure} : InBandError(chunk) = Failed(code)
      BY <3>1, <3>2
    <3>4. heard.at # "ended"
      BY <1>3, <2>3
    <3> QED BY <2>7, <3>3, <3>4, FailsWell
  <2> HIDE DEF chunk
  <2>9. /\ Story(p.dec, r.out \o p.frames)
        /\ p.dec.usage \in {r.dec.usage, { UsageFromValue(u) : u \in chunk.usage }}
    BY <1>3, <2>2, PushGoesOn
  <2> HIDE DEF p
  <2>10. /\ DOMAIN after = StreamFields /\ after.at = heard.at /\ after.dec = p.dec
         /\ after.out = r.out \o p.frames /\ after.chunks = heard.chunks
    BY <2>3 DEF StreamFields
  <2> HIDE DEF after
  <2>11. \A u \in p.dec.usage : Accounted(u, heard.chunks)
    BY <1>3, <2>5, <2>6, <2>9
  <2>12. StreamOk(after)
    BY <1>3, <2>3, <2>4, <2>9, <2>10, <2>11 DEF StreamOk
  <2> QED BY <2>8, <2>12
<1>8. StreamOk(q)
  <2> HIDE DEF bad, after, heard, chunk
  <2> QED BY <1>5, <1>6, <1>7
<1> HIDE DEF q
<1> QED BY <1>1, <1>8, StreamSet, SMTT(30)

LEMMA StreamSteps ==
  ASSUME StreamInv, [ModelNext]_modelVars
  PROVE  StreamInv'
<1>1. CASE UNCHANGED modelVars
  BY <1>1 DEF modelVars, StreamInv, StreamOk
<1>2. ASSUME NEW s \in Streams, NEW body \in modelEnv.bodies, StreamCall(s, body) PROVE StreamInv'
  <2> DEFINE q == [IdleStream EXCEPT !.at = "connecting", !.sent = body, !.body = body, !.dec = NewDecoder(s)]
  <2>1. /\ DOMAIN q = StreamFields /\ q.at = "connecting" /\ q.chunks = <<>>
        /\ q.dec = NewDecoder(s) /\ q.out = <<>>
    BY DEF IdleStream, StreamFields
  <2>2. Set(s, q)
    BY <1>2 DEF StreamCall
  <2> HIDE DEF q
  <2>3. s \in Nat
    BY ModelAssumption
  <2>4. Story(q.dec, q.out) /\ q.dec.usage = {}
    BY <2>1, <2>3, FreshStory
  <2>5. StreamOk(q)
    BY <2>1, <2>4 DEF StreamOk
  <2> QED BY <2>2, <2>5, StreamSet
<1>3. ASSUME NEW s \in Streams, NEW why, Unanswered(s, why) PROVE StreamInv'
  <2> DEFINE code == IF why \in {"window", "tokens"} THEN "context-overflow" ELSE "provider-failure"
  <2>1. streams[s].at = "connecting" /\ Set(s, Ended(streams[s], Failed(code)))
    BY <1>3 DEF Unanswered
  <2>2. code \in EventCode \ {NoFailure}
    BY DEF EventCode, NoFailure
  <2> HIDE DEF code
  <2>3. StreamOk(Ended(streams[s], Failed(code)))
    BY <2>1, <2>2, FailsWell DEF StreamInv
  <2> QED BY <2>1, <2>3, StreamSet
<1>4. ASSUME NEW s \in Streams, Connected(s) PROVE StreamInv'
  <2> DEFINE r == streams[s]
             q == [r EXCEPT !.at = "open"]
  <2>1. r.at = "connecting" /\ Set(s, q) /\ StreamOk(r)
    BY <1>4 DEF Connected, StreamInv
  <2> HIDE DEF r
  <2>2. DOMAIN q = StreamFields /\ q.at = "open" /\ q.dec = r.dec /\ q.out = r.out /\ q.chunks = r.chunks
    BY <2>1 DEF StreamFields, StreamOk
  <2> HIDE DEF q
  <2>3. StreamOk(q)
    BY <2>1, <2>2, StreamSame
  <2> QED BY <2>1, <2>3, StreamSet
<1>5. ASSUME NEW s \in Streams, NEW n, Arrive(s, n) PROVE StreamInv'
  <2> DEFINE r == streams[s]
             q == [r EXCEPT !.buf = @ \o Normalise(SubSeq(r.body, 1, n)), !.body = SubSeq(@, n + 1, Len(@))]
  <2>1. r.at = "open" /\ Set(s, q) /\ StreamOk(r)
    BY <1>5 DEF Arrive, StreamInv
  <2> HIDE DEF r
  <2>2. DOMAIN q = StreamFields /\ q.at = r.at /\ q.dec = r.dec /\ q.out = r.out /\ q.chunks = r.chunks
    BY <2>1 DEF StreamFields, StreamOk
  <2> HIDE DEF q
  <2>3. StreamOk(q)
    BY <2>1, <2>2, StreamSame
  <2> QED BY <2>1, <2>3, StreamSet
<1>6. ASSUME NEW s \in Streams, ReadFails(s) PROVE StreamInv'
  <2>1. streams[s].at = "open" /\ Set(s, Ended(streams[s], Failed("stream-terminated")))
    BY <1>6 DEF ReadFails
  <2>2. StreamOk(Ended(streams[s], Failed("stream-terminated")))
    BY <2>1, FailsWell DEF StreamInv, EventCode, NoFailure
  <2> QED BY <2>1, <2>2, StreamSet
<1>7. ASSUME NEW s \in Streams, EndOfBody(s) PROVE StreamInv'
  <2>1. streams[s].at = "open" /\ Set(s, Closing(streams[s]))
    BY <1>7 DEF EndOfBody
  <2>2. StreamOk(Closing(streams[s]))
    BY <2>1, ClosesWell DEF StreamInv
  <2> QED BY <2>1, <2>2, StreamSet
<1> QED BY <1>1, <1>2, <1>3, <1>4, <1>5, <1>6, <1>7, StreamDecodes DEF ModelNext

LEMMA StreamInvIsSound == StreamInv => StreamIsSound
<1> SUFFICES ASSUME StreamInv, NEW s \in Streams
             PROVE  /\ WellFormed(streams[s].out)
                    /\ (streams[s].at = "ended" <=> \E i \in DOMAIN streams[s].out : Terminal(streams[s].out[i]))
                    /\ \A i \in DOMAIN streams[s].out : \A u \in streams[s].out[i].usage :
                         \E c \in ToSet(streams[s].chunks) : \E v \in ChunkOf[c].usage :
                           /\ u.output = v.completion
                           /\ Consistent(v) => u.uncached + u.reads = v.prompt
  BY DEF StreamIsSound, StreamIsWellFormed, UsageIsDisjoint
<1> DEFINE r == streams[s]
<1>1. StreamOk(r)
  BY DEF StreamInv
<1> HIDE DEF r
<1>2. ASSUME NEW u, Accounted(u, r.chunks)
      PROVE  \E c \in ToSet(r.chunks) : \E v \in ChunkOf[c].usage :
               u.output = v.completion /\ (Consistent(v) => u.uncached + u.reads = v.prompt)
  <2>1. PICK c \in ToSet(r.chunks) : \E v \in ChunkOf[c].usage : u = UsageFromValue(v)
    BY <1>2 DEF Accounted
  <2>2. PICK v \in ChunkOf[c].usage : u = UsageFromValue(v)
    BY <2>1
  <2>3. c \in DOMAIN ChunkOf
    BY <1>1, <2>1 DEF StreamOk, ToSet
  <2>4. v \in Counts
    BY <2>2, <2>3, ModelAssumption DEF IsChunk
  <2> QED BY <2>2, <2>4, UsageSplit
<1>3. CASE r.at = "ended"
  BY <1>1, <1>2, <1>3 DEF StreamOk, r
<1>4. CASE r.at # "ended"
  <2>1. Story(r.dec, r.out)
    BY <1>1, <1>4 DEF StreamOk
  <2>2. WellFormed(r.out) /\ \A k \in DOMAIN r.out : ~Terminal(r.out[k]) /\ r.out[k].usage = {}
    BY <2>1, StoryIsWell
  <2> QED BY <1>4, <2>2 DEF r
<1> QED BY <1>3, <1>4

(* Every stream tells a consumer a well-formed story, whatever its body    *)
(* says and wherever it is cut: one terminal event and last, the usage     *)
(* right before it and of a chunk that was read, its prompt accounted      *)
(* once, and blocks that start once, grow while open and end as the text   *)
(* of their deltas.                                                        *)
THEOREM ModelStreamIsSound == StreamSpec => []StreamIsSound
<1>1. ModelInit => StreamInv
  BY StreamStarts
<1>2. StreamInv /\ [ModelNext]_modelVars => StreamInv'
  BY StreamSteps
<1>3. StreamInv => StreamIsSound
  BY StreamInvIsSound
<1> QED BY <1>1, <1>2, <1>3, PTL DEF StreamSpec

----------------------------------------------------------------------------
(***************************************************************************)
(* ReplayScript                                                            *)
(***************************************************************************)
ReplaySpec ==
  /\ ModelInit /\ ReplayInit
  /\ [][\/ ModelNext /\ UNCHANGED replayVars
        \/ ReplayNext /\ UNCHANGED modelVars]_<<modelVars, replayVars>>

EndFold == INSTANCE FoldFacts WITH Op <- Ending

LEMMA EndFoldIs == ASSUME NEW f PROVE EndFold!Folded(<<>>, f) = EndsOf(f)
BY DEF EndFold!Folded, EndFold!FoldLeft, EndFold!MapThenFoldSet, EndFold!Max,
       EndsOf, FoldLeft, MapThenFoldSet, Max

(* The ends among the events, one event at a time.                         *)
LEMMA EndsGrow ==
  /\ EndsOf(<<>>) = <<>>
  /\ \A S : \A out \in Seq(S) : \A ev : EndsOf(Append(out, ev)) = Ending(EndsOf(out), ev)
  /\ \A out \in Seq(RecordedFrame) : EndsOf(out) \in Seq(RecordedFrame)
<1>1. EndsOf(<<>>) = <<>>
  BY EndFold!FoldOfEmpty, EndFoldIs
<1>2. ASSUME NEW S, NEW out \in Seq(S), NEW ev PROVE EndsOf(Append(out, ev)) = Ending(EndsOf(out), ev)
  <2>1. EndFold!Folded(<<>>, Append(out, ev)) = Ending(EndFold!Folded(<<>>, out), ev)
    BY EndFold!FoldOfAppend
  <2> QED BY <2>1, EndFoldIs
<1>3. ASSUME NEW out \in Seq(RecordedFrame) PROVE EndsOf(out) \in Seq(RecordedFrame)
  <2> DEFINE D == Seq(RecordedFrame)
  <2>1. <<>> \in D /\ \A d \in D, x \in RecordedFrame : Ending(d, x) \in D
    <3> HIDE DEF RecordedFrame
    <3> QED BY DEF Ending
  <2> HIDE DEF D
  <2>2. \A s \in Seq(RecordedFrame) : EndFold!Folded(<<>>, s) \in D
    BY <2>1, EndFold!FoldStaysIn
  <2> QED BY <2>2, EndFoldIs DEF D
<1> QED BY <1>1, <1>2, <1>3

LEMMA FramesAre ==
  /\ SeamEvent \subseteq RecordedFrame
  /\ \A code \in EventCode : Failed(code) \in RecordedFrame
  /\ \A ev \in RecordedFrame : ev.at \in Int
  /\ \A ev \in SeamEvent : ev.kind \in KnownKind
<1> DEFINE Ks == BlockKind \cup {""}
           Rs == KnownKind \cup {"unknown"}
           Us == SUBSET UsageOf
<1>1. RecordedFrame = [e : EventName, at : Int, kind : Rs, call : Nat, said : Said, usage : Us, code : EventCode]
  BY DEF RecordedFrame, Said, UsageOf
<1>2. \A x \in Ks : x \in Rs /\ x \in KnownKind
  BY Zenon DEF BlockKind, OneBlock, KnownKind
<1>3. \A ev \in SeamEvent : ev \in [e : EventName, at : Int, kind : Ks, call : Nat, said : Said, usage : Us, code : EventCode]
  BY DEF SeamEvent
<1> HIDE DEF Ks, Rs, Us
<1>4. ASSUME NEW ev \in SeamEvent
      PROVE  ev \in RecordedFrame /\ ev.kind \in KnownKind
  BY <1>1, <1>2, <1>3
<1>5. ASSUME NEW code \in EventCode PROVE Failed(code) \in RecordedFrame
  BY <1>4, FailedIs
<1>6. \A ev \in RecordedFrame : ev.at \in Int
  BY <1>1
<1> QED BY <1>4, <1>5, <1>6

----------------------------------------------------------------------------
(* The metadata is of the first of the blocks that ended, in their order.  *)
Describes(blocks, ends) ==
  /\ Len(blocks) \in Nat /\ DOMAIN blocks = 1..Len(blocks) /\ Len(blocks) <= Len(ends)
  /\ \A i \in DOMAIN blocks : blocks[i] = ends[i].at

LEMMA EntriesDescribe ==
  ASSUME NEW frames \in Seq(RecordedFrame)
  PROVE  /\ Describes(<<>>, EndsOf(frames)) /\ Describes(Entries(frames), EndsOf(frames))
         /\ \A blocks \in Seq(Int) : IsPrefix(blocks, Entries(frames)) => Describes(blocks, EndsOf(frames))
<1> DEFINE ends == EndsOf(frames)
           entries == Entries(frames)
<1>1. ends \in Seq(RecordedFrame)
  BY EndsGrow
<1>2. entries = [i \in DOMAIN ends |-> ends[i].at]
  BY DEF Entries
<1> HIDE DEF ends, entries, RecordedFrame
<1>3. Len(ends) \in Nat /\ DOMAIN ends = 1..Len(ends)
  BY <1>1
<1>4. Len(entries) = Len(ends) /\ DOMAIN entries = 1..Len(ends)
  BY <1>2, <1>3
<1>5. \A i \in 1..Len(ends) : entries[i] = ends[i].at
  BY <1>2, <1>3
<1>6. Describes(entries, ends)
  BY <1>3, <1>4, <1>5 DEF Describes
<1>7. Describes(<<>>, ends)
  <2>1. Len(<<>>) = 0 /\ DOMAIN <<>> = 1..0
    OBVIOUS
  <2> QED BY <1>3, <2>1 DEF Describes
<1>8. ASSUME NEW blocks \in Seq(Int), IsPrefix(blocks, entries) PROVE Describes(blocks, ends)
  <2> DEFINE n == Len(blocks)
  <2>1. n <= Len(entries) /\ SubSeq(blocks, 1, n) = SubSeq(entries, 1, n)
    BY <1>8 DEF IsPrefix
  <2>2. n \in Nat /\ DOMAIN blocks = 1..n
    OBVIOUS
  <2>3. \A i \in 1..n : SubSeq(blocks, 1, n)[i] = blocks[i]
    OBVIOUS
  <2>4. \A i \in 1..n : SubSeq(entries, 1, n)[i] = entries[i]
    BY <1>3, <1>4, <2>1, <2>2
  <2>5. \A i \in 1..n : blocks[i] = ends[i].at
    BY <1>3, <1>4, <1>5, <2>1, <2>2, <2>3, <2>4
  <2> QED BY <1>4, <2>1, <2>2, <2>5 DEF Describes
<1> QED BY <1>6, <1>7, <1>8 DEF ends, entries

(* A recording that a script may hold, of golden files G or captured.      *)
CapturedFrom(rec, out) == EndsAs(out) /\ WellFormed(out) /\ rec = Capture(out)
RecordingOk(rec, G) ==
  /\ rec.frames \in Seq(RecordedFrame)
  /\ Describes(rec.blocks, EndsOf(rec.frames))
  /\ rec \in G \/ \E out : CapturedFrom(rec, out)

(* A recording that was captured is played as the stream was told.         *)
LEMMA CaptureStandsIn ==
  ASSUME NEW out, EndsAs(out), WellFormed(out)
  PROVE  LET rec == Capture(out)
         IN  /\ rec.frames \in Seq(RecordedFrame)
             /\ Describes(rec.blocks, EndsOf(rec.frames))
             /\ rec.of = out /\ ReplayOf(rec) = out /\ ValidRecording(rec)
<1> DEFINE n    == Len(out)
           last == out[n]
           rec  == Capture(out)
<1>1. /\ out \in Seq(SeamEvent) /\ n \in Nat \ {0} /\ DOMAIN out = 1..n /\ last \in SeamEvent /\ out # <<>>
      /\ \A i \in DOMAIN out : out[i] \in SeamEvent
  BY DEF EndsAs
<1>2. \A i \in DOMAIN out : Terminal(out[i]) => i = n
  BY DEF WellFormed
<1>3. /\ rec.frames = FramesOf(out) /\ rec.failure = FailureOf(out) /\ rec.of = out
      /\ rec.blocks = IF FailureOf(out) = NoFailure THEN Entries(out) ELSE <<>>
  BY DEF Capture
<1>4. out \in Seq(RecordedFrame)
  <2>1. SeamEvent \subseteq RecordedFrame
    BY FramesAre
  <2> QED BY <1>1, <2>1
<1> HIDE DEF rec
<1>5. CASE \E code \in EventCode \ {NoFailure} : last = Failed(code)
  <2>1. PICK code \in EventCode \ {NoFailure} : last = Failed(code)
    BY <1>5
  <2>2. last.e = "failed" /\ last.code = code
    BY <2>1 DEF Failed, NoEvent
  <2>3. FailureOf(out) = code /\ code # NoFailure
    BY <1>1, <2>2 DEF FailureOf
  <2>4. FramesOf(out) = SubSeq(out, 1, n - 1)
    BY <2>3 DEF FramesOf, Front
  <2>5. SubSeq(out, 1, n - 1) \in Seq(RecordedFrame) /\ SubSeq(out, 1, n - 1) \o <<last>> = out
    <3> HIDE DEF last
    <3>1. SubSeq(out, 1, n - 1) \in Seq(RecordedFrame) /\ Len(SubSeq(out, 1, n - 1)) = n - 1
      BY <1>1, <1>4
    <3> DEFINE front == SubSeq(out, 1, n - 1)
    <3>2. \A i \in 1..(n - 1) : front[i] = out[i]
      BY <1>1
    <3> HIDE DEF front, n
    <3>3. Len(front \o <<last>>) = n /\ DOMAIN (front \o <<last>>) = 1..n
      BY <1>1, <3>1 DEF front
    <3>4. \A i \in 1..n : (front \o <<last>>)[i] = out[i]
      BY <1>1, <3>1, <3>2 DEF front, last
    <3>5. front \o <<last>> \in Seq(RecordedFrame)
      BY <1>1, <1>4, <3>1 DEF front, last
    <3>6. front \o <<last>> = out
      BY <1>1, <1>4, <3>3, <3>4, <3>5
    <3> QED BY <3>1, <3>6 DEF front
  <2>6. ReplayOf(rec) = out
    BY <1>3, <2>1, <2>3, <2>4, <2>5, ZenonT(30) DEF ReplayOf
  <2>7. ASSUME NEW i \in DOMAIN rec.frames
        PROVE  /\ rec.frames[i].e # "finish"
               /\ rec.frames[i].kind \in KnownKind
    <3>1. i \in DOMAIN out /\ rec.frames[i] = out[i] /\ i # n
      BY <1>1, <1>3, <2>3, <2>4
    <3>2. out[i] \in SeamEvent /\ ~Terminal(out[i])
      BY <1>1, <1>2, <3>1
    <3>3. out[i].kind \in KnownKind
      BY <3>2, FramesAre
    <3> QED BY <3>1, <3>2, <3>3 DEF Terminal
  <2>8. ValidRecording(rec)
    BY <2>7, SMTT(30) DEF ValidRecording
  <2>9. Describes(rec.blocks, EndsOf(rec.frames)) /\ rec.frames \in Seq(RecordedFrame)
    BY <1>3, <2>3, <2>4, <2>5, EntriesDescribe
  <2> QED BY <1>3, <2>6, <2>8, <2>9 DEF rec
<1>6. CASE last = Finish /\ HasContent(out)
  <2>1. last.e = "finish"
    BY <1>6, FinishIs
  <2>2. FailureOf(out) = NoFailure /\ FramesOf(out) = out
    BY <2>1 DEF FailureOf, FramesOf
  <2>3. out \o <<>> = out
    BY <1>1
  <2>4. ReplayOf(rec) = out
    BY <1>3, <1>6, <2>2, <2>3 DEF ReplayOf
  <2>5. ASSUME NEW i \in DOMAIN rec.frames
        PROVE  /\ rec.frames[i].e = "finish" => i = Len(rec.frames) /\ rec.failure = NoFailure
               /\ rec.frames[i].kind \in KnownKind
    <3>1. out[i] \in SeamEvent /\ rec.frames[i] = out[i] /\ Len(rec.frames) = n /\ rec.failure = NoFailure
      BY <1>1, <1>3, <2>2
    <3>2. out[i].e = "finish" => i = n
      BY <1>2, <1>3, <2>2 DEF Terminal
    <3>3. out[i].kind \in KnownKind
      BY <3>1, FramesAre
    <3> QED BY <3>1, <3>2, <3>3
  <2>6. ValidRecording(rec)
    BY <2>5 DEF ValidRecording
  <2>7. Describes(rec.blocks, EndsOf(rec.frames)) /\ rec.frames \in Seq(RecordedFrame)
    BY <1>3, <1>4, <2>2, EntriesDescribe
  <2> QED BY <1>3, <2>4, <2>6, <2>7 DEF rec
<1> QED BY <1>5, <1>6 DEF EndsAs

(* What a recording is played as, and the blocks that end in it.           *)
LEMMA ReplayIs ==
  ASSUME NEW rec, NEW G, RecordingOk(rec, G)
  PROVE  /\ \E S : ReplayOf(rec) \in Seq(S)
         /\ EndsOf(ReplayOf(rec)) = EndsOf(rec.frames)
<1> DEFINE code == IF rec.failure # NoFailure THEN rec.failure ELSE "empty-completion"
           S == RecordedFrame \cup {Failed(code)}
<1>1. rec.frames \in Seq(RecordedFrame)
  BY DEF RecordingOk
<1>2. Failed(code).e = "failed"
  <2> HIDE DEF code
  <2> QED BY DEF Failed, NoEvent
<1>3. ReplayOf(rec) = rec.frames \/ ReplayOf(rec) = Append(rec.frames, Failed(code))
  <2>1. rec.frames \o <<>> = rec.frames
    <3> HIDE DEF RecordedFrame
    <3> QED BY <1>1
  <2>2. rec.frames \o <<Failed(code)>> = Append(rec.frames, Failed(code))
    <3> HIDE DEF RecordedFrame, code
    <3> QED BY <1>1
  <2> QED BY <2>1, <2>2 DEF ReplayOf
<1> HIDE DEF code
<1>4. EndsOf(Append(rec.frames, Failed(code))) = Ending(EndsOf(rec.frames), Failed(code))
  BY <1>1, EndsGrow
<1>5. Ending(EndsOf(rec.frames), Failed(code)) = EndsOf(rec.frames)
  BY <1>2 DEF Ending
<1>6. rec.frames \in Seq(S) /\ Append(rec.frames, Failed(code)) \in Seq(S)
  <2> HIDE DEF RecordedFrame
  <2> QED BY <1>1
<1>7. ReplayOf(rec) \in Seq(S)
  BY <1>3, <1>6
<1> HIDE DEF S
<1> QED BY <1>3, <1>4, <1>5, <1>7

LEMMA ElementIn == ASSUME NEW S, NEW f \in Seq(S) PROVE \A i \in DOMAIN f : f[i] \in S
OBVIOUS

(* What a consumer keeps of the metadata is of the blocks it stores, and   *)
(* of each of them if each has its metadata: both leave out the same, one  *)
(* sorted and one not.                                                     *)
LEMMA AlignsWithBlocks ==
  ASSUME NEW a, a.completed \in Seq(RecordedFrame), NEW blocks, Describes(blocks, a.completed)
  PROVE  LET kept   == AlignReplay(a, blocks)
             stored == { block.at : block \in ToSet(Blocks(a)) }
         IN  /\ ToSet(kept) \subseteq stored
             /\ Len(blocks) = Len(a.completed) => Len(kept) = Len(Blocks(a)) /\ ToSet(kept) = stored
<1> DEFINE done    == a.completed
           n       == Len(done)
           place(i) == a.completed[i].at
           K       == { i \in DOMAIN done : Kept(a, done[i]) }
           L       == { i \in DOMAIN done : Kept(a, done[i]) /\ i <= Len(blocks) }
           order   == { p \in K \X K : place(p[1]) < place(p[2]) \/ (place(p[1]) = place(p[2]) /\ p[1] < p[2]) }
           asc     == Ascending(L)
           sorted  == Ranked(K, order)
           kept    == AlignReplay(a, blocks)
           stored  == Blocks(a)
<1>1. n \in Nat /\ DOMAIN done = 1..n /\ \A i \in DOMAIN done : done[i] \in RecordedFrame /\ done[i].at \in Int
  <2>1. \A ev \in RecordedFrame : ev.at \in Int
    BY FramesAre
  <2>2. n \in Nat /\ DOMAIN done = 1..n /\ \A i \in DOMAIN done : done[i] \in RecordedFrame
    OBVIOUS
  <2> HIDE DEF done, n
  <2> QED BY <2>1, <2>2
<1>2. L \subseteq K /\ (Len(blocks) = n => L = K) /\ \A i \in L : blocks[i] = done[i].at
  <2>1. Len(blocks) \in Nat /\ DOMAIN blocks = 1..Len(blocks) /\ \A i \in DOMAIN blocks : blocks[i] = done[i].at
    BY DEF Describes
  <2> HIDE DEF done, n
  <2>2. L \subseteq K /\ \A i \in L : i \in DOMAIN blocks
    BY <1>1, <2>1
  <2>3. Len(blocks) = n => L = K
    BY <1>1
  <2> HIDE DEF K, L
  <2> QED BY <2>1, <2>2, <2>3
<1>3. IsFiniteSet(K) /\ K \subseteq Nat /\ K \subseteq DOMAIN done
  <2>1. IsFiniteSet(1..n)
    BY <1>1, FS_Interval
  <2>2. K \in SUBSET (1..n)
    BY <1>1
  <2> HIDE DEF K, n
  <2>3. IsFiniteSet(K)
    BY <2>1, <2>2, FS_Subset
  <2> QED BY <1>1, <2>2, <2>3
<1>4. kept = [k \in DOMAIN asc |-> blocks[asc[k]]]
  BY DEF AlignReplay
<1>5. stored = [k \in DOMAIN sorted |-> done[sorted[k]]]
  BY DEF Blocks
<1>6. StrictOrder(K, order)
  <2>1. \A i, j \in K : <<i, j>> \in order <=> place(i) < place(j) \/ (place(i) = place(j) /\ i < j)
    <3> HIDE DEF K
    <3> QED OBVIOUS
  <2>2. \A i \in K : place(i) \in Int /\ i \in Int
    BY <1>1, <1>3
  <2> HIDE DEF K, order, place
  <2> QED BY <2>1, <2>2 DEF StrictOrder
<1> HIDE DEF K, L, order, asc, sorted, kept, stored, done, n
<1>7. IsFiniteSet(L) /\ L \subseteq Nat
  BY <1>2, <1>3, FS_Subset
<1>8. /\ asc \in Seq(L) /\ DOMAIN asc = 1..Cardinality(L)
      /\ \A x \in L : \E i \in DOMAIN asc : asc[i] = x
  BY <1>7, AscendingLists DEF asc
<1>9. /\ sorted \in Seq(K) /\ DOMAIN sorted = 1..Cardinality(K)
      /\ \A x \in K : \E i \in DOMAIN sorted : sorted[i] = x
  BY <1>3, <1>6, RankedLists DEF sorted
<1>10. Cardinality(K) \in Nat /\ Cardinality(L) \in Nat
  BY <1>3, <1>7, FS_CardinalityType
<1>11. Len(kept) = Cardinality(L) /\ Len(stored) = Cardinality(K)
  BY <1>4, <1>5, <1>8, <1>9, <1>10
<1>12. \A i \in DOMAIN asc : asc[i] \in L
  BY <1>8, ElementIn
<1>13. \A i \in DOMAIN sorted : sorted[i] \in K
  BY <1>9, ElementIn
<1>14. ToSet(kept) = { done[i].at : i \in L }
  <2>1. ToSet(kept) = { blocks[asc[k]] : k \in DOMAIN asc }
    BY <1>4 DEF ToSet
  <2> QED BY <1>2, <1>8, <1>12, <2>1
<1>15. { block.at : block \in ToSet(stored) } = { done[i].at : i \in K }
  <2>1. ToSet(stored) = { done[sorted[k]] : k \in DOMAIN sorted }
    BY <1>5 DEF ToSet
  <2>2. ToSet(stored) = { done[i] : i \in K }
    BY <1>9, <1>13, <2>1
  <2> QED BY <2>2
<1> QED BY <1>2, <1>11, <1>14, <1>15 DEF kept, stored, done, n

(* A play: what its consumer has completed are the blocks that ended in    *)
(* what it was told.                                                       *)
IsAssembler(a) == a = [completed |-> a.completed, open |-> a.open, truncated |-> a.truncated]
IsPlay(p) == DOMAIN p = {"at", "call", "rec", "told", "asm", "kept"}
Played(p) == SubSeq(ReplayOf(p.rec), 1, p.told)
PlayOn(p, G) ==
  /\ RecordingOk(p.rec, G) /\ p.told \in 0..Len(ReplayOf(p.rec))
  /\ IsAssembler(p.asm) /\ p.asm.completed = EndsOf(Played(p))
  /\ p.at = "thrown" => ~ValidRecording(p.rec)
  /\ p.at = "over" => p.told = Len(ReplayOf(p.rec)) /\ p.kept = AlignReplay(p.asm, p.rec.blocks)
PlayOk(p, G) == IsPlay(p) /\ (p.at # "idle" => PlayOn(p, G))

PlayInv ==
  /\ modelEnv \in ModelEnvironments /\ calls \in Nat
  /\ script \in Seq({ script[i] : i \in DOMAIN script })
  /\ \A i \in DOMAIN script : RecordingOk(script[i], modelEnv.golden)
  /\ DOMAIN plays = ReplayCallers /\ \A c \in ReplayCallers : PlayOk(plays[c], modelEnv.golden)

LEMMA PlayStarts == ModelInit /\ ReplayInit => PlayInv
<1> SUFFICES ASSUME ModelInit, ReplayInit PROVE PlayInv
  OBVIOUS
<1>1. modelEnv \in ModelEnvironments
  BY DEF ModelInit, ModelFrom
<1>2. script = <<>> /\ calls = 0 /\ plays = [c \in ReplayCallers |-> IdlePlay]
  BY DEF ReplayInit, ReplayFrom
<1>3. PlayOk(IdlePlay, modelEnv.golden)
  <2> DEFINE rec == Capture(<<Finish>>)
  <2>1. IdlePlay = [at |-> "idle", call |-> 0, rec |-> rec, told |-> 0, asm |-> NewAssembler, kept |-> <<>>]
    BY DEF IdlePlay
  <2> HIDE DEF rec
  <2> QED BY <2>1 DEF PlayOk, IsPlay
<1>4. script \in Seq({ script[i] : i \in DOMAIN script })
  BY <1>2
<1>5. DOMAIN script = {}
  BY <1>2, SMTT(30)
<1> QED BY <1>1, <1>2, <1>3, <1>4, <1>5 DEF PlayInv

LEMMA ModelKeepsEnv == ASSUME ModelNext PROVE UNCHANGED modelEnv
BY ZenonT(30) DEF ModelNext, StreamCall, Unanswered, Connected, Arrive, DecodeEvent, ReadFails, EndOfBody, Set

LEMMA PlaySame == ASSUME PlayInv, UNCHANGED modelEnv, UNCHANGED replayVars PROVE PlayInv'
BY DEF PlayInv, PlayOk, PlayOn, IsPlay, IsAssembler, Played, RecordingOk, CapturedFrom, replayVars

(* A recording joins the script before the first call.                     *)
LEMMA RecordingJoins ==
  ASSUME PlayInv, NEW rec, RecordingOk(rec, modelEnv.golden), AddRecording(rec), UNCHANGED modelEnv
  PROVE  PlayInv'
<1> DEFINE X == { script[i] : i \in DOMAIN script }
<1>1. script' = Append(script, rec) /\ calls' = calls /\ plays' = plays /\ modelEnv' = modelEnv
  BY DEF AddRecording
<1>2. script \in Seq(X)
  BY DEF PlayInv
<1> HIDE DEF X
<1>3. /\ DOMAIN script' = 1..(Len(script) + 1) /\ DOMAIN script = 1..Len(script) /\ Len(script) \in Nat
      /\ script'[Len(script) + 1] = rec /\ \A i \in DOMAIN script : script'[i] = script[i]
  BY <1>1, <1>2
<1>4. \A i \in DOMAIN script' : RecordingOk(script'[i], modelEnv.golden)
  BY <1>3 DEF PlayInv
<1>5. script' \in Seq(X \cup {rec})
  BY <1>1, <1>2
<1>6. script' \in Seq({ script'[i] : i \in DOMAIN script' })
  <2> DEFINE s == Append(script, rec)
             Y == { s[i] : i \in DOMAIN s }
  <2>1. s \in Seq(X \cup {rec})
    BY <1>1, <1>5
  <2> HIDE DEF s
  <2>2. s \in Seq(Y)
    BY <2>1
  <2> QED BY <1>1, <2>2 DEF s
<1>7. \A c \in ReplayCallers : PlayOk(plays'[c], modelEnv'.golden)
  BY <1>1 DEF PlayInv
<1> QED BY <1>1, <1>4, <1>6, <1>7 DEF PlayInv

LEMMA CaptureJoins ==
  ASSUME StreamInv, PlayInv, NEW s \in Streams, CaptureStream(s), UNCHANGED modelEnv
  PROVE  PlayInv'
<1> DEFINE out == streams[s].out
           rec == Capture(out)
<1>1. EndsAs(out) /\ WellFormed(out)
  BY DEF StreamInv, StreamOk, CaptureStream
<1>2. AddRecording(rec)
  BY DEF CaptureStream
<1> HIDE DEF out
<1>3. rec.frames \in Seq(RecordedFrame) /\ Describes(rec.blocks, EndsOf(rec.frames))
  BY <1>1, CaptureStandsIn
<1>4. CapturedFrom(rec, out)
  BY <1>1 DEF CapturedFrom
<1> HIDE DEF rec
<1>5. RecordingOk(rec, modelEnv.golden)
  BY <1>3, <1>4 DEF RecordingOk
<1> QED BY <1>2, <1>5, RecordingJoins

LEMMA GoldenJoins ==
  ASSUME PlayInv, LoadGolden, UNCHANGED modelEnv
  PROVE  PlayInv'
<1>1. PICK rec \in modelEnv.golden : AddRecording(rec)
  BY DEF LoadGolden
<1>2. rec.frames \in Seq(RecordedFrame) /\ rec.blocks \in Seq(Int) /\ IsPrefix(rec.blocks, Entries(rec.frames))
  BY <1>1, ReplayAssumption DEF PlayInv
<1>3. Describes(rec.blocks, EndsOf(rec.frames))
  BY <1>2, EntriesDescribe
<1>4. RecordingOk(rec, modelEnv.golden)
  BY <1>1, <1>2, <1>3 DEF RecordingOk
<1> QED BY <1>1, <1>4, RecordingJoins

(* A caller's play is replaced by another.                                 *)
LEMMA PlaySet ==
  ASSUME PlayInv, NEW c \in ReplayCallers, NEW q, PlayOk(q, modelEnv.golden),
         plays' = [plays EXCEPT ![c] = q], script' = script, calls' \in Nat, UNCHANGED modelEnv
  PROVE  PlayInv'
<1>1. DOMAIN plays' = ReplayCallers /\ \A d \in ReplayCallers : PlayOk(plays'[d], modelEnv.golden)
  BY DEF PlayInv
<1> QED BY <1>1 DEF PlayInv

LEMMA CallPlays ==
  ASSUME PlayInv, NEW c \in ReplayCallers, ReplayCall(c), UNCHANGED modelEnv
  PROVE  PlayInv'
<1> DEFINE rec == Recorded(calls)
           q   == [IdlePlay EXCEPT !.at = IF ValidRecording(rec) THEN "playing" ELSE "thrown",
                                   !.call = calls + 1, !.rec = rec]
<1>1. script # <<>> /\ calls' = calls + 1 /\ plays' = [plays EXCEPT ![c] = q] /\ script' = script
  BY DEF ReplayCall
<1>2. RecordingOk(rec, modelEnv.golden)
  <2> DEFINE X == { script[i] : i \in DOMAIN script }
  <2>1. script \in Seq(X) /\ calls \in Nat
    BY DEF PlayInv
  <2> HIDE DEF X
  <2>2. Len(script) \in Nat \ {0} /\ DOMAIN script = 1..Len(script)
    BY <1>1, <2>1
  <2>3. Lesser(calls, Len(script) - 1) + 1 \in DOMAIN script
    BY <2>1, <2>2 DEF Lesser
  <2> QED BY <2>3 DEF PlayInv, Recorded
<1> DEFINE how == IF ValidRecording(rec) THEN "playing" ELSE "thrown"
<1> HIDE DEF rec
<1>3. IsPlay(IdlePlay) /\ IdlePlay.told = 0 /\ IdlePlay.asm = NewAssembler
  <2> DEFINE idle == Capture(<<Finish>>)
  <2>1. IdlePlay = [at |-> "idle", call |-> 0, rec |-> idle, told |-> 0, asm |-> NewAssembler, kept |-> <<>>]
    BY DEF IdlePlay
  <2> HIDE DEF idle
  <2> QED BY <2>1 DEF IsPlay
<1>4. q.at = how /\ q.rec = rec /\ q.told = 0 /\ q.asm = NewAssembler /\ IsPlay(q)
  BY <1>3 DEF IsPlay
<1> HIDE DEF q
<1>5. how \in {"playing", "thrown"} /\ (how = "thrown" => ~ValidRecording(rec))
  OBVIOUS
<1> HIDE DEF how
<1>6. PICK S : ReplayOf(rec) \in Seq(S)
  BY <1>2, ReplayIs
<1>7. 0 \in 0..Len(ReplayOf(rec)) /\ SubSeq(ReplayOf(rec), 1, 0) = <<>>
  BY <1>6
<1>8. IsAssembler(NewAssembler) /\ NewAssembler.completed = <<>>
  BY DEF IsAssembler, NewAssembler
<1>9. PlayOn(q, modelEnv.golden)
  BY <1>2, <1>4, <1>5, <1>7, <1>8, EndsGrow DEF PlayOn, Played
<1>10. PlayOk(q, modelEnv.golden) /\ calls' \in Nat
  BY <1>1, <1>4, <1>9 DEF PlayOk, PlayInv
<1> QED BY <1>1, <1>10, PlaySet

LEMMA PushIs ==
  ASSUME NEW a, IsAssembler(a), NEW ev
  PROVE  IsAssembler(AssemblerPush(a, ev)) /\ AssemblerPush(a, ev).completed = Ending(a.completed, ev)
<1> DEFINE C == a.completed
           O == a.open
           T == a.truncated
<1>1. a = [completed |-> C, open |-> O, truncated |-> T]
  BY DEF IsAssembler
<1> HIDE DEF C, O, T
<1>2. CASE ev.e = "start"
  <2>1. AssemblerPush(a, ev) = [completed |-> C, open |-> Append(O, ev.at), truncated |-> T]
    BY <1>1, <1>2 DEF AssemblerPush
  <2>2. Ending(C, ev) = C
    BY <1>2 DEF Ending
  <2> QED BY <1>1, <2>1, <2>2 DEF IsAssembler
<1>3. CASE ev.e = "end"
  <2> DEFINE o == Remove1(O, ev.at)
  <2>1. AssemblerPush(a, ev) = [a EXCEPT !.open = o, !.completed = Append(@, ev)]
    BY <1>1, <1>3 DEF AssemblerPush
  <2> HIDE DEF o
  <2>2. AssemblerPush(a, ev) = [completed |-> Append(C, ev), open |-> o, truncated |-> T]
    BY <1>1, <2>1
  <2>3. Ending(C, ev) = Append(C, ev)
    BY <1>3 DEF Ending
  <2> QED BY <1>1, <2>2, <2>3 DEF IsAssembler
<1>4. CASE ev.e = "finish"
  <2>1. AssemblerPush(a, ev) = [completed |-> C, open |-> O, truncated |-> (O # <<>>)]
    BY <1>1, <1>4 DEF AssemblerPush
  <2>2. Ending(C, ev) = C
    BY <1>4 DEF Ending
  <2> QED BY <1>1, <2>1, <2>2 DEF IsAssembler
<1>5. CASE ev.e \notin {"start", "end", "finish"}
  <2>1. AssemblerPush(a, ev) = a
    BY <1>5 DEF AssemblerPush
  <2>2. Ending(C, ev) = C
    BY <1>5 DEF Ending
  <2> QED BY <1>1, <2>1, <2>2 DEF IsAssembler
<1> QED BY <1>2, <1>3, <1>4, <1>5

LEMMA OneMore ==
  ASSUME NEW S, NEW all \in Seq(S), NEW n \in 0..Len(all), n # Len(all)
  PROVE  /\ n + 1 \in 0..Len(all) /\ SubSeq(all, 1, n) \in Seq(S)
         /\ SubSeq(all, 1, n + 1) = Append(SubSeq(all, 1, n), all[n + 1])
OBVIOUS

LEMMA PollPlays ==
  ASSUME PlayInv, NEW c \in ReplayCallers, ReplayPoll(c), UNCHANGED modelEnv
  PROVE  PlayInv'
<1> DEFINE p    == plays[c]
           all  == ReplayOf(p.rec)
           ev   == all[p.told + 1]
           asm  == AssemblerPush(p.asm, ev)
           next1 == [p EXCEPT !.told = @ + 1, !.asm = asm]
           kept == AlignReplay(p.asm, p.rec.blocks)
           last == [p EXCEPT !.at = "over", !.kept = kept]
           G    == modelEnv.golden
<1>1. /\ p.at = "playing" /\ script' = script /\ calls' = calls
      /\ plays' = [plays EXCEPT ![c] = IF p.told = Len(all) THEN last ELSE next1]
  BY DEF ReplayPoll
<1>2. IsPlay(p) /\ PlayOn(p, G) /\ calls' \in Nat
  BY <1>1 DEF PlayInv, PlayOk
<1> HIDE DEF p, G, asm, kept
<1>3. CASE p.told = Len(all)
  <2>1. /\ IsPlay(last) /\ last.at = "over" /\ last.kept = kept /\ last.rec = p.rec /\ last.asm = p.asm
        /\ last.told = p.told
    BY <1>2 DEF IsPlay
  <2>2. PlayOn(last, G)
    BY <1>2, <1>3, <2>1 DEF PlayOn, Played, kept
  <2>3. PlayOk(last, G)
    BY <2>1, <2>2 DEF PlayOk
  <2>4. plays' = [plays EXCEPT ![c] = last]
    BY <1>1, <1>3
  <2> HIDE DEF last
  <2> QED BY <1>1, <1>2, <2>3, <2>4, PlaySet DEF G
<1>4. CASE p.told # Len(all)
  <2>1. /\ IsPlay(next1) /\ next1.at = "playing" /\ next1.kept = p.kept /\ next1.rec = p.rec /\ next1.asm = asm
        /\ next1.told = p.told + 1
    BY <1>1, <1>2 DEF IsPlay
  <2>2. IsAssembler(asm) /\ asm.completed = Ending(p.asm.completed, ev)
    BY <1>2, PushIs DEF PlayOn, asm
  <2>3. PICK S : all \in Seq(S) /\ p.told \in 0..Len(all)
    BY <1>2, ReplayIs DEF PlayOn
  <2>4. /\ p.told + 1 \in 0..Len(all) /\ SubSeq(all, 1, p.told) \in Seq(S)
        /\ SubSeq(all, 1, p.told + 1) = Append(SubSeq(all, 1, p.told), ev)
    <3> HIDE DEF all
    <3> QED BY <1>4, <2>3, OneMore DEF ev
  <2>5. EndsOf(Append(SubSeq(all, 1, p.told), ev)) = Ending(EndsOf(SubSeq(all, 1, p.told)), ev)
    <3> HIDE DEF all, ev
    <3> QED BY <2>4, EndsGrow
  <2>6. asm.completed = EndsOf(SubSeq(all, 1, p.told + 1))
    BY <1>2, <2>2, <2>4, <2>5 DEF PlayOn, Played
  <2>7. PlayOn(next1, G)
    BY <1>2, <2>1, <2>2, <2>4, <2>6 DEF PlayOn, Played
  <2>8. PlayOk(next1, G)
    BY <2>1, <2>7 DEF PlayOk
  <2>9. plays' = [plays EXCEPT ![c] = next1]
    BY <1>1, <1>4
  <2> HIDE DEF next1
  <2> QED BY <1>1, <1>2, <2>8, <2>9, PlaySet DEF G
<1> QED BY <1>3, <1>4

LEMMA ReplaySteps ==
  ASSUME StreamInv, PlayInv,
         [\/ ModelNext /\ UNCHANGED replayVars
          \/ ReplayNext /\ UNCHANGED modelVars]_<<modelVars, replayVars>>
  PROVE  StreamInv' /\ PlayInv'
<1>1. CASE ModelNext /\ UNCHANGED replayVars
  <2>1. [ModelNext]_modelVars
    BY <1>1
  <2> QED BY <1>1, <2>1, StreamSteps, ModelKeepsEnv, PlaySame
<1>2. CASE ReplayNext /\ UNCHANGED modelVars
  <2>1. [ModelNext]_modelVars /\ UNCHANGED modelEnv
    BY <1>2 DEF modelVars
  <2>2. PlayInv'
    BY <1>2, <2>1, CaptureJoins, GoldenJoins, CallPlays, PollPlays DEF ReplayNext
  <2> QED BY <2>1, <2>2, StreamSteps
<1>3. CASE UNCHANGED <<modelVars, replayVars>>
  <2>1. [ModelNext]_modelVars /\ UNCHANGED modelEnv /\ UNCHANGED replayVars
    BY <1>3 DEF modelVars
  <2> QED BY <2>1, StreamSteps, PlaySame
<1> QED BY <1>1, <1>2, <1>3

LEMMA PlayStandsIn == PlayInv => ReplayStandsIn
<1> SUFFICES ASSUME PlayInv, NEW c \in ReplayCallers, plays[c].at # "idle"
             PROVE  LET p == plays[c]
                        stored == { block.at : block \in ToSet(Blocks(p.asm)) }
                    IN  /\ p.rec \notin modelEnv.golden =>
                             /\ p.at # "thrown"
                             /\ SubSeq(ReplayOf(p.rec), 1, p.told) = SubSeq(p.rec.of, 1, p.told)
                             /\ p.at = "over" => p.told = Len(p.rec.of)
                        /\ p.at = "over" =>
                             /\ ToSet(p.kept) \subseteq stored
                             /\ Len(p.rec.blocks) = Len(p.asm.completed) =>
                                  Len(p.kept) = Len(Blocks(p.asm)) /\ ToSet(p.kept) = stored
  BY DEF ReplayStandsIn, ReplayIsTheStream, MetadataDescribesContent
<1> DEFINE p == plays[c]
           a == p.asm
           rec == p.rec
           stored == { block.at : block \in ToSet(Blocks(a)) }
<1>1. PlayOn(p, modelEnv.golden) /\ RecordingOk(rec, modelEnv.golden)
  BY DEF PlayInv, PlayOk, PlayOn
<1> HIDE DEF p
<1>2. ASSUME rec \notin modelEnv.golden
      PROVE  /\ p.at # "thrown"
             /\ SubSeq(ReplayOf(rec), 1, p.told) = SubSeq(rec.of, 1, p.told)
             /\ p.at = "over" => p.told = Len(rec.of)
  <2>1. PICK out : CapturedFrom(rec, out)
    BY <1>1, <1>2 DEF RecordingOk
  <2>2. ReplayOf(rec) = out /\ rec.of = out /\ ValidRecording(rec)
    BY <2>1, CaptureStandsIn DEF CapturedFrom
  <2> QED BY <1>1, <2>2 DEF PlayOn
<1>3. ASSUME p.at = "over"
      PROVE  /\ ToSet(p.kept) \subseteq stored
             /\ Len(rec.blocks) = Len(a.completed) => Len(p.kept) = Len(Blocks(a)) /\ ToSet(p.kept) = stored
  <2>1. PICK S : ReplayOf(rec) \in Seq(S)
    BY <1>1, ReplayIs
  <2>2. p.told = Len(ReplayOf(rec)) /\ p.kept = AlignReplay(a, rec.blocks) /\ a.completed = EndsOf(Played(p))
    BY <1>1, <1>3 DEF PlayOn
  <2>3. Played(p) = ReplayOf(rec)
    <3> DEFINE all == ReplayOf(rec)
    <3> HIDE DEF all
    <3>1. SubSeq(all, 1, Len(all)) = all
      BY <2>1 DEF all
    <3> QED BY <2>2, <3>1 DEF Played, all
  <2>4. a.completed = EndsOf(rec.frames)
    BY <1>1, <2>2, <2>3, ReplayIs
  <2>5. Describes(rec.blocks, a.completed) /\ rec.frames \in Seq(RecordedFrame)
    BY <1>1, <2>4 DEF RecordingOk
  <2>6. a.completed \in Seq(RecordedFrame)
    BY <2>4, <2>5, EndsGrow
  <2> HIDE DEF a, rec
  <2> QED BY <2>2, <2>5, <2>6, AlignsWithBlocks
<1> QED BY <1>2, <1>3 DEF p

(* A recording stands in for its stream: whatever the streams were, in     *)
(* whatever order callers call and poll, a captured recording is not       *)
(* refused and is told event by event as the stream was, to its end; and   *)
(* the metadata a consumer keeps is of the blocks it stores, those a cut   *)
(* dropped left out of both, and of all of them if every block has its     *)
(* metadata.                                                               *)
THEOREM ModelReplayStandsIn == ReplaySpec => []ReplayStandsIn
<1> DEFINE Next2 == \/ ModelNext /\ UNCHANGED replayVars
                    \/ ReplayNext /\ UNCHANGED modelVars
           Inv2 == StreamInv /\ PlayInv
<1>1. ModelInit /\ ReplayInit => Inv2
  BY StreamStarts, PlayStarts
<1>2. Inv2 /\ [Next2]_<<modelVars, replayVars>> => Inv2'
  BY ReplaySteps
<1>3. Inv2 => ReplayStandsIn
  BY PlayStandsIn
<1> QED BY <1>1, <1>2, <1>3, PTL DEF ReplaySpec
=============================================================================
