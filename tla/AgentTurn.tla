----------------------------- MODULE AgentTurn -----------------------------
(***************************************************************************)
(* Turns over one session log: drive_turn of the CLI (run.rs), the loop's  *)
(* run_turn (loop_.rs), the log they append to (session.rs of the agent)   *)
(* and the allocator of ids (boot.rs), across the end of a process, a      *)
(* resume and a fork of the session.                                       *)
(*                                                                         *)
(* The log is what is on the file: the mirror writes a record before the   *)
(* log commits it and the log's lock is held for both (SessionStore has    *)
(* what happens in between).  Each append is one action, so that a process *)
(* can die, and another driver append, between any two.                    *)
(***************************************************************************)
EXTENDS Naturals, FiniteSets, Sequences, SequencesExt, FiniteSetsExt

CONSTANTS
  Drivers,          \* callers of drive_turn on one composition
  TurnEnvironments, \* what may happen in one behaviour: sets of Hazard
  MaxTurns,         \* bound on the prompts of a behaviour, by its environment
  MaxRefusals,      \* bound on the appends the mirror refuses
  MaxBoots,         \* bound on the processes that open the session
  CallIds           \* ids a provider may give its tool calls

(* crash: the process may die in a turn.  refuse: the mirror may refuse an *)
(* append.  overlap: two drivers may be in a turn at once.  fork: the      *)
(* session may be forked, and the fork gone on with.  budget: a driver may *)
(* report that the budget of tokens is used up.                            *)
Hazard == {"crash", "refuse", "overlap", "fork", "budget"}

ASSUME AgentTurnAssumption ==
  /\ TurnEnvironments \subseteq SUBSET Hazard
  /\ MaxTurns \in [TurnEnvironments -> Nat]
  /\ MaxRefusals \in Nat /\ MaxBoots \in Nat \ {0} /\ CallIds \subseteq Nat

VARIABLES
  turnEnv, \* what may happen in this behaviour; never changes
  log,     \* the committed records
  next,    \* Ids: the next id
  up,      \* a process has the session open
  pc,      \* where each driver is
  turn,    \* the locals of drive_turn, run_turn and the driver closure
  prompts, \* how many prompts there were
  refused, \* how many appends were refused
  boots,   \* how many processes opened the session
  runs,    \* history: how many tool calls were executed
  told     \* history: the ids of the messages that callers got as an answer

turnVars == <<turnEnv, log, next, up, pc, turn, prompts, refused, boots, runs, told>>

Kind == {"user", "assistant", "call", "result", "turnOpen", "stepOpen",
         "stepClose", "turnClose", "seedBoundary"}
Reason == {"completed", "maxTokens", "error", "none"}

(* A record: id is its message or call id, 0 when it carries none; why is  *)
(* the reason of a turn's close.  "error" stands for every other unclean   *)
(* close.                                                                  *)
Record == [kind : Kind, id : Nat, why : Reason]
Rec(kind, id) == [kind |-> kind, id |-> id, why |-> "none"]
Close(why) == [kind |-> "turnClose", id |-> 0, why |-> why]

Pc == {"idle", "prompt", "turnOpen", "stepOpen", "look", "answer", "message",
       "call", "run", "result", "decide", "stepClose", "turnClose", "return"}

(* prompt: the id of the prompt.  seen: the positions of the records that  *)
(* the model was shown.  said: the record of the model's answer.  why:     *)
(* final_reason.  text: the id of the message the caller got, 0 for none.  *)
Turn == [prompt : Nat, seen : SUBSET Nat, said : Record, why : Reason, text : Nat]
NoTurn == [prompt |-> 0, seen |-> {}, said |-> Rec("turnOpen", 0),
           why |-> "none", text |-> 0]

TurnTypeOK ==
  /\ turnEnv \in TurnEnvironments
  /\ log \in Seq(Record)
  /\ next \in Nat \ {0}
  /\ up \in BOOLEAN
  /\ pc \in [Drivers -> Pc]
  /\ turn \in [Drivers -> Turn]
  /\ prompts \in 0..MaxTurns[turnEnv]
  /\ refused \in 0..MaxRefusals /\ boots \in 0..MaxBoots
  /\ runs \in Nat /\ told \subseteq Nat

(***************************************************************************)
(* Projections of the log: which of its records, in its order              *)
(***************************************************************************)
IdsOf(l) == {l[i].id : i \in DOMAIN l}

(* What History::apply gives a node, and prompt.rs assembles. *)
IsMessageProducing(r) == r.kind \in {"user", "assistant", "result"}
Surface(l) == {i \in DOMAIN l : IsMessageProducing(l[i])}

(* What the CLI sends to the model. *)
IsSeamMessage(r) == r.kind \in {"user", "assistant"}
ModelMessages(l) == {i \in DOMAIN l : IsSeamMessage(l[i])}

(* The largest id of any record, and the first an allocator seeded with it *)
(* mints.                                                                  *)
MaxAuthoredId(l) ==  \* mutant: the answers' ids are not scanned
  Max({0} \cup {l[i].id : i \in {j \in DOMAIN l : l[j].kind = "user"}})
MaxRecordId(l) == Max({0} \cup IdsOf(l))
Seeded(start) == start + 1

(* The message final_assistant_text renders, 0 for the empty text. *)
Answers(l) == {i \in DOMAIN l : l[i].kind = "assistant"}
FirstAssistant(l) ==  \* mutant: the search does not start at the end
  IF Answers(l) = {} THEN 0 ELSE l[Min(Answers(l))].id
FinalAssistant(l) == IF Answers(l) = {} THEN 0 ELSE l[Max(Answers(l))].id

(* The sticky fact of the precedence rule. *)
OwnClosedMaxTokens(l) ==  \* mutant: only what this process owns
  \E i \in DOMAIN l :
    /\ l[i] = Close("maxTokens")
    /\ \A j \in i..Len(l) : l[j].kind # "seedBoundary"
HasClosedMaxTokens(l) == \E i \in DOMAIN l : l[i] = Close("maxTokens")

-----------------------------------------------------------------------------
TurnInit ==
  /\ turnEnv \in TurnEnvironments
  /\ log = <<>> /\ next = Seeded(0)
  /\ up = TRUE /\ boots = 1
  /\ pc = [d \in Drivers |-> "idle"]
  /\ turn = [d \in Drivers |-> NoTurn]
  /\ prompts = 0 /\ refused = 0 /\ runs = 0 /\ told = {}

Idle == \A d \in Drivers : pc[d] = "idle"

(* SessionLog::append: a record the mirror refuses is not committed, and   *)
(* none of the callers looks at the answer.                                *)
Append1(r) ==
  \/ log' = Append(log, r) /\ UNCHANGED refused
  \/ /\ "refuse" \in turnEnv /\ refused < MaxRefusals
     /\ refused' = refused + 1 /\ UNCHANGED log

Goes(d, from, to) == up /\ pc[d] = from /\ pc' = [pc EXCEPT ![d] = to]

(* A step of driver d that appends r and goes on. *)
Logs(d, from, r, to) ==
  /\ Goes(d, from, to) /\ Append1(r)
  /\ UNCHANGED <<turnEnv, next, up, turn, prompts, boots, runs, told>>

(* drive_turn: the prompt gets its id, then it is logged. *)
Prompt(d) ==
  /\ prompts < MaxTurns[turnEnv]
  /\ Idle \/ "overlap" \in turnEnv
  /\ Goes(d, "idle", "prompt")
  /\ turn' = [turn EXCEPT ![d] = [NoTurn EXCEPT !.prompt = next]]
  /\ next' = next + 1 /\ prompts' = prompts + 1
  /\ UNCHANGED <<turnEnv, log, up, refused, boots, runs, told>>

LogPrompt(d)   == Logs(d, "prompt", Rec("user", turn[d].prompt), "turnOpen")
LogTurnOpen(d) == Logs(d, "turnOpen", Rec("turnOpen", 0), "stepOpen")
LogStepOpen(d) == Logs(d, "stepOpen", Rec("stepOpen", 0), "look")

(* The driver reads the log and mints the id of the request. *)
Look(d) ==
  /\ Goes(d, "look", "answer")
  /\ turn' = [turn EXCEPT ![d].seen = ModelMessages(log)]
  /\ next' = next + 1
  /\ UNCHANGED <<turnEnv, log, up, prompts, refused, boots, runs, told>>

(* The stream ends: in a message, which gets its id here; *)
AnswerMessage(d) ==
  /\ Goes(d, "answer", "message")
  /\ turn' = [turn EXCEPT ![d].said = Rec("assistant", next), ![d].why = "completed"]
  /\ next' = next + 1
  /\ UNCHANGED <<turnEnv, log, up, prompts, refused, boots, runs, told>>

(* in a tool call, with the id the provider gave it; *)
AnswerCallUnlogged(d) ==  \* mutant: only the result is logged
  /\ Goes(d, "answer", "run")
  /\ \E c \in CallIds :
       turn' = [turn EXCEPT ![d].said = Rec("call", c), ![d].why = "completed"]
  /\ UNCHANGED <<turnEnv, log, next, up, prompts, refused, boots, runs, told>>

AnswerCall(d) ==
  /\ Goes(d, "answer", "call")
  /\ \E c \in CallIds :
       turn' = [turn EXCEPT ![d].said = Rec("call", c), ![d].why = "completed"]
  /\ UNCHANGED <<turnEnv, log, next, up, prompts, refused, boots, runs, told>>

(* in a failure or a malformed call, which the CLI's driver reports as an  *)
(* error, or with the budget exhausted, which another driver may report.   *)
AnswerStop(d) ==
  /\ Goes(d, "answer", "decide")
  /\ \E why \in {"error", "maxTokens"} :
       /\ why = "maxTokens" => "budget" \in turnEnv
       /\ turn' = [turn EXCEPT ![d].why = why]
  /\ UNCHANGED <<turnEnv, log, next, up, prompts, refused, boots, runs, told>>

LogMessage(d) == Logs(d, "message", turn[d].said, "decide")
LogCall(d)    == Logs(d, "call", turn[d].said, "run")

(* The tool runs, or the pipeline refuses: either way there is a result. *)
AnswerToolCall(d) ==
  /\ Goes(d, "run", "result")
  /\ runs' = runs + 1
  /\ UNCHANGED <<turnEnv, log, next, up, turn, prompts, refused, boots, told>>

LogResult(d) == Logs(d, "result", Rec("result", turn[d].said.id), "decide")

(* A clean close is displaced once the log holds a close for MaxTokens. *)
DecideReason(d) ==
  /\ Goes(d, "decide", "stepClose")
  /\ turn' = IF turn[d].why = "completed" /\ HasClosedMaxTokens(log)
             THEN [turn EXCEPT ![d].why = "maxTokens"] ELSE turn
  /\ UNCHANGED <<turnEnv, log, next, up, prompts, refused, boots, runs, told>>

LogStepClose(d) == Logs(d, "stepClose", Rec("stepClose", 0), "turnClose")
LogTurnClose(d) == Logs(d, "turnClose", Close(turn[d].why), "return")

(* drive_turn returns: the text for a clean reason, else an error. *)
Return(d) ==
  /\ Goes(d, "return", "idle")
  /\ LET text == IF turn[d].why = "completed" THEN FinalAssistant(log) ELSE 0
     IN /\ turn' = [turn EXCEPT ![d].text = text]
        /\ told' = told \cup ({text} \ {0})
  /\ UNCHANGED <<turnEnv, log, next, up, prompts, refused, boots, runs>>

-----------------------------------------------------------------------------
(* The composition ends, or the process dies. *)
Stop ==
  /\ up /\ (Idle \/ "crash" \in turnEnv)
  /\ up' = FALSE
  /\ pc' = [d \in Drivers |-> "idle"] /\ turn' = [d \in Drivers |-> NoTurn]
  /\ UNCHANGED <<turnEnv, log, next, prompts, refused, boots, runs, told>>

(* A process mounts the log l, its allocator seeded from the records it    *)
(* was given.                                                              *)
Mount(l) ==
  /\ ~up /\ boots < MaxBoots
  /\ up' = TRUE /\ boots' = boots + 1
  /\ log' = l /\ next' = Seeded(MaxRecordId(log))
  /\ UNCHANGED <<turnEnv, pc, turn, prompts, refused, runs, told>>

Resume == Mount(log)

(* A fork gets the records and one boundary; its source may not be live. *)
Fork == "fork" \in turnEnv /\ Mount(Append(log, Rec("seedBoundary", 0)))

Step(d) ==
  \/ Prompt(d) \/ LogPrompt(d) \/ LogTurnOpen(d) \/ LogStepOpen(d)
  \/ Look(d) \/ AnswerMessage(d) \/ AnswerCall(d) \/ AnswerStop(d)
  \/ LogMessage(d) \/ LogCall(d) \/ AnswerToolCall(d) \/ LogResult(d)
  \/ DecideReason(d) \/ LogStepClose(d) \/ LogTurnClose(d) \/ Return(d)

TurnNext == (\E d \in Drivers : Step(d)) \/ Stop \/ Resume \/ Fork

TurnSpec == TurnInit /\ [][TurnNext]_turnVars

-----------------------------------------------------------------------------
(* No two authored messages of a log share an id, whichever process wrote  *)
(* them, and a tool call's id from a provider does not make them collide   *)
(* after a resume (boot.rs:300-303, session.rs:263-278).                   *)
MessageIdsDistinct ==
  \A i, j \in DOMAIN log :
    i # j /\ IsSeamMessage(log[i]) /\ IsSeamMessage(log[j]) => log[i].id # log[j].id

(* Once the log holds a close for MaxTokens no clean close follows, across *)
(* loop instances, resumes and forks (loop_.rs:120-127).  The fact is read *)
(* before the two appends of the close, without the log's lock: drivers    *)
(* that overlap may close clean behind it.                                 *)
BudgetIsSticky ==
  "overlap" \notin turnEnv =>
    \A i, j \in DOMAIN log :
      i < j /\ log[i] = Close("maxTokens") => log[j] # Close("completed")

(* A tool never ran without its call being on the log first, so that what  *)
(* a process did before it died can be read there (loop_.rs:143-146).  The *)
(* loop goes on when the append is refused.                                *)
CallLoggedBeforeRun ==
  "refuse" \notin turnEnv =>
    runs <= Cardinality({i \in DOMAIN log : log[i].kind = "call"})

(* Every answer that any caller ever got is among what the model is shown  *)
(* in every later turn, and last comes the prompt of the turn              *)
(* (run.rs:98-103).                                                        *)
ContextKept ==
  [][\A d \in Drivers :
       pc[d] = "look" /\ pc'[d] = "answer" =>
         LET seen == turn'[d].seen
         IN /\ told \subseteq {log[i].id : i \in seen}
            /\ turnEnv \cap {"refuse", "overlap"} = {} =>
                 log[Max(seen)].id = turn[d].prompt]_turnVars

(* What drive_turn reports is what the log says of the turn: its reason is *)
(* the one of the last close, and the text of a clean turn that answered   *)
(* with a message is that message (loop_.rs:123, run.rs:107-109).  A turn  *)
(* that ended in a tool call has no text of its own: its caller gets the   *)
(* message of an earlier turn again.                                       *)
TurnReport ==
  [][\A d \in Drivers :
       pc[d] = "return" /\ pc'[d] = "idle" /\ up' /\ turnEnv \cap {"refuse", "overlap"} = {} =>
         /\ Last(log) = Close(turn[d].why)
         /\ turn[d].why = "completed" /\ turn[d].said.kind = "assistant" =>
              turn'[d].text = turn[d].said.id]_turnVars

(* The model is shown the whole derived surface: tool results are message- *)
(* producing (events.rs:15-18, 91) and model-visible by the projection of  *)
(* the CLI (loop_seam.rs:310-312).                                         *)
ModelSeesSurface ==
  [][\A d \in Drivers :
       pc[d] = "look" /\ pc'[d] = "answer" => turn'[d].seen = Surface(log)]_turnVars

(* What goes into a turn and what comes out of it are of the session: no   *)
(* answer given is ever forgotten, and none is made up.                    *)
TurnIsFaithful == ContextKept /\ TurnReport
=============================================================================
