---------------------------- MODULE ToolPipeline ----------------------------
(***************************************************************************)
(* ToolRegistry::execute of harnless-agent (tools.rs): the post-execute    *)
(* chain of listeners with the `next` each is handed, the answer cells     *)
(* they leave behind in the registry, the delivery of the context they     *)
(* ask for, and the frozen-result notification.                            *)
(*                                                                         *)
(* Before the chain the call is looked up, allowed, guarded and run; that  *)
(* touches nothing shared and is one step here.  What a listener does is   *)
(* its own choice within the habits of the environment.                    *)
(***************************************************************************)
EXTENDS Naturals, Sequences, SequencesExt

CONSTANTS
  Calls,        \* calls of execute()
  Listeners,    \* post-execute registrations
  Environments  \* what may happen in one behaviour: sets of Habit

(* veto: a listener may return without calling next.  relay: it may return *)
(* what next answered.  rewrite: it may hand next a value of its own.      *)
(* twice: it may call next again.  overlap: calls may run at the same      *)
(* time.  late: the context sink is installed after calls were made.       *)
Habit == {"veto", "relay", "rewrite", "twice", "overlap", "late"}

None == "none"   \* no call, no value, no reason

ASSUME ToolPipelineAssumption ==
  /\ Environments \subseteq SUBSET Habit
  /\ Calls \cap Listeners = {} /\ None \notin Calls \cup Listeners

VARIABLES
  env,       \* the habits of this behaviour; never changes
  post,      \* ToolRegistry.post, in registration order
  cell,      \* the answer cell of each registration, past and present
  busy,      \* the call inside each listener's mutex
  at,        \* where each call is
  payload,   \* the value a call is about to hand to the rest of its chain
  chain,     \* the rest of its StageChain
  stack,     \* the listeners it is inside of, outermost first
  decision,  \* what the listener that just returned decided
  answer,    \* the outcome it last folded, and the one it should have
  due,       \* the context of the call that is still to be delivered
  blocked,   \* history: did a listener of the call return Block?
  sink,      \* is the context sink installed?
  pending,   \* context held while it was not
  flushing,  \* context the installation has taken and not yet handed on
  sunk,      \* what the sink received
  frozen     \* the calls whose result was notified

chainVars == <<post, cell, busy, payload, chain, stack, decision, blocked>>
sinkVars  == <<sink, pending, flushing, sunk>>
vars == <<env, at, answer, due, frozen, chainVars, sinkVars>>

(* The value a body returns is named by its call, a value a listener puts  *)
(* in its place by the listener; a piece of context by both.               *)
Value   == Calls \cup Listeners
Context == Calls \X Listeners
Outcome == [value : Value, context : Seq(Context), denied : Listeners \cup {None}]

(* PostDecision; the fields a kind does not carry are left at a default. *)
Decision == [kind : {"accept", "replace", "context", "block"},
             value : Value \cup {None}, context : Seq(Context),
             reason : Listeners \cup {None}]

Accept         == [kind |-> "accept", value |-> None, context |-> <<>>, reason |-> None]
Replace(v)     == [Accept EXCEPT !.kind = "replace", !.value = v]
AddContext(cs) == [Accept EXCEPT !.kind = "context", !.context = cs]
Block(l)       == [Accept EXCEPT !.kind = "block", !.reason = l]

(* One activation of a listener.  sent is the payload of its last next     *)
(* call, inner what came back, own what should have.  An Option of an      *)
(* outcome is a set of at most one.                                        *)
Frame == [l : Listeners, handed : Value, nexts : 0..2, sent : Value,
          inner : SUBSET Outcome, own : SUBSET Outcome]

Place == {"idle", "refused", "chain", "listen", "fold", "restore", "deliver",
          "handing", "done"}

TypeOK ==
  /\ env \in Environments
  /\ post \in Seq(Listeners)
  /\ ToSet(post) \subseteq DOMAIN cell /\ DOMAIN cell \subseteq Listeners
  /\ cell \in [DOMAIN cell -> SUBSET Outcome]
  /\ busy \in [Listeners -> Calls \cup {None}]
  /\ at \in [Calls -> Place]
  /\ payload \in [Calls -> Value]
  /\ chain \in [Calls -> Seq(Listeners)]
  /\ stack \in [Calls -> Seq(Frame)]
  /\ decision \in [Calls -> Decision]
  /\ due \in [Calls -> Seq(Context)]
  /\ answer \in [Calls -> [real : Outcome, own : Outcome]]
  /\ blocked \in [Calls -> BOOLEAN]
  /\ sink \in BOOLEAN
  /\ \A s \in {pending, flushing, sunk} : s \in Seq(Context)
  /\ frozen \subseteq Calls

(* The built-in accept. *)
Accepted(v) == [value |-> v, context |-> <<>>, denied |-> None]

Init ==
  /\ env \in Environments
  /\ post = <<>>
  /\ cell = <<>>
  /\ busy = [l \in Listeners |-> None]
  /\ at = [c \in Calls |-> "idle"]
  /\ payload = [c \in Calls |-> c]
  /\ chain = [c \in Calls |-> <<>>]
  /\ stack = [c \in Calls |-> <<>>]
  /\ answer = [c \in Calls |-> [real |-> Accepted(c), own |-> Accepted(c)]]
  /\ decision = [c \in Calls |-> Accept]
  /\ due = [c \in Calls |-> <<>>]
  /\ blocked = [c \in Calls |-> FALSE]
  /\ sink = ("late" \notin env)
  /\ pending = <<>> /\ flushing = <<>> /\ sunk = <<>>
  /\ frozen = {}

Goto(c, p) == at' = [at EXCEPT ![c] = p]

----------------------------------------------------------------------------
(* How decisions compose.                                                  *)

(* from_decision: the listener answers alone for the value it was handed. *)
FromDecision(d, v) ==
  CASE d.kind = "accept"  -> Accepted(v)
    [] d.kind = "replace" -> Accepted(d.value)
    [] d.kind = "context" -> [Accepted(v) EXCEPT !.context = d.context]
    [] d.kind = "block"   -> [Accepted(v) EXCEPT !.denied = d.reason]

(* Mutant: a replacement starts the outcome over, as from_decision does. *)
AmendAfresh(o, d) ==
  CASE d.kind = "accept"  -> o
    [] d.kind = "replace" -> Accepted(d.value)
    [] d.kind = "context" -> [o EXCEPT !.context = d.context \o @]
    [] d.kind = "block"   -> [o EXCEPT !.denied = d.reason]

(* amend: fold the decision into what the rest of the chain answered. *)
Amend(o, d) ==
  CASE d.kind = "accept"  -> o
    [] d.kind = "replace" -> [o EXCEPT !.value = d.value]
    [] d.kind = "context" -> [o EXCEPT !.context = d.context \o @]
    [] d.kind = "block"   -> [o EXCEPT !.denied = d.reason]

(* What is in a cell decides: delegated, or vetoed. *)
Fold(option, d, v) ==
  IF option = {} THEN FromDecision(d, v) ELSE Amend(CHOOSE o \in option : TRUE, d)

(* as_decision: what a delegating listener is told of the outcome. *)
AsDecision(o, v) ==
  CASE o.denied # None                        -> Block(o.denied)
    [] o.denied = None /\ o.context # <<>>    -> AddContext(o.context)
    [] o.denied = None /\ o.context = <<>> /\ o.value # v -> Replace(o.value)
    [] OTHER                                  -> Accept

----------------------------------------------------------------------------
(* on_post_execute and its disposer.                                       *)

Register(l) ==
  /\ l \in Listeners \ DOMAIN cell
  /\ post' = Append(post, l)
  /\ cell' = [m \in DOMAIN cell \cup {l} |-> IF m = l THEN {} ELSE cell[m]]
  /\ UNCHANGED <<env, at, answer, due, frozen, busy, payload, chain, stack, decision,
                 blocked, sinkVars>>

(* The entry leaves the list; a chain that was assembled keeps it. *)
Dispose(l) ==
  /\ \E i \in DOMAIN post : post[i] = l /\ post' = RemoveAt(post, i)
  /\ UNCHANGED <<env, at, answer, due, frozen, cell, busy, payload, chain, stack, decision,
                 blocked, sinkVars>>

----------------------------------------------------------------------------
(* execute                                                                 *)

MayStart(c) ==
  /\ at[c] = "idle"
  /\ "overlap" \in env \/ \A d \in Calls : at[d] \in {"idle", "refused", "done"}

(* Mutant: the registrations are kept in a hash map, in no order. *)
ExecuteInAnyOrder(c) ==
  /\ MayStart(c)
  /\ Goto(c, "chain")
  /\ \E s \in SetToSeqs(ToSet(post)) : chain' = [chain EXCEPT ![c] = s]
  /\ UNCHANGED <<env, answer, due, frozen, post, cell, busy, payload, stack, decision,
                 blocked, sinkVars>>

(* Not found, not allowed, guarded against, or the body failed. *)
Refuse(c) ==
  /\ MayStart(c)
  /\ Goto(c, "refused")
  /\ UNCHANGED <<env, answer, due, frozen, chainVars, sinkVars>>

(* The body ran: the chain is assembled from the registrations. *)
Execute(c) ==
  /\ MayStart(c)
  /\ Goto(c, "chain")
  /\ chain' = [chain EXCEPT ![c] = post]
  /\ UNCHANGED <<env, answer, due, frozen, post, cell, busy, payload, stack, decision,
                 blocked, sinkVars>>

(* run_chain: the head registration, inside its mutex. *)
Enter(c) ==
  /\ at[c] = "chain" /\ chain[c] # <<>>
  /\ busy[Head(chain[c])] = None
  /\ busy' = [busy EXCEPT ![Head(chain[c])] = c]
  /\ chain' = [chain EXCEPT ![c] = Tail(@)]
  /\ stack' = [stack EXCEPT ![c] = Append(@,
       [l |-> Head(chain[c]), handed |-> payload[c], nexts |-> 0, sent |-> payload[c],
        inner |-> {}, own |-> {}])]
  /\ Goto(c, "listen")
  /\ UNCHANGED <<env, answer, due, frozen, post, cell, payload, decision, blocked, sinkVars>>

(* The outcome of the whole chain: a blocked call stops here. *)
Settle(c, real, own) ==
  /\ answer' = [answer EXCEPT ![c] = [real |-> real, own |-> own]]
  /\ due' = [due EXCEPT ![c] = IF real.denied = None THEN real.context ELSE <<>>]
  /\ Goto(c, IF real.denied = None THEN "deliver" ELSE "refused")

(* The rest of c's chain has answered: BridgeNext::call leaves the outcome *)
(* in the cell of the listener that called next, over these cells.         *)
Answer(c, frames, cells, real, own) ==
  IF frames = <<>>
  THEN /\ stack' = [stack EXCEPT ![c] = <<>>]
       /\ cell' = cells
       /\ Settle(c, real, own)
  ELSE LET top == Last(frames) IN
       /\ stack' = [stack EXCEPT ![c] =
                      Append(Front(frames), [top EXCEPT !.inner = {real}, !.own = {own}])]
       /\ cell' = [cells EXCEPT ![top.l] = {real}]
       /\ Goto(c, "listen")
       /\ UNCHANGED <<answer, due>>

(* The end of the chain is the built-in accept. *)
BuiltIn(c) ==
  /\ at[c] = "chain" /\ chain[c] = <<>>
  /\ Answer(c, stack[c], cell, Accepted(payload[c]), Accepted(payload[c]))
  /\ UNCHANGED <<env, frozen, post, busy, payload, chain, decision, blocked, sinkVars>>

(* BridgeNext::call, with the value handed or one of the listener's own. *)
CallNext(c) ==
  /\ at[c] = "listen"
  /\ LET top == Last(stack[c]) IN
     /\ top.nexts < (IF "twice" \in env THEN 2 ELSE 1)
     /\ \E v \in {top.handed} \cup (IF "rewrite" \in env THEN {top.l} ELSE {}) :
          /\ payload' = [payload EXCEPT ![c] = v]
          /\ stack' = [stack EXCEPT ![c] =
               Append(Front(@), [top EXCEPT !.nexts = @ + 1, !.sent = v])]
  /\ Goto(c, "chain")
  /\ UNCHANGED <<env, answer, due, frozen, post, cell, busy, chain, decision, blocked, sinkVars>>

(* What the listener on top of c's stack may return. *)
Decisions(c) ==
  LET top == Last(stack[c]) IN
    {Accept, Replace(top.l), AddContext(<<(<<c, top.l>>)>>), Block(top.l)}
      \cup {AsDecision(o, top.sent) : o \in IF "relay" \in env THEN top.inner ELSE {}}

(* The listener returns, and its mutex is free. *)
Decide(c) ==
  /\ at[c] = "listen"
  /\ "veto" \in env \/ Last(stack[c]).nexts > 0
  /\ \E d \in Decisions(c) :
       /\ decision' = [decision EXCEPT ![c] = d]
       /\ blocked' = [blocked EXCEPT ![c] = @ \/ d.kind = "block"]
  /\ busy' = [busy EXCEPT ![Last(stack[c]).l] = None]
  /\ Goto(c, "fold")
  /\ UNCHANGED <<env, answer, due, frozen, post, cell, payload, chain, stack, sinkVars>>

(* run_chain takes what is in the listener's cell and folds the decision   *)
(* into it.  What should be there is what this activation's next answered. *)
FoldCell(c) ==
  /\ at[c] = "fold"
  /\ LET top == Last(stack[c]) IN
     /\ answer' = [answer EXCEPT ![c] =
          [real |-> Fold(cell[top.l], decision[c], top.handed),
           own  |-> Fold(top.own, decision[c], top.handed)]]
     /\ cell' = [cell EXCEPT ![top.l] = {}]
  /\ decision' = [decision EXCEPT ![c] = Accept]
  /\ Goto(c, "restore")
  /\ UNCHANGED <<env, due, frozen, post, busy, payload, chain, stack, blocked, sinkVars>>

(* The outcome is put back into the cell, and returned. *)
Restore(c) ==
  /\ at[c] = "restore"
  /\ Answer(c, Front(stack[c]), [cell EXCEPT ![Last(stack[c]).l] = {answer[c].real}],
            answer[c].real, answer[c].own)
  /\ UNCHANGED <<env, frozen, post, busy, payload, chain, decision, blocked, sinkVars>>

----------------------------------------------------------------------------
(* Delivery                                                                *)

(* deliver_post_execute_context, under both locks: hold the context, or go *)
(* on to the sink without them.                                            *)
Deliver(c) ==
  /\ at[c] = "deliver" /\ due[c] # <<>>
  /\ IF sink THEN Goto(c, "handing") /\ UNCHANGED <<due, pending>>
     ELSE /\ pending' = Append(pending, Head(due[c]))
          /\ due' = [due EXCEPT ![c] = Tail(@)]
          /\ UNCHANGED at
  /\ UNCHANGED <<env, answer, frozen, chainVars, sink, flushing, sunk>>

HandOn(c) ==
  /\ at[c] = "handing"
  /\ sunk' = Append(sunk, Head(due[c]))
  /\ due' = [due EXCEPT ![c] = Tail(@)]
  /\ Goto(c, "deliver")
  /\ UNCHANGED <<env, answer, frozen, chainVars, sink, pending, flushing>>

Notify(c) ==
  /\ at[c] = "deliver" /\ due[c] = <<>>
  /\ frozen' = frozen \cup {c}
  /\ Goto(c, "done")
  /\ UNCHANGED <<env, answer, due, chainVars, sinkVars>>

(* Mutant: what was held is read, not taken. *)
InstallSinkCopying ==
  /\ ~sink
  /\ sink' = TRUE
  /\ flushing' = pending
  /\ UNCHANGED <<env, at, answer, due, frozen, chainVars, pending, sunk>>

(* set_post_execute_context_sink: install and take, in one lock section;   *)
(* the flush comes after it.                                               *)
InstallSink ==
  /\ ~sink
  /\ sink' = TRUE
  /\ flushing' = pending
  /\ pending' = <<>>
  /\ UNCHANGED <<env, at, answer, due, frozen, chainVars, sunk>>

Flush ==
  /\ flushing # <<>>
  /\ sunk' = Append(sunk, Head(flushing))
  /\ flushing' = Tail(flushing)
  /\ UNCHANGED <<env, at, answer, due, frozen, chainVars, sink, pending>>

----------------------------------------------------------------------------

Continue(c) ==
  \/ Enter(c) \/ BuiltIn(c) \/ CallNext(c) \/ Decide(c) \/ FoldCell(c) \/ Restore(c)
  \/ Deliver(c) \/ HandOn(c) \/ Notify(c)

Next ==
  \/ \E l \in Listeners : Register(l) \/ Dispose(l)
  \/ \E c \in Calls : Refuse(c) \/ Execute(c) \/ Continue(c)
  \/ InstallSink \/ Flush

Spec == Init /\ [][Next]_vars

----------------------------------------------------------------------------
(* Properties                                                              *)

(* What a call freezes, and whether it is denied, is decided by its own    *)
(* body and its own listeners: a listener's decision amends what its own   *)
(* next answered, and one that does not call next answers for itself       *)
(* (tools.rs:73-79, 260-266).                                            *)
AnswerIsOwn ==
  "overlap" \notin env => \A c \in Calls : answer[c].real = answer[c].own

(* A Block anywhere in the chain denies the call whatever the outer        *)
(* listeners decide: it notifies nothing and delivers no context           *)
(* (tools.rs:136-139, 462-466).                                            *)
BlockDenies ==
  \A c \in Calls : "overlap" \notin env /\ blocked[c] =>
    /\ c \notin frozen
    /\ \A i \in DOMAIN (sunk \o flushing \o pending) : (sunk \o flushing \o pending)[i][1] # c

(* With a sink installed no context is left in the registry, whichever way *)
(* the installation and a delivery interleave (tools.rs:421-428).          *)
NothingStranded == sink => pending = <<>>

(* Each listener is a mutex, and a call holds those of all the listeners   *)
(* it is inside of while it takes the next one: the calls that run never   *)
(* all wait for each other, whatever was registered and disposed between   *)
(* the moments their chains were assembled (tools.rs:243-257, 540).        *)
Running(c) == at[c] \notin {"idle", "refused", "done"}
Waiting(c) == at[c] = "chain" /\ chain[c] # <<>> /\ busy[Head(chain[c])] # None

NoDeadlyEmbrace ==
  (\E c \in Calls : Running(c)) => \E c \in Calls : Running(c) /\ ~Waiting(c)

(* A call's answer comes from its own body and listeners, and one Block    *)
(* among them is final.                                                    *)
AnswerStands == TypeOK /\ AnswerIsOwn /\ BlockDenies
=============================================================================
