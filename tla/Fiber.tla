------------------------------- MODULE Fiber -------------------------------
(***************************************************************************)
(* One fiber of harnless-runtime and the plugin mount that owns it: the    *)
(* reversible-effect list of fiber.rs and the lifecycle writes of          *)
(* Registry::mount (plugin.rs).  Every lock section of the code is one     *)
(* action, so threads interleave exactly where the mutex is released.      *)
(*                                                                         *)
(* A cleanup closure is identified with the index of its slot.  A cleanup  *)
(* that panics still counts as run: `dispose` catches the unwind and goes  *)
(* on, and an explicit disposer has already vacated the slot.              *)
(***************************************************************************)
EXTENDS Naturals, FiniteSets

CONSTANTS
  Threads,             \* threads that hold a handle on the fiber
  Mounter,             \* the thread inside Registry::mount
  Disposers,           \* threads that may call Fiber::dispose
  MaxEffects,          \* bound on the number of effects ever registered
  TeardownDuringSetup  \* may Fiber::dispose overlap an effect() or mount()?

ASSUME FiberAssumption ==
  /\ Mounter \in Threads
  /\ Disposers \subseteq Threads
  /\ MaxEffects \in Nat
  /\ TeardownDuringSetup \in BOOLEAN

VARIABLES
  state,   \* FiberInner.state
  len,     \* FiberInner.effects.len()
  slot,    \* FiberInner.effects: "absent" beyond len, "vacant" None, "full" Some
  handle,  \* the AtomicU8 of each Disposer, "none" before it is returned
  mount,   \* progress of Registry::mount for this fiber
  pc,      \* where each thread is
  cur,     \* the slot index a thread works on (effect, Disposer::dispose)
  held,    \* cleanups a teardown has drained and not yet run
  runs     \* history: how often each cleanup has run

vars == <<state, len, slot, handle, mount, pc, cur, held, runs>>

Idx == 1..MaxEffects

FiberState == {"Pending", "Loading", "Active", "Failed", "Unloading", "Disposed"}

SetupPc    == {"e_reserve", "e_body", "e_install"}
TeardownPc == {"d_enter", "d_mark", "d_back", "d_drain", "d_run"}
DisposerPc == {"x_take", "x_run"}

TypeOK ==
  /\ state \in FiberState
  /\ len \in 0..MaxEffects
  /\ slot \in [Idx -> {"absent", "vacant", "full"}]
  /\ handle \in [Idx -> {"none", "live", "disposed"}]
  /\ mount \in {"fresh", "applying", "mounted", "failed"}
  /\ pc \in [Threads -> {"idle"} \cup SetupPc \cup TeardownPc \cup DisposerPc]
  /\ cur \in [Threads -> 0..MaxEffects]
  /\ held \in [Threads -> SUBSET Idx]
  /\ runs \in [Idx -> Nat]

(* Fiber::pending (mounted through the registry) or Fiber::active (stand-  *)
(* alone: no mount ever runs).                                             *)
Init ==
  /\ \/ state = "Pending" /\ mount = "fresh"
     \/ state = "Active"  /\ mount = "mounted"
  /\ len = 0
  /\ slot = [i \in Idx |-> "absent"]
  /\ handle = [i \in Idx |-> "none"]
  /\ pc = [t \in Threads |-> "idle"]
  /\ cur = [t \in Threads |-> 0]
  /\ held = [t \in Threads |-> {}]
  /\ runs = [i \in Idx |-> 0]

Goto(t, l) == pc' = [pc EXCEPT ![t] = l]

----------------------------------------------------------------------------
(* Who can reach the fiber, and when.                                      *)

(* The mounting thread reaches it from the moment the body runs; every     *)
(* other thread once mount returned, or earlier through Context::fiber     *)
(* when teardown and setup may overlap.                                    *)
Reaches(t) ==
  \/ mount = "mounted"
  \/ mount = "applying" /\ (t = Mounter \/ TeardownDuringSetup)
  \/ mount = "failed" /\ TeardownDuringSetup

SettingUp   == mount = "applying" \/ \E u \in Threads : pc[u] \in SetupPc
TearingDown == \E u \in Threads : pc[u] \in TeardownPc

----------------------------------------------------------------------------
(* Fiber::effect                                                           *)

(* A plausible slip: assert_active forgotten. *)
EffectCheckUnguarded(t) ==
  /\ Reaches(t) /\ pc[t] = "idle"
  /\ TeardownDuringSetup \/ ~TearingDown
  /\ len + Cardinality({u \in Threads : pc[u] = "e_reserve"}) < MaxEffects
  /\ Goto(t, "e_reserve")
  /\ UNCHANGED <<state, len, slot, handle, mount, cur, held, runs>>

(* assert_active, then the lock is released.  A refused call changes       *)
(* nothing.  MaxEffects bounds the calls.                                  *)
EffectCheck(t) ==
  /\ Reaches(t) /\ pc[t] = "idle"
  /\ TeardownDuringSetup \/ ~TearingDown
  /\ state \notin {"Unloading", "Disposed"}
  /\ len + Cardinality({u \in Threads : pc[u] = "e_reserve"}) < MaxEffects
  /\ Goto(t, "e_reserve")
  /\ UNCHANGED <<state, len, slot, handle, mount, cur, held, runs>>

(* effects.push(None): the slot is reserved, the state is not re-read. *)
EffectReserve(t) ==
  /\ pc[t] = "e_reserve"
  /\ len < MaxEffects
  /\ len' = len + 1
  /\ slot' = [slot EXCEPT ![len + 1] = "vacant"]
  /\ cur' = [cur EXCEPT ![t] = len + 1]
  /\ Goto(t, "e_body")
  /\ UNCHANGED <<state, handle, mount, held, runs>>

(* The body runs outside the lock.  With a cleanup the slot is still to be *)
(* filled; without one the Disposer is returned at once.                   *)
EffectBody(t) ==
  /\ pc[t] = "e_body"
  /\ \/ Goto(t, "e_install") /\ UNCHANGED handle
     \/ Goto(t, "idle") /\ handle' = [handle EXCEPT ![cur[t]] = "live"]
  /\ UNCHANGED <<state, len, slot, mount, cur, held, runs>>

(* effects[idx] = Some(cleanup), whatever happened to the fiber meanwhile. *)
EffectInstall(t) ==
  /\ pc[t] = "e_install"
  /\ slot' = [slot EXCEPT ![cur[t]] = "full"]
  /\ handle' = [handle EXCEPT ![cur[t]] = "live"]
  /\ Goto(t, "idle")
  /\ UNCHANGED <<state, len, mount, cur, held, runs>>

----------------------------------------------------------------------------
(* Disposer::dispose.  The handle is cloneable, so any thread may call it. *)

DisposerSwap(t, i) ==
  /\ Reaches(t) /\ pc[t] = "idle"
  /\ handle[i] = "live"
  /\ handle' = [handle EXCEPT ![i] = "disposed"]
  /\ cur' = [cur EXCEPT ![t] = i]
  /\ Goto(t, "x_take")
  /\ UNCHANGED <<state, len, slot, mount, held, runs>>

(* A plausible slip: the cleanup is cloned out, the slot stays full. *)
DisposerPeek(t) ==
  /\ pc[t] = "x_take"
  /\ Goto(t, IF slot[cur[t]] = "full" THEN "x_run" ELSE "idle")
  /\ UNCHANGED <<state, len, slot, handle, mount, cur, held, runs>>

(* A plausible slip: the vacant slot is not noticed. *)
DisposerTakeAnyway(t) ==
  /\ pc[t] = "x_take"
  /\ slot' = [slot EXCEPT ![cur[t]] = "vacant"]
  /\ Goto(t, "x_run")
  /\ UNCHANGED <<state, len, handle, mount, cur, held, runs>>

(* take_and_run: take the cleanup under the lock, if it is still there. *)
DisposerTake(t) ==
  /\ pc[t] = "x_take"
  /\ slot' = [slot EXCEPT ![cur[t]] = "vacant"]
  /\ Goto(t, IF slot[cur[t]] = "full" THEN "x_run" ELSE "idle")
  /\ UNCHANGED <<state, len, handle, mount, cur, held, runs>>

(* The cleanup runs after the lock is released. *)
DisposerRun(t) ==
  /\ pc[t] = "x_run"
  /\ runs' = [runs EXCEPT ![cur[t]] = @ + 1]
  /\ Goto(t, "idle")
  /\ UNCHANGED <<state, len, slot, handle, mount, cur, held>>

----------------------------------------------------------------------------
(* Fiber::dispose                                                          *)

TeardownCall(t) ==
  /\ t \in Disposers
  /\ Reaches(t) /\ pc[t] = "idle"
  /\ TeardownDuringSetup \/ ~SettingUp
  /\ Goto(t, "d_enter")
  /\ UNCHANGED <<state, len, slot, handle, mount, cur, held, runs>>

(* The early return when the fiber is already disposed. *)
TeardownCheck(t) ==
  /\ pc[t] = "d_enter"
  /\ Goto(t, IF state = "Disposed" THEN "idle" ELSE "d_mark")
  /\ UNCHANGED <<state, len, slot, handle, mount, cur, held, runs>>

(* set_state(Unloading) and the previous value it returns. *)
TeardownMark(t) ==
  /\ pc[t] = "d_mark"
  /\ state' = "Unloading"
  /\ Goto(t, IF state = "Disposed" THEN "d_back" ELSE "d_drain")
  /\ UNCHANGED <<len, slot, handle, mount, cur, held, runs>>

(* A racing caller had finished: put the state back. *)
TeardownBack(t) ==
  /\ pc[t] = "d_back"
  /\ state' = "Disposed"
  /\ Goto(t, "idle")
  /\ UNCHANGED <<len, slot, handle, mount, cur, held, runs>>

(* Vacate every slot that holds a cleanup, in one lock section. *)
TeardownDrain(t) ==
  /\ pc[t] = "d_drain"
  /\ held' = [held EXCEPT ![t] = {i \in Idx : slot[i] = "full"}]
  /\ slot' = [i \in Idx |-> IF slot[i] = "full" THEN "vacant" ELSE slot[i]]
  /\ Goto(t, "d_run")
  /\ UNCHANGED <<state, len, handle, mount, cur, runs>>

(* A plausible slip: a panicking cleanup takes the remaining ones with it. *)
TeardownRunUncaught(t) ==
  /\ pc[t] = "d_run" /\ held[t] # {}
  /\ \E i \in held[t] :
       /\ \A j \in held[t] : j <= i
       /\ runs' = [runs EXCEPT ![i] = @ + 1]
       /\ \E rest \in {{}, held[t] \ {i}} : held' = [held EXCEPT ![t] = rest]
  /\ UNCHANGED <<state, len, slot, handle, mount, pc, cur>>

(* The drained cleanups run one by one, latest registration first. *)
TeardownRun(t) ==
  /\ pc[t] = "d_run" /\ held[t] # {}
  /\ \E i \in held[t] :
       /\ \A j \in held[t] : j <= i
       /\ runs' = [runs EXCEPT ![i] = @ + 1]
       /\ held' = [held EXCEPT ![t] = @ \ {i}]
  /\ UNCHANGED <<state, len, slot, handle, mount, pc, cur>>

TeardownFinish(t) ==
  /\ pc[t] = "d_run" /\ held[t] = {}
  /\ state' = "Disposed"
  /\ Goto(t, "idle")
  /\ UNCHANGED <<len, slot, handle, mount, cur, held, runs>>

----------------------------------------------------------------------------
(* Registry::mount                                                         *)

(* The inject gate passed: fresh fiber, Loading, the plugin body starts. *)
MountApply ==
  /\ mount = "fresh"
  /\ mount' = "applying"
  /\ state' = "Loading"
  /\ UNCHANGED <<len, slot, handle, pc, cur, held, runs>>

(* The body returned Ok: set_state(Active), whatever the state was. *)
MountOk ==
  /\ mount = "applying" /\ pc[Mounter] = "idle"
  /\ mount' = "mounted"
  /\ state' = "Active"
  /\ UNCHANGED <<len, slot, handle, pc, cur, held, runs>>

(* The body failed: Failed, then dispose() rolls its registrations back. *)
MountErr ==
  /\ mount = "applying" /\ pc[Mounter] = "idle"
  /\ mount' = "failed"
  /\ state' = "Failed"
  /\ Goto(Mounter, "d_enter")
  /\ UNCHANGED <<len, slot, handle, cur, held, runs>>

----------------------------------------------------------------------------

(* A call that has begun runs to its end. *)
Continue(t) ==
  \/ EffectReserve(t) \/ EffectBody(t) \/ EffectInstall(t)
  \/ DisposerTake(t) \/ DisposerRun(t)
  \/ TeardownCheck(t) \/ TeardownMark(t) \/ TeardownBack(t)
  \/ TeardownDrain(t) \/ TeardownRun(t) \/ TeardownFinish(t)

Call(t) ==
  \/ EffectCheck(t)
  \/ \E i \in Idx : DisposerSwap(t, i)
  \/ TeardownCall(t)

Next ==
  \/ MountApply \/ MountOk \/ MountErr
  \/ \E t \in Threads : Call(t) \/ Continue(t)

Spec == Init /\ [][Next]_vars

(* A thread inside a call is scheduled and the closures it runs return;    *)
(* nothing obliges anyone to make a call.                                  *)
FairSpec == Spec /\ \A t \in Threads : WF_vars(Continue(t))

----------------------------------------------------------------------------
(* Properties                                                              *)

(* A cleanup runs at most once, whichever of explicit dispose, a second    *)
(* handle and fiber teardown get to it (fiber.rs:16-17).                   *)
CleanupAtMostOnce == \A i \in Idx : runs[i] <= 1

(* When a teardown runs the cleanup of i, no later registration is still   *)
(* waiting, in the list or in any teardown's hands: unloading unwinds in   *)
(* reverse registration order (fiber.rs:18).                               *)
RunByTeardown(i) ==
  \E t \in Threads : pc[t] = "d_run" /\ i \in held[t] /\ i \notin held'[t]

TeardownIsLifo ==
  [][\A i \in Idx : RunByTeardown(i) =>
       \A j \in Idx : j > i =>
         /\ slot[j] # "full"
         /\ \A u \in Threads : j \notin held[u]]_vars

(* Once a fiber is disposed and no call on it is under way, no cleanup is  *)
(* left behind in its list, where nobody will ever look again              *)
(* (fiber.rs:14-15, 178-180).                                              *)
NoOrphanedCleanup ==
  (state = "Disposed" /\ \A t \in Threads : pc[t] = "idle")
    => \A i \in Idx : slot[i] # "full"

(* A disposed fiber is never brought back into a state that accepts        *)
(* effects (fiber.rs:45-46); the transient Unloading of a late second      *)
(* dispose still refuses them.                                             *)
DisposedIsFinal ==
  [][state = "Disposed" => state' \in {"Disposed", "Unloading"}]_state

(* A teardown that has begun ends with every cleanup that was registered   *)
(* having run, a broken one included (fiber.rs:19, 253-258).               *)
TeardownCompletes ==
  \A i \in Idx :
    (slot[i] = "full" /\ state = "Unloading") ~> (runs[i] > 0)

(* The cleanup of i is installed and has not run: in the list, drained by  *)
(* a teardown or taken by an explicit disposer.                            *)
Owed(i) ==
  \/ slot[i] = "full"
  \/ \E t \in Threads : i \in held[t]
  \/ \E t \in Threads : pc[t] = "x_run" /\ cur[t] = i

(* The fiber keeps its ledger: the abstract owner is open until the fiber  *)
(* unloads, an effect is live once its cleanup is installed and undone     *)
(* when the cleanup has run.                                               *)
Ledger == INSTANCE EffectLedger WITH
  Effects <- Idx,
  open    <- state \notin {"Unloading", "Disposed"},
  status  <- [i \in Idx |-> IF runs[i] > 0 THEN "undone"
                          ELSE IF Owed(i) THEN "live" ELSE "none"]

LedgerKept == Ledger!Spec

(* A teardown unwinds completely and in order, a broken cleanup included.  *)
TeardownUnwinds == TeardownIsLifo /\ TeardownCompletes
=============================================================================
