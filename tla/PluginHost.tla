----------------------------- MODULE PluginHost -----------------------------
(***************************************************************************)
(* The plugin host of harnless-runtime seen by its callers, one call at a  *)
(* time: Registry::mount and unmount (plugin.rs), the service map behind   *)
(* Context::provide_for and friends (context.rs, service.rs), and one      *)
(* event's listener list (EventRegistry::on / on_waterfall, events.rs).    *)
(* A fiber is what Fiber.tla describes, used by one caller at a time; what *)
(* is modelled here is what its cleanups do to the shared maps, where the  *)
(* registrations of different fibers meet.  A teardown is one step for     *)
(* every cleanup it runs, and no call begins before it ended.              *)
(*                                                                         *)
(* A registration is a number: the service object or the listener closure  *)
(* it installs.                                                            *)
(***************************************************************************)
EXTENDS Naturals, Sequences, SequencesExt

CONSTANTS
  Fibers,      \* the fibers of the plugins that may be mounted
  Keys,        \* service keys: a type, or a type scoped by an isolation label
  Needs,       \* Plugin::inject of each fiber's plugin
  MaxRegs,     \* bound on the registrations ever made
  StackOnly,   \* do callers unwind in exactly the reverse order they built?
  LateCalls    \* may a caller still register on a fiber that was torn down?

ASSUME PluginHostAssumption ==
  /\ Needs \in [Fibers -> SUBSET Keys]
  /\ MaxRegs \in Nat
  /\ StackOnly \in BOOLEAN /\ LateCalls \in BOOLEAN

VARIABLES
  services,   \* ServiceMap.inner
  listeners,  \* SetFor.plain (or one waterfall slot list)
  effects,    \* each fiber's undo list, oldest first
  phase,      \* each fiber's lifecycle as its mount sees it
  plugins,    \* Registry.plugins, in mount order
  minted      \* how many registrations were made

hostVars == <<services, listeners, effects, phase, plugins, minted>>

None == 0
Regs == 1..MaxRegs

Effect ==
  [kind : {"service"}, key : Keys, reg : Regs]
    \cup [kind : {"listener"}, at : Nat \ {0}, reg : Regs]

HostTypeOK ==
  /\ services \in [Keys -> Regs \cup {None}]
  /\ listeners \in Seq(Regs)
  /\ effects \in [Fibers -> Seq(Effect)]
  /\ phase \in [Fibers -> {"fresh", "loading", "active", "unloading", "disposed"}]
  /\ plugins \in Seq(Fibers)
  /\ minted \in 0..MaxRegs

HostInit ==
  /\ services = [k \in Keys |-> None]
  /\ listeners = <<>>
  /\ effects = [f \in Fibers |-> <<>>]
  /\ phase = [f \in Fibers |-> "fresh"]
  /\ plugins = <<>>
  /\ minted = 0

----------------------------------------------------------------------------
(* The cleanups.                                                           *)

(* A plausible slip: the undo clears the map. *)
ClearServices(e) == [k \in Keys |-> None]

(* `map.remove::<T>()`, whoever's service is installed there by then. *)
RemoveService(e) == [services EXCEPT ![e.key] = None]

(* `list.remove(insertion)`: the position recorded at registration. *)
RemoveListener(e) ==
  IF e.at <= Len(listeners) THEN RemoveAt(listeners, e.at) ELSE listeners

UndoEffect(e) ==
  \/ /\ e.kind = "service"
     /\ services' = RemoveService(e)
     /\ UNCHANGED listeners
  \/ /\ e.kind = "listener"
     /\ listeners' = RemoveListener(e)
     /\ UNCHANGED services

----------------------------------------------------------------------------
(* The caller's discipline.                                                *)

Live == {f \in Fibers : phase[f] \in {"loading", "active"}}

(* No teardown is under way. *)
Quiet == \A f \in Fibers : phase[f] # "unloading"

(* f is the plugin being mounted, or else the latest one still live. *)
OnTop(f) ==
  \/ phase[f] = "loading"
  \/ /\ \A g \in Live : phase[g] # "loading"
     /\ \E p \in DOMAIN plugins :
          /\ plugins[p] = f
          /\ \A q \in DOMAIN plugins : p < q => plugins[q] \notin Live

MayRegister(f) ==
  /\ Quiet
  /\ \/ f \in Live /\ (StackOnly => OnTop(f))
     \/ LateCalls /\ phase[f] = "disposed"

MayUnwind(f) == Quiet /\ f \in Live /\ (StackOnly => OnTop(f))

----------------------------------------------------------------------------
(* Fiber::dispose                                                          *)

(* The state is set and every cleanup drained. *)
BeginTearDown(f) == phase' = [phase EXCEPT ![f] = "unloading"]

(* One drained cleanup runs, the latest first. *)
RunCleanup(f) ==
  /\ phase[f] = "unloading" /\ effects[f] # <<>>
  /\ UndoEffect(Last(effects[f]))
  /\ effects' = [effects EXCEPT ![f] = Front(@)]
  /\ UNCHANGED <<phase, plugins, minted>>

EndTearDown(f) ==
  /\ phase[f] = "unloading" /\ effects[f] = <<>>
  /\ phase' = [phase EXCEPT ![f] = "disposed"]
  /\ UNCHANGED <<services, listeners, effects, plugins, minted>>

----------------------------------------------------------------------------
(* Registry                                                                *)

(* Every injected service is present: fresh fiber, the body begins. *)
Mount(f) ==
  /\ phase[f] = "fresh" /\ Quiet
  /\ \A g \in Fibers : phase[g] # "loading"
  /\ \A k \in Needs[f] : services[k] # None
  /\ phase' = [phase EXCEPT ![f] = "loading"]
  /\ UNCHANGED <<services, listeners, effects, plugins, minted>>

(* The body returned Ok: the fiber is Active and the plugin is recorded. *)
ApplyOk(f) ==
  /\ phase[f] = "loading"
  /\ phase' = [phase EXCEPT ![f] = "active"]
  /\ plugins' = Append(plugins, f)
  /\ UNCHANGED <<services, listeners, effects, minted>>

(* The body failed: its registrations so far are rolled back. *)
ApplyErr(f) ==
  /\ phase[f] = "loading"
  /\ BeginTearDown(f)
  /\ UNCHANGED <<services, listeners, effects, plugins, minted>>

(* The row goes first; a fiber its owner disposed before has only a row    *)
(* left.                                                                   *)
Unmount(f) ==
  /\ \/ phase[f] = "active" /\ MayUnwind(f) /\ BeginTearDown(f)
     \/ phase[f] = "disposed" /\ Quiet /\ UNCHANGED phase
  /\ \E p \in DOMAIN plugins :
       plugins[p] = f /\ plugins' = RemoveAt(plugins, p)
  /\ UNCHANGED <<services, listeners, effects, minted>>

(* Fiber::dispose by an owner of the fiber other than the registry, as     *)
(* Mounted::drop does: the registry keeps its row.                         *)
DisposeFiber(f) ==
  /\ phase[f] = "active" /\ MayUnwind(f)
  /\ BeginTearDown(f)
  /\ UNCHANGED <<services, listeners, effects, plugins, minted>>

----------------------------------------------------------------------------
(* Registrations                                                           *)

(* fiber.effect: the undo joins the fiber's list, or is refused.           *)
Own(f, e) ==
  effects' = IF phase[f] = "disposed" THEN effects
             ELSE [effects EXCEPT ![f] = Append(@, e)]

(* provide_for and provide_isolated install first and register the undo    *)
(* afterwards; the service replaces whatever the key held.                 *)
ProvideFor(f, k) ==
  /\ MayRegister(f) /\ minted < MaxRegs
  /\ minted' = minted + 1
  /\ services' = [services EXCEPT ![k] = minted + 1]
  /\ Own(f, [kind |-> "service", key |-> k, reg |-> minted + 1])
  /\ UNCHANGED <<listeners, phase, plugins>>

(* provide_shared installs inside the effect body: refused, it does        *)
(* nothing.                                                                *)
ProvideShared(f, k) ==
  /\ MayRegister(f) /\ f \in Live /\ minted < MaxRegs
  /\ minted' = minted + 1
  /\ services' = [services EXCEPT ![k] = minted + 1]
  /\ Own(f, [kind |-> "service", key |-> k, reg |-> minted + 1])
  /\ UNCHANGED <<listeners, phase, plugins>>

(* Context::remove bypasses the fiber; the CLI's boot uses it to replace   *)
(* the loop it provided on the same fiber before.                          *)
RemoveNow(f, k) ==
  /\ phase[f] = "loading"
  /\ \E i \in DOMAIN effects[f] : effects[f][i].reg = services[k]
  /\ services' = [services EXCEPT ![k] = None]
  /\ UNCHANGED <<listeners, effects, phase, plugins, minted>>

(* A plausible slip: the position is read after the insertion, off by one. *)
OnOffByOne(f, prepend) ==
  /\ MayRegister(f) /\ minted < MaxRegs
  /\ minted' = minted + 1
  /\ listeners' = IF prepend THEN <<minted + 1>> \o listeners
                             ELSE Append(listeners, minted + 1)
  /\ Own(f, [kind |-> "listener", reg |-> minted + 1, at |-> Len(listeners) + 2])
  /\ UNCHANGED <<services, phase, plugins>>

(* on / on_waterfall: into the list, remember the position, register the   *)
(* undo.                                                                   *)
On(f, prepend) ==
  /\ MayRegister(f) /\ minted < MaxRegs
  /\ minted' = minted + 1
  /\ listeners' = IF prepend THEN <<minted + 1>> \o listeners
                             ELSE Append(listeners, minted + 1)
  /\ Own(f, [kind |-> "listener", reg |-> minted + 1,
             at |-> IF prepend THEN 1 ELSE Len(listeners) + 1])
  /\ UNCHANGED <<services, phase, plugins>>

(* Disposer::dispose on one registration of a live fiber. *)
DisposeOne(f, i) ==
  /\ MayUnwind(f) /\ i \in DOMAIN effects[f]
  /\ StackOnly => i = Len(effects[f])
  /\ UndoEffect(effects[f][i])
  /\ effects' = [effects EXCEPT ![f] = RemoveAt(@, i)]
  /\ UNCHANGED <<phase, plugins, minted>>

----------------------------------------------------------------------------

Register(f) ==
  \/ \E k \in Keys : ProvideFor(f, k) \/ ProvideShared(f, k) \/ RemoveNow(f, k)
  \/ \E prepend \in BOOLEAN : On(f, prepend)

HostNext ==
  \E f \in Fibers :
    \/ Mount(f) \/ ApplyOk(f) \/ ApplyErr(f)
    \/ Unmount(f) \/ DisposeFiber(f)
    \/ RunCleanup(f) \/ EndTearDown(f)
    \/ Register(f)
    \/ \E i \in 1..MaxRegs : DisposeOne(f, i)

HostSpec == HostInit /\ [][HostNext]_hostVars

----------------------------------------------------------------------------
(* Properties                                                              *)

(* The registrations some fiber still holds the undo of. *)
Owned(kind) ==
  {r \in Regs : \E f \in Fibers : \E i \in DOMAIN effects[f] :
                  effects[f][i].kind = kind /\ effects[f][i].reg = r}

(* The listener list holds exactly the listeners whose undo some fiber     *)
(* still holds: a disposer removes exactly its own (events.rs:190-193).    *)
ListenersAreOwned == ToSet(listeners) = Owned("listener")

(* No service is installed without an undo somewhere: every registration   *)
(* carries its own undo (context.rs:70-74).                                *)
ServicesAreOwned ==
  \A k \in Keys : services[k] # None => services[k] \in Owned("service")

(* A step that unwinds a fiber takes away only that fiber's services: the  *)
(* stale disposer of a replaced service does not revoke the live           *)
(* replacement (context.rs:73-75).                                         *)
UnwindSparesOthers ==
  [][\A f \in Fibers, k \in Keys :
       /\ Len(effects'[f]) < Len(effects[f])
       /\ services[k] # None
       /\ services'[k] = None
       => \E i \in DOMAIN effects[f] : effects[f][i].reg = services[k]]_hostVars

(* What is installed and what the fibers hold the undo of are the same,    *)
(* whatever was mounted, and between any two cleanups of a teardown.       *)
RegistrationsAreOwned == HostTypeOK /\ ListenersAreOwned /\ ServicesAreOwned
=============================================================================
