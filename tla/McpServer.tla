------------------------------ MODULE McpServer ------------------------------
(***************************************************************************)
(* The life of MCP server plugins over one bridge: claim, probe, decision, *)
(* supervisor with its reconnect budget, connection, notifications and     *)
(* unload (bridge.rs, supervisor.rs).  A mount runs three threads, the one *)
(* that activates it, its connection (run by the probe, then by the        *)
(* supervisor) and a notification handler; each lock section or blocking   *)
(* point is one action.                                                    *)
(*                                                                         *)
(* The environment names what may happen in a run: another server is       *)
(* mounted ("peer"), a server is mounted again ("again"), "foreign" tools  *)
(* take names, the registry refuses ("refuse"), a tool comes back changed       *)
(* ("revive"), servers want the same names ("clash"), publications of      *)
(* different servers interleave ("overlap") or those of one server, its    *)
(* unload and foreign tools do ("race"), a probe is still publishing at    *)
(* its deadline ("slow").                                                  *)
(***************************************************************************)
EXTENDS McpBridge, Naturals

CONSTANTS
  Offers,        \* the tools a round of tools/list may find, per mount
  Clashing,      \* those it may find besides when servers clash
  Keepalive,     \* mounts with the probe's own stop token (with_keepalive_probe)
  Strict,        \* mounts configured strict
  Enabled,       \* ReconnectConfig.enabled
  MaxAttempts,   \* ReconnectConfig.max_attempts
  MaxNotes,      \* bound on the notifications each mount's server sends
  Environments

ASSUME McpServerAssumption ==
  /\ \A m \in Mounts : \A t \in Offers[m] \cup Clashing[m] : IsPartial(t, Names, Defs)
  /\ \A m, o \in Mounts : ServerOf[m] # ServerOf[o] =>
       \A t \in Offers[m], u \in Offers[o] : DOMAIN t \cap DOMAIN u = {}
  /\ Keepalive \subseteq Mounts /\ Strict \subseteq Mounts
  /\ Enabled \in BOOLEAN
  /\ MaxAttempts \in Nat /\ MaxNotes \in [Mounts -> Nat]
  /\ \A e \in Environments :
       e \subseteq {"peer", "again", "foreign", "refuse", "revive", "clash",
                    "overlap", "race", "slow"}

VARIABLES
  env,
  claims,       \* ServerClaims.claimed
  phase,        \* where the activation or the unload of a mount is
  stop,         \* McpMount.stop is cancelled; also RegistryHandle.disposed
  first,        \* FirstGeneration.status
  conn,         \* the connection of a mount
  established,  \* RmcpFactory.established is set
  sup,          \* where the supervisor of a mount is
  failures,     \* supervise: consecutive failures
  notes         \* notifications handled so far

mountVars == <<claims, phase, stop, first>>
connVars  == <<conn, established>>
supVars   == <<sup, failures>>
vars == <<env, bridgeVars, mountVars, connVars, supVars, notes>>

Phases == {"idle", "probing", "joining", "decide", "failing", "active",
           "unloading", "releasing", "gone"}

TypeOK ==
  /\ BridgeTypeOK
  /\ env \in Environments
  /\ claims \subseteq Servers
  /\ phase \in [Mounts -> Phases]
  /\ stop \in [Mounts -> BOOLEAN]
  /\ first \in [Mounts -> {"none", "ok", "err"}]
  /\ conn \in [Mounts -> {"none", "dialing", "listing", "publishing", "up", "failed", "ended"}]
  /\ established \in [Mounts -> BOOLEAN]
  /\ sup \in [Mounts -> {"none", "top", "running", "sleeping", "giveup", "stopped", "ended"}]
  /\ failures \in [Mounts -> 0..MaxAttempts + 1]
  /\ \A m \in Mounts : notes[m] \in 0..MaxNotes[m]

Init ==
  /\ BridgeInit
  /\ env \in Environments
  /\ claims = {}
  /\ phase = [m \in Mounts |-> "idle"]
  /\ stop = [m \in Mounts |-> FALSE]
  /\ first = [m \in Mounts |-> "none"]
  /\ conn = [m \in Mounts |-> "none"]
  /\ established = [m \in Mounts |-> FALSE]
  /\ sup = [m \in Mounts |-> "none"]
  /\ failures = [m \in Mounts |-> 0]
  /\ notes = [m \in Mounts |-> 0]

Move(f, m, v) == f' = [f EXCEPT ![m] = v]

(* What a tools/list round of the mount's server can find. *)
Discovered(m) ==
  {t \in Offers[m] \cup IF "clash" \in env THEN Clashing[m] ELSE {} :
     "revive" \in env \/ \A n \in DOMAIN t \cap DOMAIN orphans :
       n \in DOMAIN registered => t[n] = registered[n].def}

(* No publication of the server is under way that a race could meet. *)
Settled(s) == "race" \in env \/ ~Publishing(s)

----------------------------------------------------------------------------
(* Publications of a mount.                                                *)

(* A plausible slip: the publication does not look at the dispose token.   *)
PublishUndisposed(p) ==
  /\ pub[p].at = "start"
  /\ \A q \in Publishers \ {p} : InProgress(q) =>
       "race" \in env \/ ("overlap" \in env /\ For(q) # For(p))
  /\ PublishRead(p)
  /\ UNCHANGED <<env, mountVars, connVars, supVars, notes>>

(* The dispose token is looked at once, before anything is read. *)
PublishStart(p) ==
  /\ pub[p].at = "start"
  /\ \A q \in Publishers \ {p} : InProgress(q) =>
       "race" \in env \/ ("overlap" \in env /\ For(q) # For(p))
  /\ IF stop[p[1]] THEN End(p, "err") /\ UNCHANGED <<registry, tables>>
                   ELSE PublishRead(p)
  /\ UNCHANGED <<env, mountVars, connVars, supVars, notes>>

PublishOn(p) ==
  /\ PublishStep(p) \/ ("refuse" \in env /\ RegisterRefused(p))
  /\ UNCHANGED <<env, mountVars, connVars, supVars, notes>>

(* BridgeHandler::on_tool_list_changed, past its debounce and discovery. *)
NoteArrives(m) ==
  /\ conn[m] = "up" /\ pub[<<m, "note">>].at = "idle" /\ notes[m] < MaxNotes[m]
  /\ Settled(ServerOf[m])
  /\ notes' = [notes EXCEPT ![m] = @ + 1]
  /\ \E t \in Discovered(m) : Begin(<<m, "note">>, t)
  /\ UNCHANGED <<env, registry, tables, mountVars, connVars, supVars>>

(* Its sink only logs a refusal. *)
NoteDone(m) ==
  /\ pub[<<m, "note">>].at \in {"ok", "err"}
  /\ End(<<m, "note">>, "idle")
  /\ UNCHANGED <<env, registry, tables, mountVars, connVars, supVars, notes>>

----------------------------------------------------------------------------
(* run_connection                                                          *)

(* The token the connection was given: the probe's, then the supervisor's. *)
Cancelled(m) == stop[m] \/ (sup[m] = "none" /\ phase[m] = "joining")

Dialed(m) ==
  /\ conn[m] = "dialing" /\ ~Cancelled(m)
  /\ Move(conn, m, "listing")
  /\ Move(established, m, TRUE)
  /\ UNCHANGED <<env, bridgeVars, mountVars, supVars, notes>>

(* open_transport or the handshake fails; a cancelled one always does. *)
DialFails(m) ==
  /\ conn[m] = "dialing"
  /\ Move(conn, m, "failed")
  /\ UNCHANGED <<env, bridgeVars, mountVars, established, supVars, notes>>

Listed(m) ==
  /\ conn[m] = "listing" /\ ~Cancelled(m) /\ Settled(ServerOf[m])
  /\ Move(conn, m, "publishing")
  /\ \E t \in Discovered(m) : Begin(<<m, "conn">>, t)
  /\ UNCHANGED <<env, registry, tables, mountVars, established, supVars, notes>>

(* The error leaves the instant of establishment set. *)
ListFails(m) ==
  /\ conn[m] = "listing"
  /\ Move(conn, m, "failed")
  /\ UNCHANGED <<env, bridgeVars, mountVars, established, supVars, notes>>

(* FirstSink::publish keeps the first outcome; SupervisorSink only logs. *)
ConnPublished(m) ==
  /\ conn[m] = "publishing" /\ pub[<<m, "conn">>].at \in {"ok", "err"}
  /\ Move(conn, m, "up")
  /\ Move(first, m, IF sup[m] = "none" /\ first[m] = "none"
                    THEN pub[<<m, "conn">>].at ELSE first[m])
  /\ End(<<m, "conn">>, "idle")
  /\ UNCHANGED <<env, registry, tables, claims, phase, stop, established, supVars, notes>>

(* The transport is lost. *)
ConnLost(m) ==
  /\ conn[m] = "up"
  /\ Move(conn, m, "failed")
  /\ Move(established, m, FALSE)
  /\ UNCHANGED <<env, bridgeVars, mountVars, supVars, notes>>

ConnStopped(m) ==
  /\ conn[m] = "up" /\ Cancelled(m)
  /\ Move(conn, m, "ended")
  /\ Move(established, m, FALSE)
  /\ UNCHANGED <<env, bridgeVars, mountVars, supVars, notes>>

----------------------------------------------------------------------------
(* McpServerPlugin::activate and the cleanup of apply                      *)

(* Which plugins the host may load. *)
Loads(m) ==
  /\ phase[m] = "idle"
  /\ \A o \in Mounts \ {m} : phase[o] # "idle" =>
       IF ServerOf[o] = ServerOf[m] THEN "again" \in env ELSE "peer" \in env

(* A claimed name refuses the later plugin; otherwise the probe starts. *)
Claim(m) ==
  /\ Loads(m)
  /\ ServerOf[m] \notin claims
  /\ claims' = claims \cup {ServerOf[m]}
  /\ Move(phase, m, "probing")
  /\ Move(conn, m, "dialing")
  /\ UNCHANGED <<env, bridgeVars, stop, first, established, supVars, notes>>

(* wait_for_first answers (a publication, an exit, the deadline) and the   *)
(* probe's token is cancelled.  Without keep-alive it is the mount's own.  *)
ProbeAnswered(m) ==
  /\ phase[m] = "probing"
  /\ "slow" \in env \/ conn[m] # "publishing"
  /\ Move(phase, m, "joining")
  /\ Move(first, m, IF first[m] = "none" THEN "err" ELSE first[m])
  /\ Move(stop, m, m \notin Keepalive)
  /\ UNCHANGED <<env, bridgeVars, claims, connVars, supVars, notes>>

ProbeJoined(m) ==
  /\ phase[m] = "joining" /\ conn[m] \in {"failed", "ended"}
  /\ Move(phase, m, "decide")
  /\ Move(conn, m, "none")
  /\ UNCHANGED <<env, bridgeVars, claims, stop, first, established, supVars, notes>>

(* A strict mount whose probe failed gives the claim back, then stops: a   *)
(* notification of its dead connection still publishes only in a race.     *)
StrictFails(m) ==
  /\ phase[m] = "decide" /\ first[m] = "err" /\ m \in Strict
  /\ Settled(ServerOf[m])
  /\ claims' = claims \ {ServerOf[m]}
  /\ Move(phase, m, "failing")
  /\ UNCHANGED <<env, bridgeVars, stop, first, connVars, supVars, notes>>

StopFailed(m) ==
  /\ phase[m] = "failing"
  /\ Move(stop, m, TRUE)
  /\ Move(phase, m, "gone")
  /\ UNCHANGED <<env, bridgeVars, claims, first, connVars, supVars, notes>>

(* Otherwise, tool-less or not, the supervisor takes over. *)
Activated(m) ==
  /\ phase[m] = "decide" /\ ~(first[m] = "err" /\ m \in Strict)
  /\ Move(phase, m, "active")
  /\ Move(sup, m, "top")
  /\ UNCHANGED <<env, bridgeVars, claims, stop, first, connVars, failures, notes>>

(* The fiber's cleanup: cancel, unregister, release. *)
Unload(m) ==
  /\ phase[m] = "active"
  /\ "race" \in env \/ sup[m] # "giveup"
  /\ Move(stop, m, TRUE)
  /\ Move(phase, m, "unloading")
  /\ UNCHANGED <<env, bridgeVars, claims, first, connVars, supVars, notes>>

UnloadTools(m) ==
  /\ phase[m] = "unloading" /\ Settled(ServerOf[m])
  /\ UnregisterServer(ServerOf[m])
  /\ Move(phase, m, "releasing")
  /\ UNCHANGED <<env, claims, stop, first, connVars, supVars, notes>>

UnloadClaim(m) ==
  /\ phase[m] = "releasing"
  /\ claims' = claims \ {ServerOf[m]}
  /\ Move(phase, m, "gone")
  /\ UNCHANGED <<env, bridgeVars, stop, first, connVars, supVars, notes>>

----------------------------------------------------------------------------
(* supervise                                                               *)

SupTop(m) ==
  /\ sup[m] = "top"
  /\ IF stop[m] THEN Move(sup, m, "ended") /\ UNCHANGED conn
                ELSE Move(sup, m, "running") /\ Move(conn, m, "dialing")
  /\ UNCHANGED <<env, bridgeVars, mountVars, established, failures, notes>>

SupEnded(m) ==
  /\ sup[m] = "running" /\ conn[m] = "ended"
  /\ Move(sup, m, "ended")
  /\ Move(conn, m, "none")
  /\ UNCHANGED <<env, bridgeVars, mountVars, established, failures, notes>>

(* A run that outlived the ceiling forgives the failures before it; the    *)
(* loss counts, and past the budget, or without one, the supervisor gives  *)
(* up.                                                                     *)
SupFailed(m) ==
  /\ sup[m] = "running" /\ conn[m] = "failed"
  /\ Move(conn, m, "none")
  /\ IF stop[m] THEN Move(sup, m, "ended") /\ UNCHANGED failures
     ELSE \E survived \in IF established[m] THEN BOOLEAN ELSE {FALSE} :
            LET count == IF survived THEN 1 ELSE failures[m] + 1
            IN  /\ Move(failures, m, count)
                /\ Move(sup, m, IF ~Enabled \/ count > MaxAttempts
                                THEN "giveup" ELSE "sleeping")
  /\ UNCHANGED <<env, bridgeVars, mountVars, established, notes>>

SupWakes(m) ==
  /\ sup[m] = "sleeping"
  /\ Move(sup, m, "top")
  /\ UNCHANGED <<env, bridgeVars, mountVars, connVars, failures, notes>>

SupGivesUp(m) ==
  /\ sup[m] = "giveup" /\ Settled(ServerOf[m])
  /\ UnregisterServer(ServerOf[m])
  /\ Move(sup, m, "stopped")
  /\ UNCHANGED <<env, mountVars, connVars, failures, notes>>

----------------------------------------------------------------------------

Foreign(n) ==
  /\ "foreign" \in env
  /\ "race" \in env \/ \A p \in Publishers : ~InProgress(p)
  /\ TakeName(n) \/ VacateName(n)
  /\ UNCHANGED <<env, mountVars, connVars, supVars, notes>>

(* What a mount's threads go on doing by themselves. *)
Continue(m) ==
  \/ \E k \in {"conn", "note"} : PublishStart(<<m, k>>) \/ PublishOn(<<m, k>>)
  \/ NoteDone(m) \/ Dialed(m) \/ DialFails(m) \/ Listed(m) \/ ListFails(m)
  \/ ConnPublished(m) \/ ConnStopped(m)
  \/ ProbeAnswered(m) \/ ProbeJoined(m) \/ StrictFails(m) \/ StopFailed(m)
  \/ Activated(m) \/ UnloadTools(m) \/ UnloadClaim(m)
  \/ SupTop(m) \/ SupEnded(m) \/ SupFailed(m) \/ SupWakes(m) \/ SupGivesUp(m)

Next ==
  \/ \E m \in Mounts :
       Claim(m) \/ Unload(m) \/ NoteArrives(m) \/ ConnLost(m) \/ Continue(m)
  \/ \E n \in Names : Foreign(n)

Spec == Init /\ [][Next]_vars

----------------------------------------------------------------------------
(* Properties                                                              *)

Holding(m) == phase[m] \notin {"idle", "failing", "gone"}

(* A server name is claimed exactly while one mount holds it               *)
(* (bridge.rs:81-83).                                                      *)
ClaimsAreHeld ==
  /\ claims = {ServerOf[m] : m \in {x \in Mounts : Holding(x)}}
  /\ \A m, o \in Mounts : Holding(m) /\ Holding(o) /\ ServerOf[m] = ServerOf[o] => m = o

(* Publications of servers that want the same names may interleave.        *)
Crossing == "clash" \in env /\ env \cap {"overlap", "race"} # {}

(* Whatever of ours the registry holds under a served name carries the     *)
(* definition that is served: the text the model sees is current           *)
(* (bridge.rs:140-144, 411-416).                                           *)
DescriptionsFresh ==
  \A s \in Servers : ~Publishing(s) =>
    \A n \in DOMAIN gens[s] : registry[n] \in Defs => registry[n] = gens[s][n]

(* It holds as long as no publication is torn or crossed and no orphan     *)
(* comes back changed or was somebody else's meanwhile.                    *)
DescriptionsFreshUnlessRevived ==
  env \cap {"race", "refuse", "foreign", "revive"} = {} /\ ~ Crossing
    => DescriptionsFresh

(* No publication replaces a tool that is not the bridge's (bridge.rs:355- *)
(* 359, 369-373), unless it was registered after the look.                 *)
NeverShadows ==
  [][\A n \in Names : "race" \notin env /\ registry[n] = "foreign"
       => registry'[n] \in {"foreign", "free"}]_vars

(* A public name is served by one server (bridge.rs:355-368), publications *)
(* of clashing servers apart.                                              *)
OneServerPerName ==
  Crossing \/
  \A s, o \in Servers : s # o => DOMAIN gens[s] \cap DOMAIN gens[o] = {}

(* What an active mount serves changes only by its own publications, and   *)
(* by its own supervisor giving up (supervisor.rs:76-80): neither an       *)
(* outage nor the unload of an earlier mount of the server takes it away.  *)
ServiceIsOwn ==
  [][\A m \in Mounts :
       "race" \notin env /\ phase[m] = "active" /\ gens[ServerOf[m]] # gens'[ServerOf[m]]
         => \/ sup[m] = "giveup"
            \/ \E k \in {"conn", "note"} : InProgress(<<m, k>>)]_vars

(* Once a mount is unloaded or its supervisor has stopped, and no other    *)
(* mount has touched the server since, its tools are not served any more,  *)
(* whatever its connection still had under way (bridge.rs:223-226,         *)
(* 273-277).                                                               *)
Over(m) == phase[m] = "idle" \/ sup[m] = "stopped"
             \/ (phase[m] \in {"releasing", "gone"} /\ sup[m] # "none")

GoneServesNothing ==
  "race" \notin env =>
    \A s \in Servers :
      ~Publishing(s) /\ (\A m \in Mounts : ServerOf[m] = s => Over(m)) => gens[s] = NoTable

(* The stop token of an active mount is not cancelled: its supervisor owns *)
(* outage and recovery (bridge.rs:261, 669-671, 718-720).                  *)
SupervisorOwnsRecovery ==
  \A m \in Mounts : phase[m] = "active" => ~stop[m]

(* The bridge's records agree with each other: claims with mounts, names   *)
(* with servers, descriptions with what is registered.                     *)
BridgeAgrees ==
  TypeOK /\ ClaimsAreHeld /\ OneServerPerName /\ DescriptionsFreshUnlessRevived

(* No step of a server touches what is another's: a third party's tool, or *)
(* what an active mount serves.                                            *)
TouchesOnlyItsOwn == NeverShadows /\ ServiceIsOwn
=============================================================================
