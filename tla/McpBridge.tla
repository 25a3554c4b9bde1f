------------------------------ MODULE McpBridge ------------------------------
(***************************************************************************)
(* The dispatch table of harnless-mcp (bridge.rs): generations of tools    *)
(* are published under public names, each with a forwarder in the tool     *)
(* registry.  The seam cannot unregister, so the table remembers what it   *)
(* put there, what has outlived its generation and what was taken from it. *)
(*                                                                         *)
(* A tool is its public name and its definition (the description and the   *)
(* schema that same_definition compares).  A publication holds the lock of *)
(* the table for one step at a time, as the code does, and never across a  *)
(* call into the registry.                                                 *)
(***************************************************************************)
EXTENDS Functions, FiniteSets

CONSTANTS
  Servers, Names, Defs,
  Mounts,    \* activations of an MCP plugin, each used once
  ServerOf   \* the server a mount is configured for

ASSUME McpBridgeAssumption ==
  /\ ServerOf \in [Mounts -> Servers]
  /\ Defs \cap {"free", "foreign"} = {}

(* What publishes on behalf of a mount: its connection, once it has        *)
(* discovered the tools, and the handler of a list_changed notification.   *)
Publishers == Mounts \X {"conn", "note"}

VARIABLES
  registry,    \* the tool registry: a definition of ours, "foreign" or "free"
  gens,        \* BridgeState.generations, a table of definitions per server
  live,        \* BridgeState.live
  registered,  \* BridgeState.registered: owner and definition
  orphans,     \* BridgeState.orphans: owner
  stolen,      \* BridgeState.stolen
  pub          \* where each publication is, and its local variables

tables == <<gens, live, registered, orphans, stolen>>
bridgeVars == <<registry, gens, live, registered, orphans, stolen, pub>>

NoTable == [n \in {} |-> "free"]
IsPartial(f, S, T) == f \in [DOMAIN f -> T] /\ DOMAIN f \subseteq S
Without(f, D) == Restrict(f, DOMAIN f \ D)
With(f, n, v) == [x \in DOMAIN f \cup {n} |-> IF x = n THEN v ELSE f[x]]

Owned == [owner : Servers, def : Defs]
Places == {"idle", "start", "check", "theft", "decide", "skip", "adopt",
           "register", "book", "undo", "ok", "err"}

At(place) == [at |-> place, table |-> NoTable, prev |-> NoTable,
              todo |-> {}, added |-> {}, name |-> "none"]

BridgeTypeOK ==
  /\ registry \in [Names -> Defs \cup {"free", "foreign"}]
  /\ DOMAIN gens = Servers /\ \A s \in Servers : IsPartial(gens[s], Names, Defs)
  /\ live \subseteq Names
  /\ IsPartial(registered, Names, Owned)
  /\ IsPartial(orphans, Names, Servers)
  /\ stolen \subseteq Names
  /\ DOMAIN pub = Publishers
  /\ \A p \in Publishers :
       /\ pub[p].at \in Places /\ pub[p].name \in Names \cup {"none"}
       /\ IsPartial(pub[p].table, Names, Defs) /\ IsPartial(pub[p].prev, Names, Defs)
       /\ pub[p].todo \subseteq DOMAIN pub[p].table
       /\ pub[p].added \subseteq DOMAIN pub[p].table

BridgeInit ==
  /\ registry = [n \in Names |-> "free"]
  /\ gens = [s \in Servers |-> NoTable]
  /\ live = {}
  /\ registered = NoTable
  /\ orphans = NoTable
  /\ stolen = {}
  /\ pub = [p \in Publishers |-> At("idle")]

For(p) == ServerOf[p[1]]
InProgress(p) == pub[p].at \notin {"idle", "start", "ok", "err"}
Publishing(s) == \E p \in Publishers : For(p) = s /\ pub[p].at # "idle"

(* Our bookkeeping says that s put what the registry holds under n there.  *)
OursIntact(s, n) ==
  n \in DOMAIN registered /\ registered[n] = [owner |-> s, def |-> registry[n]]

----------------------------------------------------------------------------
(* RegistryHandle::publish_inner                                           *)

Begin(p, table) == pub' = [pub EXCEPT ![p] = [At("start") EXCEPT !.table = table]]
End(p, place)   == pub' = [pub EXCEPT ![p] = At(place)]

(* The previous generation is read; the new table is known. *)
PublishRead(p) ==
  /\ pub' = [pub EXCEPT ![p].at = "check", ![p].prev = gens[For(p)],
                        ![p].todo = DOMAIN pub[p].table]
  /\ UNCHANGED <<registry, tables>>

TakenByServer(p, n) == \E s \in Servers \ {For(p)} : n \in DOMAIN gens[s]

(* A plausible slip: a name the bridge believes its own is not looked up.  *)
CheckBelieving(p) ==
  /\ pub[p].at = "check"
  /\ \E n \in pub[p].todo :
       LET theirs == TakenByServer(p, n)
           ours == ~ theirs /\ (registry[n] = "free" \/ n \in live)
       IN  pub' = CASE theirs -> [pub EXCEPT ![p] = At("err")]
                    [] ours  -> [pub EXCEPT ![p].todo = @ \ {n}]
                    [] OTHER -> [pub EXCEPT ![p].at = "theft", ![p].name = n]
  /\ UNCHANGED <<registry, tables>>

(* One name: another server's, free, still ours, or taken. *)
CheckName(p) ==
  /\ pub[p].at = "check"
  /\ \E n \in pub[p].todo :
       LET theirs == TakenByServer(p, n)
           ours == ~ theirs /\ (registry[n] = "free" \/ OursIntact(For(p), n))
       IN  pub' = CASE theirs -> [pub EXCEPT ![p] = At("err")]
                    [] ours  -> [pub EXCEPT ![p].todo = @ \ {n}]
                    [] OTHER -> [pub EXCEPT ![p].at = "theft", ![p].name = n]
  /\ UNCHANGED <<registry, tables>>

(* A name of ours that somebody else has is marked; the attempt is over. *)
MarkTheft(p) ==
  /\ pub[p].at = "theft"
  /\ LET n == pub[p].name
         known == n \in live \/ n \in DOMAIN orphans
     IN  /\ stolen' = IF known THEN stolen \cup {n} ELSE stolen
         /\ live' = live \ {n}
         /\ orphans' = IF known THEN Without(orphans, {n}) ELSE orphans
  /\ End(p, "err")
  /\ UNCHANGED <<registry, gens, registered>>

(* Every name passed: go over the table again to register. *)
Checked(p) ==
  /\ pub[p].at = "check" /\ pub[p].todo = {}
  /\ pub' = [pub EXCEPT ![p].at = "decide", ![p].todo = DOMAIN pub[p].table]
  /\ UNCHANGED <<registry, tables>>

(* The definition the bridge last placed under n for the server. *)
Placed(p, n) ==
  IF n \in DOMAIN pub[p].prev THEN {pub[p].prev[n]}
  ELSE {registered[x].def : x \in {y \in DOMAIN registered \cap {n} :
                                     registered[y].owner = For(p)}}

Skips(p, n) ==
  /\ Placed(p, n) = {pub[p].table[n]}
  /\ n \in DOMAIN pub[p].prev \/ n \in live
  /\ n \notin stolen

(* A plausible slip: a known name is skipped, whatever its definition.     *)
SkipsByName(p, n) == n \in DOMAIN pub[p].prev /\ n \notin stolen

(* An orphan of ours is still in the registry. *)
Adopts(p, n) ==
  /\ n \in DOMAIN orphans /\ orphans[n] = For(p)
  /\ OursIntact(For(p), n)

(* A plausible slip: Skips decides by name. *)
DecideByName(p) ==
  /\ pub[p].at = "decide"
  /\ \E n \in pub[p].todo :
       LET how == CASE SkipsByName(p, n) -> "skip"
                    [] Adopts(p, n) /\ ~SkipsByName(p, n) -> "adopt"
                    [] OTHER        -> "register"
       IN  pub' = [pub EXCEPT ![p].at = how, ![p].name = n]
  /\ UNCHANGED <<registry, tables>>

(* Under the read lock: leave the name as it is, take an orphan back, or   *)
(* register a forwarder.                                                   *)
Decide(p) ==
  /\ pub[p].at = "decide"
  /\ \E n \in pub[p].todo :
       LET how == CASE Skips(p, n)  -> "skip"
                    [] Adopts(p, n) /\ ~Skips(p, n) -> "adopt"
                    [] OTHER        -> "register"
       IN  pub' = [pub EXCEPT ![p].at = how, ![p].name = n]
  /\ UNCHANGED <<registry, tables>>

NextName(p) ==
  pub' = [pub EXCEPT ![p].at = "decide", ![p].name = "none",
                     ![p].todo = @ \ {pub[p].name}]

(* The name stays ours: a mark it carried is stale. *)
Skip(p) ==
  /\ pub[p].at = "skip"
  /\ stolen' = stolen \ {pub[p].name}
  /\ NextName(p)
  /\ UNCHANGED <<registry, gens, live, registered, orphans>>

Adopt(p) ==
  /\ pub[p].at = "adopt"
  /\ orphans' = Without(orphans, {pub[p].name})
  /\ live' = live \cup {pub[p].name}
  /\ stolen' = stolen \ {pub[p].name}
  /\ NextName(p)
  /\ UNCHANGED <<registry, gens, registered>>

(* Tools::register replaces what is there; the table lock is not held. *)
RegisterForwarder(p) ==
  /\ pub[p].at = "register"
  /\ registry' = [registry EXCEPT ![pub[p].name] = pub[p].table[pub[p].name]]
  /\ pub' = [pub EXCEPT ![p].at = "book"]
  /\ UNCHANGED tables

Book(p) ==
  /\ pub[p].at = "book"
  /\ LET n == pub[p].name
     IN  /\ live' = live \cup {n}
         /\ registered' = With(registered, n, [owner |-> For(p), def |-> pub[p].table[n]])
         /\ stolen' = stolen \ {n}
         /\ pub' = [pub EXCEPT ![p].at = "decide", ![p].name = "none",
                               ![p].todo = @ \ {n}, ![p].added = @ \cup {n}]
  /\ UNCHANGED <<registry, gens, orphans>>

(* A registry behind the seam may refuse (the harness's own never does). *)
RegisterRefused(p) ==
  /\ pub[p].at = "register"
  /\ pub' = [pub EXCEPT ![p].at = "undo"]
  /\ UNCHANGED <<registry, tables>>

(* What this attempt booked is forgotten; its forwarders stay. *)
Undo(p) ==
  /\ pub[p].at = "undo"
  /\ live' = live \ pub[p].added
  /\ registered' = Without(registered, pub[p].added)
  /\ End(p, "err")
  /\ UNCHANGED <<registry, gens, orphans, stolen>>

(* The names that disappeared become orphans, the table is the new one. *)
Commit(p) ==
  /\ pub[p].at = "decide" /\ pub[p].todo = {}
  /\ LET gone == DOMAIN pub[p].prev \ DOMAIN pub[p].table
         left == gone \cap DOMAIN registered
     IN  /\ live' = live \ gone
         /\ orphans' = [n \in DOMAIN orphans \cup left |->
                          IF n \in left THEN For(p) ELSE orphans[n]]
  /\ gens' = [gens EXCEPT ![For(p)] = pub[p].table]
  /\ End(p, "ok")
  /\ UNCHANGED <<registry, registered, stolen>>

(* McpToolBridge::unregister_server: the registry keeps the forwarders. *)
UnregisterServer(s) ==
  /\ gens' = [gens EXCEPT ![s] = NoTable]
  /\ live' = live \ DOMAIN gens[s]
  /\ stolen' = stolen \ DOMAIN gens[s]
  /\ registered' = Restrict(registered, {n \in DOMAIN registered : registered[n].owner # s})
  /\ orphans' = Restrict(orphans, {n \in DOMAIN orphans : orphans[n] # s})
  /\ UNCHANGED <<registry, pub>>

----------------------------------------------------------------------------
(* Others who use the registry. *)

(* Somebody registers a tool of his own under the name, ours or not. *)
TakeName(n) ==
  /\ registry[n] # "foreign"
  /\ registry' = [registry EXCEPT ![n] = "foreign"]
  /\ UNCHANGED <<tables, pub>>

VacateName(n) ==
  /\ registry[n] = "foreign"
  /\ registry' = [registry EXCEPT ![n] = "free"]
  /\ UNCHANGED <<tables, pub>>

----------------------------------------------------------------------------

(* A publication that has begun proceeds. *)
PublishStep(p) ==
  \/ CheckName(p) \/ MarkTheft(p) \/ Checked(p) \/ Decide(p) \/ Skip(p)
  \/ Adopt(p) \/ RegisterForwarder(p) \/ Book(p) \/ Undo(p) \/ Commit(p)
=============================================================================
