-------------------------- MODULE McpServerProofs --------------------------
(***************************************************************************)
(* Proofs about McpServer, for every set of servers, mounts and names,     *)
(* every budget and every choice of environments.                          *)
(*                                                                         *)
(* Two arguments meet.  The life of a mount says who may publish for a     *)
(* server: a claim has one holder, and one that rests or is over publishes *)
(* nothing.  The steps of a publication say what it may do to the tables:  *)
(* it touches only names that passed its check, and those are free or its  *)
(* server's own until it ends.                                             *)
(***************************************************************************)
EXTENDS McpServer, TLAPS

(* Types, a table being a function from some of the names.                 *)
Tables == UNION {[D -> Defs] : D \in SUBSET Names}
Publication == [at : Places, table : Tables, prev : Tables, todo : SUBSET Names,
                added : SUBSET Names, name : Names \cup {"none"}]

(* The places with a name at hand, and those past the check.               *)
Naming == {"theft", "skip", "adopt", "register", "book"}
Placing == {"decide", "skip", "adopt", "register", "book", "undo"}

Partial(f, S, T) == \E D \in SUBSET S : f \in [D -> T]

(* What the bridge's variables are.                                        *)
TablesTyped ==
  /\ registry \in [Names -> Defs \cup {"free", "foreign"}]
  /\ gens \in [Servers -> Tables]
  /\ live \subseteq Names /\ stolen \subseteq Names
  /\ Partial(registered, Names, Owned)
  /\ Partial(orphans, Names, Servers)

BridgeTyped ==
  /\ TablesTyped
  /\ pub \in [Publishers -> Publication]
  /\ \A p \in Publishers :
       /\ pub[p].todo \subseteq DOMAIN pub[p].table /\ pub[p].added \subseteq DOMAIN pub[p].table
       /\ pub[p].at \in Naming => pub[p].name \in pub[p].todo
       /\ pub[p].at = "undo" => "refuse" \in env

LifeTyped ==
  /\ env \in Environments
  /\ claims \subseteq Servers
  /\ phase \in [Mounts -> Phases]
  /\ stop \in [Mounts -> BOOLEAN]
  /\ first \in [Mounts -> {"none", "ok", "err"}]
  /\ conn \in [Mounts -> {"none", "dialing", "listing", "publishing", "up", "failed", "ended"}]
  /\ established \in [Mounts -> BOOLEAN]
  /\ sup \in [Mounts -> {"none", "top", "running", "sleeping", "giveup", "stopped", "ended"}]
  /\ failures \in [Mounts -> 0..MaxAttempts + 1]
  /\ DOMAIN notes = Mounts /\ \A m \in Mounts : notes[m] \in 0..MaxNotes[m]

Idle(m) == \A k \in {"conn", "note"} : pub[<<m, k>>].at = "idle"

(* Where a mount is in its life.                                           *)
LifeOf(m) ==
  /\ phase[m] = "idle" => Idle(m)
  /\ phase[m] \in {"idle", "probing", "joining", "decide", "failing"} => sup[m] = "none"
  /\ phase[m] \in {"active", "unloading", "releasing"} => sup[m] # "none"
  /\ phase[m] \in {"idle", "decide", "failing"} => conn[m] = "none"
  /\ phase[m] = "gone" /\ sup[m] = "none" => conn[m] = "none"
  /\ sup[m] \in {"top", "sleeping", "giveup", "stopped", "ended"} => conn[m] = "none"
  /\ phase[m] \in {"unloading", "releasing", "gone"} => stop[m]
  /\ sup[m] \in {"none", "top", "running", "sleeping"} => failures[m] <= MaxAttempts
  /\ pub[<<m, "conn">>].at # "idle" => conn[m] = "publishing"
Life == \A m \in Mounts : LifeOf(m)

(* Without a race: the supervisor that gives up is an active mount's, what *)
(* rests publishes nothing, what publishes is not over, a server has one   *)
(* publication at a time and is served only by a mount that is not over.   *)
Quits == \A m \in Mounts : sup[m] = "giveup" => phase[m] = "active"
Resting(m) == sup[m] = "stopped" \/ (phase[m] \in {"failing", "gone"} /\ sup[m] = "none")
Rests == \A m \in Mounts : Resting(m) => Idle(m)
Works == \A p \in Publishers : InProgress(p) \/ pub[p].at = "ok" => ~ Over(p[1])
OnePublication ==
  \A p, q \in Publishers :
    For(p) = For(q) /\ pub[p].at # "idle" /\ pub[q].at # "idle" => p = q
OneInProgress ==
  "overlap" \notin env => \A p, q \in Publishers : InProgress(p) /\ InProgress(q) => p = q
Served == \A s \in Servers : gens[s] # NoTable => \E m \in Mounts : ServerOf[m] = s /\ ~ Over(m)

SettledLife ==
  "race" \notin env =>
    Quits /\ Rests /\ Works /\ OnePublication /\ OneInProgress /\ Served

(* The names that passed the check.                                        *)
Passed(p) ==
  IF pub[p].at = "check" THEN DOMAIN pub[p].table \ pub[p].todo
  ELSE IF pub[p].at \in Placing THEN DOMAIN pub[p].table ELSE {}

(* The names that are a server's own, when servers do not clash.           *)
NamesOf(s) == {n \in Names : \E m \in Mounts : ServerOf[m] = s /\ \E t \in Offers[m] : n \in DOMAIN t}

OwnNames ==
  "clash" \notin env =>
    /\ \A s \in Servers : DOMAIN gens[s] \subseteq NamesOf(s)
    /\ \A p \in Publishers : DOMAIN pub[p].table \subseteq NamesOf(For(p))

(* What one server serves neither another serves nor has passed for it.    *)
ServedOnce == \A s, o \in Servers : s # o => DOMAIN gens[s] \cap DOMAIN gens[o] = {}
PassedApart ==
  \A p \in Publishers : \A o \in Servers : o # For(p) => Passed(p) \cap DOMAIN gens[o] = {}
ServedApart == ~ Crossing => ServedOnce /\ PassedApart

(* What passed is nobody else's.                                           *)
ForeignApart ==
  "race" \notin env => \A p \in Publishers : \A n \in Passed(p) : registry[n] # "foreign"

(* Where no publication is torn or crossed and no orphan comes back        *)
(* changed: what is registered is in the registry unless it is about to be *)
(* booked; what is served is registered, as it is served unless its server *)
(* is about to serve it anew; and a publication's variables agree with the *)
(* tables.                                                                 *)
Plain == env \cap {"race", "refuse", "foreign", "revive"} = {} /\ ~ Crossing

Mine(p, n) ==
  n \in DOMAIN registered /\ registered[n] = [owner |-> For(p), def |-> pub[p].table[n]]
Handled(p) == IF pub[p].at \in Placing THEN DOMAIN pub[p].table \ pub[p].todo ELSE {}

RegisteredIsThere ==
  \A n \in DOMAIN registered :
    registry[n] = registered[n].def \/ \E p \in Publishers : pub[p].at = "book" /\ pub[p].name = n

ServedIsRegistered ==
  \A s \in Servers : \A n \in DOMAIN gens[s] :
    /\ n \in DOMAIN registered /\ registered[n].owner = s
    /\ registered[n].def = gens[s][n] \/ \E p \in Publishers : For(p) = s /\ n \in Handled(p)

OrphansAgree(p) ==
  \A n \in DOMAIN pub[p].table \cap DOMAIN orphans \cap DOMAIN registered :
    orphans[n] = For(p) /\ registered[n].owner = For(p) => pub[p].table[n] = registered[n].def

FreshAt(p) ==
  /\ InProgress(p) => pub[p].prev = gens[For(p)]
  /\ \A n \in Handled(p) : Mine(p, n)
  /\ \A n \in Passed(p) \cap DOMAIN registered : registered[n].owner = For(p)
  /\ pub[p].at \notin {"idle", "ok", "err"} => OrphansAgree(p)
  /\ pub[p].at \in {"skip", "adopt"} => Mine(p, pub[p].name)
  /\ pub[p].at = "book" => registry[pub[p].name] = pub[p].table[pub[p].name]

Fresh ==
  Plain => RegisteredIsThere /\ ServedIsRegistered /\ \A p \in Publishers : FreshAt(p)

----------------------------------------------------------------------------
(* Publishers, tables and what a publication's step does to its own record. *)

Kinds == {"conn", "note"}

LEMMA PublisherFacts ==
  /\ \A p \in Publishers : p[1] \in Mounts /\ p[2] \in Kinds /\ p = <<p[1], p[2]>>
                           /\ For(p) \in Servers
  /\ \A m \in Mounts, k \in Kinds :
       <<m, k>> \in Publishers /\ <<m, k>>[1] = m /\ For(<<m, k>>) = ServerOf[m]
BY McpBridgeAssumption DEF Publishers, For, Kinds

LEMMA NoTableFacts == DOMAIN NoTable = {} /\ NoTable \in Tables
<1>1. DOMAIN NoTable = {}
  BY DEF NoTable
<1>2. NoTable \in [{} -> Defs]
  BY DEF NoTable
<1> QED BY <1>1, <1>2 DEF Tables

LEMMA TableFacts ==
  ASSUME NEW t \in Tables
  PROVE  DOMAIN t \subseteq Names /\ t \in [DOMAIN t -> Defs]
<1>1. PICK D \in SUBSET Names : t \in [D -> Defs]
  BY DEF Tables
<1> QED BY <1>1

LEMMA AtFacts ==
  ASSUME NEW place \in Places
  PROVE  /\ At(place) \in Publication
         /\ At(place).at = place /\ At(place).todo = {} /\ At(place).added = {}
         /\ At(place).table = NoTable
BY NoTableFacts DEF At, Publication

(* Only the publication p has moved, to a place with these variables.      *)
Goes(p, place, table, prev, todo, added, name) ==
  /\ pub' \in [Publishers -> Publication]
  /\ \A q \in Publishers : q # p => pub'[q] = pub[q]
  /\ pub'[p].at = place /\ pub'[p].table = table /\ pub'[p].prev = prev
  /\ pub'[p].todo = todo /\ pub'[p].added = added /\ pub'[p].name = name

LEMMA GoesBy ==
  ASSUME NEW p \in Publishers, pub \in [Publishers -> Publication],
         NEW r \in Publication, pub' = [pub EXCEPT ![p] = r]
  PROVE  Goes(p, r.at, r.table, r.prev, r.todo, r.added, r.name)
BY DEF Goes

LEMMA EndGoes ==
  ASSUME NEW p \in Publishers, pub \in [Publishers -> Publication],
         NEW place \in Places, End(p, place)
  PROVE  Goes(p, place, NoTable, NoTable, {}, {}, "none")
<1>1. pub' = [pub EXCEPT ![p] = At(place)]
  BY DEF End
<1>2. At(place) \in Publication
  BY AtFacts
<1>3. Goes(p, At(place).at, At(place).table, At(place).prev, At(place).todo,
           At(place).added, At(place).name)
  BY <1>1, <1>2, GoesBy
<1> QED BY <1>3 DEF At

LEMMA BeginGoes ==
  ASSUME NEW p \in Publishers, pub \in [Publishers -> Publication],
         NEW t \in Tables, Begin(p, t)
  PROVE  Goes(p, "start", t, NoTable, {}, {}, "none")
<1> DEFINE r == [At("start") EXCEPT !.table = t]
<1>1. r \in Publication /\ r.at = "start" /\ r.table = t /\ r.prev = NoTable
      /\ r.todo = {} /\ r.added = {} /\ r.name = "none"
  BY NoTableFacts DEF At, Publication, Places
<1>2. pub' = [pub EXCEPT ![p] = r]
  BY DEF Begin
<1> HIDE DEF r
<1> QED BY <1>1, <1>2, GoesBy

LEMMA ReadGoes ==
  ASSUME NEW p \in Publishers, pub \in [Publishers -> Publication],
         gens \in [Servers -> Tables], PublishRead(p)
  PROVE  Goes(p, "check", pub[p].table, gens[For(p)], DOMAIN pub[p].table, pub[p].added, pub[p].name)
<1>1. pub[p] \in Publication /\ gens[For(p)] \in Tables /\ DOMAIN pub[p].table \subseteq Names
  BY PublisherFacts, TableFacts DEF Publication
<1> DEFINE r == [pub[p] EXCEPT !.at = "check", !.prev = gens[For(p)], !.todo = DOMAIN pub[p].table]
<1>2. r \in Publication /\ r.at = "check" /\ r.table = pub[p].table /\ r.prev = gens[For(p)]
      /\ r.todo = DOMAIN pub[p].table /\ r.added = pub[p].added /\ r.name = pub[p].name
  BY <1>1 DEF Publication, Places
<1>3. pub' = [pub EXCEPT ![p] = r]
  BY DEF PublishRead
<1> HIDE DEF r
<1> QED BY <1>2, <1>3, GoesBy

(* Two generic shapes: a new place and name, and a new place and remainder. *)
LEMMA MovesGoes ==
  ASSUME NEW p \in Publishers, pub \in [Publishers -> Publication],
         NEW place \in Places, NEW name \in Names \cup {"none"},
         NEW todo \in SUBSET Names, NEW added \in SUBSET Names,
         pub' = [pub EXCEPT ![p] = [pub[p] EXCEPT !.at = place, !.name = name,
                                                  !.todo = todo, !.added = added]]
  PROVE  Goes(p, place, pub[p].table, pub[p].prev, todo, added, name)
<1>1. pub[p] \in Publication
  OBVIOUS
<1> DEFINE r == [pub[p] EXCEPT !.at = place, !.name = name, !.todo = todo, !.added = added]
<1>2. r \in Publication /\ r.at = place /\ r.table = pub[p].table /\ r.prev = pub[p].prev
      /\ r.todo = todo /\ r.added = added /\ r.name = name
  BY <1>1 DEF Publication
<1>3. pub' = [pub EXCEPT ![p] = r]
  OBVIOUS
<1> HIDE DEF r
<1> QED BY <1>2, <1>3, GoesBy
----------------------------------------------------------------------------
(* The steps of a publication, each by where it leaves the publication.    *)

(* One name is looked at.                                                  *)
Looks(p, n) ==
  /\ pub[p].at = "check" /\ n \in pub[p].todo
  /\ \/ Goes(p, "err", NoTable, NoTable, {}, {}, "none")
     \/ /\ ~ TakenByServer(p, n) /\ (registry[n] = "free" \/ OursIntact(For(p), n))
        /\ Goes(p, "check", pub[p].table, pub[p].prev, pub[p].todo \ {n}, pub[p].added, pub[p].name)
     \/ Goes(p, "theft", pub[p].table, pub[p].prev, pub[p].todo, pub[p].added, n)

LEMMA CheckLooks ==
  ASSUME BridgeTyped, NEW p \in Publishers, CheckName(p)
  PROVE  \E n \in pub[p].todo : Looks(p, n)
<1>1. pub \in [Publishers -> Publication] /\ pub[p] \in Publication /\ pub[p].at = "check"
  BY DEF BridgeTyped, CheckName
<1>2. pub[p].table \in Tables /\ pub[p].prev \in Tables /\ pub[p].todo \subseteq Names
      /\ pub[p].added \subseteq Names /\ pub[p].name \in Names \cup {"none"}
  BY <1>1 DEF Publication
<1> DEFINE ours(n) == ~ TakenByServer(p, n) /\ (registry[n] = "free" \/ OursIntact(For(p), n))
           next(n) == CASE TakenByServer(p, n) -> [pub EXCEPT ![p] = At("err")]
                        [] ours(n) -> [pub EXCEPT ![p].todo = @ \ {n}]
                        [] OTHER -> [pub EXCEPT ![p].at = "theft", ![p].name = n]
<1>3. PICK n \in pub[p].todo : pub' = next(n)
  BY DEF CheckName
<1>4. CASE TakenByServer(p, n)
  <2>1. pub' = [pub EXCEPT ![p] = At("err")]
    BY <1>3, <1>4
  <2>2. Goes(p, "err", NoTable, NoTable, {}, {}, "none")
    BY <1>1, <2>1, EndGoes DEF End, Places
  <2> QED BY <1>1, <2>2 DEF Looks
<1>5. CASE ~ TakenByServer(p, n) /\ ours(n)
  <2>1. pub' = [pub EXCEPT ![p].todo = @ \ {n}]
    BY <1>3, <1>5
  <2>2. pub' = [pub EXCEPT ![p] = [pub[p] EXCEPT !.at = "check", !.name = pub[p].name,
                                     !.todo = pub[p].todo \ {n}, !.added = pub[p].added]]
    BY <1>1, <2>1 DEF Publication
  <2>3. Goes(p, "check", pub[p].table, pub[p].prev, pub[p].todo \ {n}, pub[p].added, pub[p].name)
    BY <1>1, <1>2, <2>2, MovesGoes DEF Places
  <2> QED BY <1>1, <1>5, <2>3 DEF Looks
<1>6. CASE ~ TakenByServer(p, n) /\ ~ ours(n)
  <2>1. pub' = [pub EXCEPT ![p].at = "theft", ![p].name = n]
    BY <1>3, <1>6
  <2>2. pub' = [pub EXCEPT ![p] = [pub[p] EXCEPT !.at = "theft", !.name = n,
                                     !.todo = pub[p].todo, !.added = pub[p].added]]
    BY <1>1, <2>1 DEF Publication
  <2>3. Goes(p, "theft", pub[p].table, pub[p].prev, pub[p].todo, pub[p].added, n)
    BY <1>1, <1>2, <2>2, MovesGoes DEF Places
  <2> QED BY <1>1, <2>3 DEF Looks
<1> QED BY <1>4, <1>5, <1>6
(* A name that passed is dealt with.                                       *)
Decides(p, n) ==
  /\ pub[p].at = "decide" /\ n \in pub[p].todo
  /\ \E how \in {"skip", "adopt", "register"} :
       /\ Goes(p, how, pub[p].table, pub[p].prev, pub[p].todo, pub[p].added, n)
       /\ how = "skip" => Skips(p, n)
       /\ how = "adopt" => Adopts(p, n)

LEMMA PublicationFacts ==
  ASSUME BridgeTyped, NEW p \in Publishers
  PROVE  /\ pub \in [Publishers -> Publication] /\ pub[p] \in Publication
         /\ pub[p].table \in Tables /\ DOMAIN pub[p].table \subseteq Names
         /\ pub[p].prev \in Tables /\ DOMAIN pub[p].prev \subseteq Names
         /\ pub[p].todo \subseteq Names /\ pub[p].added \subseteq Names
         /\ pub[p].name \in Names \cup {"none"}
         /\ pub[p].todo \subseteq DOMAIN pub[p].table
         /\ pub[p].added \subseteq DOMAIN pub[p].table
         /\ \A n \in DOMAIN pub[p].table : pub[p].table[n] \in Defs
<1>1. pub \in [Publishers -> Publication] /\ pub[p] \in Publication
      /\ pub[p].todo \subseteq DOMAIN pub[p].table /\ pub[p].added \subseteq DOMAIN pub[p].table
  BY DEF BridgeTyped
<1>2. pub[p].table \in Tables /\ pub[p].prev \in Tables /\ pub[p].todo \subseteq Names
      /\ pub[p].added \subseteq Names /\ pub[p].name \in Names \cup {"none"}
  BY <1>1 DEF Publication
<1>3. DOMAIN pub[p].table \subseteq Names /\ DOMAIN pub[p].prev \subseteq Names
      /\ \A n \in DOMAIN pub[p].table : pub[p].table[n] \in Defs
  BY <1>2, TableFacts
<1> QED BY <1>1, <1>2, <1>3

LEMMA DecideDecides ==
  ASSUME BridgeTyped, NEW p \in Publishers, Decide(p)
  PROVE  \E n \in pub[p].todo : Decides(p, n)
<1>1. pub[p].at = "decide"
  BY DEF Decide
<1> DEFINE how(n) == CASE Skips(p, n) -> "skip"
                       [] Adopts(p, n) /\ ~Skips(p, n) -> "adopt"
                       [] OTHER        -> "register"
<1>2. PICK n \in pub[p].todo : pub' = [pub EXCEPT ![p].at = how(n), ![p].name = n]
  BY DEF Decide
<1>3. /\ how(n) \in {"skip", "adopt", "register"}
      /\ how(n) = "skip" => Skips(p, n)
      /\ how(n) = "adopt" => Adopts(p, n)
  OBVIOUS
<1> HIDE DEF how
<1>4. pub' = [pub EXCEPT ![p] = [pub[p] EXCEPT !.at = how(n), !.name = n,
                                   !.todo = pub[p].todo, !.added = pub[p].added]]
  BY <1>2, PublicationFacts DEF Publication
<1>5. Goes(p, how(n), pub[p].table, pub[p].prev, pub[p].todo, pub[p].added, n)
  <2>1. how(n) \in Places /\ n \in Names \cup {"none"}
    BY <1>3, PublicationFacts DEF Places
  <2> QED BY <2>1, <1>4, PublicationFacts, MovesGoes
<1> QED BY <1>1, <1>3, <1>5 DEF Decides

LEMMA CheckedGoes ==
  ASSUME BridgeTyped, NEW p \in Publishers, Checked(p)
  PROVE  Goes(p, "decide", pub[p].table, pub[p].prev, DOMAIN pub[p].table, pub[p].added, pub[p].name)
<1>1. pub' = [pub EXCEPT ![p] = [pub[p] EXCEPT !.at = "decide", !.name = pub[p].name,
                                   !.todo = DOMAIN pub[p].table, !.added = pub[p].added]]
  BY PublicationFacts DEF Publication, Checked
<1> QED BY <1>1, PublicationFacts, MovesGoes DEF Places

LEMMA NextGoes ==
  ASSUME BridgeTyped, NEW p \in Publishers, NextName(p)
  PROVE  Goes(p, "decide", pub[p].table, pub[p].prev, pub[p].todo \ {pub[p].name}, pub[p].added, "none")
<1>1. pub' = [pub EXCEPT ![p] = [pub[p] EXCEPT !.at = "decide", !.name = "none",
                                   !.todo = pub[p].todo \ {pub[p].name}, !.added = pub[p].added]]
  BY PublicationFacts DEF Publication, NextName
<1> QED BY <1>1, PublicationFacts, MovesGoes DEF Places

LEMMA RegisterGoes ==
  ASSUME BridgeTyped, NEW p \in Publishers,
         NEW place \in {"book", "undo"}, pub' = [pub EXCEPT ![p].at = place]
  PROVE  Goes(p, place, pub[p].table, pub[p].prev, pub[p].todo, pub[p].added, pub[p].name)
<1>1. pub' = [pub EXCEPT ![p] = [pub[p] EXCEPT !.at = place, !.name = pub[p].name,
                                   !.todo = pub[p].todo, !.added = pub[p].added]]
  BY PublicationFacts DEF Publication
<1>2. place \in Places
  BY DEF Places
<1> QED BY <1>1, <1>2, PublicationFacts, MovesGoes

LEMMA BookGoes ==
  ASSUME BridgeTyped, NEW p \in Publishers, Book(p)
  PROVE  /\ pub[p].name \in pub[p].todo
         /\ Goes(p, "decide", pub[p].table, pub[p].prev, pub[p].todo \ {pub[p].name},
                 pub[p].added \cup {pub[p].name}, "none")
<1>1. pub' = [pub EXCEPT ![p] = [pub[p] EXCEPT !.at = "decide", !.name = "none",
                                   !.todo = pub[p].todo \ {pub[p].name},
                                   !.added = pub[p].added \cup {pub[p].name}]]
  BY PublicationFacts DEF Publication, Book
<1>2. pub[p].name \in pub[p].todo
  BY DEF Book, BridgeTyped, Naming
<1> QED BY <1>1, <1>2, PublicationFacts, MovesGoes DEF Places
----------------------------------------------------------------------------
(* The tables of names: what With and Restrict do to them.                 *)

LEMMA WithFacts ==
  ASSUME NEW S, NEW T, NEW f, Partial(f, S, T), NEW n \in S, NEW v \in T
  PROVE  /\ Partial(With(f, n, v), S, T)
         /\ DOMAIN With(f, n, v) = DOMAIN f \cup {n} /\ With(f, n, v)[n] = v
         /\ \A x \in DOMAIN f : x # n => With(f, n, v)[x] = f[x]
<1>1. PICK D \in SUBSET S : f \in [D -> T]
  BY DEF Partial
<1>2. With(f, n, v) \in [D \cup {n} -> T]
  BY <1>1 DEF With
<1>3. D \cup {n} \in SUBSET S
  OBVIOUS
<1> QED BY <1>1, <1>2, <1>3 DEF With, Partial

LEMMA RestrictFacts ==
  ASSUME NEW S, NEW T, NEW f, Partial(f, S, T), NEW D \in SUBSET DOMAIN f
  PROVE  /\ Partial(Restrict(f, D), S, T) /\ DOMAIN Restrict(f, D) = D
         /\ \A x \in D : Restrict(f, D)[x] = f[x]
<1>1. PICK E \in SUBSET S : f \in [E -> T]
  BY DEF Partial
<1>2. Restrict(f, D) \in [D -> T]
  BY <1>1 DEF Restrict
<1>3. D \in SUBSET S
  BY <1>1
<1> QED BY <1>2, <1>3 DEF Restrict, Partial

LEMMA WithoutFacts ==
  ASSUME NEW S, NEW T, NEW f, Partial(f, S, T), NEW D
  PROVE  /\ Partial(Without(f, D), S, T) /\ DOMAIN Without(f, D) = DOMAIN f \ D
         /\ \A x \in DOMAIN f \ D : Without(f, D)[x] = f[x]
BY RestrictFacts DEF Without

LEMMA PartialFacts ==
  ASSUME NEW S, NEW T, NEW f, Partial(f, S, T)
  PROVE  DOMAIN f \subseteq S /\ \A x \in DOMAIN f : f[x] \in T
BY DEF Partial

(* A tables' worth of facts about the state.                               *)
LEMMA StateFacts ==
  ASSUME BridgeTyped
  PROVE  /\ Partial(registered, Names, Owned) /\ Partial(orphans, Names, Servers)
         /\ DOMAIN registered \subseteq Names /\ DOMAIN orphans \subseteq Names
         /\ \A n \in DOMAIN registered : registered[n] \in Owned
              /\ registered[n].owner \in Servers /\ registered[n].def \in Defs
         /\ \A n \in DOMAIN orphans : orphans[n] \in Servers
         /\ \A s \in Servers : gens[s] \in Tables /\ DOMAIN gens[s] \subseteq Names
              /\ \A n \in DOMAIN gens[s] : gens[s][n] \in Defs
<1>1. Partial(registered, Names, Owned) /\ Partial(orphans, Names, Servers)
  BY DEF TablesTyped, BridgeTyped
<1>2. DOMAIN registered \subseteq Names /\ \A n \in DOMAIN registered : registered[n] \in Owned
  BY <1>1, PartialFacts
<1>3. DOMAIN orphans \subseteq Names /\ \A n \in DOMAIN orphans : orphans[n] \in Servers
  BY <1>1, PartialFacts
<1>4. \A s \in Servers : gens[s] \in Tables
  BY DEF BridgeTyped, TablesTyped
<1>5. \A s \in Servers : DOMAIN gens[s] \subseteq Names /\ \A n \in DOMAIN gens[s] : gens[s][n] \in Defs
  BY <1>4, TableFacts
<1>6. \A o \in Owned : o.owner \in Servers /\ o.def \in Defs
  BY DEF Owned
<1> QED BY <1>1, <1>2, <1>3, <1>4, <1>5, <1>6
----------------------------------------------------------------------------
(* The steps of the bridge: what each does to the tables and to pub.       *)

Begun(p) ==
  /\ pub[p].at = "idle"
  /\ "race" \notin env => \A q \in Publishers : For(q) = For(p) => pub[q].at = "idle"
  /\ \E t \in Discovered(p[1]) : Goes(p, "start", t, NoTable, {}, {}, "none")
  /\ UNCHANGED <<registry, tables>>

Ended(p) ==
  /\ pub[p].at \in {"ok", "err"} /\ Goes(p, "idle", NoTable, NoTable, {}, {}, "none")
  /\ UNCHANGED <<registry, tables>>

Apart(p) ==
  \A q \in Publishers \ {p} : InProgress(q) =>
    "race" \in env \/ ("overlap" \in env /\ For(q) # For(p))

Started(p) ==
  /\ pub[p].at = "start" /\ Apart(p)
  /\ \/ stop[p[1]] /\ Goes(p, "err", NoTable, NoTable, {}, {}, "none")
     \/ /\ ~ stop[p[1]]
        /\ Goes(p, "check", pub[p].table, gens[For(p)], DOMAIN pub[p].table, pub[p].added, pub[p].name)
  /\ UNCHANGED <<registry, tables>>

Looked(p) == (\E n \in pub[p].todo : Looks(p, n)) /\ UNCHANGED <<registry, tables>>

Marked(p) ==
  /\ pub[p].at = "theft" /\ Goes(p, "err", NoTable, NoTable, {}, {}, "none")
  /\ DOMAIN orphans' \subseteq DOMAIN orphans /\ \A n \in DOMAIN orphans' : orphans'[n] = orphans[n]
  /\ UNCHANGED <<registry, gens, registered>>

Rounded(p) ==
  /\ pub[p].at = "check" /\ pub[p].todo = {}
  /\ Goes(p, "decide", pub[p].table, pub[p].prev, DOMAIN pub[p].table, pub[p].added, pub[p].name)
  /\ UNCHANGED <<registry, tables>>

Decided(p) == (\E n \in pub[p].todo : Decides(p, n)) /\ UNCHANGED <<registry, tables>>

(* A name that is skipped or adopted. *)
Retained(p) ==
  /\ pub[p].at \in {"skip", "adopt"}
  /\ Goes(p, "decide", pub[p].table, pub[p].prev, pub[p].todo \ {pub[p].name}, pub[p].added, "none")
  /\ DOMAIN orphans' \subseteq DOMAIN orphans /\ \A n \in DOMAIN orphans' : orphans'[n] = orphans[n]
  /\ UNCHANGED <<registry, gens, registered>>

Forwarded(p) ==
  /\ pub[p].at = "register"
  /\ Goes(p, "book", pub[p].table, pub[p].prev, pub[p].todo, pub[p].added, pub[p].name)
  /\ registry' = [registry EXCEPT ![pub[p].name] = pub[p].table[pub[p].name]]
  /\ UNCHANGED tables

Booked(p) ==
  /\ pub[p].at = "book"
  /\ Goes(p, "decide", pub[p].table, pub[p].prev, pub[p].todo \ {pub[p].name},
          pub[p].added \cup {pub[p].name}, "none")
  /\ DOMAIN registered' = DOMAIN registered \cup {pub[p].name}
  /\ registered'[pub[p].name] = [owner |-> For(p), def |-> pub[p].table[pub[p].name]]
  /\ \A n \in DOMAIN registered : n # pub[p].name => registered'[n] = registered[n]
  /\ UNCHANGED <<registry, gens, orphans>>

Refused(p) ==
  /\ pub[p].at = "register" /\ "refuse" \in env
  /\ Goes(p, "undo", pub[p].table, pub[p].prev, pub[p].todo, pub[p].added, pub[p].name)
  /\ UNCHANGED <<registry, tables>>

Undone(p) ==
  /\ pub[p].at = "undo" /\ Goes(p, "err", NoTable, NoTable, {}, {}, "none")
  /\ UNCHANGED <<registry, gens, orphans>>

Committed(p) ==
  /\ pub[p].at = "decide" /\ pub[p].todo = {}
  /\ Goes(p, "ok", NoTable, NoTable, {}, {}, "none")
  /\ gens' = [gens EXCEPT ![For(p)] = pub[p].table]
  /\ \A n \in DOMAIN orphans' : orphans'[n] = For(p) \/ (n \in DOMAIN orphans /\ orphans'[n] = orphans[n])
  /\ UNCHANGED <<registry, registered>>

PubStep(p) ==
  \/ Begun(p) \/ Ended(p) \/ Started(p) \/ Looked(p) \/ Marked(p) \/ Rounded(p)
  \/ Decided(p) \/ Retained(p) \/ Forwarded(p) \/ Booked(p) \/ Refused(p)
  \/ Undone(p) \/ Committed(p)

(* What a server had is forgotten: by its unload or its supervisor.        *)
Forgotten(s) ==
  /\ "race" \notin env => \A q \in Publishers : For(q) = s => pub[q].at = "idle"
  /\ gens' = [gens EXCEPT ![s] = NoTable]
  /\ DOMAIN registered' = {n \in DOMAIN registered : registered[n].owner # s}
  /\ \A n \in DOMAIN registered' : registered'[n] = registered[n]
  /\ DOMAIN orphans' \subseteq DOMAIN orphans /\ \A n \in DOMAIN orphans' : orphans'[n] = orphans[n]
  /\ UNCHANGED <<registry, pub>>

(* Somebody else's registration comes or goes. *)
Intruded(n) ==
  /\ "foreign" \in env /\ ("race" \in env \/ \A p \in Publishers : ~InProgress(p))
  /\ registry' = [registry EXCEPT ![n] = "foreign"] \/ registry' = [registry EXCEPT ![n] = "free"]
  /\ registry[n] = "foreign" => registry'[n] = "free"
  /\ UNCHANGED <<tables, pub>>

BridgeStep ==
  /\ env' = env
  /\ \/ UNCHANGED bridgeVars
     \/ \E p \in Publishers : PubStep(p)
     \/ \E s \in Servers : Forgotten(s)
     \/ \E n \in Names : Intruded(n)

LEMMA OwnedFacts ==
  \A s \in Servers, d \in Defs : [owner |-> s, def |-> d] \in Owned
BY DEF Owned

LEMMA MarkMarks ==
  ASSUME BridgeTyped, NEW p \in Publishers, MarkTheft(p)
  PROVE  Marked(p) /\ TablesTyped'
<1>1. pub[p].at = "theft" /\ Goes(p, "err", NoTable, NoTable, {}, {}, "none")
      /\ UNCHANGED <<registry, gens, registered>>
  BY PublicationFacts, EndGoes DEF MarkTheft, Places
<1>2. orphans' = orphans \/ orphans' = Without(orphans, {pub[p].name})
  BY DEF MarkTheft
<1>3. Partial(orphans', Names, Servers) /\ DOMAIN orphans' \subseteq DOMAIN orphans
      /\ \A n \in DOMAIN orphans' : orphans'[n] = orphans[n]
  <2> DEFINE D == {pub[p].name}
  <2>1. Partial(orphans, Names, Servers)
    BY StateFacts
  <2>2. orphans' = orphans \/ orphans' = Without(orphans, D)
    BY <1>2
  <2> HIDE DEF D
  <2>3. /\ Partial(Without(orphans, D), Names, Servers)
        /\ DOMAIN Without(orphans, D) = DOMAIN orphans \ D
        /\ \A x \in DOMAIN orphans \ D : Without(orphans, D)[x] = orphans[x]
    BY <2>1, WithoutFacts
  <2> QED BY <2>1, <2>2, <2>3
<1>4. live' \subseteq Names /\ stolen' \subseteq Names
  <2>1. live \subseteq Names /\ stolen \subseteq Names
    BY DEF BridgeTyped, TablesTyped
  <2>2. pub[p].name \in Names
    BY <1>1, PublicationFacts DEF BridgeTyped, Naming
  <2> QED BY <2>1, <2>2 DEF MarkTheft
<1> QED BY <1>1, <1>3, <1>4 DEF Marked, TablesTyped, BridgeTyped

LEMMA QuietTyped ==
  ASSUME BridgeTyped, UNCHANGED <<registry, tables>>
  PROVE  TablesTyped'
BY DEF TablesTyped, BridgeTyped, tables

LEMMA NamingFacts ==
  ASSUME BridgeTyped, NEW p \in Publishers, pub[p].at \in Naming
  PROVE  /\ pub[p].name \in Names /\ pub[p].name \in pub[p].todo
         /\ pub[p].name \in DOMAIN pub[p].table /\ pub[p].table[pub[p].name] \in Defs
BY PublicationFacts DEF BridgeTyped

LEMMA SkipRetains ==
  ASSUME BridgeTyped, NEW p \in Publishers, Skip(p)
  PROVE  Retained(p) /\ TablesTyped'
<1>1. NextName(p) /\ pub[p].at = "skip" /\ UNCHANGED <<registry, gens, live, registered, orphans>>
      /\ stolen' \subseteq stolen
  BY DEF Skip
<1>2. Goes(p, "decide", pub[p].table, pub[p].prev, pub[p].todo \ {pub[p].name}, pub[p].added, "none")
  BY <1>1, NextGoes
<1> QED BY <1>1, <1>2 DEF Retained, BridgeTyped, TablesTyped

LEMMA AdoptRetains ==
  ASSUME BridgeTyped, NEW p \in Publishers, Adopt(p)
  PROVE  Retained(p) /\ TablesTyped'
<1>1. NextName(p) /\ pub[p].at = "adopt" /\ UNCHANGED <<registry, gens, registered>>
      /\ stolen' \subseteq stolen /\ orphans' = Without(orphans, {pub[p].name})
      /\ live' = live \cup {pub[p].name}
  BY DEF Adopt
<1>2. Goes(p, "decide", pub[p].table, pub[p].prev, pub[p].todo \ {pub[p].name}, pub[p].added, "none")
  BY <1>1, NextGoes
<1>3. Partial(orphans', Names, Servers) /\ DOMAIN orphans' \subseteq DOMAIN orphans
      /\ \A n \in DOMAIN orphans' : orphans'[n] = orphans[n]
  <2> DEFINE D == {pub[p].name}
  <2>1. Partial(orphans, Names, Servers)
    BY StateFacts
  <2>2. orphans' = Without(orphans, D)
    BY <1>1
  <2> HIDE DEF D
  <2>3. /\ Partial(Without(orphans, D), Names, Servers)
        /\ DOMAIN Without(orphans, D) = DOMAIN orphans \ D
        /\ \A x \in DOMAIN orphans \ D : Without(orphans, D)[x] = orphans[x]
    BY <2>1, WithoutFacts
  <2> QED BY <2>2, <2>3
<1>4. pub[p].name \in Names
  BY <1>1, NamingFacts DEF Naming
<1> QED BY <1>1, <1>2, <1>3, <1>4 DEF Retained, BridgeTyped, TablesTyped

LEMMA RegisterForwards ==
  ASSUME BridgeTyped, NEW p \in Publishers, RegisterForwarder(p)
  PROVE  Forwarded(p) /\ TablesTyped'
<1>1. /\ pub[p].at = "register" /\ UNCHANGED tables
      /\ registry' = [registry EXCEPT ![pub[p].name] = pub[p].table[pub[p].name]]
  BY DEF RegisterForwarder
<1>2. Goes(p, "book", pub[p].table, pub[p].prev, pub[p].todo, pub[p].added, pub[p].name)
  BY RegisterGoes DEF RegisterForwarder
<1>3. registry' \in [Names -> Defs \cup {"free", "foreign"}]
  BY <1>1, NamingFacts DEF Naming, BridgeTyped, TablesTyped
<1> QED BY <1>1, <1>2, <1>3 DEF Forwarded, BridgeTyped, TablesTyped, tables

LEMMA BookBooks ==
  ASSUME BridgeTyped, NEW p \in Publishers, Book(p)
  PROVE  Booked(p) /\ TablesTyped'
<1> DEFINE n == pub[p].name
           o == [owner |-> For(p), def |-> pub[p].table[n]]
<1>1. /\ pub[p].at = "book" /\ UNCHANGED <<registry, gens, orphans>>
      /\ registered' = With(registered, n, o)
      /\ live' = live \cup {n} /\ stolen' = stolen \ {n}
  BY DEF Book
<1>2. n \in Names /\ o \in Owned
  BY <1>1, NamingFacts, PublisherFacts, OwnedFacts DEF Naming
<1>3. /\ Partial(registered', Names, Owned) /\ DOMAIN registered' = DOMAIN registered \cup {n}
      /\ registered'[n] = o /\ \A x \in DOMAIN registered : x # n => registered'[x] = registered[x]
  <2>1. Partial(registered, Names, Owned)
    BY StateFacts
  <2> HIDE DEF n, o
  <2>2. /\ Partial(With(registered, n, o), Names, Owned)
        /\ DOMAIN With(registered, n, o) = DOMAIN registered \cup {n}
        /\ With(registered, n, o)[n] = o
        /\ \A x \in DOMAIN registered : x # n => With(registered, n, o)[x] = registered[x]
    BY <1>2, <2>1, WithFacts
  <2> QED BY <1>1, <2>2
<1> QED BY <1>1, <1>2, <1>3, BookGoes DEF Booked, BridgeTyped, TablesTyped

LEMMA UndoUndoes ==
  ASSUME BridgeTyped, NEW p \in Publishers, Undo(p)
  PROVE  Undone(p) /\ TablesTyped'
<1>1. /\ pub[p].at = "undo" /\ UNCHANGED <<registry, gens, orphans, stolen>>
      /\ registered' = Without(registered, pub[p].added) /\ live' \subseteq live
      /\ Goes(p, "err", NoTable, NoTable, {}, {}, "none")
  BY PublicationFacts, EndGoes DEF Undo, Places
<1>2. Partial(registered', Names, Owned)
  BY <1>1, StateFacts, WithoutFacts
<1> QED BY <1>1, <1>2 DEF Undone, BridgeTyped, TablesTyped

LEMMA CommitCommits ==
  ASSUME BridgeTyped, NEW p \in Publishers, Commit(p)
  PROVE  Committed(p) /\ TablesTyped'
<1> DEFINE left == (DOMAIN pub[p].prev \ DOMAIN pub[p].table) \cap DOMAIN registered
<1>1. /\ pub[p].at = "decide" /\ pub[p].todo = {} /\ UNCHANGED <<registry, registered, stolen>>
      /\ gens' = [gens EXCEPT ![For(p)] = pub[p].table] /\ live' \subseteq live
      /\ orphans' = [n \in DOMAIN orphans \cup left |-> IF n \in left THEN For(p) ELSE orphans[n]]
      /\ Goes(p, "ok", NoTable, NoTable, {}, {}, "none")
  BY PublicationFacts, EndGoes DEF Commit, Places
<1>2. For(p) \in Servers /\ pub[p].table \in Tables /\ left \subseteq Names
  BY PublisherFacts, PublicationFacts, StateFacts
<1>3. Partial(orphans', Names, Servers)
      /\ \A n \in DOMAIN orphans' : orphans'[n] = For(p) \/ (n \in DOMAIN orphans /\ orphans'[n] = orphans[n])
  <2> HIDE DEF left
  <2>1. DOMAIN orphans \cup left \in SUBSET Names
    BY <1>2, StateFacts
  <2>2. orphans' \in [DOMAIN orphans \cup left -> Servers]
    BY <1>1, <1>2, StateFacts
  <2> QED BY <1>1, <2>1, <2>2 DEF Partial
<1>4. gens' \in [Servers -> Tables]
  BY <1>1, <1>2 DEF BridgeTyped, TablesTyped
<1> QED BY <1>1, <1>3, <1>4 DEF Committed, BridgeTyped, TablesTyped

LEMMA PublishIs ==
  ASSUME BridgeTyped, NEW p \in Publishers, PublishStep(p) \/ ("refuse" \in env /\ RegisterRefused(p))
  PROVE  PubStep(p) /\ TablesTyped'
<1>1. CASE CheckName(p)
  <2>1. Looked(p)
    BY <1>1, CheckLooks DEF CheckName, Looked
  <2> QED BY <2>1, QuietTyped DEF Looked, PubStep
<1>2. CASE Checked(p)
  <2>1. Rounded(p)
    BY <1>2, CheckedGoes DEF Checked, Rounded
  <2> QED BY <2>1, QuietTyped DEF Rounded, PubStep
<1>3. CASE Decide(p)
  <2>1. Decided(p)
    BY <1>3, DecideDecides DEF Decide, Decided
  <2> QED BY <2>1, QuietTyped DEF Decided, PubStep
<1>4. CASE "refuse" \in env /\ RegisterRefused(p)
  <2>1. Goes(p, "undo", pub[p].table, pub[p].prev, pub[p].todo, pub[p].added, pub[p].name)
    BY <1>4, RegisterGoes DEF RegisterRefused
  <2>2. Refused(p)
    BY <1>4, <2>1 DEF RegisterRefused, Refused
  <2> QED BY <2>2, QuietTyped DEF Refused, PubStep
<1>5. CASE MarkTheft(p) \/ Skip(p) \/ Adopt(p)
  BY <1>5, MarkMarks, SkipRetains, AdoptRetains DEF PubStep
<1>6. CASE RegisterForwarder(p) \/ Book(p) \/ Undo(p) \/ Commit(p)
  BY <1>6, RegisterForwards, BookBooks, UndoUndoes, CommitCommits DEF PubStep
<1> QED BY <1>1, <1>2, <1>3, <1>4, <1>5, <1>6 DEF PublishStep
----------------------------------------------------------------------------
(* Every step of the system, as a step of the bridge.                      *)

LEMMA DiscoveredFacts ==
  ASSUME NEW m \in Mounts, NEW t \in Discovered(m)
  PROVE  t \in Tables /\ t \in Offers[m] \cup Clashing[m]
         /\ ("clash" \notin env => t \in Offers[m])
         /\ ("revive" \notin env => \A n \in DOMAIN t \cap DOMAIN orphans :
               n \in DOMAIN registered => t[n] = registered[n].def)
<1>1. /\ t \in Offers[m] \cup Clashing[m]
      /\ "clash" \notin env => t \in Offers[m]
      /\ "revive" \notin env => \A n \in DOMAIN t \cap DOMAIN orphans :
               n \in DOMAIN registered => t[n] = registered[n].def
  BY DEF Discovered
<1>2. IsPartial(t, Names, Defs)
  BY <1>1, McpServerAssumption
<1>3. t \in Tables
  BY <1>2 DEF IsPartial, Tables
<1> QED BY <1>1, <1>3

LEMMA SettledFacts ==
  ASSUME NEW s \in Servers, Settled(s), "race" \notin env, NEW q \in Publishers, For(q) = s
  PROVE  pub[q].at = "idle"
BY DEF Settled, Publishing

LEMMA UnregisterForgets ==
  ASSUME BridgeTyped, NEW s \in Servers, Settled(s), UnregisterServer(s)
  PROVE  Forgotten(s) /\ TablesTyped'
<1> DEFINE R == {n \in DOMAIN registered : registered[n].owner # s}
           O == {n \in DOMAIN orphans : orphans[n] # s}
<1>1. /\ gens' = [gens EXCEPT ![s] = NoTable] /\ UNCHANGED <<registry, pub>>
      /\ registered' = Restrict(registered, R) /\ orphans' = Restrict(orphans, O)
      /\ live' \subseteq live /\ stolen' \subseteq stolen
  BY DEF UnregisterServer
<1>2. Partial(registered, Names, Owned) /\ Partial(orphans, Names, Servers)
  BY StateFacts
<1>3. R \in SUBSET DOMAIN registered /\ O \in SUBSET DOMAIN orphans
  OBVIOUS
<1>4. Partial(registered', Names, Owned) /\ DOMAIN registered' = R
      /\ \A n \in R : registered'[n] = registered[n]
  <2> HIDE DEF R, O
  <2>1. /\ Partial(Restrict(registered, R), Names, Owned) /\ DOMAIN Restrict(registered, R) = R
        /\ \A n \in R : Restrict(registered, R)[n] = registered[n]
    BY <1>2, <1>3, RestrictFacts
  <2> QED BY <1>1, <2>1
<1>5. Partial(orphans', Names, Servers) /\ DOMAIN orphans' = O
      /\ \A n \in O : orphans'[n] = orphans[n]
  <2> HIDE DEF R, O
  <2>1. /\ Partial(Restrict(orphans, O), Names, Servers) /\ DOMAIN Restrict(orphans, O) = O
        /\ \A n \in O : Restrict(orphans, O)[n] = orphans[n]
    BY <1>2, <1>3, RestrictFacts
  <2> QED BY <1>1, <2>1
<1>6. TablesTyped'
  <2>1. gens' \in [Servers -> Tables] /\ live' \subseteq Names /\ stolen' \subseteq Names
        /\ registry' \in [Names -> Defs \cup {"free", "foreign"}]
    BY <1>1, NoTableFacts DEF BridgeTyped, TablesTyped
  <2> HIDE DEF R, O
  <2> QED BY <1>4, <1>5, <2>1 DEF TablesTyped
<1>7. "race" \notin env => \A q \in Publishers : For(q) = s => pub[q].at = "idle"
  BY SettledFacts
<1> QED BY <1>1, <1>3, <1>4, <1>5, <1>6, <1>7 DEF Forgotten

(* What the step proves of itself. *)
Sound == BridgeStep /\ TablesTyped'

LEMMA QuietStep ==
  ASSUME BridgeTyped, UNCHANGED <<env, bridgeVars>>
  PROVE  Sound
BY QuietTyped DEF Sound, BridgeStep, bridgeVars, tables

LEMMA StartStarts ==
  ASSUME BridgeTyped, NEW p \in Publishers, PublishStart(p)
  PROVE  Started(p)
<1>1. pub[p].at = "start" /\ Apart(p)
  BY DEF PublishStart, Apart
<1>2. pub \in [Publishers -> Publication] /\ gens \in [Servers -> Tables]
  BY DEF BridgeTyped, TablesTyped
<1>3. CASE stop[p[1]]
  BY <1>1, <1>2, <1>3, EndGoes DEF PublishStart, Started, Places
<1>4. CASE ~ stop[p[1]]
  <2>1. PublishRead(p)
    BY <1>4 DEF PublishStart
  <2>2. UNCHANGED <<registry, tables>>
    BY <2>1 DEF PublishRead
  <2> QED BY <1>1, <1>2, <1>4, <2>1, <2>2, ReadGoes DEF Started
<1> QED BY <1>3, <1>4

LEMMA PubSound ==
  ASSUME BridgeTyped, NEW p \in Publishers, PubStep(p), env' = env, UNCHANGED <<registry, tables>>
  PROVE  Sound
BY QuietTyped DEF Sound, BridgeStep

LEMMA BeginBegins ==
  ASSUME BridgeTyped, NEW p \in Publishers, pub[p].at = "idle",
         Settled(For(p)), \E t \in Discovered(p[1]) : Begin(p, t),
         UNCHANGED <<env, registry, tables>>
  PROVE  Begun(p) /\ Sound
<1>1. p[1] \in Mounts /\ For(p) \in Servers /\ pub \in [Publishers -> Publication]
  BY PublisherFacts DEF BridgeTyped
<1>2. PICK t \in Discovered(p[1]) : Begin(p, t)
  OBVIOUS
<1>3. Goes(p, "start", t, NoTable, {}, {}, "none")
  BY <1>1, <1>2, DiscoveredFacts, BeginGoes
<1>4. "race" \notin env => \A q \in Publishers : For(q) = For(p) => pub[q].at = "idle"
  BY <1>1, SettledFacts
<1>5. Begun(p)
  BY <1>3, <1>4 DEF Begun
<1> QED BY <1>5, PubSound DEF PubStep

LEMMA EndEnds ==
  ASSUME BridgeTyped, NEW p \in Publishers, pub[p].at \in {"ok", "err"}, End(p, "idle"),
         UNCHANGED <<env, registry, tables>>
  PROVE  Ended(p) /\ Sound
<1>1. Goes(p, "idle", NoTable, NoTable, {}, {}, "none")
  BY PublicationFacts, EndGoes DEF Places
<1>2. Ended(p)
  BY <1>1 DEF Ended
<1> QED BY <1>2, PubSound DEF PubStep

LEMMA ForgetSound ==
  ASSUME BridgeTyped, NEW s \in Servers, Settled(s), UnregisterServer(s), env' = env
  PROVE  Sound
BY UnregisterForgets DEF Sound, BridgeStep

LEMMA IntrudeSound ==
  ASSUME BridgeTyped, NEW n \in Names, Foreign(n)
  PROVE  Sound
<1>1. Intruded(n) /\ env' = env
  BY DEF Foreign, TakeName, VacateName, Intruded, BridgeTyped, TablesTyped
<1>2. TablesTyped'
  <2>1. registry \in [Names -> Defs \cup {"free", "foreign"}]
    BY DEF BridgeTyped, TablesTyped
  <2>2. registry' \in [Names -> Defs \cup {"free", "foreign"}]
    BY <1>1, <2>1 DEF Intruded
  <2>3. UNCHANGED tables
    BY <1>1 DEF Intruded
  <2> QED BY <2>2, <2>3 DEF BridgeTyped, TablesTyped, tables
<1> QED BY <1>1, <1>2 DEF Sound, BridgeStep

LEMMA ListedFacts ==
  ASSUME Life, NEW m \in Mounts, conn[m] # "publishing"
  PROVE  pub[<<m, "conn">>].at = "idle"
BY DEF Life, LifeOf

LEMMA NextSound ==
  ASSUME BridgeTyped, Life, [Next]_vars
  PROVE  Sound
<1>1. CASE UNCHANGED vars
  BY <1>1, QuietStep DEF vars
<1>2. ASSUME NEW n \in Names, Foreign(n) PROVE Sound
  BY <1>2, IntrudeSound
<1>3. ASSUME NEW m \in Mounts, NEW k \in Kinds, PublishStart(<<m, k>>) \/ PublishOn(<<m, k>>)
      PROVE  Sound
  <2>1. <<m, k>> \in Publishers /\ env' = env
    BY <1>3, PublisherFacts DEF PublishStart, PublishOn
  <2>2. CASE PublishStart(<<m, k>>)
    <3>1. Started(<<m, k>>)
      BY <2>1, <2>2, StartStarts
    <3> QED BY <2>1, <3>1, PubSound DEF PubStep, Started
  <2>3. CASE PublishOn(<<m, k>>)
    <3>1. PubStep(<<m, k>>) /\ TablesTyped'
      BY <2>1, <2>3, PublishIs DEF PublishOn
    <3> QED BY <2>1, <3>1 DEF Sound, BridgeStep
  <2> QED BY <1>3, <2>2, <2>3
<1>4. ASSUME NEW m \in Mounts, NoteArrives(m) \/ Listed(m) PROVE Sound
  <2>1. /\ <<m, "conn">> \in Publishers /\ <<m, "note">> \in Publishers
        /\ <<m, "conn">>[1] = m /\ <<m, "note">>[1] = m
        /\ For(<<m, "conn">>) = ServerOf[m] /\ For(<<m, "note">>) = ServerOf[m]
    BY PublisherFacts DEF Kinds
  <2>2. CASE NoteArrives(m)
    BY <2>1, <2>2, BeginBegins DEF NoteArrives
  <2>3. CASE Listed(m)
    <3>1. pub[<<m, "conn">>].at = "idle"
      BY <2>3, ListedFacts DEF Listed
    <3> QED BY <2>1, <2>3, <3>1, BeginBegins DEF Listed
  <2> QED BY <1>4, <2>2, <2>3
<1>5. ASSUME NEW m \in Mounts, NoteDone(m) \/ ConnPublished(m) PROVE Sound
  <2>1. <<m, "conn">> \in Publishers /\ <<m, "note">> \in Publishers
    BY PublisherFacts DEF Kinds
  <2> QED BY <1>5, <2>1, EndEnds DEF NoteDone, ConnPublished
<1>6. ASSUME NEW m \in Mounts, UnloadTools(m) \/ SupGivesUp(m) PROVE Sound
  BY <1>6, ForgetSound, McpBridgeAssumption DEF UnloadTools, SupGivesUp
<1>7. ASSUME NEW m \in Mounts,
             \/ Dialed(m) \/ DialFails(m) \/ ListFails(m) \/ ConnLost(m) \/ ConnStopped(m)
             \/ Claim(m) \/ ProbeAnswered(m) \/ ProbeJoined(m) \/ StrictFails(m)
             \/ StopFailed(m) \/ Activated(m) \/ Unload(m) \/ UnloadClaim(m)
             \/ SupTop(m) \/ SupEnded(m) \/ SupFailed(m) \/ SupWakes(m)
      PROVE  Sound
  BY <1>7, QuietStep DEF Dialed, DialFails, ListFails, ConnLost, ConnStopped, Claim,
       ProbeAnswered, ProbeJoined, StrictFails, StopFailed, Activated, Unload, UnloadClaim,
       SupTop, SupEnded, SupFailed, SupWakes
<1> QED BY <1>1, <1>2, <1>3, <1>4, <1>5, <1>6, <1>7 DEF Next, Continue, Kinds
----------------------------------------------------------------------------
(* The bridge's variables keep their types.                                *)

PubOk(p) ==
  /\ pub[p].todo \subseteq DOMAIN pub[p].table /\ pub[p].added \subseteq DOMAIN pub[p].table
  /\ pub[p].at \in Naming => pub[p].name \in pub[p].todo
  /\ pub[p].at = "undo" => "refuse" \in env

LEMMA GoesOk ==
  ASSUME BridgeTyped, NEW p \in Publishers, NEW place, NEW table, NEW prev,
         NEW todo, NEW added, NEW name, env' = env,
         Goes(p, place, table, prev, todo, added, name),
         todo \subseteq DOMAIN table, added \subseteq DOMAIN table,
         place \in Naming => name \in todo, place = "undo" => "refuse" \in env
  PROVE  pub' \in [Publishers -> Publication] /\ \A q \in Publishers : PubOk(q)'
<1>1. PubOk(p)'
  BY DEF Goes, PubOk
<1>2. ASSUME NEW q \in Publishers, q # p PROVE PubOk(q)'
  BY <1>2 DEF Goes, PubOk, BridgeTyped
<1> QED BY <1>1, <1>2 DEF Goes

LEMMA PubStepTyped ==
  ASSUME BridgeTyped, NEW p \in Publishers, PubStep(p), env' = env
  PROVE  pub' \in [Publishers -> Publication] /\ \A q \in Publishers : PubOk(q)'
<1> DEFINE T == pub' \in [Publishers -> Publication] /\ \A q \in Publishers : PubOk(q)'
<1>1. PubOk(p)
  BY DEF BridgeTyped, PubOk
<1>e. ASSUME NEW place \in {"idle", "err", "ok"}, Goes(p, place, NoTable, NoTable, {}, {}, "none")
      PROVE  T
  BY <1>e, GoesOk DEF Naming
<1>2. CASE Begun(p)
  <2>1. PICK t \in Discovered(p[1]) : Goes(p, "start", t, NoTable, {}, {}, "none")
    BY <1>2 DEF Begun
  <2> QED BY <2>1, GoesOk DEF Naming
<1>3. CASE Ended(p) \/ Marked(p) \/ Undone(p) \/ Committed(p)
  BY <1>3, <1>e DEF Ended, Marked, Undone, Committed
<1>4. CASE Started(p)
  <2>1. CASE Goes(p, "err", NoTable, NoTable, {}, {}, "none")
    BY <2>1, <1>e
  <2>2. CASE Goes(p, "check", pub[p].table, gens[For(p)], DOMAIN pub[p].table, pub[p].added, pub[p].name)
    BY <1>1, <2>2, GoesOk DEF PubOk, Naming
  <2> QED BY <1>4, <2>1, <2>2 DEF Started
<1>5. CASE Looked(p)
  <2>1. PICK n \in pub[p].todo : Looks(p, n)
    BY <1>5 DEF Looked
  <2>2. CASE Goes(p, "err", NoTable, NoTable, {}, {}, "none")
    BY <2>2, <1>e
  <2>3. CASE Goes(p, "check", pub[p].table, pub[p].prev, pub[p].todo \ {n}, pub[p].added, pub[p].name)
    <3>1. pub[p].todo \ {n} \subseteq DOMAIN pub[p].table /\ pub[p].added \subseteq DOMAIN pub[p].table
      BY <1>1 DEF PubOk
    <3> QED BY <2>3, <3>1, GoesOk DEF Naming
  <2>4. CASE Goes(p, "theft", pub[p].table, pub[p].prev, pub[p].todo, pub[p].added, n)
    BY <1>1, <2>1, <2>4, GoesOk DEF PubOk
  <2> QED BY <2>1, <2>2, <2>3, <2>4 DEF Looks
<1>6. CASE Rounded(p)
  BY <1>1, <1>6, GoesOk DEF PubOk, Naming, Rounded
<1>7. CASE Decided(p)
  <2>1. PICK n \in pub[p].todo, how \in {"skip", "adopt", "register"} :
          Goes(p, how, pub[p].table, pub[p].prev, pub[p].todo, pub[p].added, n)
    BY <1>7 DEF Decided, Decides
  <2>2. how # "undo"
    OBVIOUS
  <2> QED BY <1>1, <2>1, <2>2, GoesOk DEF PubOk
<1>8. CASE Retained(p)
  <2>1. pub[p].todo \ {pub[p].name} \subseteq DOMAIN pub[p].table
        /\ pub[p].added \subseteq DOMAIN pub[p].table
    BY <1>1 DEF PubOk
  <2>2. Goes(p, "decide", pub[p].table, pub[p].prev, pub[p].todo \ {pub[p].name}, pub[p].added, "none")
    BY <1>8 DEF Retained
  <2> QED BY <2>1, <2>2, GoesOk DEF Naming
<1>9. CASE Forwarded(p)
  <2>1. pub[p].name \in pub[p].todo
    BY <1>1, <1>9 DEF PubOk, Naming, Forwarded
  <2>2. Goes(p, "book", pub[p].table, pub[p].prev, pub[p].todo, pub[p].added, pub[p].name)
    BY <1>9 DEF Forwarded
  <2> QED BY <1>1, <2>1, <2>2, GoesOk DEF PubOk
<1>10. CASE Booked(p)
  <2>1. pub[p].name \in pub[p].todo
    BY <1>1, <1>10 DEF PubOk, Naming, Booked
  <2>2. pub[p].todo \ {pub[p].name} \subseteq DOMAIN pub[p].table
        /\ pub[p].added \cup {pub[p].name} \subseteq DOMAIN pub[p].table
    BY <1>1, <2>1 DEF PubOk
  <2>3. Goes(p, "decide", pub[p].table, pub[p].prev, pub[p].todo \ {pub[p].name},
             pub[p].added \cup {pub[p].name}, "none")
    BY <1>10 DEF Booked
  <2> QED BY <2>2, <2>3, GoesOk DEF Naming
<1>11. CASE Refused(p)
  BY <1>1, <1>11, GoesOk DEF PubOk, Naming, Refused
<1> QED BY <1>2, <1>3, <1>4, <1>5, <1>6, <1>7, <1>8, <1>9, <1>10, <1>11 DEF PubStep

LEMMA BridgeTypedStep ==
  ASSUME BridgeTyped, Sound
  PROVE  BridgeTyped'
<1>1. env' = env /\ TablesTyped'
  BY DEF Sound, BridgeStep
<1>2. pub' \in [Publishers -> Publication] /\ \A q \in Publishers : PubOk(q)'
  <2>1. CASE pub' = pub
    BY <1>1, <2>1 DEF BridgeTyped, PubOk
  <2>2. CASE \E p \in Publishers : PubStep(p)
    BY <1>1, <2>2, PubStepTyped
  <2> QED BY <2>1, <2>2 DEF Sound, BridgeStep, bridgeVars, Forgotten, Intruded
<1> QED BY <1>1, <1>2 DEF BridgeTyped, PubOk
----------------------------------------------------------------------------
(* The life of the mounts.                                                 *)

mounting == <<phase, stop, first, conn, established, sup, failures>>

(* What a step leaves of the mount o.                                      *)
Same(o) ==
  /\ phase'[o] = phase[o] /\ stop'[o] = stop[o] /\ conn'[o] = conn[o]
  /\ sup'[o] = sup[o] /\ failures'[o] = failures[o]
PubKept(o) == \A k \in Kinds : pub'[<<o, k>>].at = pub[<<o, k>>].at

LEMMA LifeKept ==
  ASSUME NEW o \in Mounts, LifeOf(o), Same(o),
         \/ PubKept(o)
         \/ /\ \E k \in Kinds : pub[<<o, k>>].at # "idle"
            /\ \A k \in Kinds : pub'[<<o, k>>].at = pub[<<o, k>>].at
                                \/ pub[<<o, k>>].at # "idle"
  PROVE  LifeOf(o)'
BY DEF LifeOf, Same, PubKept, Idle, Kinds

(* A publication on its way stays at a place of its own.                   *)
LEMMA OnItsWay ==
  ASSUME BridgeTyped, NEW p \in Publishers, PublishStart(p) \/ PublishOn(p)
  PROVE  /\ pub[p].at # "idle" /\ pub'[p].at # "idle"
         /\ \A q \in Publishers : q # p => pub'[q] = pub[q]
<1>1. CASE PublishStart(p)
  <2>1. Started(p)
    BY <1>1, StartStarts
  <2> QED BY <2>1 DEF Started, Goes
<1>2. CASE PublishOn(p)
  <2>1. PubStep(p) /\ pub[p].at \notin {"idle", "ok", "err", "start"}
    <3>1. PubStep(p)
      BY <1>2, PublishIs DEF PublishOn
    <3>2. pub[p].at \in {"check", "theft", "decide", "skip", "adopt", "register", "book", "undo"}
      BY <1>2 DEF PublishOn, PublishStep, CheckName, MarkTheft, Checked, Decide, Skip, Adopt,
           RegisterForwarder, Book, Undo, Commit, RegisterRefused
    <3> QED BY <3>1, <3>2
  <2>2. ~ Begun(p) /\ ~ Ended(p)
    BY <2>1 DEF Begun, Ended
  <2> QED BY <2>1, <2>2 DEF PubStep, Started, Looked, Looks, Marked, Rounded, Decided,
         Decides, Retained, Forwarded, Booked, Refused, Undone, Committed, Goes
<1> QED BY <1>1, <1>2

(* What every step of a mount that publishes nothing does, at that mount   *)
(* and elsewhere.                                                          *)
Alone(m) ==
  /\ \A o \in Mounts : o # m => Same(o)
  /\ UNCHANGED pub

LifeActs(m) ==
  \/ Dialed(m) \/ DialFails(m) \/ ListFails(m) \/ ConnLost(m) \/ ConnStopped(m)
  \/ Claim(m) \/ ProbeAnswered(m) \/ ProbeJoined(m) \/ StrictFails(m)
  \/ StopFailed(m) \/ Activated(m) \/ Unload(m) \/ UnloadTools(m) \/ UnloadClaim(m)
  \/ SupTop(m) \/ SupEnded(m) \/ SupFailed(m) \/ SupWakes(m) \/ SupGivesUp(m)

LEMMA ActsAlone ==
  ASSUME LifeTyped, NEW m \in Mounts, LifeActs(m)
  PROVE  Alone(m)
<1> USE DEF Alone, Same, LifeTyped, Move, mountVars, connVars, supVars, bridgeVars
<1>1. CASE Dialed(m) \/ DialFails(m) \/ ListFails(m) \/ ConnLost(m) \/ ConnStopped(m)
  BY <1>1 DEF Dialed, DialFails, ListFails, ConnLost, ConnStopped
<1>2. CASE Claim(m) \/ ProbeAnswered(m) \/ ProbeJoined(m) \/ StrictFails(m) \/ StopFailed(m)
  BY <1>2 DEF Claim, ProbeAnswered, ProbeJoined, StrictFails, StopFailed
<1>3. CASE Activated(m) \/ Unload(m) \/ UnloadTools(m) \/ UnloadClaim(m)
  BY <1>3 DEF Activated, Unload, UnloadTools, UnloadClaim, UnregisterServer
<1>4. CASE SupTop(m) \/ SupEnded(m)
  BY <1>4 DEF SupTop, SupEnded
<1>5. CASE SupFailed(m)
  BY <1>5 DEF SupFailed
<1>6. CASE SupWakes(m) \/ SupGivesUp(m)
  BY <1>6 DEF SupWakes, SupGivesUp, UnregisterServer
<1> QED BY <1>1, <1>2, <1>3, <1>4, <1>5, <1>6 DEF LifeActs

(* The mount that acts stays in its life.                                  *)
LEMMA ActsLive ==
  ASSUME LifeTyped, NEW m \in Mounts, LifeOf(m), LifeActs(m)
  PROVE  LifeOf(m)'
<1>1. UNCHANGED pub
  BY ActsAlone DEF Alone
<1>2. (Idle(m))' <=> Idle(m)
  BY <1>1 DEF Idle
<1>3. MaxAttempts \in Nat
  BY McpServerAssumption
<1> USE DEF LifeOf, LifeTyped, Move, mountVars, connVars, supVars
<1>4. CASE Dialed(m) \/ DialFails(m) \/ ListFails(m) \/ ConnLost(m) \/ ConnStopped(m)
  BY <1>1, <1>2, <1>4 DEF Dialed, DialFails, ListFails, ConnLost, ConnStopped
<1>5. CASE Claim(m)
  BY <1>1, <1>2, <1>5 DEF Claim, Loads
<1>6. CASE ProbeAnswered(m) \/ ProbeJoined(m)
  BY <1>1, <1>2, <1>6 DEF ProbeAnswered, ProbeJoined
<1>7. CASE StrictFails(m) \/ StopFailed(m)
  BY <1>1, <1>2, <1>7 DEF StrictFails, StopFailed
<1>8. CASE Activated(m) \/ Unload(m)
  BY <1>1, <1>2, <1>8 DEF Activated, Unload
<1>9. CASE UnloadTools(m) \/ UnloadClaim(m)
  BY <1>1, <1>2, <1>9 DEF UnloadTools, UnloadClaim
<1>10. CASE SupTop(m) \/ SupEnded(m)
  BY <1>1, <1>2, <1>10 DEF SupTop, SupEnded
<1>11. CASE SupFailed(m)
  <2>1. /\ sup[m] = "running" /\ conn[m] = "failed" /\ conn'[m] = "none"
        /\ phase' = phase /\ stop' = stop
    BY <1>11 DEF SupFailed
  <2>2. CASE stop[m]
    <3>1. sup'[m] = "ended"
      BY <1>11, <2>2 DEF SupFailed
    <3> QED BY <1>1, <1>2, <2>1, <3>1
  <2>3. CASE ~ stop[m]
    <3>1. PICK survived \in BOOLEAN :
            LET count == IF survived THEN 1 ELSE failures[m] + 1
            IN  /\ Move(failures, m, count)
                /\ Move(sup, m, IF ~Enabled \/ count > MaxAttempts THEN "giveup" ELSE "sleeping")
      BY <1>11, <2>3 DEF SupFailed
    <3> DEFINE count == IF survived THEN 1 ELSE failures[m] + 1
    <3>2. failures[m] \in 0..MaxAttempts + 1 /\ count \in Nat
      BY <1>3
    <3>3. failures'[m] = count /\ (sup'[m] = "giveup" \/ (sup'[m] = "sleeping" /\ ~ (count > MaxAttempts)))
      BY <3>1
    <3> HIDE DEF count
    <3>4. sup'[m] = "sleeping" => failures'[m] <= MaxAttempts
      BY <3>2, <3>3, <1>3
    <3> QED BY <1>1, <1>2, <2>1, <3>3, <3>4
  <2> QED BY <2>2, <2>3
<1>12. CASE SupWakes(m) \/ SupGivesUp(m)
  BY <1>1, <1>2, <1>12 DEF SupWakes, SupGivesUp
<1> QED BY <1>4, <1>5, <1>6, <1>7, <1>8, <1>9, <1>10, <1>11, <1>12 DEF LifeActs

(* The steps of the system, for what is proved of the mounts.              *)
LEMMA NextCases ==
  ASSUME Next
  PROVE  \/ \E m \in Mounts : LifeActs(m)
         \/ \E m \in Mounts : NoteArrives(m) \/ NoteDone(m) \/ Listed(m) \/ ConnPublished(m)
         \/ \E p \in Publishers : PublishStart(p) \/ PublishOn(p)
         \/ \E n \in Names : Foreign(n)
BY PublisherFacts DEF Next, Continue, LifeActs, Kinds

LEMMA LifeStep ==
  ASSUME BridgeTyped, LifeTyped, Life, [Next]_vars
  PROVE  Life'
<1>1. SUFFICES ASSUME NEW o \in Mounts PROVE LifeOf(o)'
  BY DEF Life
<1>2. LifeOf(o)
  BY DEF Life
<1>3. CASE UNCHANGED vars
  <2>1. Same(o) /\ PubKept(o)
    BY <1>3 DEF vars, mountVars, connVars, supVars, bridgeVars, Same, PubKept
  <2> QED BY <1>2, <2>1, LifeKept
<1>4. ASSUME NEW m \in Mounts, LifeActs(m) PROVE LifeOf(o)'
  <2>1. CASE o = m
    BY <1>2, <1>4, <2>1, ActsLive
  <2>2. CASE o # m
    <3>1. Same(o) /\ PubKept(o)
      BY <1>4, <2>2, ActsAlone DEF Alone, PubKept
    <3> QED BY <1>2, <3>1, LifeKept
  <2> QED BY <2>1, <2>2
<1>5. ASSUME NEW p \in Publishers, PublishStart(p) \/ PublishOn(p) PROVE LifeOf(o)'
  <2>1. Same(o)
    BY <1>5 DEF PublishStart, PublishOn, mountVars, connVars, supVars, Same
  <2>2. \A k \in Kinds : <<o, k>> \in Publishers
    BY PublisherFacts
  <2>3. CASE \E k \in Kinds : p = <<o, k>>
    <3>1. /\ \E k \in Kinds : pub[<<o, k>>].at # "idle"
          /\ \A k \in Kinds : pub'[<<o, k>>].at = pub[<<o, k>>].at \/ pub[<<o, k>>].at # "idle"
      BY <1>5, <2>2, <2>3, OnItsWay
    <3> QED BY <1>2, <2>1, <3>1, LifeKept
  <2>4. CASE ~ \E k \in Kinds : p = <<o, k>>
    <3>1. PubKept(o)
      BY <1>5, <2>2, <2>4, OnItsWay DEF PubKept
    <3> QED BY <1>2, <2>1, <3>1, LifeKept
  <2> QED BY <2>3, <2>4
<1>6. ASSUME NEW n \in Names, Foreign(n) PROVE LifeOf(o)'
  <2>1. Same(o) /\ PubKept(o)
    BY <1>6 DEF Foreign, TakeName, VacateName, mountVars, connVars, supVars, Same, PubKept
  <2> QED BY <1>2, <2>1, LifeKept
<1>7. ASSUME NEW m \in Mounts, NoteArrives(m) \/ NoteDone(m) \/ Listed(m) \/ ConnPublished(m)
      PROVE  LifeOf(o)'
  <2>1. /\ \A q \in Publishers : q[1] \in Mounts
        /\ \A x \in Mounts, k \in Kinds : <<x, k>> \in Publishers /\ <<x, k>>[1] = x
        /\ pub \in [Publishers -> Publication] /\ "conn" \in Kinds /\ "note" \in Kinds
    BY PublisherFacts DEF BridgeTyped, Kinds
  <2>2. CASE o # m
    <3>1. Same(o)
      BY <1>7, <2>2 DEF NoteArrives, NoteDone, Listed, ConnPublished, Move, mountVars, connVars,
           supVars, Same, LifeTyped
    <3>2. \E k \in Kinds : \E r : pub' = [pub EXCEPT ![<<m, k>>] = r]
      <4>1. CASE NoteArrives(m)
        BY <2>1, <4>1 DEF NoteArrives, Begin
      <4>2. CASE NoteDone(m)
        BY <2>1, <4>2 DEF NoteDone, End
      <4>3. CASE Listed(m)
        BY <2>1, <4>3 DEF Listed, Begin
      <4>4. CASE ConnPublished(m)
        BY <2>1, <4>4 DEF ConnPublished, End
      <4> QED BY <1>7, <4>1, <4>2, <4>3, <4>4
    <3>3. PICK k \in Kinds : \E r : pub' = [pub EXCEPT ![<<m, k>>] = r]
      BY <3>2
    <3>4. \A j \in Kinds : <<o, j>> # <<m, k>> /\ <<o, j>> \in Publishers
      BY <2>1, <2>2
    <3>5. PubKept(o)
      BY <2>1, <3>3, <3>4 DEF PubKept
    <3> QED BY <1>2, <3>1, <3>5, LifeKept
  <2>3. CASE o = m
    <3>1. <<o, "conn">> # <<o, "note">>
      BY <2>1
    <3>2. CASE NoteArrives(o)
      <4>1. Same(o) /\ pub'[<<o, "conn">>] = pub[<<o, "conn">>] /\ conn[o] = "up"
        BY <2>1, <3>1, <3>2 DEF NoteArrives, Begin, Same, mountVars, connVars, supVars
      <4> QED BY <1>2, <4>1 DEF LifeOf, Same
    <3>3. CASE NoteDone(o)
      <4>1. Same(o) /\ pub'[<<o, "conn">>] = pub[<<o, "conn">>] /\ pub[<<o, "note">>].at # "idle"
        BY <2>1, <3>1, <3>3 DEF NoteDone, End, Same, mountVars, connVars, supVars
      <4> QED BY <1>2, <4>1 DEF LifeOf, Same, Idle
    <3>4. CASE Listed(o)
      <4>1. /\ phase'[o] = phase[o] /\ stop'[o] = stop[o] /\ sup'[o] = sup[o] /\ failures'[o] = failures[o]
            /\ conn[o] = "listing" /\ conn'[o] = "publishing"
        BY <3>4 DEF Listed, Move, LifeTyped, mountVars, supVars
      <4> QED BY <1>2, <4>1 DEF LifeOf
    <3>5. CASE ConnPublished(o)
      <4>1. /\ phase'[o] = phase[o] /\ stop'[o] = stop[o] /\ sup'[o] = sup[o] /\ failures'[o] = failures[o]
            /\ conn[o] = "publishing" /\ conn'[o] = "up" /\ pub[<<o, "conn">>].at # "idle"
        BY <3>5 DEF ConnPublished, Move, LifeTyped, mountVars, supVars
      <4>2. pub'[<<o, "conn">>].at = "idle"
        BY <2>1, <3>5 DEF ConnPublished, End, At
      <4> QED BY <1>2, <4>1, <4>2 DEF LifeOf, Idle
    <3> QED BY <1>7, <2>3, <3>2, <3>3, <3>4, <3>5
  <2> QED BY <2>2, <2>3
<1> QED BY <1>3, <1>4, <1>5, <1>6, <1>7, NextCases

LEMMA LifeTypedStep ==
  ASSUME BridgeTyped, LifeTyped, Life, [Next]_vars
  PROVE  LifeTyped'
<1>1. MaxAttempts \in Nat /\ MaxNotes \in [Mounts -> Nat] /\ \A m \in Mounts : ServerOf[m] \in Servers
  BY McpServerAssumption, McpBridgeAssumption
<1> USE DEF LifeTyped, Move, mountVars, connVars, supVars, bridgeVars
<1>2. CASE UNCHANGED vars
  BY <1>2 DEF vars
<1>3. ASSUME NEW m \in Mounts, LifeActs(m) PROVE LifeTyped'
  <2>1. CASE Dialed(m) \/ DialFails(m) \/ ListFails(m) \/ ConnLost(m) \/ ConnStopped(m)
    BY <2>1 DEF Dialed, DialFails, ListFails, ConnLost, ConnStopped
  <2>2. CASE Claim(m)
    BY <1>1, <2>2 DEF Claim, Phases
  <2>3. CASE ProbeAnswered(m)
    BY <2>3 DEF ProbeAnswered, Phases
  <2>4. CASE ProbeJoined(m)
    BY <2>4 DEF ProbeJoined, Phases
  <2>5. CASE StrictFails(m)
    <3>1. phase' \in [Mounts -> Phases] /\ claims' \subseteq Servers
      BY <2>5 DEF StrictFails, Phases
    <3> QED BY <2>5, <3>1 DEF StrictFails
  <2>6. CASE StopFailed(m)
    BY <2>6 DEF StopFailed, Phases
  <2>7. CASE Activated(m)
    <3>1. phase' \in [Mounts -> Phases]
      BY <2>7 DEF Activated, Phases
    <3>2. sup' \in [Mounts -> {"none", "top", "running", "sleeping", "giveup", "stopped", "ended"}]
      BY <2>7 DEF Activated
    <3> QED BY <2>7, <3>1, <3>2 DEF Activated
  <2>8. CASE Unload(m)
    <3>1. phase' \in [Mounts -> Phases] /\ stop' \in [Mounts -> BOOLEAN]
      BY <2>8 DEF Unload, Phases
    <3> QED BY <2>8, <3>1 DEF Unload
  <2>9. CASE UnloadTools(m) \/ UnloadClaim(m)
    BY <2>9 DEF UnloadTools, UnloadClaim, Phases
  <2>10. CASE SupTop(m) \/ SupEnded(m)
    BY <2>10 DEF SupTop, SupEnded
  <2>11. CASE SupFailed(m)
    <3>1. failures[m] <= MaxAttempts /\ failures[m] \in 0..MaxAttempts + 1
      BY <2>11 DEF Life, LifeOf, SupFailed
    <3>2. failures' = failures \/ failures' = [failures EXCEPT ![m] = 1]
          \/ failures' = [failures EXCEPT ![m] = failures[m] + 1]
      BY <2>11 DEF SupFailed
    <3>3. 1 \in 0..MaxAttempts + 1 /\ failures[m] + 1 \in 0..MaxAttempts + 1
      BY <1>1, <3>1
    <3>4. failures' \in [Mounts -> 0..MaxAttempts + 1]
      BY <3>2, <3>3
    <3>5. sup' = [sup EXCEPT ![m] = "ended"] \/ sup' = [sup EXCEPT ![m] = "giveup"]
          \/ sup' = [sup EXCEPT ![m] = "sleeping"]
      BY <2>11 DEF SupFailed
    <3> QED BY <2>11, <3>4, <3>5 DEF SupFailed
  <2>12. CASE SupWakes(m) \/ SupGivesUp(m)
    BY <2>12 DEF SupWakes, SupGivesUp
  <2> QED BY <1>3, <2>1, <2>2, <2>3, <2>5, <2>7, <2>9, <2>10, <2>11, <2>12, <2>4, <2>6, <2>8 DEF LifeActs
<1>4. ASSUME NEW p \in Publishers, PublishStart(p) \/ PublishOn(p) PROVE LifeTyped'
  BY <1>4 DEF PublishStart, PublishOn
<1>5. ASSUME NEW n \in Names, Foreign(n) PROVE LifeTyped'
  BY <1>5 DEF Foreign
<1>6. ASSUME NEW m \in Mounts, NoteArrives(m) \/ NoteDone(m) \/ Listed(m) \/ ConnPublished(m)
      PROVE  LifeTyped'
  <2>1. CASE NoteArrives(m)
    <3>1. notes[m] \in 0..MaxNotes[m] /\ notes[m] < MaxNotes[m] /\ MaxNotes[m] \in Nat
      BY <1>1, <2>1 DEF NoteArrives
    <3>2. notes[m] + 1 \in 0..MaxNotes[m]
      BY <3>1
    <3> QED BY <2>1, <3>2 DEF NoteArrives
  <2>2. CASE NoteDone(m) \/ Listed(m)
    BY <2>2 DEF NoteDone, Listed
  <2>3. CASE ConnPublished(m)
    BY <2>3 DEF ConnPublished
  <2> QED BY <1>6, <2>1, <2>2, <2>3
<1> QED BY <1>2, <1>3, <1>4, <1>5, <1>6, NextCases

(* Claims: the mounts that hold one.                                       *)
LEMMA ClaimsKept ==
  ASSUME ClaimsAreHeld, claims' = claims, \A m \in Mounts : Holding(m)' <=> Holding(m)
  PROVE  ClaimsAreHeld'
BY DEF ClaimsAreHeld

LEMMA ClaimsStep ==
  ASSUME LifeTyped, Life, ClaimsAreHeld, [Next]_vars
  PROVE  ClaimsAreHeld'
<1>1. \A m \in Mounts : phase'[m] = phase[m] => (Holding(m)' <=> Holding(m))
  BY DEF Holding
<1>2. CASE claims' = claims /\ phase' = phase
  BY <1>1, <1>2, ClaimsKept
<1>3. ASSUME NEW m \in Mounts, LifeActs(m), ~ (claims' = claims /\ phase' = phase)
      PROVE  ClaimsAreHeld'
  <2>1. \A o \in Mounts : o # m => (Holding(o)' <=> Holding(o))
    BY <1>1, <1>3, ActsAlone DEF Alone, Same
  <2>2. CASE Claim(m)
    <3>1. ~ Holding(m) /\ Holding(m)' /\ ServerOf[m] \notin claims /\ claims' = claims \cup {ServerOf[m]}
      BY <2>2 DEF Claim, Loads, Holding, Move, LifeTyped
    <3> QED BY <2>1, <3>1 DEF ClaimsAreHeld
  <2>3. CASE StrictFails(m) \/ UnloadClaim(m)
    <3>1. Holding(m) /\ ~ Holding(m)' /\ claims' = claims \ {ServerOf[m]}
      BY <2>3 DEF StrictFails, UnloadClaim, Holding, Move, LifeTyped
    <3> QED BY <2>1, <3>1 DEF ClaimsAreHeld
  <2>4. CASE ProbeAnswered(m) \/ ProbeJoined(m) \/ StopFailed(m) \/ Activated(m) \/ Unload(m) \/ UnloadTools(m)
    <3>1. claims' = claims /\ (Holding(m)' <=> Holding(m))
      BY <2>4 DEF ProbeAnswered, ProbeJoined, StopFailed, Activated, Unload, UnloadTools,
           Holding, Move, LifeTyped
    <3> QED BY <2>1, <3>1, ClaimsKept
  <2> QED BY <1>3, <2>2, <2>3, <2>4 DEF LifeActs, Dialed, DialFails, ListFails, ConnLost,
         ConnStopped, SupTop, SupEnded, SupFailed, SupWakes, SupGivesUp, mountVars
<1> QED BY <1>2, <1>3, NextCases DEF PublishStart, PublishOn, Foreign, NoteArrives, NoteDone,
       Listed, ConnPublished, mountVars, vars
----------------------------------------------------------------------------
(* Without a race, the life of a mount bounds what it publishes.           *)

LEMMA PubAt ==
  ASSUME NEW p \in Publishers, PubStep(p)
  PROVE  /\ \A q \in Publishers : q # p => pub'[q] = pub[q]
         /\ pub'[p].at # "idle" => pub[p].at # "idle" \/ Begun(p)
         /\ Begun(p) => pub'[p].at = "start"
         /\ InProgress(p)' \/ pub'[p].at = "ok" => InProgress(p) \/ (Started(p) /\ ~ stop[p[1]])
         /\ pub'[p].at = "idle" \/ pub[p].at # "idle" \/ Begun(p)
         /\ gens' = gens \/ (InProgress(p) /\ gens' = [gens EXCEPT ![For(p)] = pub[p].table])
<1> USE DEF InProgress, Goes
<1>1. CASE Begun(p)
  BY <1>1 DEF Begun, tables
<1>2. CASE Ended(p) \/ Marked(p) \/ Undone(p)
  BY <1>2 DEF Ended, Marked, Undone, tables, Begun
<1>3. CASE Started(p)
  BY <1>3 DEF Started, tables, Begun
<1>4. CASE Looked(p)
  BY <1>4 DEF Looked, Looks, tables, Begun
<1>5. CASE Rounded(p) \/ Retained(p) \/ Forwarded(p) \/ Booked(p) \/ Refused(p)
  BY <1>5 DEF Rounded, Retained, Forwarded, Booked, Refused, tables, Begun
<1>6. CASE Decided(p)
  BY <1>6 DEF Decided, Decides, tables, Begun
<1>7. CASE Committed(p)
  BY <1>7 DEF Committed, Begun
<1> QED BY <1>1, <1>2, <1>3, <1>4, <1>5, <1>6, <1>7 DEF PubStep

LEMMA OneStep ==
  ASSUME "race" \notin env, OnePublication, OneInProgress, BridgeStep
  PROVE  OnePublication' /\ OneInProgress'
<1>1. ASSUME pub' = pub PROVE OnePublication' /\ OneInProgress'
  BY <1>1 DEF OnePublication, OneInProgress, InProgress, For, BridgeStep
<1>2. ASSUME NEW p \in Publishers, PubStep(p) PROVE OnePublication' /\ OneInProgress'
  <2>1. \A q \in Publishers : q # p => pub'[q] = pub[q]
    BY <1>2, PubAt
  <2>2. OnePublication'
    <3>1. pub'[p].at # "idle" => \/ pub[p].at # "idle"
                                 \/ \A q \in Publishers : For(q) = For(p) => pub[q].at = "idle"
      BY <1>2, PubAt DEF Begun
    <3> QED BY <2>1, <3>1 DEF OnePublication, For
  <2>3. OneInProgress'
    <3>1. InProgress(p)' => InProgress(p) \/ Started(p)
      BY <1>2, PubAt
    <3>2. Started(p) => \A q \in Publishers : q # p /\ InProgress(q) => "overlap" \in env
      BY DEF Started, Apart
    <3>3. \A q \in Publishers : q # p => (InProgress(q)' <=> InProgress(q))
      BY <2>1 DEF InProgress
    <3>4. env' = env
      BY DEF BridgeStep
    <3> QED BY <3>1, <3>2, <3>3, <3>4 DEF OneInProgress
  <2> QED BY <2>2, <2>3
<1> QED BY <1>1, <1>2 DEF BridgeStep, bridgeVars, Forgotten, Intruded

(* A mount is over from then on, and only the two unregistrations end it.  *)
LEMMA OverKept ==
  ASSUME NEW o \in Mounts, phase'[o] = phase[o], sup'[o] = sup[o]
  PROVE  /\ Over(o)' <=> Over(o)
         /\ Resting(o)' <=> Resting(o)
         /\ sup'[o] = "giveup" /\ phase'[o] # "active" => sup[o] = "giveup" /\ phase[o] # "active"
BY DEF Over, Resting

LEMMA ActsEnd ==
  ASSUME LifeTyped, Life, Quits, "race" \notin env, NEW m \in Mounts, LifeActs(m)
  PROVE  /\ \A o \in Mounts : o # m => phase'[o] = phase[o] /\ sup'[o] = sup[o]
         /\ UNCHANGED pub
         /\ sup'[m] = "giveup" => phase'[m] = "active"
         /\ Resting(m)' => Resting(m) \/ Settled(ServerOf[m])
         /\ \/ gens' = gens /\ (Over(m)' => Over(m))
            \/ Settled(ServerOf[m]) /\ gens' = [gens EXCEPT ![ServerOf[m]] = NoTable]
<1>1. LifeOf(m) /\ (sup[m] = "giveup" => phase[m] = "active")
  BY DEF Life, Quits
<1>2. \A o \in Mounts : o # m => phase'[o] = phase[o] /\ sup'[o] = sup[o]
  BY ActsAlone DEF Alone, Same
<1>3. UNCHANGED pub
  BY ActsAlone DEF Alone
<1> DEFINE Goal == /\ sup'[m] = "giveup" => phase'[m] = "active"
                   /\ Resting(m)' => Resting(m) \/ Settled(ServerOf[m])
                   /\ \/ gens' = gens /\ (Over(m)' => Over(m))
                      \/ Settled(ServerOf[m]) /\ gens' = [gens EXCEPT ![ServerOf[m]] = NoTable]
<1>g. SUFFICES Goal
  BY <1>2, <1>3
<1> USE DEF LifeTyped, Move, mountVars, connVars, supVars, bridgeVars, tables, Over, Resting
<1>4. CASE Dialed(m) \/ DialFails(m) \/ ListFails(m) \/ ConnLost(m) \/ ConnStopped(m)
  <2>1. gens' = gens /\ phase'[m] = phase[m] /\ sup'[m] = sup[m]
    BY <1>4 DEF Dialed, DialFails, ListFails, ConnLost, ConnStopped
  <2> QED BY <1>1, <2>1
<1>5. CASE Claim(m)
  <2>1. gens' = gens /\ phase'[m] = "probing" /\ phase[m] = "idle" /\ sup'[m] = sup[m]
    BY <1>5 DEF Claim, Loads
  <2> QED BY <1>1, <2>1 DEF LifeOf
<1>6. CASE ProbeAnswered(m) \/ ProbeJoined(m)
  <2>1. gens' = gens /\ phase'[m] \in {"joining", "decide"} /\ phase[m] \in {"probing", "joining"}
        /\ sup'[m] = sup[m]
    BY <1>6 DEF ProbeAnswered, ProbeJoined
  <2> QED BY <1>1, <2>1 DEF LifeOf
<1>7. CASE StrictFails(m)
  <2>1. gens' = gens /\ phase'[m] = "failing" /\ phase[m] = "decide" /\ sup'[m] = sup[m]
        /\ Settled(ServerOf[m])
    BY <1>7 DEF StrictFails
  <2> QED BY <1>1, <2>1 DEF LifeOf
<1>8. CASE StopFailed(m)
  <2>1. gens' = gens /\ phase'[m] = "gone" /\ phase[m] = "failing" /\ sup'[m] = sup[m]
    BY <1>8 DEF StopFailed
  <2> QED BY <1>1, <2>1 DEF LifeOf
<1>9. CASE Activated(m)
  <2>1. gens' = gens /\ phase'[m] = "active" /\ phase[m] = "decide" /\ sup'[m] = "top"
    BY <1>9 DEF Activated
  <2> QED BY <1>1, <2>1 DEF LifeOf
<1>10. CASE Unload(m)
  <2>1. gens' = gens /\ phase'[m] = "unloading" /\ phase[m] = "active" /\ sup'[m] = sup[m]
        /\ sup[m] # "giveup"
    BY <1>10 DEF Unload
  <2> QED BY <1>1, <2>1 DEF LifeOf
<1>11. CASE UnloadTools(m)
  <2>1. gens' = [gens EXCEPT ![ServerOf[m]] = NoTable] /\ phase'[m] = "releasing"
        /\ phase[m] = "unloading" /\ sup'[m] = sup[m] /\ Settled(ServerOf[m])
    BY <1>11 DEF UnloadTools, UnregisterServer
  <2> QED BY <1>1, <2>1 DEF LifeOf
<1>12. CASE UnloadClaim(m)
  <2>1. gens' = gens /\ phase'[m] = "gone" /\ phase[m] = "releasing" /\ sup'[m] = sup[m]
    BY <1>12 DEF UnloadClaim
  <2> QED BY <1>1, <2>1 DEF LifeOf
<1>13. CASE SupTop(m) \/ SupEnded(m) \/ SupWakes(m)
  <2>1. gens' = gens /\ phase'[m] = phase[m] /\ sup[m] \in {"top", "running", "sleeping"}
        /\ sup'[m] \in {"ended", "running", "top"}
    BY <1>13 DEF SupTop, SupEnded, SupWakes
  <2> QED BY <1>1, <2>1 DEF LifeOf
<1>14. CASE SupFailed(m)
  <2>1. gens' = gens /\ phase'[m] = phase[m] /\ sup[m] = "running"
        /\ (sup'[m] = "ended" \/ (~ stop[m] /\ sup'[m] \in {"giveup", "sleeping"}))
    BY <1>14 DEF SupFailed
  <2>2. ~ stop[m] => phase[m] = "active"
    BY <1>1, <2>1 DEF LifeOf, Phases
  <2> QED BY <1>1, <2>1, <2>2 DEF LifeOf
<1>15. CASE SupGivesUp(m)
  <2>1. gens' = [gens EXCEPT ![ServerOf[m]] = NoTable] /\ phase'[m] = phase[m]
        /\ sup[m] = "giveup" /\ sup'[m] = "stopped" /\ Settled(ServerOf[m])
    BY <1>15 DEF SupGivesUp, UnregisterServer
  <2> QED BY <1>1, <2>1 DEF LifeOf
<1> QED BY <1>4, <1>5, <1>6, <1>7, <1>8, <1>9, <1>10, <1>11, <1>12, <1>13, <1>14, <1>15 DEF LifeActs

LEMMA IdleFacts ==
  ASSUME NEW m \in Mounts
  PROVE  Idle(m) <=> \A p \in Publishers : p[1] = m => pub[p].at = "idle"
BY PublisherFacts DEF Idle, Kinds

LEMMA SettledIdle ==
  ASSUME "race" \notin env, NEW m \in Mounts, Settled(ServerOf[m])
  PROVE  \A p \in Publishers : For(p) = ServerOf[m] => pub[p].at = "idle"
BY SettledFacts, McpBridgeAssumption

(* A publication proceeds at its mount only if that mount is not over.     *)
LEMMA PubWorks ==
  ASSUME "race" \notin env, BridgeTyped, Life, Rests, Works,
         NEW p \in Publishers, PubStep(p), InProgress(p)' \/ pub'[p].at = "ok"
  PROVE  ~ Over(p[1])
<1>1. CASE InProgress(p)
  BY <1>1 DEF Works
<1>2. CASE Started(p) /\ ~ stop[p[1]]
  <2>1. p[1] \in Mounts /\ pub[p].at = "start" /\ LifeOf(p[1])
    BY <1>2, PublisherFacts DEF Started, Life
  <2>2. ~ Idle(p[1])
    BY <2>1, IdleFacts
  <2>3. ~ Resting(p[1])
    BY <2>1, <2>2 DEF Rests
  <2> QED BY <1>2, <2>1, <2>2, <2>3 DEF LifeOf, Over, Resting
<1> QED BY <1>1, <1>2, PubAt

LEMMA SettledStep ==
  ASSUME "race" \notin env, BridgeTyped, LifeTyped, Life, [Next]_vars, BridgeStep,
         Quits, Rests, Works, OnePublication, OneInProgress, Served
  PROVE  Quits' /\ Rests' /\ Works' /\ OnePublication' /\ OneInProgress' /\ Served'
<1>1. OnePublication' /\ OneInProgress'
  BY OneStep
<1> DEFINE Goal == Quits' /\ Rests' /\ Works' /\ Served'
<1>2. ASSUME UNCHANGED vars PROVE Goal
  <2>1. UNCHANGED <<phase, sup, pub, gens>>
    BY <1>2 DEF vars, mountVars, supVars, bridgeVars
  <2> QED BY <2>1 DEF Quits, Rests, Works, Served, Resting, Over, Idle, InProgress
<1>3. ASSUME NEW n \in Names, Foreign(n) PROVE Goal
  <2>1. UNCHANGED <<phase, sup, pub, gens>>
    BY <1>3 DEF Foreign, TakeName, VacateName, tables, mountVars, supVars
  <2> QED BY <2>1 DEF Quits, Rests, Works, Served, Resting, Over, Idle, InProgress
<1>4. ASSUME NEW m \in Mounts, LifeActs(m) PROVE Goal
  <2>1. /\ \A o \in Mounts : o # m => phase'[o] = phase[o] /\ sup'[o] = sup[o]
        /\ UNCHANGED pub
        /\ sup'[m] = "giveup" => phase'[m] = "active"
        /\ Resting(m)' => Resting(m) \/ Settled(ServerOf[m])
        /\ \/ gens' = gens /\ (Over(m)' => Over(m))
           \/ Settled(ServerOf[m]) /\ gens' = [gens EXCEPT ![ServerOf[m]] = NoTable]
    BY <1>4, ActsEnd
  <2>2. \A o \in Mounts : o # m => (Over(o)' <=> Over(o)) /\ (Resting(o)' <=> Resting(o))
    BY <2>1 DEF Over, Resting
  <2>3. Quits'
    BY <2>1 DEF Quits
  <2>4. Rests'
    <3>1. Settled(ServerOf[m]) => Idle(m)
      BY SettledIdle, IdleFacts DEF For
    <3>2. \A o \in Mounts : Idle(o)' <=> Idle(o)
      BY <2>1 DEF Idle
    <3> QED BY <2>1, <2>2, <3>1, <3>2 DEF Rests
  <2>5. Works'
    <3> SUFFICES ASSUME NEW p \in Publishers, InProgress(p)' \/ pub'[p].at = "ok"
                 PROVE  ~ Over(p[1])'
      BY DEF Works
    <3>1. InProgress(p) \/ pub[p].at = "ok"
      BY <2>1 DEF InProgress
    <3>2. p[1] \in Mounts /\ ~ Over(p[1]) /\ pub[p].at # "idle"
      BY <3>1, PublisherFacts DEF Works, InProgress
    <3>3. p[1] = m => ~ Settled(ServerOf[m])
      BY <3>2, SettledIdle DEF For
    <3> QED BY <2>1, <2>2, <3>2, <3>3
  <2>6. Served'
    <3>1. CASE gens' = gens /\ (Over(m)' => Over(m))
      BY <2>2, <3>1 DEF Served
    <3>2. CASE gens' = [gens EXCEPT ![ServerOf[m]] = NoTable]
      BY <2>2, <3>2 DEF Served, BridgeTyped, TablesTyped
    <3> QED BY <2>1, <3>1, <3>2
  <2> QED BY <2>3, <2>4, <2>5, <2>6
<1>5. ASSUME UNCHANGED <<phase, sup>>, NEW p \in Publishers, PubStep(p),
             Begun(p) => ~ Resting(p[1])
      PROVE  Goal
  <2>1. /\ \A q \in Publishers : q # p => pub'[q] = pub[q]
        /\ pub'[p].at # "idle" => pub[p].at # "idle" \/ Begun(p)
        /\ gens' = gens \/ (InProgress(p) /\ gens' = [gens EXCEPT ![For(p)] = pub[p].table])
        /\ p[1] \in Mounts /\ For(p) = ServerOf[p[1]]
    BY <1>5, PubAt, PublisherFacts DEF For
  <2>2. \A o \in Mounts : (Over(o)' <=> Over(o)) /\ (Resting(o)' <=> Resting(o))
    BY <1>5 DEF Over, Resting
  <2>3. Quits'
    BY <1>5 DEF Quits
  <2>4. Rests'
    <3> SUFFICES ASSUME NEW o \in Mounts, Resting(o) PROVE Idle(o)'
      BY <2>2 DEF Rests
    <3>1. \A q \in Publishers : q[1] = o => pub[q].at = "idle"
      BY IdleFacts DEF Rests
    <3>2. \A q \in Publishers : q[1] = o => pub'[q].at = "idle"
      BY <1>5, <2>1, <3>1
    <3> QED BY <3>2, PublisherFacts DEF Idle, Kinds
  <2>5. Works'
    <3> SUFFICES ASSUME NEW q \in Publishers, InProgress(q)' \/ pub'[q].at = "ok"
                 PROVE  ~ Over(q[1])'
      BY DEF Works
    <3>1. q[1] \in Mounts
      BY PublisherFacts
    <3>2. CASE q = p
      BY <1>5, <2>2, <3>1, <3>2, PubWorks
    <3>3. CASE q # p
      <4>1. InProgress(q) \/ pub[q].at = "ok"
        BY <2>1, <3>3 DEF InProgress
      <4> QED BY <2>2, <3>1, <4>1 DEF Works
    <3> QED BY <3>2, <3>3
  <2>6. Served'
    <3>1. CASE gens' = gens
      BY <2>2, <3>1 DEF Served
    <3>2. CASE InProgress(p) /\ gens' = [gens EXCEPT ![For(p)] = pub[p].table]
      <4>1. ~ Over(p[1])
        BY <3>2 DEF Works
      <4>2. gens \in [Servers -> Tables]
        BY DEF BridgeTyped, TablesTyped
      <4> QED BY <2>1, <2>2, <3>2, <4>1, <4>2 DEF Served
    <3> QED BY <2>1, <3>1, <3>2
  <2> QED BY <2>3, <2>4, <2>5, <2>6
<1>6. ASSUME NEW p \in Publishers, PublishStart(p) \/ PublishOn(p) PROVE Goal
  <2>1. UNCHANGED <<phase, sup>> /\ pub[p].at # "idle"
    BY <1>6, OnItsWay DEF PublishStart, PublishOn, mountVars, supVars
  <2>2. PubStep(p)
    BY <1>6, StartStarts, PublishIs DEF PublishOn, PubStep
  <2> QED BY <1>5, <2>1, <2>2 DEF Begun
<1>7. ASSUME NEW m \in Mounts, NoteArrives(m) \/ Listed(m) PROVE Goal
  <2>1. /\ <<m, "conn">> \in Publishers /\ <<m, "note">> \in Publishers
        /\ <<m, "conn">>[1] = m /\ <<m, "note">>[1] = m
        /\ For(<<m, "conn">>) = ServerOf[m] /\ For(<<m, "note">>) = ServerOf[m]
        /\ LifeOf(m)
    BY PublisherFacts DEF Kinds, Life
  <2>2. UNCHANGED <<phase, sup>> /\ conn[m] \in {"up", "listing"}
    BY <1>7 DEF NoteArrives, Listed, mountVars, supVars
  <2>3. ~ Resting(m)
    BY <2>1, <2>2 DEF LifeOf, Resting
  <2>4. CASE NoteArrives(m)
    <3>1. PubStep(<<m, "note">>)
      BY <2>1, <2>4, BeginBegins DEF NoteArrives, PubStep
    <3> QED BY <1>5, <2>1, <2>2, <2>3, <3>1
  <2>5. CASE Listed(m)
    <3>1. pub[<<m, "conn">>].at = "idle"
      BY <2>5, ListedFacts DEF Listed
    <3>2. PubStep(<<m, "conn">>)
      BY <2>1, <2>5, <3>1, BeginBegins DEF Listed, PubStep
    <3> QED BY <1>5, <2>1, <2>2, <2>3, <3>2
  <2> QED BY <1>7, <2>4, <2>5
<1>8. ASSUME NEW m \in Mounts, NoteDone(m) \/ ConnPublished(m) PROVE Goal
  <2>1. <<m, "conn">> \in Publishers /\ <<m, "note">> \in Publishers
    BY PublisherFacts DEF Kinds
  <2>2. UNCHANGED <<phase, sup>>
    BY <1>8 DEF NoteDone, ConnPublished, mountVars, supVars
  <2>3. \E p \in Publishers : PubStep(p) /\ pub[p].at # "idle"
    BY <1>8, <2>1, EndEnds DEF NoteDone, ConnPublished, PubStep
  <2> QED BY <1>5, <2>2, <2>3 DEF Begun
<1>9. Goal
  BY <1>2, <1>3, <1>4, <1>6, <1>7, <1>8, NextCases
<1> QED BY <1>1, <1>9
----------------------------------------------------------------------------
(* Names: a publication only passes what is free or its server's own.      *)

NewlyPassed(p, n) ==
  /\ n \in pub[p].todo /\ ~ TakenByServer(p, n) /\ (registry[n] = "free" \/ OursIntact(For(p), n))
  /\ Passed(p)' \subseteq Passed(p) \cup {n}
  /\ UNCHANGED <<registry, tables>>

LEMMA PassedFacts ==
  ASSUME BridgeTyped, NEW p \in Publishers
  PROVE  /\ Passed(p) \subseteq DOMAIN pub[p].table /\ Passed(p) \subseteq Names
         /\ Passed(p) # {} => InProgress(p)
         /\ pub[p].at \in Placing => Passed(p) = DOMAIN pub[p].table
<1>1. DOMAIN pub[p].table \subseteq Names
  BY PublicationFacts
<1>2. "idle" \notin Placing /\ "start" \notin Placing /\ "ok" \notin Placing /\ "err" \notin Placing
      /\ "check" \notin Placing
  BY DEF Placing
<1> QED BY <1>1, <1>2 DEF Passed, InProgress

LEMMA PassedStep ==
  ASSUME BridgeTyped, NEW p \in Publishers, PubStep(p)
  PROVE  Passed(p)' \subseteq Passed(p) \/ \E n \in pub[p].todo : NewlyPassed(p, n)
<1> USE DEF Goes, Passed, Placing
<1>1. pub[p].todo \subseteq DOMAIN pub[p].table
  BY PublicationFacts
<1>2. CASE Begun(p) \/ Ended(p) \/ Marked(p) \/ Undone(p) \/ Committed(p)
  BY <1>2 DEF Begun, Ended, Marked, Undone, Committed
<1>3. CASE Started(p)
  BY <1>3 DEF Started
<1>4. CASE Looked(p)
  <2>1. PICK n \in pub[p].todo : Looks(p, n)
    BY <1>4 DEF Looked
  <2>2. UNCHANGED <<registry, tables>>
    BY <1>4 DEF Looked
  <2>3. CASE Goes(p, "err", NoTable, NoTable, {}, {}, "none")
    BY <2>3
  <2>4. CASE Goes(p, "theft", pub[p].table, pub[p].prev, pub[p].todo, pub[p].added, n)
    BY <2>4
  <2>5. CASE /\ ~ TakenByServer(p, n) /\ (registry[n] = "free" \/ OursIntact(For(p), n))
             /\ Goes(p, "check", pub[p].table, pub[p].prev, pub[p].todo \ {n}, pub[p].added, pub[p].name)
    <3>1. pub[p].at = "check"
      BY <2>1 DEF Looks
    <3>2. Passed(p)' \subseteq Passed(p) \cup {n}
      BY <3>1, <2>5
    <3> QED BY <2>2, <2>5, <3>2 DEF NewlyPassed
  <2> QED BY <2>1, <2>3, <2>4, <2>5 DEF Looks
<1>5. CASE Rounded(p) \/ Retained(p) \/ Forwarded(p) \/ Booked(p) \/ Refused(p)
  BY <1>5 DEF Rounded, Retained, Forwarded, Booked, Refused
<1>6. CASE Decided(p)
  BY <1>6 DEF Decided, Decides
<1> QED BY <1>2, <1>3, <1>4, <1>5, <1>6 DEF PubStep

LEMMA PassedElsewhere ==
  ASSUME NEW q \in Publishers, pub'[q] = pub[q]
  PROVE  Passed(q)' = Passed(q)
BY DEF Passed

(* The registry changes under a publication's own name only.               *)
LEMMA RegistryStep ==
  ASSUME BridgeTyped, NEW p \in Publishers, PubStep(p), NEW n \in Names, registry'[n] # registry[n]
  PROVE  Forwarded(p) /\ n = pub[p].name /\ n \in Passed(p) /\ registry'[n] \in Defs
<1>1. Forwarded(p)
  BY DEF PubStep, Begun, Ended, Started, Looked, Marked, Rounded, Decided, Retained, Booked,
     Refused, Undone, Committed
<1>2. pub[p].name \in DOMAIN pub[p].table /\ pub[p].table[pub[p].name] \in Defs
      /\ pub[p].name \in Names
  BY <1>1, NamingFacts DEF Forwarded, Naming
<1>3. n = pub[p].name /\ registry'[n] \in Defs
  BY <1>1, <1>2 DEF Forwarded, BridgeTyped, TablesTyped
<1>4. Passed(p) = DOMAIN pub[p].table
  BY <1>1, PassedFacts DEF Forwarded, Placing
<1> QED BY <1>1, <1>2, <1>3, <1>4

LEMMA IntactFacts ==
  ASSUME BridgeTyped, NEW s \in Servers, NEW n, OursIntact(s, n)
  PROVE  n \in DOMAIN registered /\ registered[n].owner = s /\ registered[n].def = registry[n]
         /\ registry[n] \in Defs
BY StateFacts DEF OursIntact

LEMMA DefFacts == \A d \in Defs : d # "free" /\ d # "foreign"
BY McpBridgeAssumption

LEMMA ForeignStep ==
  ASSUME BridgeTyped, BridgeStep, ForeignApart, "race" \notin env
  PROVE  \A p \in Publishers : \A n \in Passed(p)' : registry'[n] # "foreign"
<1>1. \A p \in Publishers : \A n \in Passed(p) : registry[n] # "foreign"
  BY DEF ForeignApart
<1>2. CASE UNCHANGED bridgeVars
  BY <1>1, <1>2, PassedElsewhere DEF bridgeVars
<1>3. ASSUME NEW s \in Servers, Forgotten(s)
      PROVE  \A p \in Publishers : \A n \in Passed(p)' : registry'[n] # "foreign"
  BY <1>1, <1>3, PassedElsewhere DEF Forgotten
<1>4. ASSUME NEW x \in Names, Intruded(x)
      PROVE  \A p \in Publishers : \A n \in Passed(p)' : registry'[n] # "foreign"
  BY <1>4, PassedElsewhere, PassedFacts DEF Intruded
<1>5. ASSUME NEW p \in Publishers, PubStep(p), NEW q \in Publishers, NEW n \in Passed(q)'
      PROVE  registry'[n] # "foreign"
  <2>1. n \in Passed(q) \/ (q = p /\ NewlyPassed(p, n))
    <3>1. CASE q = p
      BY <1>5, <3>1, PassedStep DEF NewlyPassed
    <3>2. CASE q # p
      BY <1>5, <3>2, PassedElsewhere, PubAt
    <3> QED BY <3>1, <3>2
  <2>2. CASE n \in Passed(q)
    <3>1. n \in Names /\ registry[n] # "foreign"
      BY <1>1, <2>2, PassedFacts
    <3> QED BY <1>5, <3>1, RegistryStep, DefFacts
  <2>3. CASE NewlyPassed(p, n)
    <3>1. registry' = registry
      BY <2>3 DEF NewlyPassed
    <3>2. registry[n] = "free" \/ registry[n] \in Defs
      BY <2>3, IntactFacts, PublisherFacts DEF NewlyPassed
    <3> QED BY <3>1, <3>2, DefFacts
  <2> QED BY <2>1, <2>2, <2>3
<1> QED BY <1>2, <1>3, <1>4, <1>5 DEF BridgeStep

LEMMA OwnNamesApart ==
  \A s, o \in Servers : s # o => NamesOf(s) \cap NamesOf(o) = {}
BY McpServerAssumption DEF NamesOf

LEMMA OfferedNames ==
  ASSUME NEW m \in Mounts, NEW t \in Offers[m]
  PROVE  DOMAIN t \subseteq NamesOf(ServerOf[m])
<1>1. t \in Tables
  BY McpServerAssumption DEF IsPartial, Tables
<1> QED BY <1>1, TableFacts DEF NamesOf

LEMMA TableStep ==
  ASSUME NEW p \in Publishers, PubStep(p)
  PROVE  \/ pub'[p].table = pub[p].table
         \/ pub'[p].table = NoTable
         \/ Begun(p) /\ \E t \in Discovered(p[1]) : pub'[p].table = t
BY DEF PubStep, Begun, Ended, Started, Looked, Looks, Marked, Rounded, Decided, Decides,
     Retained, Forwarded, Booked, Refused, Undone, Committed, Goes

LEMMA OwnNamesStep ==
  ASSUME BridgeTyped, OwnNames, BridgeStep
  PROVE  OwnNames'
<1>1. SUFFICES ASSUME "clash" \notin env PROVE
        /\ \A s \in Servers : DOMAIN gens'[s] \subseteq NamesOf(s)
        /\ \A p \in Publishers : DOMAIN pub'[p].table \subseteq NamesOf(For(p))
  BY DEF OwnNames, BridgeStep, For, NamesOf
<1>2. /\ \A s \in Servers : DOMAIN gens[s] \subseteq NamesOf(s)
      /\ \A p \in Publishers : DOMAIN pub[p].table \subseteq NamesOf(For(p))
      /\ gens \in [Servers -> Tables]
  BY <1>1 DEF OwnNames, BridgeTyped, TablesTyped
<1>3. CASE UNCHANGED <<gens, pub>>
  BY <1>2, <1>3
<1>4. ASSUME NEW s \in Servers, Forgotten(s)
      PROVE  /\ \A o \in Servers : DOMAIN gens'[o] \subseteq NamesOf(o)
             /\ \A p \in Publishers : DOMAIN pub'[p].table \subseteq NamesOf(For(p))
  BY <1>2, <1>4, NoTableFacts DEF Forgotten
<1>5. ASSUME NEW p \in Publishers, PubStep(p)
      PROVE  /\ \A o \in Servers : DOMAIN gens'[o] \subseteq NamesOf(o)
             /\ \A q \in Publishers : DOMAIN pub'[q].table \subseteq NamesOf(For(q))
  <2>1. gens' = gens \/ gens' = [gens EXCEPT ![For(p)] = pub[p].table]
    BY <1>5, PubAt
  <2>2. \A o \in Servers : DOMAIN gens'[o] \subseteq NamesOf(o)
    BY <1>2, <2>1
  <2>3. DOMAIN pub'[p].table \subseteq NamesOf(For(p))
    <3>1. CASE pub'[p].table = pub[p].table \/ pub'[p].table = NoTable
      BY <1>2, <3>1, NoTableFacts
    <3>2. ASSUME NEW t \in Discovered(p[1]), pub'[p].table = t
          PROVE  DOMAIN pub'[p].table \subseteq NamesOf(For(p))
      <4>1. p[1] \in Mounts /\ t \in Offers[p[1]]
        BY <1>1, <3>2, PublisherFacts, DiscoveredFacts
      <4> QED BY <3>2, <4>1, OfferedNames DEF For
    <3> QED BY <1>5, <3>1, <3>2, TableStep
  <2>4. \A q \in Publishers : q # p => pub'[q] = pub[q]
    BY <1>5, PubAt
  <2> QED BY <1>2, <2>2, <2>3, <2>4
<1> QED BY <1>3, <1>4, <1>5 DEF BridgeStep, bridgeVars, Intruded, tables

(* Without clashes the names are apart because they are the servers' own.  *)
LEMMA OwnApart ==
  ASSUME BridgeTyped, OwnNames, "clash" \notin env
  PROVE  ServedOnce /\ PassedApart
<1>1. /\ \A s \in Servers : DOMAIN gens[s] \subseteq NamesOf(s)
      /\ \A p \in Publishers : DOMAIN pub[p].table \subseteq NamesOf(For(p)) /\ For(p) \in Servers
  BY PublisherFacts DEF OwnNames
<1>2. ServedOnce
  BY <1>1, OwnNamesApart DEF ServedOnce
<1>3. ASSUME NEW p \in Publishers, NEW o \in Servers, o # For(p), NEW n \in Passed(p) \cap DOMAIN gens[o]
      PROVE  FALSE
  <2>1. n \in NamesOf(For(p)) /\ n \in NamesOf(o)
    BY <1>1, <1>3, PassedFacts
  <2> QED BY <1>1, <1>3, <2>1, OwnNamesApart
<1>4. PassedApart
  BY <1>3 DEF PassedApart
<1> QED BY <1>2, <1>4

(* With clashes, because one publication is under way at a time.           *)
LEMMA ClashApart ==
  ASSUME BridgeTyped, BridgeStep, ServedOnce, PassedApart, OneInProgress, "overlap" \notin env
  PROVE  ServedOnce' /\ PassedApart'
<1>1. gens \in [Servers -> Tables] /\ \A p \in Publishers : For(p)' = For(p) /\ For(p) \in Servers
  BY PublisherFacts DEF BridgeTyped, TablesTyped, For
<1>2. ASSUME UNCHANGED <<gens, pub>> PROVE ServedOnce' /\ PassedApart'
  BY <1>1, <1>2, PassedElsewhere DEF ServedOnce, PassedApart
<1>3. ASSUME NEW s \in Servers, Forgotten(s) PROVE ServedOnce' /\ PassedApart'
  <2>1. \A o \in Servers : DOMAIN gens'[o] \subseteq DOMAIN gens[o]
    BY <1>1, <1>3, NoTableFacts DEF Forgotten
  <2>2. \A q \in Publishers : Passed(q)' = Passed(q)
    BY <1>3, PassedElsewhere DEF Forgotten
  <2>3. ServedOnce'
    BY <2>1 DEF ServedOnce
  <2>4. PassedApart'
    BY <1>1, <2>1, <2>2 DEF PassedApart
  <2> QED BY <2>3, <2>4
<1>4. ASSUME NEW p \in Publishers, PubStep(p), gens' = gens PROVE ServedOnce' /\ PassedApart'
  <2>1. ServedOnce'
    BY <1>4 DEF ServedOnce
  <2>2. PassedApart'
    <3> SUFFICES ASSUME NEW q \in Publishers, NEW o \in Servers, o # For(q), NEW n \in Passed(q)'
                 PROVE  n \notin DOMAIN gens[o]
      BY <1>1, <1>4 DEF PassedApart
    <3>1. CASE n \in Passed(q)
      BY <3>1 DEF PassedApart
    <3>2. CASE n \notin Passed(q)
      <4>1. q = p
        BY <1>4, <3>2, PubAt, PassedElsewhere
      <4>2. NewlyPassed(p, n)
        BY <1>4, <3>2, <4>1, PassedStep DEF NewlyPassed
      <4> QED BY <4>1, <4>2 DEF NewlyPassed, TakenByServer
    <3> QED BY <3>1, <3>2
  <2> QED BY <2>1, <2>2
<1>5. ASSUME NEW p \in Publishers, Committed(p) PROVE ServedOnce' /\ PassedApart'
  <2>1. gens' = [gens EXCEPT ![For(p)] = pub[p].table] /\ Passed(p) = DOMAIN pub[p].table
        /\ InProgress(p)
    BY <1>5, PassedFacts DEF Committed, Placing, InProgress
  <2>2. \A o \in Servers : o # For(p) => DOMAIN pub[p].table \cap DOMAIN gens[o] = {}
    BY <2>1 DEF PassedApart
  <2>3. ServedOnce'
    BY <1>1, <2>1, <2>2 DEF ServedOnce
  <2>4. ASSUME NEW q \in Publishers PROVE Passed(q)' = {}
    <3>1. CASE q = p
      BY <1>5, <3>1 DEF Committed, Goes, Passed, Placing
    <3>2. CASE q # p
      <4>1. ~ InProgress(q)
        BY <2>1, <3>2 DEF OneInProgress
      <4>2. Passed(q) = {}
        BY <4>1, PassedFacts
      <4> QED BY <1>5, <3>2, <4>2, PassedElsewhere DEF Committed, Goes
    <3> QED BY <3>1, <3>2
  <2>5. PassedApart'
    BY <2>4 DEF PassedApart
  <2> QED BY <2>3, <2>5
<1>6. ASSUME NEW p \in Publishers, PubStep(p) PROVE ServedOnce' /\ PassedApart'
  <2>1. gens' = gens \/ Committed(p)
    BY <1>6 DEF PubStep, Begun, Ended, Started, Looked, Marked, Rounded, Decided, Retained,
         Forwarded, Booked, Refused, Undone, tables
  <2> QED BY <1>4, <1>5, <1>6, <2>1
<1> QED BY <1>2, <1>3, <1>6 DEF BridgeStep, bridgeVars, Intruded, tables

LEMMA ServedStep ==
  ASSUME BridgeTyped, BridgeTyped', BridgeStep, OwnNames, OwnNames', ServedApart, SettledLife
  PROVE  ServedApart'
<1>1. env' = env
  BY DEF BridgeStep
<1> SUFFICES ASSUME ~ Crossing PROVE ServedOnce' /\ PassedApart'
  BY <1>1 DEF ServedApart, Crossing
<1>2. CASE "clash" \notin env
  <2>1. BridgeTyped /\ OwnNames /\ "clash" \notin env => ServedOnce /\ PassedApart
    BY OwnApart
  <2>2. (BridgeTyped /\ OwnNames /\ "clash" \notin env)' => (ServedOnce /\ PassedApart)'
    BY OwnApart, PTL
  <2> QED BY <1>1, <1>2, <2>2
<1>3. CASE "clash" \in env
  <2>1. "race" \notin env /\ "overlap" \notin env
    BY <1>3 DEF Crossing
  <2>2. OneInProgress /\ ServedOnce /\ PassedApart
    BY <2>1 DEF SettledLife, ServedApart
  <2> QED BY <2>1, <2>2, ClashApart
<1> QED BY <1>2, <1>3
----------------------------------------------------------------------------
(* Descriptions.                                                           *)

(* Of two publications under way, one name is only one's.                  *)
LEMMA NameOfOne ==
  ASSUME ~ Crossing, OwnNames, OnePublication, OneInProgress,
         NEW p \in Publishers, NEW q \in Publishers, p # q, InProgress(p), InProgress(q),
         NEW n \in DOMAIN pub[p].table \cap DOMAIN pub[q].table
  PROVE  FALSE
<1>1. "overlap" \in env
  BY DEF OneInProgress
<1>2. "clash" \notin env
  BY <1>1 DEF Crossing
<1>3. For(p) # For(q) /\ For(p) \in Servers /\ For(q) \in Servers
  BY PublisherFacts DEF OnePublication, InProgress
<1>4. n \in NamesOf(For(p)) /\ n \in NamesOf(For(q))
  BY <1>2 DEF OwnNames
<1> QED BY <1>3, <1>4, OwnNamesApart

LEMMA HandledFacts ==
  ASSUME BridgeTyped, NEW p \in Publishers
  PROVE  /\ Handled(p) \subseteq Passed(p) /\ Handled(p) \subseteq DOMAIN pub[p].table
         /\ pub[p].at \in {"idle", "start", "check", "theft", "ok", "err"} => Handled(p) = {}
<1>1. pub[p].at \in {"idle", "start", "check", "theft", "ok", "err"} => pub[p].at \notin Placing
  BY DEF Placing
<1> QED BY <1>1, PassedFacts DEF Handled

Less(f, g) == DOMAIN f \subseteq DOMAIN g /\ \A n \in DOMAIN f : f[n] = g[n]

LEMMA FreshElsewhere ==
  ASSUME NEW q \in Publishers, FreshAt(q), pub'[q] = pub[q],
         UNCHANGED <<registry, gens, registered>>, Less(orphans', orphans)
  PROVE  FreshAt(q)'
<1>1. Passed(q)' = Passed(q) /\ Handled(q)' = Handled(q) /\ (InProgress(q)' <=> InProgress(q))
      /\ For(q)' = For(q)
  BY DEF Passed, Handled, InProgress, For
<1>2. \A n : Mine(q, n)' <=> Mine(q, n)
  BY <1>1 DEF Mine
<1>3. OrphansAgree(q) => OrphansAgree(q)'
  BY <1>1 DEF OrphansAgree, Less
<1> QED BY <1>1, <1>2, <1>3 DEF FreshAt

LEMMA FreshEnds ==
  ASSUME NEW p \in Publishers, pub'[p].at \in {"idle", "ok", "err"}
  PROVE  FreshAt(p)'
<1>1. (Passed(p) = {})' /\ (Handled(p) = {})' /\ ~ InProgress(p)'
  BY DEF Passed, Handled, Placing, InProgress
<1> QED BY <1>1 DEF FreshAt

(* A step that registers and commits nothing.                              *)
LEMMA FreshQuiet ==
  ASSUME RegisteredIsThere, ServedIsRegistered, \A q \in Publishers : FreshAt(q),
         NEW p \in Publishers, \A q \in Publishers : q # p => pub'[q] = pub[q],
         UNCHANGED <<registry, gens, registered>>, Less(orphans', orphans),
         pub[p].at # "book", Handled(p) \subseteq Handled(p)', FreshAt(p)'
  PROVE  (RegisteredIsThere /\ ServedIsRegistered /\ \A q \in Publishers : FreshAt(q))'
<1>1. \A q \in Publishers : FreshAt(q)'
  BY FreshElsewhere
<1>2. RegisteredIsThere'
  BY DEF RegisteredIsThere
<1>3. \A q \in Publishers : Handled(q) \subseteq Handled(q)' /\ For(q)' = For(q)
  BY DEF Handled, For
<1>4. ServedIsRegistered'
  BY <1>3 DEF ServedIsRegistered
<1> QED BY <1>1, <1>2, <1>4

(* The publication that steps stays fresh.                                 *)
LEMMA FreshBegins ==
  ASSUME BridgeTyped, Plain, NEW p \in Publishers, Begun(p)
  PROVE  FreshAt(p)'
<1>1. PICK t \in Discovered(p[1]) : Goes(p, "start", t, NoTable, {}, {}, "none")
  BY DEF Begun
<1>2. \A n \in DOMAIN t \cap DOMAIN orphans : n \in DOMAIN registered => t[n] = registered[n].def
  BY DiscoveredFacts, PublisherFacts DEF Plain
<1>3. pub'[p].at = "start" /\ pub'[p].table = t /\ orphans' = orphans /\ registered' = registered
  BY <1>1 DEF Goes, Begun, tables
<1>4. OrphansAgree(p)'
  BY <1>2, <1>3 DEF OrphansAgree
<1>5. (Passed(p) = {})' /\ (Handled(p) = {})' /\ ~ InProgress(p)'
  BY <1>3 DEF Passed, Handled, Placing, InProgress
<1> QED BY <1>3, <1>4, <1>5 DEF FreshAt

LEMMA FreshStarts ==
  ASSUME BridgeTyped, NEW p \in Publishers, FreshAt(p), Started(p)
  PROVE  FreshAt(p)'
<1>1. CASE Goes(p, "err", NoTable, NoTable, {}, {}, "none")
  BY <1>1, FreshEnds DEF Goes
<1>2. CASE Goes(p, "check", pub[p].table, gens[For(p)], DOMAIN pub[p].table, pub[p].added, pub[p].name)
  <2>1. /\ pub'[p].at = "check" /\ pub'[p].table = pub[p].table /\ pub'[p].prev = gens[For(p)]
        /\ pub'[p].todo = DOMAIN pub[p].table /\ pub[p].at = "start"
        /\ UNCHANGED <<registry, gens, registered, orphans>> /\ For(p)' = For(p)
    BY <1>2 DEF Goes, Started, tables, For
  <2>2. (Passed(p) = {})' /\ (Handled(p) = {})'
    BY <2>1 DEF Passed, Handled, Placing
  <2>3. OrphansAgree(p)'
    BY <2>1 DEF OrphansAgree, FreshAt
  <2> QED BY <2>1, <2>2, <2>3 DEF FreshAt
<1> QED BY <1>1, <1>2 DEF Started

(* One that goes on with its table and its previous generation.            *)
LEMMA FreshGoes ==
  ASSUME NEW p \in Publishers, FreshAt(p), InProgress(p),
         pub'[p].table = pub[p].table, pub'[p].prev = pub[p].prev,
         UNCHANGED <<registry, gens, registered>>, Less(orphans', orphans),
         \A n \in Handled(p)' : n \in Handled(p) \/ Mine(p, n),
         \A n \in Passed(p)' \cap DOMAIN registered : n \in Passed(p) \/ registered[n].owner = For(p),
         pub'[p].at \in {"skip", "adopt"} => Mine(p, pub'[p].name),
         pub'[p].at # "book"
  PROVE  FreshAt(p)'
<1>1. For(p)' = For(p) /\ pub[p].at \notin {"idle", "ok", "err"}
  BY DEF For, InProgress
<1>2. \A n : Mine(p, n)' <=> Mine(p, n)
  BY <1>1 DEF Mine
<1>3. OrphansAgree(p)'
  BY <1>1 DEF OrphansAgree, Less, FreshAt
<1> QED BY <1>1, <1>2, <1>3 DEF FreshAt

LEMMA FreshLooks ==
  ASSUME BridgeTyped, Plain, RegisteredIsThere, NEW p \in Publishers, \A q \in Publishers : FreshAt(q),
         Looked(p)
  PROVE  FreshAt(p)'
<1>1. PICK n \in pub[p].todo : Looks(p, n)
  BY DEF Looked
<1>2. pub[p].at = "check" /\ InProgress(p) /\ UNCHANGED <<registry, gens, registered, orphans>>
  BY <1>1 DEF Looks, InProgress, Looked, tables
<1>3. CASE Goes(p, "err", NoTable, NoTable, {}, {}, "none")
  BY <1>3, FreshEnds DEF Goes
<1>4. CASE Goes(p, "theft", pub[p].table, pub[p].prev, pub[p].todo, pub[p].added, n)
  <2>1. (Passed(p) = {})' /\ (Handled(p) = {})'
    BY <1>4 DEF Goes, Passed, Handled, Placing
  <2> QED BY <1>2, <1>4, <2>1, FreshGoes DEF Goes, Less
<1>5. CASE /\ registry[n] = "free" \/ OursIntact(For(p), n)
           /\ Goes(p, "check", pub[p].table, pub[p].prev, pub[p].todo \ {n}, pub[p].added, pub[p].name)
  <2>1. Passed(p)' \subseteq Passed(p) \cup {n} /\ (Handled(p) = {})'
    BY <1>2, <1>5 DEF Goes, Passed, Handled, Placing
  <2>2. n \in DOMAIN registered => registered[n].owner = For(p)
    <3>1. CASE OursIntact(For(p), n)
      BY <3>1, PublisherFacts, IntactFacts
    <3>2. CASE registry[n] = "free" /\ n \in DOMAIN registered
      <4>1. registered[n].def \in Defs
        BY <3>2, StateFacts
      <4>2. PICK q \in Publishers : pub[q].at = "book" /\ pub[q].name = n
        BY <3>2, <4>1, DefFacts DEF RegisteredIsThere
      <4>3. registry[n] = pub[q].table[n] /\ pub[q].table[n] \in Defs
        BY <4>2, NamingFacts DEF FreshAt, Naming
      <4> QED BY <3>2, <4>3, DefFacts
    <3> QED BY <1>5, <3>1, <3>2
  <2> QED BY <1>2, <1>5, <2>1, <2>2, FreshGoes DEF Goes, Less
<1> QED BY <1>1, <1>3, <1>4, <1>5 DEF Looks

LEMMA FreshRounds ==
  ASSUME BridgeTyped, NEW p \in Publishers, FreshAt(p), Rounded(p)
  PROVE  FreshAt(p)'
<1>1. /\ pub[p].at = "check" /\ InProgress(p) /\ UNCHANGED <<registry, gens, registered, orphans>>
      /\ pub'[p].at = "decide" /\ pub'[p].table = pub[p].table /\ pub'[p].prev = pub[p].prev
      /\ pub'[p].todo = DOMAIN pub[p].table /\ pub[p].todo = {}
  BY DEF Rounded, Goes, tables, InProgress
<1>2. (Handled(p) = {})' /\ Passed(p)' = Passed(p)
  BY <1>1 DEF Handled, Passed, Placing
<1> QED BY <1>1, <1>2, FreshGoes DEF Less

LEMMA FreshDecides ==
  ASSUME BridgeTyped, ServedIsRegistered, OnePublication, NEW p \in Publishers, FreshAt(p), Decided(p)
  PROVE  FreshAt(p)' /\ Handled(p)' = Handled(p)
<1>1. PICK n \in pub[p].todo, how \in {"skip", "adopt", "register"} :
        /\ Goes(p, how, pub[p].table, pub[p].prev, pub[p].todo, pub[p].added, n)
        /\ how = "skip" => Skips(p, n)
        /\ how = "adopt" => Adopts(p, n)
        /\ pub[p].at = "decide"
  BY DEF Decided, Decides
<1>2. InProgress(p) /\ UNCHANGED <<registry, gens, registered, orphans>>
  BY <1>1 DEF InProgress, Decided, tables
<1>3. Handled(p)' = Handled(p) /\ Passed(p)' = Passed(p)
  BY <1>1 DEF Goes, Handled, Passed, Placing
<1>4. n \in DOMAIN pub[p].table /\ n \notin Handled(p) /\ For(p) \in Servers /\ n \in Passed(p)
  BY <1>1, PublicationFacts, PublisherFacts, PassedFacts DEF Handled, Placing
<1>5. ASSUME Skips(p, n) PROVE Mine(p, n)
  <2>1. CASE n \in DOMAIN pub[p].prev
    <3>1. pub[p].prev = gens[For(p)]
      BY <1>2 DEF FreshAt
    <3>2. gens[For(p)][n] = pub[p].table[n]
      BY <1>5, <2>1, <3>1 DEF Skips, Placed
    <3>3. ~ \E q \in Publishers : For(q) = For(p) /\ n \in Handled(q)
      <4> SUFFICES ASSUME NEW q \in Publishers, For(q) = For(p), n \in Handled(q) PROVE FALSE
        OBVIOUS
      <4>1. pub[q].at # "idle" /\ pub[p].at # "idle"
        BY <1>1, HandledFacts
      <4>2. p = q
        BY <4>1 DEF OnePublication
      <4> QED BY <1>4, <4>2
    <3>4. n \in DOMAIN registered /\ registered[n].owner = For(p) /\ registered[n].def = pub[p].table[n]
      BY <1>4, <2>1, <3>1, <3>2, <3>3 DEF ServedIsRegistered
    <3>5. registered[n] \in Owned
      BY <3>4, StateFacts
    <3> QED BY <3>4, <3>5 DEF Mine, Owned
  <2>2. CASE n \notin DOMAIN pub[p].prev
    <3>1. {registered[x].def : x \in {y \in DOMAIN registered \cap {n} : registered[y].owner = For(p)}}
            = {pub[p].table[n]}
      BY <1>5, <2>2 DEF Skips, Placed
    <3>2. n \in DOMAIN registered /\ registered[n].owner = For(p) /\ registered[n].def = pub[p].table[n]
      BY <3>1
    <3>3. registered[n] \in Owned
      BY <3>2, StateFacts
    <3> QED BY <3>2, <3>3 DEF Mine, Owned
  <2> QED BY <2>1, <2>2
<1>6. ASSUME Adopts(p, n) PROVE Mine(p, n)
  <2>1. n \in DOMAIN orphans /\ orphans[n] = For(p) /\ n \in DOMAIN registered /\ registered[n].owner = For(p)
    BY <1>4, <1>6, IntactFacts DEF Adopts
  <2>2. pub[p].table[n] = registered[n].def
    BY <1>1, <1>4, <2>1 DEF FreshAt, OrphansAgree
  <2>3. registered[n] \in Owned
    BY <2>1, StateFacts
  <2> QED BY <2>1, <2>2, <2>3 DEF Mine, Owned
<1>7. FreshAt(p)'
  <2>1. pub'[p].at = how /\ pub'[p].name = n /\ pub'[p].table = pub[p].table /\ pub'[p].prev = pub[p].prev
    BY <1>1 DEF Goes
  <2>2. how \in {"skip", "adopt"} => Mine(p, n)
    BY <1>1, <1>5, <1>6
  <2>3. how # "book"
    BY <1>1
  <2> QED BY <1>2, <1>3, <2>1, <2>2, <2>3, FreshGoes DEF Less
<1> QED BY <1>3, <1>7

LEMMA FreshRetains ==
  ASSUME BridgeTyped, NEW p \in Publishers, FreshAt(p), Retained(p)
  PROVE  FreshAt(p)' /\ Handled(p) \subseteq Handled(p)'
<1>1. /\ pub[p].at \in {"skip", "adopt"} /\ InProgress(p) /\ UNCHANGED <<registry, gens, registered>>
      /\ pub'[p].at = "decide" /\ pub'[p].table = pub[p].table /\ pub'[p].prev = pub[p].prev
      /\ pub'[p].todo = pub[p].todo \ {pub[p].name} /\ Less(orphans', orphans)
  BY DEF Retained, Goes, InProgress, Less
<1>2. Handled(p)' \subseteq Handled(p) \cup {pub[p].name} /\ Handled(p) \subseteq Handled(p)'
      /\ Passed(p)' = Passed(p)
  BY <1>1 DEF Handled, Passed, Placing
<1>3. Mine(p, pub[p].name)
  BY <1>1 DEF FreshAt
<1>4. FreshAt(p)'
  BY <1>1, <1>2, <1>3, FreshGoes
<1> QED BY <1>2, <1>4

AllFresh == RegisteredIsThere /\ ServedIsRegistered /\ \A p \in Publishers : FreshAt(p)

LEMMA FreshForwards ==
  ASSUME BridgeTyped, Plain, OwnNames, OnePublication, OneInProgress, AllFresh,
         NEW p \in Publishers, Forwarded(p)
  PROVE  AllFresh'
<1> DEFINE x == pub[p].name
<1>1. /\ pub[p].at = "register" /\ InProgress(p) /\ UNCHANGED <<gens, registered, orphans>>
      /\ \A q \in Publishers : q # p => pub'[q] = pub[q]
      /\ pub'[p].at = "book" /\ pub'[p].table = pub[p].table /\ pub'[p].prev = pub[p].prev
      /\ pub'[p].todo = pub[p].todo /\ pub'[p].name = x
  BY DEF Forwarded, Goes, InProgress, tables
<1>2. x \in DOMAIN pub[p].table /\ x \in Names
  BY <1>1, NamingFacts DEF Naming
<1>3. registry'[x] = pub[p].table[x] /\ \A n \in Names : n # x => registry'[n] = registry[n]
  BY <1>2 DEF Forwarded, BridgeTyped, TablesTyped
<1> HIDE DEF x
<1>4. \A q \in Publishers : For(q)' = For(q) /\ Handled(q)' = Handled(q) /\ Passed(q)' = Passed(q)
                            /\ (InProgress(q)' <=> InProgress(q))
  BY <1>1 DEF For, Handled, Passed, Placing, InProgress
<1>5. RegisteredIsThere'
  <2> SUFFICES ASSUME NEW n \in DOMAIN registered
               PROVE  registry'[n] = registered[n].def
                      \/ \E q \in Publishers : pub'[q].at = "book" /\ pub'[q].name = n
    BY <1>1 DEF RegisteredIsThere
  <2>1. CASE n = x
    BY <1>1, <2>1
  <2>2. CASE n # x
    <3>1. registry'[n] = registry[n]
      BY <1>3, <2>2, StateFacts
    <3>2. CASE registry[n] = registered[n].def
      BY <3>1, <3>2
    <3>3. ASSUME NEW q \in Publishers, pub[q].at = "book", pub[q].name = n
          PROVE  pub'[q].at = "book" /\ pub'[q].name = n
      BY <1>1, <3>3
    <3> QED BY <3>2, <3>3 DEF AllFresh, RegisteredIsThere
  <2> QED BY <2>1, <2>2
<1>6. ServedIsRegistered'
  BY <1>1, <1>4 DEF AllFresh, ServedIsRegistered
<1>7. FreshAt(p)'
  <2>1. FreshAt(p)
    BY DEF AllFresh
  <2>2. \A n : Mine(p, n)' <=> Mine(p, n)
    BY <1>1, <1>4 DEF Mine
  <2>3. OrphansAgree(p)' <=> OrphansAgree(p)
    BY <1>1, <1>4 DEF OrphansAgree
  <2> QED BY <1>1, <1>3, <1>4, <2>1, <2>2, <2>3 DEF FreshAt
<1>8. ASSUME NEW q \in Publishers, q # p PROVE FreshAt(q)'
  <2>1. FreshAt(q) /\ pub'[q] = pub[q]
    BY <1>1, <1>8 DEF AllFresh
  <2>2. \A n : Mine(q, n)' <=> Mine(q, n)
    BY <1>1, <1>4, <2>1 DEF Mine
  <2>3. OrphansAgree(q)' <=> OrphansAgree(q)
    BY <1>1, <1>4, <2>1 DEF OrphansAgree
  <2>4. ASSUME pub[q].at = "book" PROVE registry'[pub[q].name] = registry[pub[q].name]
    <3>1. pub[q].name \in DOMAIN pub[q].table /\ pub[q].name \in Names /\ InProgress(q)
      BY <2>4, NamingFacts DEF Naming, InProgress
    <3>2. pub[q].name # x
      BY <1>1, <1>2, <1>8, <3>1, NameOfOne DEF Plain
    <3> QED BY <1>3, <3>1, <3>2
  <2> QED BY <1>1, <1>4, <2>1, <2>2, <2>3, <2>4 DEF FreshAt
<1> QED BY <1>5, <1>6, <1>7, <1>8 DEF AllFresh

LEMMA FreshBooks ==
  ASSUME BridgeTyped, Plain, OwnNames, OnePublication, OneInProgress, PassedApart, AllFresh,
         NEW p \in Publishers, Booked(p)
  PROVE  AllFresh'
<1> DEFINE x == pub[p].name
<1>1. /\ pub[p].at = "book" /\ InProgress(p) /\ UNCHANGED <<registry, gens, orphans>>
      /\ \A q \in Publishers : q # p => pub'[q] = pub[q]
      /\ pub'[p].at = "decide" /\ pub'[p].table = pub[p].table /\ pub'[p].prev = pub[p].prev
      /\ pub'[p].todo = pub[p].todo \ {x}
      /\ DOMAIN registered' = DOMAIN registered \cup {x}
      /\ registered'[x] = [owner |-> For(p), def |-> pub[p].table[x]]
      /\ \A n \in DOMAIN registered : n # x => registered'[n] = registered[n]
  BY DEF Booked, Goes, InProgress
<1>2. x \in DOMAIN pub[p].table /\ x \in Names /\ registry[x] = pub[p].table[x]
  BY <1>1, NamingFacts DEF Naming, AllFresh, FreshAt
<1>3. registered'[x].owner = For(p) /\ registered'[x].def = pub[p].table[x]
  BY <1>1
<1> HIDE DEF x
<1>4. \A q \in Publishers : For(q)' = For(q) /\ Handled(q) \subseteq Handled(q)' /\ Passed(q)' = Passed(q)
                            /\ (InProgress(q)' <=> InProgress(q)) /\ For(q) \in Servers
  BY <1>1, PublisherFacts DEF For, Handled, Passed, Placing, InProgress
<1>5. Handled(p)' \subseteq Handled(p) \cup {x} /\ x \in Handled(p)' /\ x \in Passed(p)
  BY <1>1, <1>2 DEF Handled, Passed, Placing
<1>6. RegisteredIsThere'
  <2> SUFFICES ASSUME NEW n \in DOMAIN registered'
               PROVE  registry[n] = registered'[n].def
                      \/ \E q \in Publishers : pub'[q].at = "book" /\ pub'[q].name = n
    BY <1>1 DEF RegisteredIsThere
  <2>1. CASE n = x
    BY <1>2, <1>3, <2>1
  <2>2. CASE n # x
    <3>1. n \in DOMAIN registered /\ registered'[n] = registered[n]
      BY <1>1, <2>2
    <3>2. ASSUME NEW q \in Publishers, pub[q].at = "book", pub[q].name = n
          PROVE  pub'[q].at = "book" /\ pub'[q].name = n
      BY <1>1, <2>2, <3>2 DEF x
    <3> QED BY <3>1, <3>2 DEF AllFresh, RegisteredIsThere
  <2> QED BY <2>1, <2>2
<1>7. ServedIsRegistered'
  <2> SUFFICES ASSUME NEW s \in Servers, NEW n \in DOMAIN gens[s]
               PROVE  /\ n \in DOMAIN registered' /\ registered'[n].owner = s
                      /\ registered'[n].def = gens[s][n]
                         \/ \E q \in Publishers : For(q) = s /\ n \in Handled(q)'
    BY <1>1, <1>4 DEF ServedIsRegistered
  <2>1. CASE n = x
    <3>1. s = For(p)
      BY <1>4, <1>5, <2>1 DEF PassedApart
    <3> QED BY <1>1, <1>3, <1>5, <2>1, <3>1
  <2>2. CASE n # x
    <3>1. /\ n \in DOMAIN registered /\ registered[n].owner = s
          /\ registered[n].def = gens[s][n] \/ \E q \in Publishers : For(q) = s /\ n \in Handled(q)
      BY DEF AllFresh, ServedIsRegistered
    <3> QED BY <1>1, <1>4, <2>2, <3>1
  <2> QED BY <2>1, <2>2
<1>8. FreshAt(p)'
  <2>1. FreshAt(p)
    BY DEF AllFresh
  <2>2. ASSUME NEW n \in Handled(p)' PROVE Mine(p, n)'
    <3>1. CASE n = x
      BY <1>1, <1>4, <3>1 DEF Mine
    <3>2. CASE n # x
      <4>1. Mine(p, n)
        BY <1>5, <2>1, <2>2, <3>2 DEF FreshAt
      <4> QED BY <1>1, <1>4, <3>2, <4>1 DEF Mine
    <3> QED BY <3>1, <3>2
  <2>3. OrphansAgree(p)'
    <3>1. OrphansAgree(p)
      BY <1>1, <2>1 DEF FreshAt
    <3> QED BY <1>1, <1>3, <1>4, <3>1 DEF OrphansAgree
  <2>4. \A n \in Passed(p)' \cap DOMAIN registered' : registered'[n].owner = For(p)'
    BY <1>1, <1>3, <1>4, <2>1 DEF FreshAt
  <2> QED BY <1>1, <1>4, <2>1, <2>2, <2>3, <2>4 DEF FreshAt
<1>9. ASSUME NEW q \in Publishers, q # p PROVE FreshAt(q)'
  <2>1. FreshAt(q) /\ pub'[q] = pub[q] /\ Handled(q)' = Handled(q)
    BY <1>1, <1>9 DEF AllFresh, Handled
  <2>2. InProgress(q) => x \notin DOMAIN pub[q].table
    BY <1>1, <1>2, <1>9, NameOfOne DEF Plain
  <2>3. x \notin Passed(q) /\ x \notin Handled(q)
    BY <2>2, PassedFacts, HandledFacts
  <2>4. \A n : n # x => (Mine(q, n) => Mine(q, n)')
    BY <1>1, <1>4, <2>1 DEF Mine
  <2>5. pub[q].at \in {"skip", "adopt"} => Mine(q, pub[q].name)'
    <3> SUFFICES ASSUME pub[q].at \in {"skip", "adopt"} PROVE Mine(q, pub[q].name)'
      OBVIOUS
    <3>1. pub[q].name \in DOMAIN pub[q].table /\ InProgress(q)
      BY NamingFacts DEF Naming, InProgress
    <3>2. Mine(q, pub[q].name)
      BY <2>1 DEF FreshAt
    <3> QED BY <2>2, <2>4, <3>1, <3>2, <2>1
  <2>6. pub[q].at \notin {"idle", "ok", "err"} => OrphansAgree(q)'
    <3> SUFFICES ASSUME pub[q].at \notin {"idle", "ok", "err"} PROVE OrphansAgree(q)'
      OBVIOUS
    <3>1. OrphansAgree(q)
      BY <2>1 DEF FreshAt
    <3>2. For(q) # For(p)
      BY <1>1, <1>9 DEF OnePublication
    <3> QED BY <1>1, <1>3, <1>4, <2>1, <3>1, <3>2 DEF OrphansAgree
  <2>7. \A n \in Passed(q)' \cap DOMAIN registered' : registered'[n].owner = For(q)'
    BY <1>1, <1>4, <2>1, <2>3 DEF FreshAt
  <2>8. \A n \in Handled(q)' : Mine(q, n)'
    BY <2>1, <2>3, <2>4 DEF FreshAt
  <2>9. (pub'[q].at \in {"skip", "adopt"} => Mine(q, pub[q].name)')
        /\ (pub'[q].at = "book" => registry'[pub'[q].name] = pub'[q].table[pub'[q].name])
    BY <1>1, <2>1, <2>5 DEF FreshAt
  <2>10. InProgress(q)' => pub'[q].prev = gens'[For(q)']
    BY <1>1, <1>4, <2>1 DEF FreshAt
  <2> QED BY <2>1, <2>6, <2>7, <2>8, <2>9, <2>10 DEF FreshAt
<1> QED BY <1>6, <1>7, <1>8, <1>9 DEF AllFresh

LEMMA FreshCommits ==
  ASSUME BridgeTyped, OnePublication, AllFresh, NEW p \in Publishers, Committed(p)
  PROVE  AllFresh'
<1>1. /\ pub[p].at = "decide" /\ pub[p].todo = {} /\ InProgress(p) /\ UNCHANGED <<registry, registered>>
      /\ \A q \in Publishers : q # p => pub'[q] = pub[q]
      /\ pub'[p].at = "ok" /\ gens' = [gens EXCEPT ![For(p)] = pub[p].table]
      /\ \A n \in DOMAIN orphans' : orphans'[n] = For(p) \/ (n \in DOMAIN orphans /\ orphans'[n] = orphans[n])
  BY DEF Committed, Goes, InProgress
<1>2. gens \in [Servers -> Tables] /\ For(p) \in Servers
  BY PublisherFacts DEF BridgeTyped, TablesTyped
<1>3. Handled(p) = DOMAIN pub[p].table
  BY <1>1 DEF Handled, Placing
<1>4. \A n \in DOMAIN pub[p].table : n \in DOMAIN registered /\ registered[n] = [owner |-> For(p), def |-> pub[p].table[n]]
  BY <1>3 DEF AllFresh, FreshAt, Mine
<1>5. \A q \in Publishers : q # p /\ pub[q].at # "idle" => For(q) # For(p)
  BY <1>1 DEF OnePublication
<1>6. \A q \in Publishers : For(q)' = For(q) /\ (q # p => /\ Handled(q)' = Handled(q) /\ Passed(q)' = Passed(q)
                                                          /\ (InProgress(q)' <=> InProgress(q)))
  BY <1>1 DEF For, Handled, Passed, InProgress
<1>7. RegisteredIsThere'
  <2> SUFFICES ASSUME NEW n \in DOMAIN registered
               PROVE  registry[n] = registered[n].def
                      \/ \E q \in Publishers : pub'[q].at = "book" /\ pub'[q].name = n
    BY <1>1 DEF RegisteredIsThere
  <2>1. ASSUME NEW q \in Publishers, pub[q].at = "book", pub[q].name = n
        PROVE  pub'[q].at = "book" /\ pub'[q].name = n
    BY <1>1, <2>1
  <2> QED BY <2>1 DEF AllFresh, RegisteredIsThere
<1>8. ServedIsRegistered'
  <2> SUFFICES ASSUME NEW s \in Servers, NEW n \in DOMAIN gens'[s]
               PROVE  /\ n \in DOMAIN registered /\ registered[n].owner = s
                      /\ registered[n].def = gens'[s][n]
                         \/ \E q \in Publishers : For(q) = s /\ n \in Handled(q)'
    BY <1>1, <1>6 DEF ServedIsRegistered
  <2>1. CASE s = For(p)
    <3>1. gens'[s] = pub[p].table
      BY <1>1, <1>2, <2>1
    <3>2. n \in DOMAIN registered /\ registered[n] = [owner |-> For(p), def |-> gens'[s][n]]
      BY <1>4, <3>1
    <3>3. registered[n].owner = For(p) /\ registered[n].def = gens'[s][n]
      BY <3>2
    <3> QED BY <2>1, <3>2, <3>3
  <2>2. CASE s # For(p)
    <3>1. gens'[s] = gens[s]
      BY <1>1, <1>2, <2>2
    <3>2. /\ n \in DOMAIN registered /\ registered[n].owner = s
          /\ registered[n].def = gens[s][n] \/ \E q \in Publishers : For(q) = s /\ n \in Handled(q)
      BY <3>1 DEF AllFresh, ServedIsRegistered
    <3>3. \A q \in Publishers : For(q) = s => Handled(q)' = Handled(q)
      BY <1>6, <2>2
    <3> QED BY <3>1, <3>2, <3>3
  <2> QED BY <2>1, <2>2
<1>9. FreshAt(p)'
  BY <1>1, FreshEnds
<1>10. ASSUME NEW q \in Publishers, q # p PROVE FreshAt(q)'
  <2>1. FreshAt(q) /\ pub'[q] = pub[q]
    BY <1>1, <1>10 DEF AllFresh
  <2>2. \A n : Mine(q, n)' <=> Mine(q, n)
    BY <1>1, <1>6, <2>1 DEF Mine
  <2>3. InProgress(q) => gens'[For(q)] = gens[For(q)]
    BY <1>1, <1>2, <1>5, <1>10, PublisherFacts DEF InProgress
  <2>4. pub[q].at \notin {"idle", "ok", "err"} => OrphansAgree(q)'
    <3> SUFFICES ASSUME pub[q].at \notin {"idle", "ok", "err"} PROVE OrphansAgree(q)'
      OBVIOUS
    <3>1. OrphansAgree(q) /\ For(q) # For(p)
      BY <1>5, <1>10, <2>1 DEF FreshAt
    <3> QED BY <1>1, <1>6, <2>1, <3>1 DEF OrphansAgree
  <2> QED BY <1>1, <1>6, <1>10, <2>1, <2>2, <2>3, <2>4 DEF FreshAt
<1> QED BY <1>7, <1>8, <1>9, <1>10 DEF AllFresh

LEMMA FreshForgets ==
  ASSUME BridgeTyped, Plain, AllFresh, NEW s \in Servers, Forgotten(s)
  PROVE  AllFresh'
<1>1. /\ \A q \in Publishers : For(q) = s => pub[q].at = "idle"
      /\ gens' = [gens EXCEPT ![s] = NoTable] /\ UNCHANGED <<registry, pub>>
      /\ DOMAIN registered' = {n \in DOMAIN registered : registered[n].owner # s}
      /\ \A n \in DOMAIN registered' : registered'[n] = registered[n]
      /\ Less(orphans', orphans)
  BY DEF Forgotten, Plain, Less
<1>2. gens \in [Servers -> Tables]
  BY DEF BridgeTyped, TablesTyped
<1>3. \A q \in Publishers : For(q)' = For(q) /\ Handled(q)' = Handled(q) /\ Passed(q)' = Passed(q)
                            /\ (InProgress(q)' <=> InProgress(q))
  BY <1>1 DEF For, Handled, Passed, InProgress
<1>4. RegisteredIsThere'
  BY <1>1 DEF AllFresh, RegisteredIsThere
<1>5. ServedIsRegistered'
  <2> SUFFICES ASSUME NEW o \in Servers, NEW n \in DOMAIN gens'[o]
               PROVE  /\ n \in DOMAIN registered' /\ registered'[n].owner = o
                      /\ registered'[n].def = gens'[o][n]
                         \/ \E q \in Publishers : For(q) = o /\ n \in Handled(q)
    BY <1>1, <1>3 DEF ServedIsRegistered
  <2>1. o # s /\ gens'[o] = gens[o]
    BY <1>1, <1>2, NoTableFacts
  <2>2. /\ n \in DOMAIN registered /\ registered[n].owner = o
        /\ registered[n].def = gens[o][n] \/ \E q \in Publishers : For(q) = o /\ n \in Handled(q)
    BY <2>1 DEF AllFresh, ServedIsRegistered
  <2> QED BY <1>1, <2>1, <2>2
<1>6. ASSUME NEW q \in Publishers PROVE FreshAt(q)'
  <2>1. FreshAt(q) /\ pub'[q] = pub[q]
    BY <1>1 DEF AllFresh
  <2>2. pub[q].at # "idle" => For(q) # s
    BY <1>1
  <2>3. For(q) # s => \A n : Mine(q, n) => Mine(q, n)'
    BY <1>1, <1>3, <2>1 DEF Mine
  <2>4. InProgress(q) => gens'[For(q)] = gens[For(q)]
    BY <1>1, <1>2, <2>2, PublisherFacts DEF InProgress
  <2>5. OrphansAgree(q) => OrphansAgree(q)'
    BY <1>1, <1>3, <2>1 DEF OrphansAgree, Less
  <2>6. \A n \in Handled(q) : Mine(q, n)'
    <3>1. Handled(q) # {} => pub[q].at # "idle"
      BY HandledFacts
    <3> QED BY <2>1, <2>2, <2>3, <3>1 DEF FreshAt
  <2>7. pub[q].at \in {"skip", "adopt"} => Mine(q, pub[q].name)'
    BY <2>1, <2>2, <2>3 DEF FreshAt
  <2>8. \A n \in Passed(q) \cap DOMAIN registered' : registered'[n].owner = For(q)
    BY <1>1, <2>1 DEF FreshAt
  <2> QED BY <1>1, <1>3, <2>1, <2>4, <2>5, <2>6, <2>7, <2>8 DEF FreshAt
<1> QED BY <1>4, <1>5, <1>6 DEF AllFresh

LEMMA FreshPublishes ==
  ASSUME BridgeTyped, Plain, OwnNames, OnePublication, OneInProgress, PassedApart, AllFresh,
         NEW p \in Publishers, PubStep(p)
  PROVE  AllFresh'
<1>1. RegisteredIsThere /\ ServedIsRegistered /\ (\A q \in Publishers : FreshAt(q))
      /\ \A q \in Publishers : q # p => pub'[q] = pub[q]
  BY PubAt DEF AllFresh
<1>q. ASSUME UNCHANGED <<registry, gens, registered>>, Less(orphans', orphans), pub[p].at # "book",
             Handled(p) \subseteq Handled(p)', FreshAt(p)'
      PROVE  AllFresh'
  BY <1>1, <1>q, FreshQuiet DEF AllFresh
<1>2. CASE Begun(p)
  <2>1. FreshAt(p)'
    BY <1>2, FreshBegins
  <2> QED BY <1>2, <1>q, <2>1, HandledFacts DEF Begun, tables, Less
<1>3. CASE Ended(p) \/ Marked(p)
  <2>1. FreshAt(p)' /\ pub[p].at \in {"ok", "err", "theft"}
    BY <1>3, FreshEnds DEF Ended, Marked, Goes
  <2> QED BY <1>3, <1>q, <2>1, HandledFacts DEF Ended, Marked, tables, Less
<1>4. CASE Started(p)
  <2>1. FreshAt(p)' /\ pub[p].at = "start"
    BY <1>1, <1>4, FreshStarts DEF Started
  <2> QED BY <1>4, <1>q, <2>1, HandledFacts DEF Started, tables, Less
<1>5. CASE Looked(p)
  <2>1. FreshAt(p)' /\ pub[p].at = "check"
    BY <1>1, <1>5, FreshLooks DEF Looked, Looks
  <2> QED BY <1>5, <1>q, <2>1, HandledFacts DEF Looked, tables, Less
<1>6. CASE Rounded(p)
  <2>1. FreshAt(p)' /\ pub[p].at = "check"
    BY <1>1, <1>6, FreshRounds DEF Rounded
  <2> QED BY <1>6, <1>q, <2>1, HandledFacts DEF Rounded, tables, Less
<1>7. CASE Decided(p)
  <2>1. FreshAt(p)' /\ Handled(p)' = Handled(p) /\ pub[p].at = "decide"
    BY <1>1, <1>7, FreshDecides DEF Decided, Decides
  <2> QED BY <1>7, <1>q, <2>1 DEF Decided, tables, Less
<1>8. CASE Retained(p)
  <2>1. FreshAt(p)' /\ Handled(p) \subseteq Handled(p)' /\ pub[p].at \in {"skip", "adopt"}
    BY <1>1, <1>8, FreshRetains DEF Retained
  <2> QED BY <1>8, <1>q, <2>1 DEF Retained, Less
<1>9. CASE Forwarded(p) \/ Booked(p) \/ Committed(p)
  BY <1>9, FreshForwards, FreshBooks, FreshCommits
<1>10. ~ Refused(p) /\ ~ Undone(p)
  BY DEF Refused, Undone, Plain, BridgeTyped
<1> QED BY <1>2, <1>3, <1>4, <1>5, <1>6, <1>7, <1>8, <1>9, <1>10 DEF PubStep

LEMMA FreshStep ==
  ASSUME BridgeTyped, BridgeStep, OwnNames, SettledLife, ServedApart, Fresh
  PROVE  Fresh'
<1>1. env' = env
  BY DEF BridgeStep
<1> SUFFICES ASSUME Plain PROVE AllFresh'
  BY <1>1 DEF Fresh, Plain, Crossing, AllFresh
<1>2. OnePublication /\ OneInProgress /\ PassedApart /\ AllFresh
  BY DEF SettledLife, ServedApart, Fresh, Plain, AllFresh
<1>3. CASE UNCHANGED bridgeVars
  BY <1>2, <1>3 DEF bridgeVars, AllFresh, RegisteredIsThere, ServedIsRegistered, FreshAt, InProgress,
       For, Handled, Passed, Mine, OrphansAgree
<1>4. ASSUME NEW p \in Publishers, PubStep(p) PROVE AllFresh'
  BY <1>2, <1>4, FreshPublishes
<1>5. ASSUME NEW s \in Servers, Forgotten(s) PROVE AllFresh'
  BY <1>2, <1>5, FreshForgets
<1>6. ASSUME NEW n \in Names, Intruded(n) PROVE AllFresh'
  BY <1>6 DEF Intruded, Plain
<1> QED BY <1>3, <1>4, <1>5, <1>6 DEF BridgeStep
----------------------------------------------------------------------------
(* The inductive invariant and what follows from it.                       *)

Inv ==
  /\ BridgeTyped /\ LifeTyped /\ Life /\ ClaimsAreHeld
  /\ SettledLife /\ OwnNames /\ ServedApart /\ ForeignApart /\ Fresh

LEMMA InvInit == Init => Inv
<1> SUFFICES ASSUME Init PROVE Inv
  OBVIOUS
<1> USE DEF Init, BridgeInit
<1>1. /\ \A p \in Publishers : pub[p] = At("idle") /\ pub[p].at = "idle" /\ pub[p].table = NoTable
                              /\ pub[p].todo = {} /\ pub[p].added = {}
      /\ \A s \in Servers : gens[s] = NoTable /\ DOMAIN gens[s] = {}
      /\ DOMAIN registered = {} /\ DOMAIN orphans = {} /\ DOMAIN NoTable = {}
  BY NoTableFacts, AtFacts DEF At
<1>2. BridgeTyped
  <2>1. TablesTyped
    <3>1. Partial(NoTable, Names, Owned) /\ Partial(NoTable, Names, Servers)
      <4>1. NoTable \in [{} -> Owned] /\ NoTable \in [{} -> Servers] /\ {} \in SUBSET Names
        BY DEF NoTable
      <4> QED BY <4>1 DEF Partial
    <3> QED BY <3>1, NoTableFacts DEF TablesTyped
  <2>2. pub \in [Publishers -> Publication]
    BY AtFacts DEF Places
  <2> QED BY <1>1, <2>1, <2>2 DEF BridgeTyped, Naming
<1>3. LifeTyped
  BY McpServerAssumption DEF LifeTyped, Phases
<1>4. Life
  <2>1. \A m \in Mounts, k \in {"conn", "note"} : pub[<<m, k>>].at = "idle"
    BY <1>1, PublisherFacts DEF Kinds
  <2>2. SUFFICES ASSUME NEW m \in Mounts PROVE LifeOf(m)
    BY DEF Life
  <2>3. /\ phase[m] = "idle" /\ sup[m] = "none" /\ conn[m] = "none" /\ failures[m] = 0
        /\ 0 <= MaxAttempts /\ Idle(m)
    BY <2>1, McpServerAssumption DEF Idle
  <2> QED BY <2>1, <2>3 DEF LifeOf
<1>5. ClaimsAreHeld
  BY DEF ClaimsAreHeld, Holding
<1>6. \A p \in Publishers : ~ InProgress(p) /\ Passed(p) = {} /\ Handled(p) = {}
  BY <1>1 DEF InProgress, Passed, Handled, Placing
<1>7. SettledLife
  <2>1. Quits /\ Rests
    BY DEF Quits, Rests, Resting
  <2>2. Works /\ OnePublication /\ OneInProgress /\ Served
    BY <1>1, <1>6 DEF Works, OnePublication, OneInProgress, Served
  <2> QED BY <2>1, <2>2 DEF SettledLife
<1>8. OwnNames
  BY <1>1 DEF OwnNames
<1>9. ServedApart /\ ForeignApart
  BY <1>1, <1>6 DEF ServedApart, ServedOnce, PassedApart, ForeignApart
<1>10. Fresh
  BY <1>1, <1>6 DEF Fresh, RegisteredIsThere, ServedIsRegistered, FreshAt
<1> QED BY <1>2, <1>3, <1>4, <1>5, <1>7, <1>8, <1>9, <1>10 DEF Inv

LEMMA InvStep == Inv /\ [Next]_vars => Inv'
<1> SUFFICES ASSUME Inv, [Next]_vars PROVE Inv'
  OBVIOUS
<1> USE DEF Inv
<1>1. Sound /\ BridgeStep
  BY NextSound DEF Sound
<1>2. BridgeTyped' /\ LifeTyped' /\ Life' /\ ClaimsAreHeld'
  BY <1>1, BridgeTypedStep, LifeTypedStep, LifeStep, ClaimsStep
<1>3. SettledLife'
  BY <1>1, SettledStep DEF SettledLife, BridgeStep
<1>4. OwnNames'
  BY <1>1, OwnNamesStep
<1>5. ServedApart'
  BY <1>1, <1>2, <1>4, ServedStep
<1>6. ForeignApart'
  BY <1>1, ForeignStep DEF ForeignApart, BridgeStep
<1>7. Fresh'
  BY <1>1, FreshStep
<1> QED BY <1>2, <1>3, <1>4, <1>5, <1>6, <1>7

LEMMA InvAlways == Spec => []Inv
<1> QED BY InvInit, InvStep, PTL DEF Spec

LEMMA InvTypes == Inv => TypeOK
<1> SUFFICES ASSUME Inv PROVE TypeOK
  OBVIOUS
<1>1. BridgeTypeOK
  <2>1. /\ registry \in [Names -> Defs \cup {"free", "foreign"}]
        /\ DOMAIN gens = Servers /\ live \subseteq Names /\ stolen \subseteq Names
        /\ DOMAIN pub = Publishers
    BY DEF Inv, BridgeTyped, TablesTyped
  <2>2. \A t \in Tables : IsPartial(t, Names, Defs)
    BY TableFacts DEF IsPartial
  <2>3. IsPartial(registered, Names, Owned) /\ IsPartial(orphans, Names, Servers)
    BY DEF Inv, BridgeTyped, TablesTyped, Partial, IsPartial
  <2>4. \A s \in Servers : IsPartial(gens[s], Names, Defs)
    BY <2>2, StateFacts DEF Inv
  <2>5. \A p \in Publishers : pub[p].at \in Places
    BY PublicationFacts DEF Inv, Publication
  <2> QED BY <2>1, <2>2, <2>3, <2>4, <2>5, PublicationFacts DEF BridgeTypeOK, Inv
<1> QED BY <1>1 DEF Inv, LifeTyped, TypeOK

LEMMA InvOnce == Inv => OneServerPerName
BY DEF Inv, ServedApart, ServedOnce, OneServerPerName

LEMMA InvFresh == Inv => DescriptionsFreshUnlessRevived
<1> SUFFICES ASSUME Inv, Plain, NEW s \in Servers, ~ Publishing(s), NEW n \in DOMAIN gens[s],
                    registry[n] \in Defs
             PROVE  registry[n] = gens[s][n]
  BY DEF DescriptionsFreshUnlessRevived, DescriptionsFresh, Plain
<1>1. AllFresh /\ BridgeTyped
  BY DEF Inv, Fresh, AllFresh
<1>2. /\ n \in DOMAIN registered /\ registered[n].owner = s
      /\ registered[n].def = gens[s][n] \/ \E p \in Publishers : For(p) = s /\ n \in Handled(p)
  BY <1>1 DEF AllFresh, ServedIsRegistered
<1>3. registered[n].def = gens[s][n]
  BY <1>1, <1>2, HandledFacts DEF Publishing
<1>4. ASSUME NEW p \in Publishers, pub[p].at = "book", pub[p].name = n PROVE FALSE
  <2>1. n \in Passed(p)
    BY <1>1, <1>4, NamingFacts, PassedFacts DEF Naming, Placing
  <2>2. For(p) = s
    BY <1>1, <1>2, <2>1 DEF AllFresh, FreshAt
  <2> QED BY <1>4, <2>2 DEF Publishing
<1> QED BY <1>1, <1>2, <1>3, <1>4 DEF AllFresh, RegisteredIsThere

(* The bridge's records agree in every state of every instance: claims     *)
(* with the mounts that hold them, a name with the one server that serves  *)
(* it, a description with what is registered (bridge.rs:81-83, 140-144,    *)
(* 355-368, 411-416).                                                      *)
THEOREM McpBridgeAgrees == Spec => []BridgeAgrees
<1>1. Inv => BridgeAgrees
  BY InvTypes, InvOnce, InvFresh DEF Inv, BridgeAgrees
<1> QED BY <1>1, InvAlways, PTL

(* Whatever a connection still had under way, nothing is served for a      *)
(* server whose mounts are over (bridge.rs:223-226, 273-277).              *)
THEOREM McpGoneServesNothing == Spec => []GoneServesNothing
<1>1. Inv => GoneServesNothing
  BY DEF Inv, SettledLife, Served, GoneServesNothing
<1> QED BY <1>1, InvAlways, PTL

(* The two halves of TouchesOnlyItsOwn, of one step.                       *)
LEMMA ShadowStep ==
  ASSUME Inv, [Next]_vars, "race" \notin env, NEW n \in Names, registry[n] = "foreign"
  PROVE  registry'[n] \in {"foreign", "free"}
<1>1. BridgeStep /\ BridgeTyped /\ ForeignApart
  BY NextSound DEF Sound, Inv
<1>2. CASE UNCHANGED bridgeVars
  BY <1>2 DEF bridgeVars
<1>3. ASSUME NEW p \in Publishers, PubStep(p) PROVE registry'[n] = registry[n]
  <2>1. n \notin Passed(p)
    BY <1>1 DEF ForeignApart
  <2> QED BY <1>1, <1>3, <2>1, RegistryStep
<1>4. ASSUME NEW s \in Servers, Forgotten(s) PROVE registry'[n] = registry[n]
  BY <1>4 DEF Forgotten
<1>5. ASSUME NEW x \in Names, Intruded(x) PROVE registry'[n] \in {"foreign", "free"}
  BY <1>1, <1>5 DEF Intruded, BridgeTyped, TablesTyped
<1> QED BY <1>1, <1>2, <1>3, <1>4, <1>5 DEF BridgeStep

LEMMA ServiceStep ==
  ASSUME Inv, [Next]_vars, "race" \notin env, NEW m \in Mounts, phase[m] = "active",
         gens[ServerOf[m]] # gens'[ServerOf[m]]
  PROVE  sup[m] = "giveup" \/ \E k \in {"conn", "note"} : InProgress(<<m, k>>)
<1> DEFINE s == ServerOf[m]
<1>1. /\ BridgeTyped /\ LifeTyped /\ Life /\ ClaimsAreHeld /\ SettledLife /\ BridgeStep
      /\ gens \in [Servers -> Tables]
  BY NextSound DEF Inv, Sound, BridgeTyped, TablesTyped
<1>2. \A o \in Mounts : ServerOf[o] = s /\ Holding(o) => o = m
  BY <1>1 DEF ClaimsAreHeld, Holding
<1>3. ASSUME NEW p \in Publishers, InProgress(p), For(p) = s
      PROVE  \E k \in {"conn", "note"} : InProgress(<<m, k>>)
  <2>1. p[1] \in Mounts /\ p[2] \in {"conn", "note"} /\ p = <<p[1], p[2]>> /\ ServerOf[p[1]] = s
    BY <1>3, PublisherFacts DEF For, Kinds
  <2>2. ~ Over(p[1]) /\ ~ Idle(p[1])
    BY <1>1, <1>3, <2>1, IdleFacts DEF SettledLife, Works, InProgress
  <2>3. ~ Resting(p[1])
    BY <1>1, <2>1, <2>2 DEF SettledLife, Rests
  <2>4. Holding(p[1])
    BY <1>1, <2>1, <2>2, <2>3 DEF Holding, Over, Resting, Life, LifeOf
  <2>5. p[1] = m
    BY <1>2, <2>1, <2>4
  <2> QED BY <1>3, <2>1, <2>5
<1>4. ASSUME NEW p \in Publishers, PubStep(p)
      PROVE  \E k \in {"conn", "note"} : InProgress(<<m, k>>)
  <2>1. InProgress(p) /\ gens' = [gens EXCEPT ![For(p)] = pub[p].table]
    BY <1>4, PubAt
  <2>2. For(p) = s
    BY <1>1, <2>1, PublisherFacts, McpBridgeAssumption
  <2> QED BY <1>3, <2>1, <2>2
<1>5. ASSUME NEW o \in Mounts, LifeActs(o) PROVE sup[m] = "giveup"
  <2>1. SupGivesUp(o) \/ UnloadTools(o)
    BY <1>5 DEF LifeActs, Dialed, DialFails, ListFails, ConnLost, ConnStopped, Claim, ProbeAnswered,
         ProbeJoined, StrictFails, StopFailed, Activated, Unload, UnloadClaim, SupTop, SupEnded,
         SupFailed, SupWakes, bridgeVars
  <2>2. ServerOf[o] = s
    BY <1>1, <2>1, McpBridgeAssumption DEF SupGivesUp, UnloadTools, UnregisterServer
  <2>3. Holding(o)
    BY <1>1, <2>1 DEF SupGivesUp, UnloadTools, SettledLife, Quits, Holding
  <2>4. o = m
    BY <1>2, <2>2, <2>3
  <2> QED BY <2>1, <2>4 DEF SupGivesUp, UnloadTools
<1>6. \/ \E o \in Mounts : LifeActs(o)
      \/ \E p \in Publishers : PubStep(p)
  <2>1. ASSUME NEW o \in Mounts, NoteArrives(o) \/ NoteDone(o) \/ Listed(o) \/ ConnPublished(o)
        PROVE  FALSE
    BY <2>1 DEF NoteArrives, NoteDone, Listed, ConnPublished, tables
  <2>2. ASSUME NEW p \in Publishers, PublishStart(p) \/ PublishOn(p) PROVE PubStep(p)
    BY <1>1, <2>2, StartStarts, PublishIs DEF PublishOn, PubStep
  <2>3. ASSUME NEW n \in Names, Foreign(n) PROVE FALSE
    BY <2>3 DEF Foreign, TakeName, VacateName, tables
  <2>4. ~ UNCHANGED vars
    BY DEF vars, bridgeVars
  <2> QED BY <2>1, <2>2, <2>3, <2>4, NextCases
<1> QED BY <1>4, <1>5, <1>6

(* No publication replaces a third party's tool, and what an active mount  *)
(* serves changes only by itself (bridge.rs:355-359, 369-373;              *)
(* supervisor.rs:76-80).                                                   *)
THEOREM McpTouchesOnlyItsOwn == Spec => TouchesOnlyItsOwn
<1>1. Inv /\ [Next]_vars => [\A n \in Names : "race" \notin env /\ registry[n] = "foreign"
       => registry'[n] \in {"foreign", "free"}]_vars
  BY ShadowStep
<1>2. Inv /\ [Next]_vars => [\A m \in Mounts :
       "race" \notin env /\ phase[m] = "active" /\ gens[ServerOf[m]] # gens'[ServerOf[m]]
         => \/ sup[m] = "giveup"
            \/ \E k \in {"conn", "note"} : InProgress(<<m, k>>)]_vars
  BY ServiceStep
<1>3. Spec => NeverShadows
  BY <1>1, InvAlways, PTL DEF Spec, NeverShadows
<1>4. Spec => ServiceIsOwn
  BY <1>2, InvAlways, PTL DEF Spec, ServiceIsOwn
<1> QED BY <1>3, <1>4 DEF TouchesOnlyItsOwn

=============================================================================
