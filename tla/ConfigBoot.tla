----------------------------- MODULE ConfigBoot ----------------------------
(***************************************************************************)
(* The configuration boot: one ConfigComposer shared by several callers    *)
(* (threads), from crates/harnless-cli/src/config_boot.rs and boot.rs.  A  *)
(* caller composes a profile, keeps the plan, and mounts it, plainly or    *)
(* with a session seed whose writer holds the session's lock; the rows of  *)
(* the stored document mount one at a time, and any of them may refuse or  *)
(* panic.  What an unwound frame drops is dropped in the same step.        *)
(***************************************************************************)
EXTENDS ConfigCompose

CONSTANTS
  Callers,        \* threads that use the composer
  Overlays,       \* overlay name -> the YAML document it holds
  Requests,       \* what may be composed: <<profile, overlay, ...>>
  MaxSpines,      \* bound: row compositions started in a behaviour
  Environments    \* each: the requests made, the callers that make
                  \* them, a bound on the compositions mounted, and the faults

Faults == {"seed", "refuse", "panic"}
Nobody == "nobody"
NoEntry == [of |-> <<>>, doc |-> <<>>, warnings |-> <<>>, spine |-> 0]
NoPlan == EmptyPlan("", Null)
Spines == 1..MaxSpines
Echo == <<"echo">>
NoModelPlugin == <<"none">>

VARIABLES
  env,       \* what may happen in this behaviour
  lock,      \* mount_lock's holder, or Nobody
  entry,     \* last_config: the document, of which request, weak spine
  used,      \* compositions started so far
  spine,     \* each composition: its spine's fiber, row resources, handles
  pc,        \* where a caller is
  plan,      \* the plan (ProfileDoc) the caller holds, or NoPlan
  frame,     \* a mount: kind, entry, its plan, row reached, composition
  writer,    \* where the caller's session writer is
  file       \* the session file of the caller's seed

ASSUME ConfigBootAssumption ==
  /\ Nobody \notin Callers
  /\ MaxSpines \in Nat \ {0}
  /\ \A r \in Requests : <<Head(r)>> \in Requests
  /\ \A e \in Environments :
       e.callers \subseteq Callers /\ e.spines \in Spines /\ e.requests \subseteq Requests /\ e.faults \subseteq Faults

(* A request names a profile and overlays that there are.                  *)
ASSUME RequestsAssumption ==
  /\ \A n \in DOMAIN Overlays : IsDocument(Overlays[n])
  /\ \A r \in Requests : IsSeq(r) /\ r # <<>> /\ \A i \in 2..Len(r) : r[i] \in DOMAIN Overlays

vars == <<env, lock, entry, used, spine, pc, plan, frame, writer, file>>

NoFrame == [kind |-> "none", entry |-> NoEntry, plan |-> NoPlan, at |-> 0, k |-> 0]
Free == [fiber |-> "none", rows |-> 0, wired |-> FALSE, tools |-> FALSE, model |-> NoModel,
         store |-> NoText, mirror |-> Nobody, owned |-> FALSE, held |-> {}]

Init ==
  /\ env \in Environments
  /\ lock = Nobody /\ entry = NoEntry /\ used = 0
  /\ spine = [k \in Spines |-> Free]
  /\ pc = [c \in Callers |-> "idle"]
  /\ plan = [c \in Callers |-> NoPlan]
  /\ frame = [c \in Callers |-> NoFrame]
  /\ writer = [c \in Callers |-> "none"]
  /\ file = [c \in Callers |-> "none"]

Goto(c, l) == pc' = [pc EXCEPT ![c] = l]

----------------------------------------------------------------------------
(* Composing                                                               *)

(* What a request composes to, and the plan projected from that.  (The     *)
(* choice makes TLC evaluate a whole table once.)                          *)
Table(f) == CHOOSE g \in {f} : g = f
Layers(r) == ParseOverlays([i \in DOMAIN Tail(r) |-> Overlays[Tail(r)[i]]])
Composed ==
  Table([r \in Requests |-> Then(Layers(r), LAMBDA l : Compose(Head(r), l))])

Planned == Table([r \in Requests |-> Then(Composed[r], LAMBDA out : Plan(out.doc))])

(* An entry without a spine.                                               *)
Composing(r) ==
  Then(Composed[r], LAMBDA out :
    Ok([of |-> r, doc |-> out.doc, warnings |-> out.warnings, spine |-> 0]))

(* ConfigComposer::tools_wiring: the plan's tools decide the loop's shape. *)
Declares(p) == p.tools # <<>>

(* compose_full, under the mount lock: the entry is replaced, spine and    *)
(* all, before the plan is projected from it.                              *)
ComposeProfile(c, r) ==
  /\ pc[c] = "idle" /\ lock = Nobody
  /\ \E e \in {Composing(r)} :
       entry' = IF IsOk(e) THEN e.val ELSE entry
  /\ \E p \in {Planned[r]} :
       plan' = [plan EXCEPT ![c] = IF IsOk(p) THEN p.val ELSE NoPlan]
  /\ UNCHANGED <<env, lock, used, spine, pc, frame, writer, file>>

----------------------------------------------------------------------------
(* Mounting                                                                *)

(* mount, or mount_seeded with a resumed or a created session: the unwind  *)
(* slot is armed with the writer's cell.                                   *)
MountCall(c, kind) ==
  /\ pc[c] = "idle" /\ plan[c] # NoPlan
  /\ kind # "fresh" => "seed" \in env.faults
  /\ ~ \E k \in Spines : c \in spine[k].held
  /\ frame' = [frame EXCEPT ![c] = [NoFrame EXCEPT !.kind = kind]]
  /\ writer' = [writer EXCEPT ![c] = IF kind = "fresh" THEN "none" ELSE "cell"]
  /\ file' = [file EXCEPT ![c] = IF kind = "fresh" THEN "none" ELSE kind]
  /\ Goto(c, "armed")
  /\ UNCHANGED <<env, lock, entry, used, spine, plan>>

StoreDir(doc) ==
  LET at == SelectInSeq(doc.rows, LAMBDA r : SeamOf(r.plugin) = "storage")
      r  == ExpandValue(doc.rows[at].config)
  IN  IF at = 0 THEN NoText ELSE IF IsOk(r) THEN Field(r.val, <<"dir">>) ELSE NoText

(* The stored composition is of the plan's profile and of its store.       *)
Serves(p) == entry.of # <<>> /\ entry.doc.name = p.name /\ p.store \in {NoText, StoreDir(entry.doc)}

(* A plausible slip: the cached spine is never upgraded.                   *)
EntryForCold(p) ==
  IF Serves(p) THEN Ok([entry EXCEPT !.spine = 0]) ELSE Composing(<<p.name>>)

(* A plausible slip: the recomposition keeps the spine it replaces.        *)
EntryForStale(p) ==
  IF Serves(p) THEN Ok(entry)
  ELSE Then(Composing(<<p.name>>), LAMBDA e : Ok([e EXCEPT !.spine = entry.spine]))

(* The stored composition where it serves the plan; otherwise the profile  *)
(* again, without the overlays.                                            *)
EntryFor(p) == IF Serves(p) THEN Ok(entry) ELSE Composing(<<p.name>>)

SpineRows(doc) == {i \in DOMAIN doc.rows : SeamOf(doc.rows[i].plugin) = "spine"}

Live(k) == k # 0 /\ spine[k].owned /\ spine[k].held # {}

(* A live spine is shared only with a plan of the same wiring.             *)
WarmReuse(c, e) ==
  /\ frame[c].kind = "fresh" /\ Live(e.spine)
  /\ IF spine[e.spine].wired = Declares(plan[c]) /\ spine[e.spine].mirror = Nobody
     THEN /\ frame' = [frame EXCEPT ![c] = [@ EXCEPT !.entry = e, !.plan = Planned[e.of].val, !.k = e.spine]]
          /\ spine' = [spine EXCEPT ![e.spine].held = @ \cup {c}]
          /\ Goto(c, "model")
     ELSE Goto(c, "err") /\ UNCHANGED <<frame, spine>>
  /\ UNCHANGED <<env, entry, used, plan, writer, file>>

(* mount_spine_for: a new composition, its rows still to mount.  A seed    *)
(* needs a spine row, and the document must project onto a plan.           *)
ColdMount(c, e) ==
  /\ frame[c].kind # "fresh" \/ ~Live(e.spine)
  /\ used < env.spines
  /\ used' = used + 1
  /\ \E p \in {Planned[e.of]} :
       /\ frame' = [frame EXCEPT ![c] =
            [@ EXCEPT !.entry = e, !.plan = IF IsOk(p) THEN p.val ELSE NoPlan, !.at = 1, !.k = used + 1]]
       /\ IF IsOk(p) /\ (frame[c].kind # "fresh" => SpineRows(e.doc) # {})
          THEN Goto(c, "rows") ELSE Goto(c, "err")
  /\ UNCHANGED <<env, entry, spine, plan, writer, file>>

(* mount_seeded_body takes the mount lock and reads the entry.             *)
BodyStart(c) ==
  /\ pc[c] = "armed" /\ lock = Nobody
  /\ lock' = c
  /\ \E e \in {EntryFor(plan[c])} :
       IF IsOk(e) THEN WarmReuse(c, e.val) \/ ColdMount(c, e.val)
       ELSE Goto(c, "err") /\ UNCHANGED <<env, entry, used, spine, plan, frame, writer, file>>

----------------------------------------------------------------------------
(* The rows: mount_config_with_seed                                        *)

Rows(c)   == frame[c].entry.doc.rows
RowAt(c)  == Rows(c)[frame[c].at]
AtRow(c, seam) ==
  /\ pc[c] = "rows" /\ frame[c].at \in DOMAIN Rows(c)
  /\ IF IsDocRow(RowAt(c)) THEN seam = "doc" ELSE SeamOf(RowAt(c).plugin) = seam
NextRow(c) == frame' = [frame EXCEPT ![c].at = @ + 1]

(* The failure of a second spine row, whose arm forgets the mirror.        *)
RowFailsMirrorOpen(c) ==
  /\ spine' = [spine EXCEPT ![frame[c].k].rows = 0]
  /\ writer' = [writer EXCEPT ![c] = IF @ = "mirror" THEN "lost" ELSE @]
  /\ Goto(c, "err")
  /\ UNCHANGED <<env, lock, entry, used, plan, frame, file>>

(* The failure arms of the loop: the guard disposes the mounted rows and   *)
(* the mirror is closed; the spine's unwind handle, held aside until after *)
(* the loop, is dropped unused.                                            *)
RowFails(c) ==
  /\ spine' = [spine EXCEPT ![frame[c].k] = [@ EXCEPT !.rows = 0, !.mirror = Nobody]]
  /\ writer' = [writer EXCEPT ![c] = IF @ = "mirror" THEN "none" ELSE @]
  /\ Goto(c, "err")
  /\ UNCHANGED <<env, lock, entry, used, plan, frame, file>>

(* A panic unwinds the frame: the guard's drop disposes the mounted rows,  *)
(* and nothing closes a mirror that a service of the spine still holds.    *)
RowPanics(c) ==
  /\ "panic" \in env.faults
  /\ spine' = [spine EXCEPT ![frame[c].k].rows = 0]
  /\ writer' = [writer EXCEPT ![c] = IF @ = "mirror" THEN "lost" ELSE @]
  /\ Goto(c, "panic")
  /\ UNCHANGED <<env, lock, entry, used, plan, frame, file>>

(* A document row is content, the plan has read it.                        *)
RowDocument(c) ==
  /\ AtRow(c, "doc") /\ NextRow(c)
  /\ UNCHANGED <<env, lock, entry, used, spine, pc, plan, writer, file>>

(* register_builtins: echo is the one tool this build has a body for.      *)
HaveBodies(tools) == \A i \in DOMAIN tools : tools[i] = Echo

(* SpineWired::apply: the writer moves from the cell into the mirror; a    *)
(* wiring that names a tool without a body rolls the fiber back and closes *)
(* the mirror, the cell staying empty.                                     *)
RowSpine(c) ==
  /\ AtRow(c, "spine")
  /\ spine[frame[c].k].fiber = "none"
  /\ IF HaveBodies(frame[c].plan.tools)
     THEN /\ spine' = [spine EXCEPT ![frame[c].k] =
                [@ EXCEPT !.fiber = "up", !.tools = Declares(frame[c].plan),
                          !.mirror = IF writer[c] = "cell" THEN c ELSE Nobody]]
          /\ writer' = [writer EXCEPT ![c] = IF @ = "cell" THEN "mirror" ELSE @]
          /\ NextRow(c) /\ UNCHANGED pc
     ELSE /\ spine' = [spine EXCEPT ![frame[c].k].rows = 0]
          /\ writer' = [writer EXCEPT ![c] = "none"]
          /\ Goto(c, "err") /\ UNCHANGED frame
  /\ UNCHANGED <<env, lock, entry, used, plan, file>>

(* A panic inside apply: its guards close the mirror on the way out.       *)
SpinePanics(c) ==
  /\ "panic" \in env.faults
  /\ AtRow(c, "spine") /\ spine[frame[c].k].fiber = "none"
  /\ spine' = [spine EXCEPT ![frame[c].k].rows = 0]
  /\ writer' = [writer EXCEPT ![c] = "none"]
  /\ Goto(c, "panic")
  /\ UNCHANGED <<env, lock, entry, used, plan, frame, file>>

(* A second spine row: the context has its loop already, and this arm      *)
(* disposes the guard without closing the mirror of the first.             *)
RowSpineTwice(c) ==
  /\ AtRow(c, "spine") /\ spine[frame[c].k].fiber = "up"
  /\ RowFailsMirrorOpen(c)

(* The storage row's config is expanded once more, as every row's was.     *)
RowStorage(c) ==
  /\ AtRow(c, "storage")
  /\ LET r == ExpandValue(RowAt(c).config)
     IN  IF IsOk(r) /\ IsOk(StoreSpec(r.val))
         THEN /\ spine' = [spine EXCEPT ![frame[c].k].store = StoreSpec(r.val).val]
              /\ NextRow(c)
              /\ UNCHANGED <<env, lock, entry, used, pc, plan, writer, file>>
         ELSE RowFails(c)

(* A model, a tool or an embedder's row builds its resource: an unknown    *)
(* plugin and a refusing factory fail, and a factory may panic.            *)
RowResource(c, seam) ==
  /\ seam \in {"model", "tool", "unknown"} /\ AtRow(c, seam)
  /\ \/ /\ spine' = [spine EXCEPT ![frame[c].k] =
              [@ EXCEPT !.rows = @ + 1,
                        !.model = IF seam # "model" THEN @
                                  ELSE IF RowAt(c).plugin = NoModelPlugin THEN NoModel
                                  ELSE ModelSpec(RowAt(c).config).val]]
        /\ NextRow(c)
        /\ UNCHANGED <<env, lock, entry, used, pc, plan, writer, file>>
     \/ "refuse" \in env.faults /\ RowFails(c)
     \/ RowPanics(c)

(* After the loop: the unwind handle joins the guard; a plan that declared *)
(* tools needs a spine row, and so does the composition itself.  A fresh   *)
(* composition is published in the entry, a seeded one is not.             *)
RowsDone(c) ==
  /\ pc[c] = "rows" /\ frame[c].at \notin DOMAIN Rows(c)
  /\ IF spine[frame[c].k].fiber = "none" THEN RowFails(c)
     ELSE /\ spine' = [spine EXCEPT ![frame[c].k] = 
                [@ EXCEPT !.owned = TRUE, !.wired = Declares(plan[c]), !.held = {c}]]
          /\ entry' = IF frame[c].kind = "fresh" THEN [frame[c].entry EXCEPT !.spine = frame[c].k] ELSE entry
          /\ Goto(c, "model")
          /\ UNCHANGED <<env, lock, used, plan, frame, writer, file>>

----------------------------------------------------------------------------
(* Handing the composition over, or unwinding it                           *)

(* SpineMount::drop with its last handle: the guard disposes the spine's   *)
(* fiber and the rows, and the mirror goes with the services.              *)
Disposed(s) == [s EXCEPT !.fiber = "down", !.rows = 0, !.mirror = Nobody, !.owned = FALSE, !.held = {}]

DropHandle(k, c) ==
  IF spine[k].held \ {c} = {} THEN [spine EXCEPT ![k] = Disposed(@)]
  ELSE [spine EXCEPT ![k].held = @ \ {c}]

(* The plan's model, when the rows' is another one, is built afresh.       *)
ModelOk(c) ==
  /\ pc[c] = "model"
  /\ lock' = Nobody
  /\ Goto(c, "idle")
  /\ UNCHANGED <<env, entry, used, spine, plan, frame, writer, file>>

(* build_adapter fails or panics: the frame's handle on the composition    *)
(* goes, and with it the composition unless a sibling holds it.            *)
ModelFails(c) ==
  /\ pc[c] = "model" /\ plan[c].model # spine[frame[c].k].model
  /\ \/ "refuse" \in env.faults /\ Goto(c, "err")
     \/ "panic" \in env.faults /\ Goto(c, "panic")
  /\ spine' = DropHandle(frame[c].k, c)
  /\ writer' = [writer EXCEPT ![c] = IF @ = "mirror" THEN "none" ELSE @]
  /\ UNCHANGED <<env, lock, entry, used, plan, frame, file>>

(* A plausible slip: a created file is classified like a resumed one.      *)
WrapErrKeeping(c) ==
  /\ pc[c] = "err"
  /\ lock' = IF lock = c THEN Nobody ELSE lock
  /\ writer' = [writer EXCEPT ![c] = IF @ = "cell" THEN "none" ELSE @]
  /\ Goto(c, "failed")
  /\ UNCHANGED <<env, entry, used, spine, plan, frame, file>>

(* The wrapper, the lock released with the body: a writer still in the     *)
(* cell abandons a created file and rides back otherwise, and the session  *)
(* route abandons by id a created file whose writer was consumed -- which  *)
(* the lock of a writer nobody owns refuses.                               *)
WrapErr(c) ==
  /\ pc[c] = "err"
  /\ lock' = IF lock = c THEN Nobody ELSE lock
  /\ file' = [file EXCEPT ![c] = IF @ = "created" /\ writer[c] # "lost" THEN "none" ELSE @]
  /\ writer' = [writer EXCEPT ![c] = IF @ = "cell" THEN "none" ELSE @]
  /\ Goto(c, "failed")
  /\ UNCHANGED <<env, entry, used, spine, plan, frame>>

(* SpineUnwindGuard::drop: the slot's weak spine died with the body, so    *)
(* only a writer still in the cell names a file to abandon.                *)
WrapPanic(c) ==
  /\ pc[c] = "panic"
  /\ lock' = IF lock = c THEN Nobody ELSE lock
  /\ file' = [file EXCEPT ![c] = IF @ = "created" /\ writer[c] = "cell" THEN "none" ELSE @]
  /\ writer' = [writer EXCEPT ![c] = IF @ = "cell" THEN "none" ELSE @]
  /\ Goto(c, "panicked")
  /\ UNCHANGED <<env, entry, used, spine, plan, frame>>

(* Mounted::drop: the handle's own share of the spine, then, for a seeded  *)
(* composition, its mirror.                                                *)
DropMounted(c, k) ==
  /\ pc[c] = "idle" /\ c \in spine[k].held
  /\ spine' = DropHandle(k, c)
  /\ writer' = [writer EXCEPT ![c] = "none"]
  /\ UNCHANGED <<env, lock, entry, used, pc, plan, frame, file>>

Step(c) ==
  \/ \E r \in env.requests : ComposeProfile(c, r)
  \/ \E kind \in {"fresh", "resumed", "created"} : MountCall(c, kind)
  \/ BodyStart(c)
  \/ RowDocument(c) \/ RowSpine(c) \/ SpinePanics(c) \/ RowSpineTwice(c) \/ RowStorage(c)
  \/ \E seam \in {"model", "tool", "unknown"} : RowResource(c, seam)
  \/ RowsDone(c) \/ ModelOk(c) \/ ModelFails(c)
  \/ WrapErr(c) \/ WrapPanic(c)
  \/ \E k \in Spines : DropMounted(c, k)

Next == \E c \in env.callers : Step(c)

Spec == Init /\ [][Next]_vars
----------------------------------------------------------------------------
(* Properties                                                              *)

(* What a list of layers says, write by write: a declared or inserted row  *)
(* writes its plugin and config, a set its config.                         *)
PutWrite(row) == [put |-> TRUE, id |-> row.id, plugin |-> row.plugin, config |-> row.config]
OpWrite(op) ==
  IF op.op = "insert" THEN PutWrite(op.row)
  ELSE [put |-> FALSE, id |-> op.id, plugin |-> <<>>, config |-> op.config]
AddWrites(w, l) ==
  w \o [i \in DOMAIN l.rows |-> PutWrite(l.rows[i])] \o [i \in DOMAIN l.patch |-> OpWrite(l.patch[i])]
WritesOf(layers) == FoldLeft(AddWrites, <<>>, layers)

(* The reference: rows in the order their ids were first put, each with    *)
(* the plugin last put and the config last written; a set on an id nobody  *)
(* put before is a warning.                                                *)
Declared(w, i) == \E j \in 1..i : w[j].put /\ w[j].id = w[i].id
Firsts(w)      == { i \in DOMAIN w : w[i].put /\ ~ \E j \in 1..(i - 1) : w[j].put /\ w[j].id = w[i].id }
Missing(w)     == { i \in DOMAIN w : ~Declared(w, i) }
RowOfId(w, id) ==
  Row(id, w[Max({ i \in DOMAIN w : w[i].id = id /\ w[i].put })].plugin,
          w[Max({ i \in DOMAIN w : w[i].id = id /\ Declared(w, i) })].config)
(* The members of a set of positions, in their order.                      *)
Ranked(S) == [n \in 1..Cardinality(S) |-> Max({ i \in S : Cardinality({ j \in S : j <= i }) = n })]

LastWriter(w) ==
  [rows     |-> [n \in 1..Cardinality(Firsts(w)) |-> RowOfId(w, w[Ranked(Firsts(w))[n]].id)],
   warnings |-> [n \in 1..Cardinality(Missing(w)) |-> w[Ranked(Missing(w))[n]].id]]

(* The documented precedence: bundles in the profile's order, its rows,    *)
(* its patch, the home patch, the overlays.                                *)
ReferenceOf(r) ==
  LET spec    == LoadProfile(Head(r)).val
      bundles == [i \in DOMAIN spec.bundles |->
                   Layer(spec.bundles[i], LoadBundle(spec.bundles[i]).val, <<>>)]
      own     == << Layer("profile", spec.rows, <<>>), Layer("profile:patch", <<>>, spec.patch) >>
      ref     == LastWriter(WritesOf(bundles \o own \o HomeLayers \o Layers(r).val))
  IN  [doc |-> ExpandDoc([name |-> spec.name, rows |-> ref.rows, prompt |-> spec.prompt]).val,
       warnings |-> ref.warnings]

Reference == Table([r \in { q \in Requests : IsOk(Composed[q]) } |-> ReferenceOf(r)])

(* The stored document is what the last writer of every row said, and the  *)
(* warnings are exactly the sets that had no row to write (Composer::      *)
(* compose, compose_layers, apply_layer): no order of layers, bundles or   *)
(* operations loses, doubles or moves a row.                               *)
ComposedIsLastWriter ==
  entry.of # <<>> => [doc |-> entry.doc, warnings |-> entry.warnings] = Reference[entry.of]

(* A live composition in the cache is reused, never mounted a second time  *)
(* for the same document, however many callers race: only composing anew   *)
(* forgets it, or a plan that moved the store (mount_lock and the weak     *)
(* upgrade of mount_seeded_body).                                          *)
NeverMountedTwice ==
  [][ Live(entry.spine) /\ entry'.spine \notin {0, entry.spine} /\ entry'.of = entry.of
        => \E c \in Callers : pc[c] = "rows" /\ lock = c /\ ~Serves(plan[c]) ]_vars

(* While a Mounted holds a composition its fiber is up and its row         *)
(* resources are live: neither another caller's failed mount nor another   *)
(* handle's drop may tear it down (LAST_MOUNTED_SPINE, Mounted::drop).     *)
HeldIsLive ==
  \A k \in Spines : spine[k].held # {} =>
    /\ spine[k].owned /\ spine[k].fiber = "up"
    /\ \A c \in spine[k].held : writer[c] = "mirror" <=> spine[k].mirror = c

OneSpineRow(doc) == \A i, j \in SpineRows(doc) : i = j

(* A boot that failed leaves no session lock behind and no file of its own *)
(* making, whichever row or step refused (classify_failed_cell, the arms   *)
(* of the row loop, unwind_created) -- for documents with one spine row:   *)
(* a second one fails in the arm that leaves the mirror of the first open. *)
FailedBootLeavesNothing ==
  \A c \in Callers : pc[c] = "failed" /\ (frame[c].entry # NoEntry => OneSpineRow(frame[c].entry.doc))
    => writer[c] = "none" /\ file[c] # "created"

(* What the plan the composer projected from its own entry declares is     *)
(* what its Mounted has, tools, store and all, warm or cold: the dump      *)
(* equals the mount.                                                       *)
IsMounted(c, k) == c \in spine[k].held /\ frame[c].plan = plan[c]
ToolsArePlanned ==
  \A c \in Callers, k \in Spines : IsMounted(c, k) => spine[k].tools = Declares(plan[c])
MountIsPlan ==
  ToolsArePlanned /\ \A c \in Callers, k \in Spines : IsMounted(c, k) => spine[k].store = plan[c].store

(* A mount is never silently of another store than the plan's: the comment *)
(* on the plan's store dir in mount_seeded_body promises a loud failure.   *)
StoreIsPlanned ==
  \A c \in Callers, k \in Spines :
    c \in spine[k].held /\ pc[c] = "model" => plan[c].store \in {NoText, spine[k].store}

(* A boot that fails takes nothing that is in use with it and leaves       *)
(* nothing of its own behind.                                              *)
FailedBootIsClean == HeldIsLive /\ FailedBootLeavesNothing
=============================================================================
