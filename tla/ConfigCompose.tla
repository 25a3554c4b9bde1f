--------------------------- MODULE ConfigCompose ---------------------------
(***************************************************************************)
(* The composition of a configuration document: crates/harnless-config     *)
(* (compose.rs, doc.rs, subst.rs), the layered profile store and the plan  *)
(* projection of crates/harnless-cli/src/config_boot.rs.                   *)
(*                                                                         *)
(* A text is a sequence of tokens; "${", "}", ":" and "/" are the ones the *)
(* substitution looks at, every other token stands for itself.  A config   *)
(* value is null, a text, a list of texts or a mapping of texts, one level *)
(* deep.  A YAML document is what the decoders tell apart: its node kind,  *)
(* the fields of its mappings, and where it carries tags.                  *)
(***************************************************************************)
EXTENDS Naturals, SequencesExt, FiniteSetsExt, Functions

CONSTANTS
  Env,              \* environment: variable name (a text) -> its value
  Home,             \* the home directory, or NoText when it is unknown
  Seam,             \* plugin (a text) -> the seam it fills; absent: unknown
  BuiltInProfiles,  \* compiled-in profiles: name -> spec
  BuiltInBundles,   \* compiled-in bundles: name -> rows
  DiskProfiles,     \* <dir>/profiles/<name>.yml: name -> [status, declares, spec]
  DiskBundles,      \* <dir>/bundles/<name>.yml: name -> [status, declares, rows]
  HomePatch         \* the home-level patch: one document, or none

NoText == <<"no text">>

Ok(v)   == [err |-> "", val |-> v]
Fail(e) == [err |-> e, val |-> <<>>]
IsOk(r) == r.err = ""

(* The ? operator: the first error ends the computation.                   *)
Then(r, f(_)) == IF IsOk(r) THEN f(r.val) ELSE r

(* map(f) and collect::<Result<Vec<_>>>(): the values in order, until the  *)
(* first error.                                                            *)
Collect(acc, r) == Then(acc, LAMBDA out : Then(r, LAMBDA v : Ok(Append(out, v))))
TryMap(f(_), s) == FoldLeft(Collect, Ok(<<>>), [i \in DOMAIN s |-> f(s[i])])

Null       == [kind |-> "null", of |-> <<>>]
TextOf(t)  == [kind |-> "text", of |-> t]
ListOf(ts) == [kind |-> "list", of |-> ts]
MapOf(es)  == [kind |-> "map",  of |-> es]     \* entries [key, value]

Field(v, k) ==
  LET at == SelectInSeq(v.of, LAMBDA e : e.key = k)
  IN  IF v.kind = "map" /\ at # 0 THEN v.of[at].value ELSE NoText
Keys(v) == { e.key : e \in ToSet(v.of) }

----------------------------------------------------------------------------
(* Substitution: subst.rs                                                  *)

(* Subst::expand_expr: the body of one ${...}, split at its first colon.   *)
ExpandExpr(body) ==
  LET at   == SelectInSeq(body, LAMBDA t : t = ":")
      func == IF at = 0 THEN body ELSE SubSeq(body, 1, at - 1)
      arg  == IF at = 0 THEN <<>> ELSE SubSeq(body, at + 1, Len(body))
  IN  CASE func = <<"env">> /\ at # 0 ->
             IF arg = <<>> THEN Fail("unknown-substitution")
             ELSE IF arg \in DOMAIN Env THEN Ok(Env[arg]) ELSE Fail("missing-env")
        [] func = <<"home">> ->
             IF arg # <<>> /\ arg[1] # "/" THEN Fail("unknown-substitution")
             ELSE IF Home = NoText THEN Fail("missing-home") ELSE Ok(Home \o arg)
        [] OTHER -> Fail("unknown-substitution")

(* Subst::expand_str: the text up to "${", the expression up to the next   *)
(* "}", and on; what an expression expands to is not scanned again.        *)
ScanToken(st, tok) ==
  IF st.err # "" THEN st
  ELSE IF ~st.open THEN IF tok = "${" THEN [st EXCEPT !.open = TRUE, !.body = <<>>]
                        ELSE [st EXCEPT !.out = Append(@, tok)]
  ELSE IF tok # "}" THEN [st EXCEPT !.body = Append(@, tok)]
  ELSE LET r == ExpandExpr(st.body)
       IN  [st EXCEPT !.open = FALSE, !.err = r.err, !.out = @ \o r.val]
ScanEnd(st) ==
  IF st.err # "" THEN Fail(st.err)
  ELSE IF st.open THEN Fail("bad-substitution") ELSE Ok(st.out)

ExpandStr(t) ==
  ScanEnd(FoldLeft(ScanToken, [open |-> FALSE, body |-> <<>>, out |-> <<>>, err |-> ""], t))

(* The mapping arm: an entry whose expanded key is already in the output   *)
(* is an error, never an overwrite.                                        *)
PutEntry(out, k, v) ==
  IF \E i \in DOMAIN out : out[i].key = k THEN Fail("substitution-key-collision")
  ELSE Ok(Append(out, [key |-> k, value |-> v]))

ExpandEntries(es) ==
  FoldLeft(LAMBDA acc, e :
             Then(acc, LAMBDA out :
               Then(ExpandStr(e.key), LAMBDA k :
                 Then(ExpandStr(e.value), LAMBDA v : PutEntry(out, k, v)))),
           Ok(<<>>), es)

(* Subst::expand_value *)
ExpandValue(v) ==
  Then(CASE v.kind = "text" -> ExpandStr(v.of)
         [] v.kind = "list" -> TryMap(ExpandStr, v.of)
         [] v.kind = "map"  -> ExpandEntries(v.of)
         [] OTHER           -> Ok(v.of),
       LAMBDA of : Ok([v EXCEPT !.of = of]))

ExpandRow(row) ==
  Then(ExpandStr(row.id), LAMBDA id :
    Then(ExpandStr(row.plugin), LAMBDA plugin :
      Then(ExpandValue(row.config), LAMBDA config :
        Ok([id |-> id, plugin |-> plugin, config |-> config]))))

(* to_value, expand_value over the whole document, from_value.             *)
ExpandDoc(doc) ==
  Then(TryMap(ExpandRow, doc.rows), LAMBDA rows :
    Then(ExpandValue(doc.prompt), LAMBDA prompt :
      Ok([doc EXCEPT !.rows = rows, !.prompt = prompt])))

----------------------------------------------------------------------------
(* Documents: doc.rs                                                       *)

(* A row, a patch operation and a layer of either.                         *)
Row(id, plugin, config) == [id |-> id, plugin |-> plugin, config |-> config]
SetOp(id, config)       == [op |-> "set", id |-> id, config |-> config]
InsertOp(row)           == [op |-> "insert", row |-> row]
Layer(name, rows, patch) == [name |-> name, rows |-> rows, patch |-> patch]

(* What serde decodes: rows and operations with all their fields.          *)
IsSeq(s)  == s \in Seq(ToSet(s))
IsRow(r)  == r = Row(r.id, r.plugin, r.config)
IsOp(o)   == IF o.op = "set" THEN o = SetOp(o.id, o.config) ELSE o = InsertOp(o.row) /\ IsRow(o.row)
IsRows(rows)   == IsSeq(rows) /\ \A i \in DOMAIN rows : IsRow(rows[i])
IsPatch(patch) == IsSeq(patch) /\ \A i \in DOMAIN patch : IsOp(patch[i])
IsSpec(spec, name) ==
  spec.name = name /\ IsSeq(spec.bundles) /\ IsRows(spec.rows) /\ IsPatch(spec.patch)

(* serde's decoders: the fields of a mapping decide, deny_unknown_fields.  *)
DecodesRow(m)   == {"id", "plugin"} \subseteq DOMAIN m /\ DOMAIN m \subseteq {"id", "plugin", "config"}
DecodesSet(m)   == DOMAIN m = {"op", "id", "config"} /\ m.op = "set"
DecodesInsert(m) == "op" \in DOMAIN m /\ m.op = "insert" /\ DecodesRow(Restrict(m, DOMAIN m \ {"op"}))
DecodesOp(m)    == DecodesSet(m) \/ DecodesInsert(m)
DecodesLayer(m) == DOMAIN m \subseteq {"name", "rows", "patch"}

RowOf(m) == Row(m.id, m.plugin, IF "config" \in DOMAIN m THEN m.config ELSE Null)
OpOf(m)  == IF m.op = "set" THEN SetOp(m.id, m.config) ELSE InsertOp(RowOf(m))
LayerOf(m) == Layer(IF "name" \in DOMAIN m THEN m.name ELSE "",
                    IF "rows" \in DOMAIN m THEN m.rows ELSE <<>>,
                    IF "patch" \in DOMAIN m THEN m.patch ELSE <<>>)

(* reject_tags: a tag only inside a row's config, and on no mapping key.   *)
RejectsTags(doc) == doc.tags \ {"row config"} # {}

ModelRow  == <<"model">>
PromptRow == <<"system_prompt">>
ToolsRow  == <<"tools">>
DocPrefix == "doc:"

(* field_patch: model becomes a set on the model row, system_prompt and    *)
(* tools become rows of their own; any other field and it is no patch.     *)
FieldPatch(m) ==
  LET Rows(f) == IF f \notin DOMAIN m THEN <<>>
                 ELSE << Row(<<f>>, <<DocPrefix, f>>, m[f]) >>
      fields == DOMAIN m
  IN  IF fields = {} \/ ~(fields \subseteq {"model", "system_prompt", "tools"}) THEN Fail("bad-patch")
      ELSE Ok(Layer("", Rows("system_prompt") \o Rows("tools"),
                    IF "model" \in fields THEN << SetOp(ModelRow, m.model) >> ELSE <<>>))

(* Layer::from_value *)
FromValue(doc) ==
  IF RejectsTags(doc) THEN Fail("bad-tag")
  ELSE CASE doc.kind = "null" -> Ok(Layer("", <<>>, <<>>))
    [] doc.kind = "sequence" ->
         LET rows == \A i \in DOMAIN doc.of : DecodesRow(doc.of[i])
             ops  == \A i \in DOMAIN doc.of : DecodesOp(doc.of[i])
         IN  IF rows = ops THEN Fail("bad-patch")
             ELSE IF rows THEN Ok(Layer("", [i \in DOMAIN doc.of |-> RowOf(doc.of[i])], <<>>))
             ELSE Ok(Layer("", <<>>, [i \in DOMAIN doc.of |-> OpOf(doc.of[i])]))
    [] doc.kind = "mapping" ->
         LET m == doc.of
         IN  IF DecodesOp(m) THEN Ok(Layer("", <<>>, << OpOf(m) >>))
             ELSE IF DecodesLayer(m) /\ LayerOf(m).rows \o LayerOf(m).patch # <<>> THEN Ok(LayerOf(m))
             ELSE IF DecodesRow(m) THEN Ok(Layer("", << RowOf(m) >>, <<>>))
             ELSE FieldPatch(m)
    [] OTHER -> Fail("bad-patch")

(* parse_overlays: the first malformed document refuses the whole text; a  *)
(* layer that contributes nothing is discarded.                            *)
KeepLayer(out, l)   == IF l.rows # <<>> \/ l.patch # <<>> THEN Append(out, l) ELSE out
ParseOverlays(docs) ==
  Then(TryMap(FromValue, docs), LAMBDA ls : Ok(FoldLeft(KeepLayer, <<>>, ls)))

(* A document's sequence is one, and its rows and patch decode as such.    *)
IsDocument(doc) ==
  /\ doc.kind = "sequence" => IsSeq(doc.of)
  /\ doc.kind = "mapping" /\ DecodesLayer(doc.of) =>
       IsRows(LayerOf(doc.of).rows) /\ IsPatch(LayerOf(doc.of).patch)

ASSUME ComposeAssumption ==
  /\ \A n \in DOMAIN BuiltInProfiles : IsSpec(BuiltInProfiles[n], n)
  /\ \A n \in DOMAIN BuiltInBundles : IsRows(BuiltInBundles[n])
  /\ \A n \in DOMAIN DiskProfiles :
       DiskProfiles[n].status = "ok" => IsSpec(DiskProfiles[n].doc, DiskProfiles[n].declares)
  /\ \A n \in DOMAIN DiskBundles : DiskBundles[n].status = "ok" => IsRows(DiskBundles[n].doc)
  /\ \A n \in DOMAIN DiskProfiles : DiskProfiles[n].status \in {"ok", "malformed", "unreadable"}
  /\ \A n \in DOMAIN DiskBundles : DiskBundles[n].status \in {"ok", "malformed", "unreadable"}
  /\ IsSeq(HomePatch) /\ \A i \in DOMAIN HomePatch : IsDocument(HomePatch[i])

----------------------------------------------------------------------------
(* The fold: compose.rs                                                    *)

Position(rows, id) == SelectInSeq(rows, LAMBDA r : r.id = id)

(* A plausible slip: the row moves to the end, as a fresh one would.       *)
PutRowLast(rows, row) == Append(SelectSeq(rows, LAMBDA r : r.id # row.id), row)

(* A row declaration, or an insert: in place when the id is there.         *)
PutRow(rows, row) ==
  LET at == Position(rows, row.id)
  IN  IF at = 0 THEN Append(rows, row) ELSE [rows EXCEPT ![at] = row]

(* PatchOp::Set: the whole config, or a warning.                           *)
SetConfig(acc, op) ==
  LET at == Position(acc.rows, op.id)
  IN  IF at = 0 THEN [acc EXCEPT !.warnings = Append(@, op.id)]
      ELSE [acc EXCEPT !.rows[at].config = op.config]

ApplyOp(acc, op) ==
  IF op.op = "set" THEN SetConfig(acc, op) ELSE [acc EXCEPT !.rows = PutRow(@, op.row)]

ApplyLayer(acc, layer) ==
  FoldLeft(ApplyOp, [acc EXCEPT !.rows = FoldLeft(PutRow, @, layer.rows)], layer.patch)

(* compose_layers *)
Finish(spec, out) ==
  Then(ExpandDoc([name |-> spec.name, rows |-> out.rows, prompt |-> spec.prompt]), LAMBDA doc :
    Ok([doc |-> doc, warnings |-> out.warnings]))

ComposeLayers(spec, layers) ==
  Finish(spec, FoldLeft(ApplyLayer, [rows |-> <<>>, warnings |-> <<>>], layers))

(* DirStore::read and load: a missing file is None, a document must carry  *)
(* the name of its file.                                                   *)
LoadDisk(files, name, bad) ==
  IF name \notin DOMAIN files THEN Ok(<<>>)
  ELSE IF files[name].status = "unreadable" THEN Fail("io-error")
  ELSE IF files[name].status = "malformed" \/ files[name].declares # name THEN Fail(bad)
  ELSE Ok(<< files[name].doc >>)

(* LayeredStore::load: the directory, then the compiled-in set; a broken   *)
(* file is an error, it does not fall back.                                *)
LoadLayered(files, builtIn, name, bad, unknown) ==
  Then(LoadDisk(files, name, bad), LAMBDA found :
    IF found # <<>> THEN Ok(found[1])
    ELSE IF name \in DOMAIN builtIn THEN Ok(builtIn[name]) ELSE Fail(unknown))

LoadProfile(name) == LoadLayered(DiskProfiles, BuiltInProfiles, name, "bad-profile", "unknown-profile")
LoadBundle(name)  == LoadLayered(DiskBundles, BuiltInBundles, name, "bad-bundle", "unknown-bundle")

(* ConfigComposer::with_home_patch: a malformed home patch is reported and *)
(* left out.                                                               *)
HomeLayers ==
  LET r == TryMap(FromValue, HomePatch)
  IN  IF IsOk(r) THEN [i \in DOMAIN r.val |-> [r.val[i] EXCEPT !.name = "home"]] ELSE <<>>

(* Composer::compose: bundles in order, the profile's rows, its patch, the *)
(* home patch, the overlays.                                               *)
LayersOf(spec, bundles, overlays) ==
  [i \in DOMAIN bundles |-> Layer(spec.bundles[i], bundles[i], <<>>)]
    \o (IF spec.rows = <<>> THEN <<>> ELSE << Layer("profile", spec.rows, <<>>) >>)
    \o (IF spec.patch = <<>> THEN <<>> ELSE << Layer("profile:patch", <<>>, spec.patch) >>)
    \o HomeLayers
    \o overlays

Compose(name, overlays) ==
  Then(LoadProfile(name), LAMBDA spec :
    Then(TryMap(LoadBundle, spec.bundles), LAMBDA bundles :
      ComposeLayers(spec, LayersOf(spec, bundles, overlays))))

----------------------------------------------------------------------------
(* The plan: config_boot.rs                                                *)

(* PluginSpecs::seam *)
SeamOf(plugin) == IF plugin \in DOMAIN Seam THEN Seam[plugin] ELSE "unknown"
IsDocRow(row)  == row.plugin # <<>> /\ row.plugin[1] = DocPrefix

ReplayModel(script) == [kind |-> "replay", script |-> script]
NoModel             == [kind |-> "none", script |-> NoText]

(* model_spec_from_config: a null config names the built-in demo replay.   *)
ModelSpec(config) ==
  IF config.kind = "null" THEN Ok(ReplayModel(NoText))
  ELSE CASE Field(config, <<"kind">>) = <<"none">> /\ Keys(config) = {<<"kind">>} -> Ok(NoModel)
    [] Field(config, <<"kind">>) = <<"replay">> /\ Keys(config) \subseteq {<<"kind">>, <<"script">>} ->
         Ok(ReplayModel(Field(config, <<"script">>)))
    [] OTHER -> Fail("plugin-build-failed")

(* storage_spec_from_config *)
StoreSpec(config) ==
  IF config.kind = "map" /\ Keys(config) = {<<"dir">>} THEN Ok(Field(config, <<"dir">>))
  ELSE Fail("plugin-build-failed")

(* tool_name: the config's string, else the row's id.                      *)
ToolName(row) == IF row.config.kind = "text" THEN row.config.of ELSE row.id

(* The rows a field-wise patch made: document fields, never services.      *)
PlanDocRow(plan, row) ==
  CASE row.id = PromptRow ->
         IF row.config.kind = "null" THEN Ok(plan)
         ELSE IF row.config.kind = "text" THEN Ok([plan EXCEPT !.prompt = row.config])
         ELSE Fail("plugin-build-failed")
    [] row.id = ToolsRow ->
         IF row.config.kind = "null" THEN Ok(plan)
         ELSE IF row.config.kind = "list" THEN Ok([plan EXCEPT !.tools = @ \o row.config.of])
         ELSE Fail("plugin-build-failed")
    [] OTHER -> Fail("unknown-plugin")

PlanRow(plan, row) ==
  IF IsDocRow(row) THEN PlanDocRow(plan, row)
  ELSE CASE SeamOf(row.plugin) = "model" ->
              Then(ModelSpec(row.config), LAMBDA m : Ok([plan EXCEPT !.model = m]))
         [] SeamOf(row.plugin) = "tool" -> Ok([plan EXCEPT !.tools = Append(@, ToolName(row))])
         [] SeamOf(row.plugin) = "storage" ->
              IF plan.store # NoText THEN Fail("plugin-build-failed")
              ELSE Then(StoreSpec(row.config), LAMBDA s : Ok([plan EXCEPT !.store = s]))
         [] OTHER -> Ok(plan)

(* ConfigComposer::plan; the seams a spine row stands for are a fixed list *)
(* and left out.                                                           *)
EmptyPlan(name, prompt) ==
  [name |-> name, model |-> NoModel, tools |-> <<>>, prompt |-> prompt, store |-> NoText]

PlanNext(acc, row) == Then(acc, LAMBDA plan : PlanRow(plan, row))
Plan(doc) == FoldLeft(PlanNext, Ok(EmptyPlan(doc.name, doc.prompt)), doc.rows)

=============================================================================
