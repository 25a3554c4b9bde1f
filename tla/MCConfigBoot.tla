---------------------------- MODULE MCConfigBoot ---------------------------
(* Instance of ConfigBoot: the built-in bundles and profile, a directory   *)
(* that shadows and extends them, a home patch, and the overlays.          *)
EXTENDS ConfigBoot, TLC

CONSTANTS c1, c2

MCSeam == <<"spine">> :> "spine" @@ <<"replay">> :> "model" @@ <<"none">> :> "model"
            @@ <<"tool">> :> "tool" @@ <<"storage">> :> "storage"
MCEnv  == <<"STATE">> :> <<"s">> @@ <<"DUP">> :> <<"dir">>
MCHome == <<"/", "home">>

HomeDir(sub) == MapOf(<< [key |-> <<"dir">>, value |-> <<"${", "home", "}", "/", sub>>] >>)
Script(s) == MapOf(<< [key |-> <<"kind">>, value |-> <<"replay">>],
                      [key |-> <<"script">>, value |-> <<s>>] >>)
SpineRow    == Row(<<"spine">>, <<"spine">>, Null)
ReplayRow   == Row(<<"model">>, <<"replay">>, Null)
StoreRow    == Row(<<"store">>, <<"storage">>, HomeDir("sessions"))
EchoRow     == Row(<<"t">>, <<"tool">>, TextOf(Echo))
BashRow     == Row(<<"t">>, <<"tool">>, TextOf(<<"bash">>))
EmbedRow    == Row(<<"e">>, <<"embed">>, Null)
TwinRow     == Row(<<"twin">>, <<"spine">>, Null)

Spec_(name, bundles, rows, patch) ==
  [name |-> name, bundles |-> bundles, rows |-> rows, patch |-> patch, prompt |-> TextOf(<<"be kind">>)]

MCBuiltInBundles  == "core" :> << SpineRow, ReplayRow >> @@ "sessions" :> << StoreRow >>
MCBuiltInProfiles == "default" :> Spec_("default", << "core" >>, << StoreRow >>, <<>>)

File(status, declares, doc) == [status |-> status, declares |-> declares, doc |-> doc]
MCDiskBundles  == "lost" :> File("malformed", "lost", <<>>)
MCDiskProfiles ==
  "power" :> File("ok", "power",
    Spec_("power", << "core", "sessions" >>, << EchoRow >>,
          << SetOp(<<"model">>, Script("a")), SetOp(<<"gone">>, Null), InsertOp(EmbedRow) >>))
  @@ "spineless" :> File("ok", "spineless", Spec_("spineless", << "sessions" >>, << EchoRow >>, <<>>))
  @@ "wrong"     :> File("ok", "other", Spec_("other", <<>>, <<>>, <<>>))
  @@ "broken"    :> File("unreadable", "broken", <<>>)
  @@ "orphan"    :> File("ok", "orphan", Spec_("orphan", << "core", "lost" >>, <<>>, <<>>))
  @@ "missing"   :> File("ok", "missing", Spec_("missing", << "nobody" >>, <<>>, <<>>))

(* Documents a --patch or the home patch may hold. *)
Doc(kind, of) == [kind |-> kind, of |-> of, tags |-> {}]
Mapping(m)    == Doc("mapping", m)
SetDoc(id, config) == [op |-> "set", id |-> id, config |-> config]
MCHomePatch == << Mapping(SetDoc(<<"model">>, Script("h"))) >>

MCOverlays ==
  [ nothing    |-> Doc("null", <<>>),
    scalar     |-> Doc("scalar", <<>>),
    empty      |-> Doc("sequence", <<>>),
    tagged     |-> [Mapping([tools |-> Null]) EXCEPT !.tags = {"key"}],
    opaque     |-> [Mapping(SetDoc(<<"t">>, Null)) EXCEPT !.tags = {"row config"}],
    nameonly   |-> Mapping([name |-> "x"]),
    seams      |-> Mapping([model |-> Null, seams |-> Null]),
    script     |-> Mapping([model |-> Script("o")]),
    none       |-> Mapping([id |-> <<"model">>, plugin |-> NoModelPlugin]),
    tools      |-> Mapping([tools |-> ListOf(<< Echo >>)]),
    badtools   |-> Mapping([tools |-> TextOf(Echo)]),
    prompt     |-> Mapping([system_prompt |-> TextOf(<<"${", "env", ":", "STATE", "}">>)]),
    badprompt  |-> Mapping([system_prompt |-> ListOf(<<>>)]),
    bash       |-> Mapping([id |-> <<"t">>, plugin |-> <<"tool">>, config |-> TextOf(<<"bash">>)]),
    move       |-> Mapping(SetDoc(<<"store">>, HomeDir("moved"))),
    twostores  |-> Mapping([op |-> "insert", id |-> <<"store2">>, plugin |-> <<"storage">>,
                            config |-> HomeDir("x")]),
    badstore   |-> Mapping(SetDoc(<<"store">>, Null)),
    embed      |-> Doc("sequence", << [id |-> <<"e">>, plugin |-> <<"embed">>] >>),
    ops        |-> Doc("sequence", << [op |-> "insert", id |-> <<"spine">>, plugin |-> <<"spine">>],
                                      SetDoc(<<"e">>, Null), SetDoc(<<"model">>, Script("o")) >>),
    mixed      |-> Doc("sequence", << [id |-> <<"e">>, plugin |-> <<"embed">>], SetDoc(<<"e">>, Null) >>),
    layer      |-> Mapping([name |-> "l", rows |-> << BashRow, EmbedRow >>,
                            patch |-> << SetOp(<<"t">>, TextOf(Echo)) >>]),
    twin       |-> Mapping([id |-> <<"twin">>, plugin |-> <<"spine">>]),
    noenv      |-> Mapping(SetDoc(<<"e">>, TextOf(<<"${", "env", ":", "NO", "}">>))),
    insertnoenv |-> Mapping([id |-> <<"e">>, plugin |-> <<"embed">>,
                             config |-> TextOf(<<"${", "env", ":", "NO", "}">>)]),
    noarg      |-> Mapping([id |-> <<"e">>, plugin |-> <<"embed">>, config |-> TextOf(<<"${", "env", ":", "}">>)]),
    nofunc     |-> Mapping([id |-> <<"e">>, plugin |-> <<"embed">>, config |-> TextOf(<<"a", "${", "exec", "}">>)]),
    badhome    |-> Mapping([id |-> <<"e">>, plugin |-> <<"embed">>,
                            config |-> TextOf(<<"${", "home", ":", "x", "}">>)]),
    homepath   |-> Mapping([id |-> <<"e">>, plugin |-> <<"embed">>,
                            config |-> ListOf(<< <<"${", "home", ":", "/", "x", "}", "y">> >>)]),
    open       |-> Mapping([id |-> <<"e">>, plugin |-> <<"embed">>, config |-> TextOf(<<"${", "home">>)]),
    collide    |-> Mapping([id |-> <<"e">>, plugin |-> <<"embed">>,
                            config |-> MapOf(<< [key |-> <<"dir">>, value |-> <<"a">>],
                              [key |-> <<"${", "env", ":", "DUP", "}">>, value |-> <<"b">>] >>)]) ]

Rewriting == {"ops", "layer", "embed", "bash", "none", "tools", "twin"}
MCRequests == {<<n>> : n \in DOMAIN MCDiskProfiles \cup {"default", "nowhere"}}
           \cup ({"default", "power"} \X DOMAIN MCOverlays)
           \cup ({"power"} \X Rewriting \X Rewriting)
           \cup {<<"default", "script", "embed">>, <<"default", "script", "twin">>}
MCEnvironments ==
  { [requests |-> MCRequests, callers |-> {c1}, spines |-> 1, faults |-> {}],
    [requests |-> { <<"default">>, <<"default", "tools">>, <<"default", "move">> },
     callers |-> {c1, c2}, spines |-> 2, faults |-> {}],
    [requests |-> { <<"default">>, <<"power", "bash">>, <<"default", "script", "embed">> },
     callers |-> {c1, c2}, spines |-> 2, faults |-> {"refuse"}],
    [requests |-> { <<"power">>, <<"default", "script", "twin">>, <<"spineless">> },
     callers |-> {c1}, spines |-> 2, faults |-> {"seed", "refuse"}],
    [requests |-> { <<"default">>, <<"power", "embed">>, <<"default", "script">> },
     callers |-> {c1, c2}, spines |-> 2, faults |-> {"seed", "panic"}] }
=============================================================================
