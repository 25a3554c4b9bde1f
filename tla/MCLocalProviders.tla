-------------------------- MODULE MCLocalProviders -------------------------
EXTENDS LocalProviders

(* Credentials: two callers of one process want the same secret, one of    *)
(* them another too; a second process changes both records.                *)
McProcess == [c \in CredCallers |-> IF c = "k3" THEN "p2" ELSE "p1"]
McCredRequests == { <<"k1", "authorize", "r1">>, <<"k2", "authorize", "r1">>, <<"k2", "authorize", "r2">>,
                    <<"k3", "store", "r2">>, <<"k3", "forget", "r1">> }

McHub == [c \in StoreCallers |-> "hub"]

(* The workspace: a directory that is made on the way, and a link.         *)
McInstance == [c \in FsCallers |-> IF c = "c3" THEN "i2" ELSE "i1"]
McPaths == { <<"conf">>, F, G, Here("missing"), <<"link">> }
Bare == [p \in McPaths |-> IF p = <<"link">> THEN Link ELSE Absent]
With(b) == [Bare EXCEPT ![<<"conf">>] = Dir, ![F] = File(b)]
Strings(S, n) == UNION { [1..k -> S] : k \in 0..n }
Req(op, p) == [NoRequest EXCEPT !.op = op, !.key = p, !.display = p, !.keep = TRUE]
Wr(p, b, g) == [Req("write", p) EXCEPT !.bytes = b, !.guard = g]
Ed(p, f, r, g) == [Req("edit", p) EXCEPT !.find = f, !.bytes = r, !.guard = g]
Base == [callers |-> {"c1"}, trees |-> {Bare}, requests |-> {}, calls |-> 1, overlap |-> FALSE,
         faults |-> {}, suite |-> FALSE]
McFsEnvironments == {
  [Base EXCEPT !.suite = TRUE, !.calls = 20],
  (* windows and edits over every short text *)
  [Base EXCEPT !.trees = { With(b) : b \in Strings({"x", "newline", "head", "tail"}, 4) },
     !.requests = { [Req("read", F) EXCEPT !.max = m] : m \in 0..4 }],
  [Base EXCEPT !.trees = { With(b) : b \in Strings({"x", "y"}, 4) \cup {<<"bad">>} },
     !.requests = { Ed(F, f, <<"z">>, "none") : f \in Strings({"x", "y"}, 2) }],
  (* one call at a time, of two instances *)
  [Base EXCEPT !.callers = {"c1", "c3"}, !.calls = 4, !.faults = {"io", "policy", "crash"},
     !.requests = { Wr(F, <<"x">>, "none"), Wr(F, <<"y">>, "seen"), Wr(F, <<"z">>, "other"),
                    Req("version", F) }],
  [Base EXCEPT !.calls = 4, !.faults = {"io"},
     !.trees = {Bare, With(<<"x">>), [Bare EXCEPT ![<<"conf">>] = File(<<"x">>)]},
     !.requests = { Wr(F, <<"x">>, "absent"), Ed(F, <<"x">>, <<"y">>, "seen"), Req("version", F), Req("read", <<"conf">>),
                    Req("list", <<"conf">>), Req("list", F), Req("list", Root), Wr(<<"conf">>, <<"x">>, "none"),
                    Ed(<<"conf">>, <<"x">>, <<"y">>, "none"), Ed(G, <<"x">>, <<"y">>, "none"), Req("read", G),
                    Req("read", Root), Wr(<<"link">>, <<"x">>, "none"), Req("resolve", <<"link">>), Req("resolve", <<Up>>),
                    Req("resolve", Root) }],
  (* two calls at once *)
  [Base EXCEPT !.callers = {"c1", "c2"}, !.calls = 3, !.overlap = TRUE, !.faults = {"crash"},
     !.trees = {Bare, With(<<"x", "y">>)},
     !.requests = { Wr(F, <<"x", "x">>, "absent"), Wr(F, <<"y", "x">>, "none"), Ed(F, <<"x">>, <<"z">>, "none"),
                    Req("read", F), Wr(<<"conf">>, <<"x">>, "none"), Req("list", <<"conf">>) }] }
=============================================================================
