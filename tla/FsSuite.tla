------------------------------- MODULE FsSuite ------------------------------
(***************************************************************************)
(* The filesystem conformance suite, crates/harnless-conformance/src/      *)
(* fs_suite.rs, as the calls each case makes and the answers it accepts,   *)
(* run against the provider of FsLocal: one case at a time on a fresh      *)
(* workspace, or the whole suite in order on one.                          *)
(***************************************************************************)
EXTENDS FsLocal

CONSTANT SuiteCaller   \* the caller of FsLocal that runs the suite

VARIABLE suite   \* the case, the step it is at, and what failed
suiteVars == <<suite, fsVars>>

Here(name) == <<"conf", name>>
F == Here("a")
G == Here("b")

(* A step: a call, the codes it may answer with, and for a read the bytes, *)
(* lines and truncation; a fixture that is refused skips the case.         *)
Call(op, p) ==
  [req |-> [NoRequest EXCEPT !.op = op, !.key = p, !.display = p, !.keep = TRUE],
   codes |-> {"ok"}, bytes |-> {}, lines |-> 0, cut |-> FALSE, fixture |-> FALSE]
Fix(step) == [step EXCEPT !.fixture = TRUE]
Refused(step, code) == [step EXCEPT !.codes = {code}]
Guarded(step, guard) == [step EXCEPT !.req.guard = guard, !.req.keep = FALSE]
Write(p, b) == [Call("write", p) EXCEPT !.req.bytes = b]
Rewrite(p, b) == [Write(p, b) EXCEPT !.req.keep = FALSE]
Edit(p, f, r) == [Call("edit", p) EXCEPT !.req.find = f, !.req.bytes = r, !.req.keep = FALSE]
Read(p, b, n) == [Call("read", p) EXCEPT !.bytes = {b}, !.lines = n]
Resolve(p) == Call("resolve", p)
MustWrite(p, b) == << Fix(Resolve(p)), Fix(Write(p, b)) >>
Chmod(p) == Call("chmod", p)

(* The texts the cases write, by their first letters.                      *)
Hello == <<"h">>   Seed == <<"s">>   One == <<"1">>   Two == <<"2">>
AlphaBeta == <<"a", "b">>
Binary == <<"bad", "tail">>
Page == <<"x", "newline", "x", "newline", "x", "newline">>

(* The cases, each a function of fs_suite.rs.                              *)
WriteThenRead == MustWrite(F, Hello) \o << Read(F, Hello, 1) >>
StaleVersionGuard ==
  MustWrite(F, Seed)
    \o << Fix([Edit(F, Seed, One) EXCEPT !.req.keep = TRUE]), Fix(Rewrite(F, Two)),
          Refused(Guarded(Write(F, Hello), "seen"), "stale-version"), Read(F, Two, 1),
          Write(F, Two), Guarded(Write(F, Hello), "seen") >>
UnobservedGuardedWrite == MustWrite(F, Seed) \o << Refused(Guarded(Write(F, Hello), "foreign"), "not-observed") >>
CreateIfAbsent ==
  << Fix(Resolve(F)), Fix(Guarded(Write(F, One), "absent")),
     Refused(Guarded(Write(F, Two), "absent"), "not-found"), Read(F, One, 1) >>
GuardedEditStale ==
  MustWrite(F, AlphaBeta)
    \o << Fix(Write(F, AlphaBeta)), Fix(Rewrite(F, AlphaBeta)),
          Refused(Guarded(Edit(F, <<"b">>, <<"a">>), "seen"), "stale-version"),
          Edit(F, <<"b">>, <<"a">>), Read(F, <<"a", "a">>, 1),
          Refused(Edit(F, <<"z">>, One), "edit-not-found"),
          Refused(Edit(F, <<"a">>, One), "ambiguous-edit") >>
AtomicWriteNoDebris ==
  MustWrite(F, One) \o MustWrite(F, Two) \o << Fix(Resolve(<<"conf">>)), Call("list", <<"conf">>) >>
AtomicEditNoDebris ==
  MustWrite(F, AlphaBeta) \o << Edit(F, <<"b">>, One), Fix(Resolve(<<"conf">>)), Call("list", <<"conf">>) >>
OverwriteInPlace == MustWrite(F, One) \o MustWrite(F, Two) \o << Read(F, Two, 1), Read(F, Two, 1) >>
(* The spelling that normalises is one with a parent.                      *)
SameFileSameKey == MustWrite(F, Seed) \o << Resolve(F), Resolve(<<"conf", Up, "conf", "a">>) >>
(* A foreign key, then a display that is another's.                        *)
ForgedTargetRefused ==
  MustWrite(F, One)
    \o << [Call("read", F) EXCEPT !.req.key = Foreign, !.codes = {"not-observed", "not-found"}] >>
    \o MustWrite(G, Two)
    \o << [Read(F, One, 1) EXCEPT !.req.display = G, !.codes = {"ok", "not-observed", "not-found"}] >>
WindowedReadPastCap ==
  MustWrite(F, Page) \o << [Read(F, SubSeq(Page, 1, 3), 3) EXCEPT !.req.max = 3, !.cut = TRUE] >>
WindowedReadNoCap == MustWrite(F, Page) \o << Read(F, Page, 3) >>
ReadMissingIsNotFound ==
  << [Resolve(Here("missing")) EXCEPT !.codes = {"ok", "not-found"}],
     Refused(Call("read", Here("missing")), "not-found") >>
ListFileIsNotADirectory == MustWrite(F, One) \o << Refused(Call("list", F), "not-a-directory") >>
ReadBinaryIsNotText == MustWrite(F, Binary) \o << Refused(Call("read", F), "not-text") >>
ReadDirectoryIsNotARegularFile ==
  MustWrite(F, Seed) \o << Fix(Resolve(<<"conf">>)), Refused(Call("read", <<"conf">>), "not-a-regular-file") >>
PermissionDeniedVsSandboxDenied ==
  MustWrite(F, Seed) \o << Fix(Resolve(F)), Chmod(F), Refused(Call("read", F), "permission-denied") >>

Cases ==
  << WriteThenRead, StaleVersionGuard, UnobservedGuardedWrite, CreateIfAbsent, GuardedEditStale,
     AtomicWriteNoDebris, AtomicEditNoDebris, OverwriteInPlace, SameFileSameKey, ForgedTargetRefused,
     WindowedReadPastCap, WindowedReadNoCap, ReadMissingIsNotFound, ListFileIsNotADirectory,
     ReadBinaryIsNotText, ReadDirectoryIsNotARegularFile, PermissionDeniedVsSandboxDenied >>

NoSuite == [case |-> 1, at |-> 1, whole |-> FALSE, waits |-> FALSE, failed |-> {}]
SuiteInit ==
  IF fsEnv.suite
  THEN suite \in { [NoSuite EXCEPT !.case = k] : k \in DOMAIN Cases } \cup {[NoSuite EXCEPT !.whole = TRUE]}
  ELSE suite = NoSuite
Running == fsEnv.suite

Steps == Cases[suite.case]
This  == Steps[suite.at]
Ended == suite.at > Len(Steps)

(* looks_like_debris; the provider's own temp names do not look like it.   *)
LooksLikeDebris(name) == name \in {"x.tmp", "x.temp", "x~", "x.bak", "x.swp"}

Accepts(step, a) ==
  /\ a.code \in step.codes
  /\ a.code = "ok" /\ step.req.op = "read" =>
       a.bytes \in step.bytes /\ a.lines = step.lines /\ a.cut = step.cut
  /\ \A name \in a.names : ~LooksLikeDebris(name)

(* check_case: the next call of the case.                                  *)
SuiteCall ==
  /\ Running /\ ~Ended /\ ~suite.waits
  /\ This.req.op # "chmod"
  /\ suite' = [suite EXCEPT !.waits = TRUE]
  /\ FsStart(SuiteCaller, This.req)

(* Its answer: a refused fixture ends the case without a violation.        *)
SuiteJudge ==
  /\ suite.waits /\ fop[SuiteCaller].pc = "idle"
  /\ LET a == fop[SuiteCaller].answer
         skip == This.fixture /\ a.code # "ok"
     IN  suite' = [suite EXCEPT !.waits = FALSE,
                     !.at = IF skip THEN Len(Steps) + 1 ELSE @ + 1,
                     !.failed = IF skip \/ Accepts(This, a) THEN @ ELSE @ \cup {<<suite.case, suite.at>>}]
  /\ UNCHANGED fsVars

(* chmod goes to the display as a path of its own process: the case is     *)
(* skipped unless that happens to be the file of the workspace.            *)
SuiteChmod ==
  /\ Running /\ ~Ended /\ ~suite.waits /\ This.req.op = "chmod"
  /\ \/ /\ suite' = [suite EXCEPT !.at = Len(Steps) + 1]
        /\ UNCHANGED tree
     \/ /\ suite' = [suite EXCEPT !.at = @ + 1]
        /\ tree' = [tree EXCEPT ![This.req.key] = Sealed(@.bytes)]
  /\ UNCHANGED <<fsEnv, mints, versions, nextVersion, life, registry, fop, seen, calls>>

(* check_file_system: the next case, on the provider as it is.             *)
SuiteNextCase ==
  /\ Running /\ Ended /\ suite.whole /\ suite.case < Len(Cases)
  /\ suite' = [suite EXCEPT !.case = @ + 1, !.at = 1]
  /\ calls' = 0
  /\ UNCHANGED <<fsEnv, tree, mints, versions, nextVersion, life, registry, fop, seen>>

SuiteNext ==
  \/ SuiteCall \/ SuiteJudge \/ SuiteChmod \/ SuiteNextCase
  \/ FsNext /\ UNCHANGED suite

(* Every case of the suite accepts the provider's answers, on a fresh      *)
(* workspace and on the one the cases before it left (check_file_system).  *)
FsSuitePasses == suite.failed = {}

=============================================================================
