------------------------------ MODULE FsLocal ------------------------------
(***************************************************************************)
(* The local filesystem provider, crates/harnless-fs-local/src/provider.rs *)
(* and events.rs: instances rooted at one workspace, whose callers read,   *)
(* write, edit and list targets.  A target is a key and a display; a       *)
(* mutation opens, asks the policy, checks its guard, writes a sibling     *)
(* temp file, renames it and stamps a version, and the steps of two        *)
(* callers interleave between these.                                       *)
(*                                                                         *)
(* A path is the sequence of its names and stands for its hash (the key)   *)
(* too.  Descriptors and syscalls that only hold or sync one are left out. *)
(***************************************************************************)
EXTENDS Naturals, SequencesExt, FiniteSetsExt

CONSTANTS
  FsCallers,       \* threads that use an instance
  Instance,        \* caller -> its provider instance
  Paths,           \* the paths below the root, parents included
  Chunk,           \* READ_CHUNK
  MaxLives,        \* bound: processes an instance lives in
  FsEnvironments   \* each: callers, initial trees, requests, a bound on the
                   \* calls, whether calls overlap, the faults, and
                   \* whether the conformance suite makes the calls

Root    == <<>>
Foreign == <<"?">>   \* a key no path hashes to
Up      == ".."
Uncapped == 99       \* usize::MAX
NoToken == <<"none", 0, 0>>

Absent  == [kind |-> "absent", bytes |-> <<>>]
Dir     == [kind |-> "dir", bytes |-> <<>>]
Link    == [kind |-> "link", bytes |-> <<>>]
File(b) == [kind |-> "file", bytes |-> b]
Sealed(b) == [kind |-> "sealed", bytes |-> b]   \* one the process may not open

VARIABLES
  fsEnv,        \* what may happen in this behaviour
  tree,         \* path -> the object it names
  mints,        \* every mutation's instance, token, path and bytes; whether its temp is there
  versions,     \* instance -> path -> its version counter, 0 for none
  nextVersion,  \* instance -> next_version
  life,         \* instance -> how often it was mounted: with it, the nonce
  registry,     \* instance -> keys resolve handed out
  fop,          \* each caller's call: where it is, and its answer
  seen,         \* each caller: the token it keeps, the bytes it was for and
                \* the mount it came from
  calls         \* calls made so far

fsVars == <<fsEnv, tree, mints, versions, nextVersion, life, registry, fop, seen, calls>>

Instances == { Instance[c] : c \in FsCallers }
NoAnswer == [code |-> "none", bytes |-> <<>>, lines |-> 0, cut |-> FALSE, names |-> {}]
NoRequest == [op |-> "none", key |-> Root, display |-> Root, guard |-> "none", bytes |-> <<>>,
              find |-> <<>>, max |-> Uncapped, keep |-> FALSE]
NoCall == [pc |-> "idle", req |-> NoRequest, at |-> Root, opened |-> Absent, next |-> <<>>,
           counter |-> 0, to |-> Root, answer |-> NoAnswer]
NothingSeen == [token |-> NoToken, bytes |-> <<>>, by |-> NoToken]

FsFrom(env, t) ==
  /\ fsEnv = env
  /\ tree = t
  /\ mints = {}
  /\ versions = [i \in Instances |-> [p \in Paths |-> 0]]
  /\ nextVersion = [i \in Instances |-> 1]
  /\ life = [i \in Instances |-> 1]
  /\ registry = [i \in Instances |-> {}]
  /\ fop = [c \in FsCallers |-> NoCall]
  /\ seen = [c \in FsCallers |-> NothingSeen]
  /\ calls = 0

FsInit == \E env \in FsEnvironments : \E t \in env.trees : FsFrom(env, t)

----------------------------------------------------------------------------
(* Paths                                                                   *)

(* open_parent's components: ".." pops, and pops nothing at the root.      *)
WalkPath(display) ==
  FoldLeft(LAMBDA acc, name : IF name # Up THEN Append(acc, name)
                              ELSE IF acc = <<>> THEN acc ELSE Front(acc), <<>>, display)

(* resolve's: a climb past the root is refused.                            *)
Climbs(path) ==
  \E n \in 1..Len(path) :
    Cardinality({i \in 1..n : path[i] = Up}) * 2 > n

Hops(p) == [n \in 1..(Len(p) - 1) |-> SubSeq(p, 1, n)]

(* A tree: whatever there is stands in directories.                        *)
IsTree(t) ==
  /\ DOMAIN t = Paths
  /\ \A p \in Paths :
       /\ t[p].kind \in {"absent", "dir"} => t[p].bytes = <<>>
       /\ t[p].kind # "absent" => \A n \in DOMAIN Hops(p) : t[Hops(p)[n]].kind = "dir"

(* A path names no parent; requests are for paths; and a token is borrowed *)
(* only where there is a caller to borrow it from.                         *)
ASSUME FsAssumption ==
  /\ Chunk \in Nat \ {0}
  /\ \A p \in Paths \cup {Root} : WalkPath(p) = p
  /\ \A p \in Paths :
       /\ p \in Seq(STRING) \ {Root}
       /\ \A n \in DOMAIN Hops(p) : Hops(p)[n] \in Paths
  /\ \A env \in FsEnvironments :
       /\ env.callers \subseteq FsCallers
       /\ \A t \in env.trees : IsTree(t)
       /\ \A req \in env.requests :
            /\ req.op \in {"resolve", "version", "read", "list", "write", "edit"}
            /\ WalkPath(req.display) \in Paths \cup {Root}
            /\ req.guard = "other" => \A c \in FsCallers : \E d \in FsCallers : d # c

FirstBadHop(p) == SelectInSeq(Hops(p), LAMBDA h : tree[h].kind # "dir")

(* The walk to a parent: what it answers, and the directories it makes.    *)
(* (create_dir_all refuses where a file stands.)                           *)
OpenParent(p, create) ==
  LET bad == FirstBadHop(p)
      kind == tree[Hops(p)[bad]].kind
  IN  IF bad = 0 THEN [code |-> "ok", made |-> {}]
      ELSE IF kind = "link" THEN [code |-> "sandbox-denied", made |-> {}]
      ELSE IF kind # "absent" THEN [code |-> "io-error", made |-> {}]
      ELSE IF create THEN [code |-> "ok", made |-> { Hops(p)[i] : i \in bad..(Len(p) - 1) }]
      ELSE [code |-> "not-found", made |-> {}]

(* resolve_key: a key this instance handed out brings its own display.     *)
ResolveKey(i, key, display) ==
  IF display # key /\ key \in registry[i] THEN key ELSE display

(* A plausible slip: the walk's outcome is taken for the key's.            *)
OpenTargetTrusting(i, key, display, create) ==
  LET at   == WalkPath(ResolveKey(i, key, display))
      walk == OpenParent(at, create)
  IN  [code |-> walk.code, at |-> at, made |-> walk.made,
       object |-> IF at = Root THEN Dir ELSE IF walk.code = "ok" THEN tree[at] ELSE Absent]

(* open_target: the object, or how the walk, the open and verify_key, in   *)
(* this order, refuse.                                                     *)
OpenTarget(i, key, display, create) ==
  LET path == ResolveKey(i, key, display)
      at   == WalkPath(path)
      walk == OpenParent(at, create)
      refuse(code, made) == [code |-> code, at |-> at, object |-> Absent, made |-> made]
  IN  IF at = Root
      THEN IF path = Root /\ key = Root THEN [refuse("ok", {}) EXCEPT !.object = Dir]
           ELSE refuse("not-observed", {})
      ELSE IF walk.code # "ok" THEN refuse(walk.code, {})
      ELSE IF tree[at].kind = "link" THEN refuse("sandbox-denied", walk.made)
      ELSE IF tree[at].kind = "sealed" THEN refuse("permission-denied", walk.made)
      ELSE IF key # at THEN refuse("not-observed", walk.made)
      ELSE [refuse("ok", walk.made) EXCEPT !.object = tree[at]]

(* resolve: an existing hop must be a directory or be written over later,  *)
(* and no link; the last component may be missing.                         *)
ResolveCode(path) ==
  LET at  == WalkPath(path)
      bad == FirstBadHop(at)
      kind == IF bad = 0 THEN tree[at].kind ELSE tree[Hops(at)[bad]].kind
  IN  IF Climbs(path) THEN "sandbox-denied"
      ELSE IF at = Root THEN "ok"
      ELSE IF kind = "link" THEN "sandbox-denied"
      ELSE IF bad = 0 /\ kind = "sealed" THEN "permission-denied"
      ELSE "ok"

----------------------------------------------------------------------------
(* Bytes                                                                   *)

(* UTF-8: of the bytes, "head" and "tail" make one character together and  *)
(* "bad" is in none.                                                       *)
Utf8(b) ==
  \A i \in 1..Len(b) :
    /\ b[i] # "bad"
    /\ b[i] = "head" => i < Len(b) /\ b[i + 1] = "tail"
    /\ b[i] = "tail" => i > 1 /\ b[i - 1] = "head"

Least(x, y) == IF x < y THEN x ELSE y

Chunks(b) ==
  [k \in 1..((Len(b) + Chunk - 1) \div Chunk) |-> SubSeq(b, (k - 1) * Chunk + 1, Least(k * Chunk, Len(b)))]

(* read_windowed's loop.                                                   *)
Window(b, max) ==
  LET take(acc, chunk) ==
        LET n == Least(max - Len(acc.bytes), Len(chunk))
        IN  [bytes |-> acc.bytes \o SubSeq(chunk, 1, n),
             lines |-> acc.lines + Cardinality({i \in 1..Len(chunk) : chunk[i] = "newline"}),
             ends  |-> Last(chunk) = "newline",
             cut   |-> acc.cut \/ n < Len(chunk)]
      all == FoldLeft(take, [bytes |-> <<>>, lines |-> 0, ends |-> TRUE, cut |-> FALSE], Chunks(b))
  IN  [bytes |-> all.bytes, cut |-> all.cut,
       lines |-> IF all.ends THEN all.lines ELSE all.lines + 1]

(* find: the first offset at or past a position, or 0.                     *)
OccursAt(b, f, i) == i + Len(f) - 1 <= Len(b) /\ SubSeq(b, i, i + Len(f) - 1) = f
Find(b, f, from) ==
  LET hits == { i \in from..Len(b) : OccursAt(b, f, i) }
  IN  IF hits = {} THEN 0 ELSE CHOOSE i \in hits : \A j \in hits : i <= j

(* A plausible slip: the search goes on one byte further on, not behind    *)
(* the match.                                                              *)
CountMatchesOverlapping(b, f) ==
  IF f = <<>> THEN 0 ELSE Cardinality({ i \in 1..Len(b) : OccursAt(b, f, i) })

(* count_matches: each search starts behind the last match.                *)
CountMatches(b, f) ==
  IF f = <<>> THEN 0
  ELSE LET from[i \in 1..(Len(b) + 1)] ==
             IF Find(b, f, i) = 0 THEN 0 ELSE 1 + from[Find(b, f, i) + Len(f)]
       IN  from[1]

Replaced(b, f, r) ==
  LET at == Find(b, f, 1)
  IN  SubSeq(b, 1, at - 1) \o r \o SubSeq(b, at + Len(f), Len(b))

----------------------------------------------------------------------------
(* Versions                                                                *)

(* A plausible slip: a token is the bare counter.                          *)
StampBare(i, n) == <<"none", 0, n>>

(* stamp mixes in the instance's nonce.                                    *)
Stamp(i, n) == <<i, life[i], n>>

Issued(i, token) == \E n \in 1..(nextVersion[i] - 1) : Stamp(i, n) = token

(* check_guard, against what the instance itself stamped.                  *)
CheckGuard(i, at, guard, token, exists) ==
  IF guard = "none" THEN "ok"
  ELSE IF guard = "absent" THEN IF exists THEN "not-found" ELSE "ok"
  ELSE IF versions[i][at] = 0 THEN "not-observed"
  ELSE IF Stamp(i, versions[i][at]) = token THEN "ok"
  ELSE IF Issued(i, token) THEN "stale-version" ELSE "not-observed"

(* version_of looks up the display.                                        *)
VersionOf(i, display) ==
  IF display = Root \/ display \notin Paths \/ versions[i][display] = 0 THEN NoToken
  ELSE Stamp(i, versions[i][display])

----------------------------------------------------------------------------
(* A call                                                                  *)

Inst(c) == Instance[c]
Quiet == \A c \in FsCallers : fop[c].pc = "idle"
CallTo(c, l) == fop' = [fop EXCEPT ![c].pc = l]
Answer(c, code) ==
  fop' = [fop EXCEPT ![c].pc = "idle", ![c].answer = [NoAnswer EXCEPT !.code = code]]
Mount(i) == <<"mount", i, life[i]>>
Kept(c, token, bytes) == [token |-> token, bytes |-> bytes, by |-> Mount(Inst(c))]
(* The token a guard presents: the caller's own, or one it was handed.     *)
Presented(c) ==
  CASE fop[c].req.guard = "other" -> seen[CHOOSE d \in FsCallers : d # c]
    [] fop[c].req.guard = "foreign" -> NothingSeen
    [] OTHER -> seen[c]
Make(made) == tree' = [p \in Paths |-> IF p \in made THEN Dir ELSE tree[p]]

FsStart(c, req) ==
  /\ fop[c].pc = "idle"
  /\ calls < fsEnv.calls /\ (fsEnv.overlap \/ Quiet)
  /\ calls' = calls + 1
  /\ fop' = [fop EXCEPT ![c] = [NoCall EXCEPT !.pc = req.op, !.req = req]]
  /\ UNCHANGED <<fsEnv, tree, mints, versions, nextVersion, life, registry, seen>>

FsResolve(c) ==
  /\ fop[c].pc = "resolve"
  /\ LET path == fop[c].req.display
     IN  /\ Answer(c, ResolveCode(path))
         /\ registry' = [registry EXCEPT ![Inst(c)] =
                           IF ResolveCode(path) = "ok" THEN @ \cup { WalkPath(path) } ELSE @]
  /\ UNCHANGED <<fsEnv, tree, mints, versions, nextVersion, life, seen, calls>>

FsVersionOf(c) ==
  /\ fop[c].pc = "version"
  /\ LET at == fop[c].req.display
     IN  seen' = [seen EXCEPT ![c] = Kept(c, VersionOf(Inst(c), at), IF at = Root THEN <<>> ELSE tree[at].bytes)]
  /\ Answer(c, "ok")
  /\ UNCHANGED <<fsEnv, tree, mints, versions, nextVersion, life, registry, calls>>

(* open_target; a read or a listing checks the kind of what it opened, a   *)
(* write refuses a directory; an edit goes by the descriptor alone.        *)
FsOpen(c) ==
  /\ fop[c].pc \in {"read", "list", "write", "edit"}
  /\ LET req == fop[c].req
         o == OpenTarget(Inst(c), req.key, req.display, req.op = "write")
         code ==
           IF o.code # "ok" THEN o.code
           ELSE IF o.object = Absent /\ req.op # "write" THEN "not-found"
           ELSE IF req.op = "read" /\ o.object.kind = "dir" THEN "not-a-regular-file"
           ELSE IF req.op = "list" /\ o.object.kind # "dir" THEN "not-a-directory"
           ELSE IF req.op = "write" /\ o.object.kind = "dir" THEN "not-a-directory"
           ELSE "ok"
     IN  /\ Make(o.made)
         /\ IF code # "ok" THEN Answer(c, code)
            ELSE fop' = [fop EXCEPT ![c].opened = o.object, ![c].at = o.at, ![c].next = req.bytes,
                           ![c].pc = IF req.op = "read" THEN "window"
                                     ELSE IF req.op = "list" THEN "entries" ELSE "decide"]
  /\ UNCHANGED <<fsEnv, mints, versions, nextVersion, life, registry, seen, calls>>

(* The bytes come from the object that was opened, which a rename over its *)
(* name does not touch.  (The observation record has no effect here.)      *)
FsRead(c) ==
  /\ fop[c].pc = "window"
  /\ LET w == Window(fop[c].opened.bytes, fop[c].req.max)
     IN  IF Utf8(w.bytes) \/ w.cut
         THEN fop' = [fop EXCEPT ![c].pc = "idle",
                        ![c].answer = [NoAnswer EXCEPT !.code = "ok", !.bytes = w.bytes, !.lines = w.lines, !.cut = w.cut]]
         ELSE Answer(c, "not-text")
  /\ UNCHANGED <<fsEnv, tree, mints, versions, nextVersion, life, registry, seen, calls>>

(* The entries are read by the path, not by the descriptor; temp files are *)
(* entries too.                                                            *)
TempsIn(p) == { m \in mints : m.there /\ Front(m.at) = p }
Names(p) ==
  { Last(q) : q \in { q \in Paths : Front(q) = p /\ tree[q] # Absent } }
    \cup { "harnless-tmp" : m \in TempsIn(p) }

FsList(c) ==
  /\ fop[c].pc = "entries"
  /\ LET at == fop[c].at
     IN  IF at = Root \/ tree[at].kind = "dir"
         THEN fop' = [fop EXCEPT ![c].pc = "idle",
                        ![c].answer = [NoAnswer EXCEPT !.code = "ok", !.names = Names(at)]]
         ELSE Answer(c, IF tree[at] = Absent THEN "not-found" ELSE "io-error")
  /\ UNCHANGED <<fsEnv, tree, mints, versions, nextVersion, life, registry, seen, calls>>

(* The intent waterfall: no policy, one that allows, and one that panics   *)
(* let the mutation proceed.                                               *)
FsDecide(c) ==
  /\ fop[c].pc = "decide"
  /\ \/ CallTo(c, "guard")
     \/ "policy" \in fsEnv.faults /\ Answer(c, "sandbox-denied")
  /\ UNCHANGED <<fsEnv, tree, mints, versions, nextVersion, life, registry, seen, calls>>

FsGuard(c) ==
  /\ fop[c].pc = "guard"
  /\ LET req == fop[c].req
         code == CheckGuard(Inst(c), fop[c].at, req.guard, Presented(c).token,
                            req.op = "edit" \/ fop[c].opened # Absent)
     IN  IF code # "ok" THEN Answer(c, code)
         ELSE CallTo(c, IF req.op = "edit" THEN "match" ELSE "reserve")
  /\ UNCHANGED <<fsEnv, tree, mints, versions, nextVersion, life, registry, seen, calls>>

(* edit: the match is over the bytes of the object opened before.          *)
FsMatch(c) ==
  /\ fop[c].pc = "match"
  /\ LET b == fop[c].opened.bytes
         f == fop[c].req.find
     IN  IF fop[c].opened.kind # "file" THEN Answer(c, "io-error")
         ELSE IF ~Utf8(b) THEN Answer(c, "not-text")
         ELSE IF CountMatches(b, f) = 0 THEN Answer(c, "edit-not-found")
         ELSE IF CountMatches(b, f) > 1 THEN Answer(c, "ambiguous-edit")
         ELSE fop' = [fop EXCEPT ![c].pc = "reserve", ![c].next = Replaced(b, f, fop[c].req.bytes)]
  /\ UNCHANGED <<fsEnv, tree, mints, versions, nextVersion, life, registry, seen, calls>>

(* A plausible slip: the bytes go into the target itself, which a crash    *)
(* leaves half written.                                                    *)
FsReserveInPlace(c) ==
  /\ fop[c].pc = "reserve"
  /\ LET at == fop[c].at
         n == nextVersion[Inst(c)]
     IN  /\ tree' = [tree EXCEPT ![at] = File(SubSeq(fop[c].next, 1, Len(fop[c].next) - 1))]
         /\ nextVersion' = [nextVersion EXCEPT ![Inst(c)] = n + 1]
         /\ mints' = mints \cup {[by |-> Inst(c), token |-> Stamp(Inst(c), n), at |-> at, bytes |-> fop[c].next, there |-> TRUE]}
         /\ fop' = [fop EXCEPT ![c].pc = "rename", ![c].counter = n, ![c].to = at]
  /\ UNCHANGED <<fsEnv, versions, life, registry, seen, calls>>

(* The second walk is to the display the caller passed, not to the key's;  *)
(* then the counter, the issued token and the temp file.                   *)
FsReserve(c) ==
  /\ fop[c].pc = "reserve"
  /\ LET to == WalkPath(fop[c].req.display)
         parent == OpenParent(to, fop[c].req.op = "write")
         n == nextVersion[Inst(c)]
     IN  IF parent.code # "ok" THEN /\ Answer(c, parent.code)
                                    /\ UNCHANGED <<tree, nextVersion, mints>>
         ELSE /\ Make(parent.made)
              /\ nextVersion' = [nextVersion EXCEPT ![Inst(c)] = n + 1]
              /\ \/ /\ mints' = mints \cup {[by |-> Inst(c), token |-> Stamp(Inst(c), n), at |-> to,
                                              bytes |-> fop[c].next, there |-> TRUE]}
                    /\ fop' = [fop EXCEPT ![c].pc = "rename", ![c].counter = n, ![c].to = to]
                 \/ /\ "io" \in fsEnv.faults
                    /\ Answer(c, "io-error")
                    /\ UNCHANGED mints
  /\ UNCHANGED <<fsEnv, versions, life, registry, seen, calls>>

MyMint(c) == CHOOSE m \in mints : m.token = Stamp(Inst(c), fop[c].counter)
TempGone(c) == mints' = (mints \ {MyMint(c)}) \cup {[MyMint(c) EXCEPT !.there = FALSE]}

(* renameat: any object but a directory is replaced; an error unlinks the  *)
(* temp file.                                                              *)
FsRename(c) ==
  /\ fop[c].pc = "rename"
  /\ TempGone(c)
  /\ LET to == fop[c].to
         ok == to # Root /\ tree[to].kind # "dir"
     IN  \/ ok /\ tree' = [tree EXCEPT ![to] = File(fop[c].next)] /\ CallTo(c, "stamp")
         \/ (~ok \/ "io" \in fsEnv.faults) /\ Answer(c, "io-error") /\ UNCHANGED tree
  /\ UNCHANGED <<fsEnv, versions, nextVersion, life, registry, seen, calls>>

(* The version, and the answer.                                            *)
FsStamp(c) ==
  /\ fop[c].pc = "stamp"
  /\ versions' = [versions EXCEPT ![Inst(c)][fop[c].to] = fop[c].counter]
  /\ seen' = IF fop[c].req.keep
             THEN [seen EXCEPT ![c] = Kept(c, Stamp(Inst(c), fop[c].counter), fop[c].next)]
             ELSE seen
  /\ Answer(c, "ok")
  /\ UNCHANGED <<fsEnv, tree, mints, nextVersion, life, registry, calls>>

(* The process dies: the tree and its temp files stay, versions do not.    *)
FsCrash(i) ==
  /\ "crash" \in fsEnv.faults
  /\ life[i] < MaxLives
  /\ \E c \in FsCallers : Inst(c) = i /\ fop[c].pc # "idle"
  /\ life' = [life EXCEPT ![i] = @ + 1]
  /\ versions' = [versions EXCEPT ![i] = [p \in Paths |-> 0]]
  /\ nextVersion' = [nextVersion EXCEPT ![i] = 1]
  /\ registry' = [registry EXCEPT ![i] = {}]
  /\ fop' = [c \in FsCallers |-> IF Inst(c) = i THEN NoCall ELSE fop[c]]
  /\ UNCHANGED <<fsEnv, tree, mints, seen, calls>>

FsStep(c) ==
  \/ FsResolve(c) \/ FsVersionOf(c) \/ FsOpen(c) \/ FsRead(c) \/ FsList(c)
  \/ FsDecide(c) \/ FsGuard(c) \/ FsMatch(c) \/ FsReserve(c) \/ FsRename(c) \/ FsStamp(c)

FsNext ==
  \/ \E c \in fsEnv.callers, req \in fsEnv.requests : ~fsEnv.suite /\ FsStart(c, req)
  \/ \E c \in FsCallers : FsStep(c)
  \/ \E i \in Instances : FsCrash(i)

----------------------------------------------------------------------------
(* Properties                                                              *)

(* What a reader may find under a path is what was there at first or what  *)
(* one mutation wrote there, whole, also behind a crash or a refused call  *)
(* ("Readers see the old file or the new file", provider.rs).              *)
FilesAreWhole ==
  \A p \in Paths : tree[p].kind = "file" =>
    (\E t \in fsEnv.trees : t[p] = tree[p]) \/ \E m \in mints : m.at = p /\ m.bytes = tree[p].bytes

OneWriter(i) == \A m \in mints : m.by = i

(* A mutation guarded by a version replaces the very bytes its caller saw  *)
(* when it took the token, and the token is this mount's: whatever other   *)
(* instances issued, was refused, or came before the last crash            *)
(* (check_guard, stamp).  Calls that overlap, other instances' writes and  *)
(* spoofed displays are not covered by versions.                           *)
GuardedReplacesSeen ==
  [][ \A c \in FsCallers :
        fop[c].pc = "rename" /\ fop'[c].pc = "stamp" /\ ~fsEnv.overlap
          /\ fop[c].req.guard \in {"seen", "other"}
          => /\ Presented(c).by = Mount(Inst(c))
             /\ OneWriter(Inst(c)) /\ fop[c].to = fop[c].at => tree[fop[c].to].bytes = Presented(c).bytes ]_fsVars

(* Between calls that do not overlap, an instance's version of a path is   *)
(* that of the mutation whose bytes are there, failed mutations not        *)
(* counting ("The version only advances when the rename lands").           *)
VersionNamesContent ==
  Quiet /\ ~fsEnv.overlap =>
    \A i \in Instances, p \in Paths :
      versions[i][p] # 0 /\ OneWriter(i)
        => \E m \in mints : m.token = Stamp(i, versions[i][p]) /\ m.at = p /\ tree[p].bytes = m.bytes

(* No call leaves a temp file, refused or not; only a crash does           *)
(* (commit_atomic's unlinkat).                                             *)
NoDebris ==
  \A m \in mints : m.there =>
    \/ "crash" \in fsEnv.faults
    \/ \E c \in FsCallers : fop[c].pc = "rename" /\ m = MyMint(c)

(* A window is the head of the file, says when it is not all of it, and    *)
(* counts the lines to the end of the file, past the cap and across the    *)
(* chunks; only a file that was seen whole is said not to be text.         *)
WindowIsHonest ==
  \A c \in FsCallers :
    LET b == fop[c].opened.bytes
        a == fop[c].answer
        max == fop[c].req.max
        lines == Cardinality({ i \in 1..Len(b) : i = 1 \/ b[i - 1] = "newline" })
    IN  /\ fop[c].req.op = "read" /\ a.code = "ok" =>
             a.bytes = SubSeq(b, 1, Least(max, Len(b))) /\ a.cut = (Len(b) > max) /\ a.lines = lines
        /\ a.code = "not-text" /\ fop[c].req.op = "read" => Len(b) <= max /\ ~Utf8(b)

(* An edit that goes on replaces an occurrence that no other is disjoint   *)
(* from, and one that is called ambiguous has two that do not overlap      *)
(* (count_matches, "exactly one match is required").                       *)
EditIsUnique ==
  \A c \in FsCallers :
    LET b == fop[c].opened.bytes
        f == fop[c].req.find
        hits == { i \in 1..Len(b) : OccursAt(b, f, i) }
    IN  fop[c].req.op = "edit" /\ f # <<>> =>
          /\ fop[c].pc = "reserve" =>
               \E i \in hits : /\ \A j \in hits : j - i < Len(f) /\ i <= j
                               /\ fop[c].next = SubSeq(b, 1, i - 1) \o fop[c].req.bytes \o SubSeq(b, i + Len(f), Len(b))
          /\ fop[c].answer.code = "ambiguous-edit" => \E i, j \in hits : i + Len(f) <= j

(* An edit writes over the bytes it matched ("one mutation, not a composed *)
(* read-plus-write the caller could interleave against", provider.rs).     *)
EditIsOneMutation ==
  [][ \A c \in FsCallers :
        fop[c].req.op = "edit" /\ fop[c].pc = "rename" /\ fop'[c].pc = "stamp"
          => tree[fop[c].to] = fop[c].opened ]_fsVars

(* A mutation lands at the coordinate its key names, whatever the display  *)
(* says ("the display is for humans, never an address", provider.rs).      *)
KeyIsTheAddress ==
  [][ \A c \in FsCallers :
        fop[c].pc = "rename" /\ fop'[c].pc = "stamp" => fop[c].to = fop[c].req.key ]_fsVars

(* The tree is sound at every moment: whole files, tokens that name what   *)
(* is in them, no temp file without a call that still owns it.             *)
TreeIsSound == FilesAreWhole /\ VersionNamesContent /\ NoDebris

(* What a read shows and what an edit changes is what the file holds.      *)
TextIsExact == WindowIsHonest /\ EditIsUnique
=============================================================================
