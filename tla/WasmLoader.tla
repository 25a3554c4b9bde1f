----------------------------- MODULE WasmLoader -----------------------------
(***************************************************************************)
(* WasmPluginManager of harnless-wasm (loader.rs): the mounted tree, its   *)
(* generations, and the tools its mounts hold in the tool registry.  The   *)
(* manager is Clone and its locks are per field, so calls of it interleave *)
(* at each lock; one mount is the fiber, the body and the Registration of  *)
(* one commit, and is named by a number.                                   *)
(***************************************************************************)
EXTENDS Naturals, Sequences, FiniteSets, FiniteSetsExt

CONSTANTS
  Ids,           \* plugin ids
  Names,         \* tool names in the registry
  Declares,      \* Declares[id]: the sets of names its descriptor may declare
  Callers,       \* who calls the manager
  MaxMounts,     \* bound: mounts staged
  Environments   \* what may happen in one behaviour: sets of Habit

(* overlap: calls may run at the same time.  pile: an id that is mounted   *)
(* may be mounted again.  unmount: plugins are unmounted.  all: the whole  *)
(* tree is reloaded.                                                       *)
Habit == {"overlap", "pile", "unmount", "all"}

ASSUME WasmLoaderAssumption ==
  /\ MaxMounts \in Nat
  /\ Environments \subseteq SUBSET Habit
  /\ Declares \in [Ids -> SUBSET SUBSET Names]

VARIABLES
  env,      \* the habits of this behaviour; never changes
  tools,    \* ToolRegistry.tools: the mount whose body is stored, 0 for none
  mounts,   \* what was staged: the id and the declared names of each mount
  rows,     \* WasmPluginManager.mounted
  at,       \* where each caller is
  todo,     \* configs it has still to stage
  staged,   \* mounts it has still to commit
  naming,   \* names its commit has still to register
  retire,   \* ids whose older generations it has still to retire
  keep,     \* ids reload_all was given
  unwind,   \* (name, mount) pairs of dropped Registrations still to unwind
  doomed    \* the pair among them that was found to be its own

treeVars == <<tools, mounts, rows>>
callVars == <<todo, staged, naming, retire, keep, unwind, doomed>>
vars == <<env, at, treeVars, callVars>>

Row  == [m : 1..MaxMounts, gen : 1..MaxMounts]
Pair == [n : Names, m : 1..MaxMounts]
Place == {"idle", "stage", "commit", "retire", "sweep", "drop", "remove"}

TypeOK ==
  /\ env \in Environments
  /\ Len(mounts) <= MaxMounts
  /\ \A m \in DOMAIN mounts : mounts[m].id \in Ids /\ mounts[m].names \in Declares[mounts[m].id]
  /\ tools \in [Names -> {0} \cup DOMAIN mounts]
  /\ rows \subseteq Row /\ \A r, q \in rows : r.m = q.m => r = q
  /\ at \in [Callers -> Place]
  /\ \A f \in {todo, retire, keep} : f \in [Callers -> SUBSET Ids]
  /\ staged \in [Callers -> SUBSET DOMAIN mounts]
  /\ naming \in [Callers -> SUBSET Pair]
  /\ unwind \in [Callers -> SUBSET Pair]
  /\ doomed \in [Callers -> SUBSET Pair] /\ \A c \in Callers : doomed[c] \subseteq unwind[c]

Nobody(S) == [c \in Callers |-> S]

Init ==
  /\ env \in Environments
  /\ tools = [n \in Names |-> 0]
  /\ mounts = <<>>
  /\ rows = {}
  /\ at = Nobody("idle")
  /\ todo = Nobody({}) /\ staged = Nobody({}) /\ naming = Nobody({})
  /\ retire = Nobody({}) /\ keep = Nobody({}) /\ unwind = Nobody({}) /\ doomed = Nobody({})

Set(f, c, S) == f' = [f EXCEPT ![c] = S]
Goto(c, p)   == Set(at, c, p)

RowsOf(id)  == {r \in rows : mounts[r.m].id = id}
Newest(S)   == CHOOSE r \in S : \A q \in S : q.gen <= r.gen
Pairs(m)    == {[n |-> n, m |-> m] : n \in mounts[m].names}

----------------------------------------------------------------------------
(* Calls                                                                   *)

Begin(c) ==
  /\ at[c] = "idle"
  /\ "overlap" \in env \/ \A d \in Callers : at[d] = "idle"

(* mount_on *)
Mount(c) ==
  /\ Begin(c)
  /\ \E id \in Ids :
       /\ "pile" \in env \/ ("overlap" \notin env /\ RowsOf(id) = {})
       /\ Set(todo, c, {id})
  /\ Goto(c, "stage") /\ Set(keep, c, {}) /\ Set(retire, c, {})
  /\ UNCHANGED <<env, treeVars, staged, naming, unwind, doomed>>

(* reload_on *)
Reload(c) ==
  /\ Begin(c)
  /\ \E id \in Ids : Set(todo, c, {id}) /\ Set(retire, c, {id})
  /\ Goto(c, "stage") /\ Set(keep, c, {})
  /\ UNCHANGED <<env, treeVars, staged, naming, unwind, doomed>>

(* reload_all; no configs is an error and touches nothing. *)
ReloadAll(c) ==
  /\ Begin(c) /\ "all" \in env
  /\ \E S \in SUBSET Ids \ {{}} : Set(todo, c, S) /\ Set(retire, c, S) /\ Set(keep, c, S)
  /\ Goto(c, "stage")
  /\ UNCHANGED <<env, treeVars, staged, naming, unwind, doomed>>

(* The row leaves the tree, and its fiber's effect drops the Registration. *)
Unseat(c, r) ==
  /\ rows' = rows \ {r}
  /\ Set(unwind, c, Pairs(r.m))
  /\ Goto(c, "drop")

(* unmount and unmount_generation *)
Unmount(c) ==
  /\ Begin(c) /\ "unmount" \in env
  /\ \E id \in Ids : \E r \in RowsOf(id) : Unseat(c, r)
  /\ Set(keep, c, {}) /\ Set(retire, c, {})
  /\ UNCHANGED <<env, tools, mounts, todo, staged, naming, doomed>>

(* stage: the component compiles, instantiates and describes its tools.    *)
(* No state outside the mount is touched.                                  *)
Stage(c) ==
  /\ at[c] = "stage" /\ Len(mounts) < MaxMounts
  /\ \E id \in todo[c] : \E names \in Declares[id] :
       /\ mounts' = Append(mounts, [id |-> id, names |-> names])
       /\ Set(todo, c, todo[c] \ {id})
       /\ Set(staged, c, staged[c] \cup {Len(mounts) + 1})
  /\ UNCHANGED <<env, at, tools, rows, naming, retire, keep, unwind, doomed>>

(* A config does not stage: the fibers of the others are disposed, and     *)
(* they own nothing.                                                       *)
StageFails(c) ==
  /\ at[c] = "stage" /\ todo[c] # {}
  /\ Set(todo, c, {}) /\ Set(staged, c, {})
  /\ Goto(c, "idle")
  /\ UNCHANGED <<env, treeVars, naming, retire, keep, unwind, doomed>>

----------------------------------------------------------------------------
(* commit                                                                  *)

(* The next staged mount, or on to the superseded generations. *)
Commit(c) ==
  /\ at[c] = "stage" /\ todo[c] = {}
  /\ IF staged[c] = {}
     THEN Goto(c, "retire") /\ UNCHANGED naming
     ELSE Goto(c, "commit") /\ Set(naming, c, Pairs(Min(staged[c])))
  /\ UNCHANGED <<env, treeVars, todo, staged, retire, keep, unwind, doomed>>

(* Mutant: a name that is taken is left to whoever holds it. *)
RegisterIfFree(c) ==
  /\ at[c] = "commit"
  /\ \E p \in naming[c] :
       /\ tools' = [tools EXCEPT ![p.n] = IF @ = 0 THEN p.m ELSE @]
       /\ Set(naming, c, naming[c] \ {p})
  /\ UNCHANGED <<env, at, mounts, rows, todo, staged, retire, keep, unwind, doomed>>

(* ToolRegistry::register overwrites. *)
Register(c) ==
  /\ at[c] = "commit"
  /\ \E p \in naming[c] :
       /\ tools' = [tools EXCEPT ![p.n] = p.m]
       /\ Set(naming, c, naming[c] \ {p})
  /\ UNCHANGED <<env, at, mounts, rows, todo, staged, retire, keep, unwind, doomed>>

(* record_mount: the handle becomes an effect of the fiber, and the row is *)
(* numbered and pushed in one lock section.                                *)
RecordMount(c) ==
  /\ at[c] = "commit" /\ naming[c] = {}
  /\ LET m == Min(staged[c]) IN
     /\ rows' = rows \cup {[m |-> m, gen |-> 1 +
                  Max({0} \cup {r.gen : r \in RowsOf(mounts[m].id)})]}
     /\ Set(staged, c, staged[c] \ {m})
  /\ Goto(c, "stage")
  /\ UNCHANGED <<env, tools, mounts, todo, naming, retire, keep, unwind, doomed>>

----------------------------------------------------------------------------
(* retire_older, and phase 3 of reload_all                                 *)

(* The victims leave the tree in one lock section. *)
RetireOlder(c) ==
  /\ at[c] = "retire" /\ retire[c] # {}
  /\ \E id \in retire[c] :
       LET old == {r \in RowsOf(id) : r # Newest(RowsOf(id))} IN
       /\ rows' = rows \ old
       /\ Set(unwind, c, UNION {Pairs(r.m) : r \in old})
       /\ Set(retire, c, retire[c] \ {id})
  /\ Goto(c, "drop")
  /\ UNCHANGED <<env, tools, mounts, todo, staged, naming, keep, doomed>>

(* Only reload_all goes on to the ids it was not given. *)
RetireDone(c) ==
  /\ at[c] = "retire" /\ retire[c] = {}
  /\ Goto(c, IF keep[c] = {} THEN "idle" ELSE "sweep")
  /\ UNCHANGED <<env, treeVars, callVars>>

(* An id that was dropped from the config is unmounted, newest row first.  *)
Sweep(c) ==
  /\ at[c] = "sweep"
  /\ \E r \in rows :
       /\ mounts[r.m].id \notin keep[c]
       /\ Unseat(c, Newest(RowsOf(mounts[r.m].id)))
  /\ UNCHANGED <<env, tools, mounts, todo, staged, naming, retire, keep, doomed>>

SweepDone(c) ==
  /\ at[c] = "sweep"
  /\ \A r \in rows : mounts[r.m].id \in keep[c]
  /\ Goto(c, "idle")
  /\ UNCHANGED <<env, treeVars, callVars>>

----------------------------------------------------------------------------
(* Registration::drop                                                      *)

(* Mutant: whatever is registered under the name is removed. *)
BodyIsAnything(c) ==
  /\ at[c] = "drop"
  /\ \E p \in unwind[c] : Set(doomed, c, {p})
  /\ Goto(c, "remove")
  /\ UNCHANGED <<env, treeVars, todo, staged, naming, retire, keep, unwind>>

(* body_is: is the name still this mount's? *)
BodyIs(c) ==
  /\ at[c] = "drop"
  /\ \E p \in unwind[c] :
       IF tools[p.n] = p.m
       THEN Goto(c, "remove") /\ Set(doomed, c, {p}) /\ UNCHANGED unwind
       ELSE Set(unwind, c, unwind[c] \ {p}) /\ UNCHANGED <<at, doomed>>
  /\ UNCHANGED <<env, treeVars, todo, staged, naming, retire, keep>>

(* ToolRegistry::remove, of whatever the name holds by now. *)
RemoveTool(c) ==
  /\ at[c] = "remove"
  /\ \E p \in doomed[c] : tools' = [tools EXCEPT ![p.n] = 0]
  /\ Set(unwind, c, unwind[c] \ doomed[c]) /\ Set(doomed, c, {})
  /\ Goto(c, "drop")
  /\ UNCHANGED <<env, mounts, rows, todo, staged, naming, retire, keep>>

(* Everything is unwound; the caller goes on where it dropped the handles. *)
Dropped(c) ==
  /\ at[c] = "drop" /\ unwind[c] = {}
  /\ Goto(c, "retire")
  /\ UNCHANGED <<env, treeVars, callVars>>

----------------------------------------------------------------------------

Next == \E c \in Callers :
  \/ Mount(c) \/ Reload(c) \/ ReloadAll(c) \/ Unmount(c)
  \/ Stage(c) \/ StageFails(c)
  \/ Commit(c) \/ Register(c) \/ RecordMount(c)
  \/ RetireOlder(c) \/ RetireDone(c) \/ Sweep(c) \/ SweepDone(c)
  \/ BodyIs(c) \/ RemoveTool(c) \/ Dropped(c)

Spec == Init /\ [][Next]_vars

----------------------------------------------------------------------------
(* Properties                                                              *)

AtRest == \A c \in Callers : at[c] = "idle"

(* No two plugins declare one name.  A name is qualified by the one the    *)
(* descriptor gives its plugin (loader.rs:314), which two plugins may      *)
(* share: then they overwrite each other's tools (loader.rs:300-302).      *)
NamesApart ==
  \A i, j \in Ids : i # j => \A S \in Declares[i], T \in Declares[j] : S \cap T = {}

Orderly == env \cap {"overlap", "pile"} = {} /\ NamesApart

(* Between calls every mounted plugin serves the tools it declares, with   *)
(* the body of its own generation, also when the last call was a reload    *)
(* that failed (loader.rs:97-106, 508-518).                                *)
MountedIsServed ==
  Orderly /\ AtRest => \A r \in rows : \A n \in mounts[r.m].names : tools[n] = r.m

(* No tool outlives its mount: a registered body belongs to a mounted row, *)
(* to a commit under way, or to a drop under way, however the calls        *)
(* interleave (loader.rs:97-101, 362-364).                                 *)
NothingDangles ==
  \A n \in Names : tools[n] # 0 =>
    \/ \E r \in rows : r.m = tools[n] /\ n \in mounts[r.m].names
    \/ \E c \in Callers : tools[n] \in staged[c]
    \/ \E c \in Callers : [n |-> n, m |-> tools[n]] \in unwind[c]

(* A tool leaves the registry only when no mounted plugin declares it.     *)
VanishesUnmounted ==
  \A n \in Names : tools[n] # 0 /\ tools'[n] = 0 => \A r \in rows : n \notin mounts[r.m].names

(* A reload is a swap and not a disappearance: one call at a time, a tool  *)
(* that both generations declare is registered at every step               *)
(* (loader.rs:102-106, 457-459).  When two reloads of one id overlap the   *)
(* one that retires may delete the tool of the live generation, as it      *)
(* looks and removes in two lock sections (BodyIs, RemoveTool).            *)
ReloadSwaps == [][Orderly => VanishesUnmounted]_vars

(* Reloads retire what they supersede: when every call has returned an id  *)
(* is mounted at most once, also when its reloads overlapped               *)
(* (loader.rs:457-459, 477-481).                                           *)
OneGeneration ==
  "pile" \notin env /\ AtRest =>
    \A r, q \in rows : mounts[r.m].id = mounts[q.m].id => r = q

(* The tool registry and the tree of mounts agree: what is mounted is      *)
(* served, once, and nothing else is.                                      *)
TreeIsServed == TypeOK /\ MountedIsServed /\ NothingDangles /\ OneGeneration
=============================================================================
