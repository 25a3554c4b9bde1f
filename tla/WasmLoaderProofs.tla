------------------------- MODULE WasmLoaderProofs ---------------------------
(***************************************************************************)
(* Proofs about WasmLoader, for every set of plugins, of names and of      *)
(* callers, every bound on the mounts and every choice of habits.          *)
(*                                                                         *)
(* What holds between calls is not inductive.  The strengthening says what *)
(* each place of a caller owes: a mount is staged, in the tree or unwound, *)
(* by one caller; two rows of a plugin have a caller that will retire the  *)
(* older; and a name that is not served by its row is served by a newer    *)
(* row or by a staged mount of the same plugin.                            *)
(***************************************************************************)
EXTENDS WasmLoader, FiniteSetTheorems, SequenceTheorems, WellFoundedInduction, TLAPS

Typed == TypeOK /\ mounts \in Seq([id : Ids, names : SUBSET Names])

(* What a caller has in its hands where.                                   *)
PlaceOf(c) ==
  /\ todo[c] # {} => at[c] = "stage"
  /\ staged[c] # {} => at[c] \in {"stage", "commit"}
  /\ at[c] = "commit" => staged[c] # {} /\ naming[c] \subseteq Pairs(Min(staged[c]))
  /\ unwind[c] # {} => at[c] \in {"drop", "remove"}
  /\ doomed[c] # {} => at[c] = "remove"
  /\ \A p, q \in doomed[c] : p = q
  /\ at[c] = "sweep" => retire[c] = {}
Places == \A c \in Callers : PlaceOf(c)

Staging == UNION {staged[c] : c \in Callers}

(* A mount is staged by one caller or in the tree.                         *)
StagedApart ==
  /\ \A c, d \in Callers : c # d => staged[c] \cap staged[d] = {}
  /\ \A r \in rows : r.m \in DOMAIN mounts /\ \A c \in Callers : r.m \notin staged[c]

(* Generations are as many as the mounts that were recorded.               *)
GensBounded == \A r \in rows : r.gen + Cardinality(Staging) <= Len(mounts)

(* A body is stored under a name its mount declares, and nothing of a call *)
(* is stored before all of it is staged.                                   *)
StoredDeclared ==
  \A n \in Names : tools[n] # 0 =>
    /\ n \in mounts[tools[n]].names
    /\ \A c \in Callers : todo[c] # {} => tools[n] \notin staged[c]

Base == Typed /\ Places /\ StagedApart /\ GensBounded /\ StoredDeclared

(* One call at a time, where calls do not overlap.                         *)
Solo ==
  "overlap" \notin env =>
    \A c, d \in Callers : at[c] # "idle" /\ at[d] # "idle" => c = d

(* The plugins a caller has still to bring into the tree.                  *)
Due(c) == todo[c] \cup {mounts[m].id : m \in staged[c]}

(* It retires their older generations, or there are none.                  *)
DueRetires ==
  \A c \in Callers :
    \/ Due(c) \subseteq retire[c]
    \/ /\ "overlap" \notin env
       /\ \E id \in Ids : Due(c) \subseteq {id} /\ RowsOf(id) = {}
       /\ \A m, k \in staged[c] : m = k /\ todo[c] = {}

(* Who will retire all but the newest of two generations.                  *)
Retires(c, id) == id \in retire[c] /\ at[c] # "idle" /\ todo[c] = {}

TwinsAreRetired ==
  \A r, q \in rows : r # q /\ mounts[r.m].id = mounts[q.m].id =>
    \E c \in Callers : Retires(c, mounts[r.m].id)

OnePerId == "pile" \notin env => DueRetires /\ TwinsAreRetired

(* Who answers under a name that the mount m declares.                     *)
ServedNewer(r, n) ==
  \E q \in rows : tools[n] = q.m /\ mounts[q.m].id = mounts[r.m].id /\ r.gen < q.gen
ServedStaged(r, n) ==
  \E c \in Callers : tools[n] \in staged[c] /\ mounts[tools[n]].id = mounts[r.m].id

RowsServed ==
  \A r \in rows : \A n \in mounts[r.m].names :
    tools[n] = r.m \/ ServedNewer(r, n) \/ ServedStaged(r, n)

CommitRegisters ==
  \A c \in Callers : at[c] = "commit" =>
    LET m == Min(staged[c]) IN
    \A n \in mounts[m].names : tools[n] = m \/ [n |-> n, m |-> m] \in naming[c]

(* What is unwound has left the tree, and what is removed is its own.      *)
UnwoundIsGone ==
  \A c \in Callers : \A p \in unwind[c] :
    /\ \A r \in rows : p.m # r.m
    /\ \A d \in Callers : p.m \notin staged[d]
DoomedIsOwn == \A c \in Callers : \A p \in doomed[c] : tools[p.n] = p.m

OrderlyServed == Orderly => RowsServed /\ CommitRegisters /\ UnwoundIsGone /\ DoomedIsOwn

LoaderInv ==
  /\ Base /\ NothingDangles /\ Solo /\ OnePerId /\ OrderlyServed

----------------------------------------------------------------------------
(* Least and greatest of a set of naturals                                 *)

LEMMA LeastOf ==
  ASSUME NEW S \in SUBSET Nat, S # {}
  PROVE  Min(S) \in S /\ \A x \in S : Min(S) <= x
<1>1. \E x \in S : \A y \in S : <<y, x>> \notin OpToRel(<, Nat)
  BY NatLessThanWellFounded, WFMin
<1>2. PICK x \in S : \A y \in S : <<y, x>> \notin OpToRel(<, Nat)  BY <1>1
<1>3. ASSUME NEW y \in S PROVE x =< y
  <2>1. x \in Nat /\ y \in Nat /\ ~ (y < x)  BY <1>2 DEF OpToRel
  <2> QED  BY <2>1
<1> QED  BY <1>3 DEF Min

LEMMA GreatestOf ==
  ASSUME NEW n \in Nat, NEW S \in SUBSET (0..n), S # {}
  PROVE  Max(S) \in S /\ \A x \in S : x <= Max(S)
<1> DEFINE Left == {n - x : x \in S}
<1>1. Left \in SUBSET Nat /\ Left # {}
  <2>1. \A x \in S : x \in Nat /\ n - x \in Nat  OBVIOUS
  <2> QED  BY <2>1
<1> HIDE DEF Left
<1>2. Min(Left) \in Left /\ \A x \in Left : Min(Left) <= x  BY <1>1, LeastOf
<1>3. PICK x \in S : Min(Left) = n - x  BY <1>2 DEF Left
<1>4. ASSUME NEW y \in S PROVE x >= y
  <2>1. n - x <= n - y  BY <1>2, <1>3 DEF Left
  <2>2. x \in 0..n /\ y \in 0..n  OBVIOUS
  <2> QED  BY <2>1, <2>2
<1> QED  BY <1>4 DEF Max

----------------------------------------------------------------------------
(* What is well formed stays well formed                                   *)

LEMMA MountsAre ==
  ASSUME Typed
  PROVE  /\ Len(mounts) \in Nat /\ DOMAIN mounts = 1..Len(mounts)
         /\ \A m \in DOMAIN mounts : mounts[m].id \in Ids /\ mounts[m].names \subseteq Names
         /\ \A c \in Callers : staged[c] \subseteq 1..Len(mounts)
<1>1. mounts \in Seq([id : Ids, names : SUBSET Names])  BY DEF Typed
<1>2. Len(mounts) \in Nat /\ DOMAIN mounts = 1..Len(mounts)  BY <1>1
<1>3. \A m \in DOMAIN mounts : mounts[m] \in [id : Ids, names : SUBSET Names]
  BY <1>1, <1>2, ElementOfSeq
<1>4. \A m \in DOMAIN mounts : mounts[m].id \in Ids /\ mounts[m].names \subseteq Names
  BY <1>3
<1>5. \A c \in Callers : staged[c] \subseteq DOMAIN mounts  BY DEF Typed, TypeOK
<1> QED  BY <1>2, <1>4, <1>5

LEMMA StageAppends ==
  ASSUME Typed, NEW c \in Callers, Stage(c)
  PROVE  /\ mounts' \in Seq([id : Ids, names : SUBSET Names])
         /\ Len(mounts') = Len(mounts) + 1
         /\ DOMAIN mounts' = DOMAIN mounts \cup {Len(mounts) + 1}
         /\ \A m \in DOMAIN mounts : mounts'[m] = mounts[m]
         /\ Len(mounts) + 1 \notin DOMAIN mounts
         /\ \E id \in todo[c] :
              /\ mounts'[Len(mounts) + 1].id = id
              /\ mounts'[Len(mounts) + 1].names \in Declares[id]
              /\ todo' = [todo EXCEPT ![c] = todo[c] \ {id}]
              /\ staged' = [staged EXCEPT ![c] = staged[c] \cup {Len(mounts) + 1}]
<1>1. PICK id \in todo[c] : \E names \in Declares[id] :
        /\ mounts' = Append(mounts, [id |-> id, names |-> names])
        /\ Set(todo, c, todo[c] \ {id})
        /\ Set(staged, c, staged[c] \cup {Len(mounts) + 1})
  BY DEF Stage
<1>a. PICK names \in Declares[id] :
        /\ mounts' = Append(mounts, [id |-> id, names |-> names])
        /\ Set(todo, c, todo[c] \ {id})
        /\ Set(staged, c, staged[c] \cup {Len(mounts) + 1})
  BY <1>1
<1>2. id \in Ids /\ names \in SUBSET Names
  BY <1>a, WasmLoaderAssumption DEF Typed, TypeOK
<1>3. mounts \in Seq([id : Ids, names : SUBSET Names])  BY DEF Typed
<1>4. Len(mounts) \in Nat /\ DOMAIN mounts = 1..Len(mounts)  BY <1>3
<1>5. /\ mounts' \in Seq([id : Ids, names : SUBSET Names])
      /\ Len(mounts') = Len(mounts) + 1
      /\ \A m \in 1..Len(mounts) : mounts'[m] = mounts[m]
      /\ mounts'[Len(mounts) + 1] = [id |-> id, names |-> names]
  BY <1>a, <1>2, <1>3
<1>6. DOMAIN mounts' = 1..(Len(mounts) + 1)  BY <1>4, <1>5
<1>7. DOMAIN mounts' = DOMAIN mounts \cup {Len(mounts) + 1} /\ Len(mounts) + 1 \notin DOMAIN mounts
  BY <1>4, <1>6
<1> QED
  <2>1. /\ mounts'[Len(mounts) + 1].id = id
        /\ mounts'[Len(mounts) + 1].names \in Declares[id]
    BY <1>a, <1>5
  <2>2. /\ todo' = [todo EXCEPT ![c] = todo[c] \ {id}]
        /\ staged' = [staged EXCEPT ![c] = staged[c] \cup {Len(mounts) + 1}]
    BY <1>a DEF Set
  <2> QED  BY <1>4, <1>5, <1>7, <2>1, <2>2

LEMMA MinStaged ==
  ASSUME Base, NEW c \in Callers, at[c] = "commit"
  PROVE  /\ Min(staged[c]) \in staged[c] /\ Min(staged[c]) \in DOMAIN mounts
         /\ naming[c] \subseteq Pairs(Min(staged[c])) /\ todo[c] = {}
<1>1. staged[c] # {} /\ naming[c] \subseteq Pairs(Min(staged[c])) /\ todo[c] = {}
  BY DEF Base, Places, PlaceOf
<1>2. staged[c] \in SUBSET Nat  BY MountsAre DEF Base
<1>3. staged[c] \subseteq DOMAIN mounts  BY DEF Base, Typed, TypeOK
<1> QED  BY <1>1, <1>2, <1>3, LeastOf

LEMMA StagingFinite ==
  ASSUME Typed
  PROVE  /\ Staging \in SUBSET (1..Len(mounts)) /\ IsFiniteSet(Staging)
         /\ Cardinality(Staging) \in Nat /\ Cardinality(Staging) <= Len(mounts)
<1>1. Staging \in SUBSET (1..Len(mounts)) /\ Len(mounts) \in Nat  BY MountsAre DEF Staging
<1>2. IsFiniteSet(1..Len(mounts)) /\ Cardinality(1..Len(mounts)) = Len(mounts)
  BY <1>1, FS_Interval
<1> QED  BY <1>1, <1>2, FS_Subset, FS_CardinalityType

(* The number a commit gives the row of m.                                 *)
NextGen(id) == 1 + Max({0} \cup {r.gen : r \in RowsOf(id)})

LEMMA NextGenIs ==
  ASSUME Typed, NEW id
  PROVE  /\ NextGen(id) \in Nat \ {0} /\ \A r \in RowsOf(id) : r.gen < NextGen(id)
         /\ NextGen(id) = 1 \/ \E r \in rows : NextGen(id) = 1 + r.gen
<1> DEFINE G == {0} \cup {r.gen : r \in RowsOf(id)}
<1>1. RowsOf(id) \subseteq rows /\ rows \subseteq Row  BY DEF RowsOf, Typed, TypeOK
<1>2. \A r \in rows : r.gen \in 1..MaxMounts  BY <1>1 DEF Row
<1>3. G \in SUBSET (0..MaxMounts) /\ G # {} /\ MaxMounts \in Nat
  BY <1>1, <1>2, WasmLoaderAssumption
<1>4. Max(G) \in G /\ \A x \in G : x <= Max(G)  BY <1>3, GreatestOf
<1>5. NextGen(id) = 1 + Max(G) /\ Max(G) \in Nat  BY <1>3, <1>4 DEF NextGen
<1>6. \A r \in RowsOf(id) : r.gen <= Max(G) /\ r.gen \in Nat  BY <1>1, <1>2, <1>4
<1>7. Max(G) = 0 \/ \E r \in rows : Max(G) = r.gen  BY <1>1, <1>4
<1> HIDE DEF G
<1> QED  BY <1>5, <1>6, <1>7

LEMMA NewestIs ==
  ASSUME Typed, NEW id, RowsOf(id) # {}
  PROVE  /\ Newest(RowsOf(id)) \in RowsOf(id)
         /\ \A q \in RowsOf(id) : q.gen <= Newest(RowsOf(id)).gen
<1> DEFINE G == {r.gen : r \in RowsOf(id)}
<1>1. RowsOf(id) \subseteq rows /\ rows \subseteq Row  BY DEF RowsOf, Typed, TypeOK
<1>2. \A r \in rows : r.gen \in 1..MaxMounts  BY <1>1 DEF Row
<1>3. G \in SUBSET (0..MaxMounts) /\ G # {} /\ MaxMounts \in Nat
  BY <1>1, <1>2, WasmLoaderAssumption
<1>4. Max(G) \in G /\ \A x \in G : x <= Max(G)  BY <1>3, GreatestOf
<1>5. PICK r \in RowsOf(id) : Max(G) = r.gen  BY <1>4
<1>6. \A q \in RowsOf(id) : q.gen <= r.gen  BY <1>4, <1>5
<1> QED  BY <1>5, <1>6 DEF Newest

Step(c) ==
  \/ Mount(c) \/ Reload(c) \/ ReloadAll(c) \/ Unmount(c)
  \/ Stage(c) \/ StageFails(c)
  \/ Commit(c) \/ Register(c) \/ RecordMount(c)
  \/ RetireOlder(c) \/ RetireDone(c) \/ Sweep(c) \/ SweepDone(c)
  \/ BodyIs(c) \/ RemoveTool(c) \/ Dropped(c)

LEMMA PairsAre ==
  ASSUME Typed, NEW m \in DOMAIN mounts
  PROVE  m \in 1..MaxMounts /\ Pairs(m) \subseteq Pair
<1>1. m \in 1..MaxMounts
  BY MountsAre, WasmLoaderAssumption DEF Typed, TypeOK
<1>2. mounts[m].names \subseteq Names  BY MountsAre
<1> QED  BY <1>1, <1>2 DEF Pairs, Pair

TreeTyped ==
  /\ env \in Environments
  /\ mounts \in Seq([id : Ids, names : SUBSET Names]) /\ Len(mounts) <= MaxMounts
  /\ \A m \in DOMAIN mounts : mounts[m].id \in Ids /\ mounts[m].names \in Declares[mounts[m].id]
  /\ tools \in [Names -> {0} \cup DOMAIN mounts]
  /\ rows \subseteq Row /\ \A r, q \in rows : r.m = q.m => r = q

CallsTyped ==
  /\ at \in [Callers -> Place]
  /\ todo \in [Callers -> SUBSET Ids]
  /\ retire \in [Callers -> SUBSET Ids]
  /\ keep \in [Callers -> SUBSET Ids]
  /\ staged \in [Callers -> SUBSET DOMAIN mounts]
  /\ naming \in [Callers -> SUBSET Pair]
  /\ unwind \in [Callers -> SUBSET Pair]
  /\ doomed \in [Callers -> SUBSET Pair]
  /\ \A c \in Callers : doomed[c] \subseteq unwind[c]

LEMMA TypedIs == Typed <=> TreeTyped /\ CallsTyped
BY DEF Typed, TypeOK, TreeTyped, CallsTyped

LEMMA TypedIsToo == TreeTyped' /\ CallsTyped' => Typed'
BY DEF Typed, TypeOK, TreeTyped, CallsTyped

LEMMA TypedStep ==
  ASSUME Base, NEW c \in Callers, Step(c)
  PROVE  TreeTyped' /\ CallsTyped'
<1>1. Typed /\ TreeTyped /\ CallsTyped /\ StagedApart /\ GensBounded
  BY TypedIs DEF Base
<1>a. \A r \in rows : Pairs(r.m) \subseteq Pair  BY <1>1, PairsAre DEF StagedApart
<1>2. CASE Mount(c) \/ Reload(c) \/ ReloadAll(c)
  <2>1. TreeTyped'  BY <1>1, <1>2 DEF TreeTyped, Mount, Reload, ReloadAll, treeVars
  <2>2. CallsTyped'
    BY <1>1, <1>2 DEF CallsTyped, Mount, Reload, ReloadAll, Goto, Set, Place, treeVars
  <2> QED  BY <2>1, <2>2
<1>3. ASSUME NEW r \in rows, Unseat(c, r), UNCHANGED <<env, tools, mounts, todo, staged, naming, doomed>>,
             retire' \in [Callers -> SUBSET Ids], keep' \in [Callers -> SUBSET Ids], doomed[c] = {}
      PROVE  TreeTyped' /\ CallsTyped'
  <2>1. TreeTyped'  BY <1>1, <1>3 DEF TreeTyped, Unseat
  <2>2. CallsTyped'  BY <1>a, <1>1, <1>3 DEF CallsTyped, Unseat, Goto, Set, Place
  <2> QED  BY <2>1, <2>2
<1>b. at[c] # "remove" => doomed[c] = {}  BY DEF Base, Places, PlaceOf
<1>4. CASE Unmount(c)
  <2>1. PICK r \in rows : Unseat(c, r)  BY <1>4 DEF Unmount, RowsOf
  <2>2. retire' \in [Callers -> SUBSET Ids] /\ keep' \in [Callers -> SUBSET Ids]
    BY <1>1, <1>4 DEF CallsTyped, Unmount, Set
  <2>3. doomed[c] = {}  BY <1>4, <1>b DEF Unmount, Begin
  <2> QED  BY <1>3, <1>4, <2>1, <2>2, <2>3 DEF Unmount
<1>5. CASE Sweep(c)
  <2>1. PICK s \in rows : Unseat(c, Newest(RowsOf(mounts[s.m].id)))  BY <1>5 DEF Sweep
  <2>2. RowsOf(mounts[s.m].id) # {}  BY DEF RowsOf
  <2>3. PICK r \in rows : Unseat(c, r)  BY <1>1, <2>1, <2>2, NewestIs DEF RowsOf
  <2>4. doomed[c] = {}  BY <1>5, <1>b DEF Sweep
  <2> QED  BY <1>1, <1>3, <1>5, <2>3, <2>4 DEF Sweep, CallsTyped
<1>6. CASE Stage(c)
  <2>1. PICK id \in todo[c] :
          /\ mounts'[Len(mounts) + 1].id = id
          /\ mounts'[Len(mounts) + 1].names \in Declares[id]
          /\ todo' = [todo EXCEPT ![c] = todo[c] \ {id}]
          /\ staged' = [staged EXCEPT ![c] = staged[c] \cup {Len(mounts) + 1}]
    BY <1>1, <1>6, StageAppends
  <2>2. id \in Ids  BY <1>1 DEF CallsTyped
  <2>3. \A m \in DOMAIN mounts' : mounts'[m].id \in Ids /\ mounts'[m].names \in Declares[mounts'[m].id]
    <3>1. /\ DOMAIN mounts' = DOMAIN mounts \cup {Len(mounts) + 1}
          /\ \A m \in DOMAIN mounts : mounts'[m] = mounts[m]
      BY <1>1, <1>6, StageAppends
    <3> QED  BY <1>1, <2>1, <2>2, <3>1 DEF TreeTyped
  <2>4. mounts' \in Seq([id : Ids, names : SUBSET Names]) /\ Len(mounts') <= MaxMounts
    <3>1. mounts' \in Seq([id : Ids, names : SUBSET Names]) /\ Len(mounts') = Len(mounts) + 1
      BY <1>1, <1>6, StageAppends
    <3>2. Len(mounts) \in Nat /\ Len(mounts) < MaxMounts  BY <1>1, <1>6, MountsAre DEF Stage
    <3> QED  BY <3>1, <3>2, WasmLoaderAssumption
  <2>5. /\ tools' \in [Names -> {0} \cup DOMAIN mounts']
        /\ staged' \in [Callers -> SUBSET DOMAIN mounts']
    <3>1. DOMAIN mounts' = DOMAIN mounts \cup {Len(mounts) + 1} /\ tools' = tools
      BY <1>1, <1>6, StageAppends DEF Stage
    <3> QED  BY <1>1, <2>1, <3>1 DEF TreeTyped, CallsTyped
  <2>6. todo' \in [Callers -> SUBSET Ids]  BY <1>1, <2>1 DEF CallsTyped
  <2>7. TreeTyped'  BY <1>1, <1>6, <2>3, <2>4, <2>5 DEF TreeTyped, Stage
  <2>8. CallsTyped'  BY <1>1, <1>6, <2>5, <2>6 DEF CallsTyped, Stage
  <2> QED  BY <2>7, <2>8
<1>7. CASE StageFails(c) \/ RetireDone(c) \/ SweepDone(c) \/ Dropped(c)
  <2>1. TreeTyped'
    BY <1>1, <1>7 DEF TreeTyped, StageFails, RetireDone, SweepDone, Dropped, treeVars
  <2>2. CallsTyped'
    BY <1>1, <1>7 DEF CallsTyped, StageFails, RetireDone, SweepDone, Dropped, Goto, Set, Place,
                      treeVars, callVars
  <2> QED  BY <2>1, <2>2
<1>8. CASE Commit(c)
  <2>1. ASSUME staged[c] # {} PROVE Pairs(Min(staged[c])) \subseteq Pair
    <3>1. staged[c] \in SUBSET Nat /\ staged[c] \subseteq DOMAIN mounts
      BY <1>1, MountsAre DEF CallsTyped
    <3> QED  BY <1>1, <2>1, <3>1, LeastOf, PairsAre
  <2>2. TreeTyped'  BY <1>1, <1>8 DEF TreeTyped, Commit, treeVars
  <2>3. CallsTyped'  BY <1>1, <1>8, <2>1 DEF CallsTyped, Commit, Goto, Set, Place, treeVars
  <2> QED  BY <2>2, <2>3
<1>9. CASE Register(c)
  <2>1. PICK p \in naming[c] : tools' = [tools EXCEPT ![p.n] = p.m]  BY <1>9 DEF Register
  <2>2. p.m \in DOMAIN mounts /\ p.n \in Names
    <3>1. p \in Pairs(Min(staged[c])) /\ Min(staged[c]) \in DOMAIN mounts
      BY <1>9, MinStaged DEF Register
    <3> QED  BY <1>1, <3>1, MountsAre DEF Pairs
  <2>3. tools' \in [Names -> {0} \cup DOMAIN mounts]  BY <1>1, <2>1, <2>2 DEF TreeTyped
  <2>4. TreeTyped'  BY <1>1, <1>9, <2>3 DEF TreeTyped, Register
  <2>5. CallsTyped'  BY <1>1, <1>9 DEF CallsTyped, Register, Set
  <2> QED  BY <2>4, <2>5
<1>10. CASE RecordMount(c)
  <2> DEFINE m == Min(staged[c])
             g == NextGen(mounts[m].id)
  <2>1. m \in staged[c] /\ m \in DOMAIN mounts  BY <1>10, MinStaged DEF RecordMount
  <2>2. /\ rows' = rows \cup {[m |-> m, gen |-> g]}
        /\ staged' = [staged EXCEPT ![c] = staged[c] \ {m}]
    BY <1>10 DEF RecordMount, Set, NextGen
  <2>3. m \in 1..MaxMounts  BY <1>1, <2>1, PairsAre
  <2>4. g \in 1..MaxMounts
    <3>1. Cardinality(Staging) >= 1
      <4>1. Staging # {}  BY <2>1 DEF Staging
      <4> QED  BY <1>1, <4>1, StagingFinite, FS_EmptySet
    <3>2. g \in Nat \ {0} /\ (g = 1 \/ \E r \in rows : g = 1 + r.gen)  BY <1>1, NextGenIs
    <3>3. \A r \in rows : r.gen + Cardinality(Staging) <= Len(mounts) /\ r.gen \in Nat
      BY <1>1 DEF GensBounded, TreeTyped, Row
    <3>4. Len(mounts) <= MaxMounts /\ Len(mounts) \in Nat /\ Cardinality(Staging) \in Nat
          /\ Cardinality(Staging) <= Len(mounts)
      BY <1>1, MountsAre, StagingFinite DEF TreeTyped
    <3> HIDE DEF g, m
    <3> QED  BY <3>1, <3>2, <3>3, <3>4, WasmLoaderAssumption
  <2>5. \A r \in rows : r.m # m  BY <1>1, <2>1 DEF StagedApart
  <2> HIDE DEF m, g
  <2>6. rows' \subseteq Row /\ \A r, q \in rows' : r.m = q.m => r = q
    BY <1>1, <2>2, <2>3, <2>4, <2>5 DEF TreeTyped, Row
  <2>7. TreeTyped'  BY <1>1, <1>10, <2>6 DEF TreeTyped, RecordMount
  <2>8. CallsTyped'  BY <1>1, <1>10, <2>2 DEF CallsTyped, RecordMount, Goto, Set, Place
  <2> QED  BY <2>7, <2>8
<1>11. CASE RetireOlder(c)
  <2>1. PICK id \in retire[c] :
          LET old == {r \in RowsOf(id) : r # Newest(RowsOf(id))} IN
          /\ rows' = rows \ old
          /\ Set(unwind, c, UNION {Pairs(r.m) : r \in old})
          /\ Set(retire, c, retire[c] \ {id})
    BY <1>11 DEF RetireOlder
  <2>2. UNION {Pairs(r.m) : r \in {r \in RowsOf(id) : r # Newest(RowsOf(id))}} \subseteq Pair
    BY <1>a DEF RowsOf
  <2>3. doomed[c] = {}  BY <1>11, <1>b DEF RetireOlder
  <2>4. TreeTyped'  BY <1>1, <1>11, <2>1 DEF TreeTyped, RetireOlder
  <2>5. CallsTyped'
    BY <1>1, <1>11, <2>1, <2>2, <2>3 DEF CallsTyped, RetireOlder, Goto, Set, Place
  <2> QED  BY <2>4, <2>5
<1>12. CASE BodyIs(c)
  <2>1. TreeTyped'  BY <1>1, <1>12 DEF TreeTyped, BodyIs, treeVars
  <2>2. doomed[c] = {}  BY <1>12, <1>b DEF BodyIs
  <2>3. CallsTyped'  BY <1>1, <1>12, <2>2 DEF CallsTyped, BodyIs, Goto, Set, Place, treeVars
  <2> QED  BY <2>1, <2>3
<1>13. CASE RemoveTool(c)
  <2>1. TreeTyped'  BY <1>1, <1>13 DEF TreeTyped, RemoveTool
  <2>2. CallsTyped'  BY <1>1, <1>13 DEF CallsTyped, RemoveTool, Goto, Set, Place
  <2> QED  BY <2>1, <2>2
<1> QED
  BY <1>2, <1>4, <1>5, <1>6, <1>7, <1>8, <1>9, <1>10, <1>11, <1>12, <1>13 DEF Step

----------------------------------------------------------------------------
(* What callers have in their hands                                        *)

(* Only the caller's own hands change.                                     *)
LEMMA OthersKeep ==
  ASSUME Base, NEW c \in Callers, Step(c), NEW d \in Callers, d # c
  PROVE  /\ at'[d] = at[d] /\ todo'[d] = todo[d] /\ staged'[d] = staged[d]
         /\ naming'[d] = naming[d] /\ retire'[d] = retire[d]
         /\ unwind'[d] = unwind[d] /\ doomed'[d] = doomed[d]
<1>1. CallsTyped  BY TypedIs DEF Base
<1>2. CASE Mount(c) \/ Reload(c) \/ ReloadAll(c) \/ Unmount(c) \/ Sweep(c)
  BY <1>1, <1>2 DEF CallsTyped, Mount, Reload, ReloadAll, Unmount, Sweep, Unseat, Goto, Set
<1>3. CASE StageFails(c) \/ RetireDone(c) \/ SweepDone(c) \/ Dropped(c) \/ Commit(c)
  BY <1>1, <1>3 DEF CallsTyped, StageFails, RetireDone, SweepDone, Dropped, Commit, Goto, Set,
                    callVars
<1>4. CASE Stage(c) \/ Register(c) \/ RecordMount(c) \/ RetireOlder(c)
  BY <1>1, <1>4 DEF CallsTyped, Stage, Register, RecordMount, RetireOlder, Goto, Set
<1>5. CASE BodyIs(c) \/ RemoveTool(c)
  BY <1>1, <1>5 DEF CallsTyped, BodyIs, RemoveTool, Goto, Set
<1> QED  BY <1>2, <1>3, <1>4, <1>5 DEF Step

(* The mounts that were staged stay what they are.                         *)
LEMMA MountsKeep ==
  ASSUME Base, NEW c \in Callers, Step(c)
  PROVE  \A m \in DOMAIN mounts : m \in DOMAIN mounts' /\ mounts'[m] = mounts[m]
<1>1. CASE Stage(c)  BY <1>1, StageAppends DEF Base
<1>2. CASE ~ Stage(c)
  BY <1>2 DEF Step, Mount, Reload, ReloadAll, Unmount, Sweep, StageFails, RetireDone, SweepDone,
              Dropped, Commit, Register, RecordMount, RetireOlder, BodyIs, RemoveTool, treeVars
<1> QED  BY <1>1, <1>2

LEMMA PairsKeep ==
  ASSUME Base, NEW c \in Callers, Step(c), NEW m \in DOMAIN mounts
  PROVE  Pairs(m)' = Pairs(m)
BY MountsKeep DEF Pairs

LEMMA PlacesStep ==
  ASSUME Base, NEW c \in Callers, Step(c)
  PROVE  Places'
<1>1. CallsTyped /\ Typed /\ Places  BY TypedIs DEF Base
<1>a. ASSUME NEW d \in Callers, d # c PROVE PlaceOf(d)'
  <2>1. at[d] = "commit" => Min(staged[d]) \in DOMAIN mounts  BY <1>1, MinStaged
  <2>2. at[d] = "commit" => Pairs(Min(staged[d]))' = Pairs(Min(staged[d]))
    <3>1. staged'[d] = staged[d]  BY <1>a, OthersKeep
    <3> QED  BY <2>1, <3>1, MountsKeep DEF Pairs
  <2>3. PlaceOf(d)  BY <1>1 DEF Places
  <2> QED  BY <1>a, <2>2, <2>3, OthersKeep DEF PlaceOf
<1>b. PlaceOf(c)  BY <1>1 DEF Places
<1> SUFFICES PlaceOf(c)'  BY <1>a DEF Places
<1>2. CASE Mount(c) \/ Reload(c) \/ ReloadAll(c) \/ Unmount(c) \/ Sweep(c)
  BY <1>1, <1>2, <1>b DEF PlaceOf, CallsTyped, Mount, Reload, ReloadAll, Unmount, Sweep, Unseat,
                          Begin, Goto, Set
<1>3. CASE StageFails(c) \/ RetireDone(c) \/ SweepDone(c) \/ Dropped(c)
  BY <1>1, <1>3, <1>b DEF PlaceOf, CallsTyped, StageFails, RetireDone, SweepDone, Dropped, Goto,
                          Set, callVars
<1>4. CASE Commit(c)
  <2>1. staged' = staged /\ mounts' = mounts  BY <1>4 DEF Commit, treeVars
  <2>2. Pairs(Min(staged[c]))' = Pairs(Min(staged[c]))  BY <2>1 DEF Pairs
  <2> QED  BY <1>1, <1>4, <1>b, <2>1, <2>2 DEF PlaceOf, CallsTyped, Commit, Goto, Set
<1>5. CASE Stage(c)
  <2>1. at' = at /\ at[c] = "stage" /\ UNCHANGED <<unwind, doomed>>  BY <1>5 DEF Stage
  <2> QED  BY <1>b, <2>1 DEF PlaceOf
<1>6. CASE Register(c)
  <2>1. staged' = staged /\ mounts' = mounts  BY <1>6 DEF Register
  <2>2. Pairs(Min(staged[c]))' = Pairs(Min(staged[c]))  BY <2>1 DEF Pairs
  <2> QED  BY <1>1, <1>6, <1>b, <2>1, <2>2 DEF PlaceOf, CallsTyped, Register, Set
<1>7. CASE RecordMount(c)
  BY <1>1, <1>7, <1>b DEF PlaceOf, CallsTyped, RecordMount, Goto, Set
<1>8. CASE RetireOlder(c)
  BY <1>1, <1>8, <1>b DEF PlaceOf, CallsTyped, RetireOlder, Goto, Set
<1>9. CASE BodyIs(c) \/ RemoveTool(c)
  BY <1>1, <1>9, <1>b DEF PlaceOf, CallsTyped, BodyIs, RemoveTool, Goto, Set
<1> QED
  BY <1>2, <1>3, <1>4, <1>5, <1>6, <1>7, <1>8, <1>9 DEF Step

(* What a step does to what is staged and to the rows.                     *)
LEMMA RowsStep ==
  ASSUME Base, NEW c \in Callers, Step(c)
  PROVE  \/ rows' \subseteq rows /\ (staged' = staged \/ Stage(c) \/ StageFails(c))
         \/ RecordMount(c)
BY DEF Step, Mount, Reload, ReloadAll, Unmount, Sweep, Unseat, Stage, StageFails, RetireDone,
       SweepDone, Dropped, Commit, Register, RetireOlder, BodyIs, RemoveTool, treeVars, callVars

LEMMA RecordMoves ==
  ASSUME Base, NEW c \in Callers, RecordMount(c)
  PROVE  \E m \in staged[c] :
           /\ m = Min(staged[c]) /\ m \in DOMAIN mounts
           /\ rows' = rows \cup {[m |-> m, gen |-> NextGen(mounts[m].id)]}
           /\ staged' = [staged EXCEPT ![c] = staged[c] \ {m}]
           /\ naming[c] = {} /\ todo[c] = {} /\ at[c] = "commit"
           /\ at' = [at EXCEPT ![c] = "stage"]
           /\ UNCHANGED <<env, tools, mounts, todo, naming, retire, keep, unwind, doomed>>
<1>1. /\ Min(staged[c]) \in staged[c] /\ Min(staged[c]) \in DOMAIN mounts /\ todo[c] = {}
  BY MinStaged DEF RecordMount
<1> QED  BY <1>1 DEF RecordMount, NextGen, Goto, Set

LEMMA StagedApartStep ==
  ASSUME Base, NEW c \in Callers, Step(c)
  PROVE  StagedApart'
<1>1. StagedApart /\ CallsTyped /\ Typed  BY TypedIs DEF Base
<1>2. CASE rows' \subseteq rows /\ staged' = staged
  BY <1>1, <1>2, MountsKeep DEF StagedApart
<1>3. CASE rows' \subseteq rows /\ Stage(c)
  <2>1. /\ Len(mounts) + 1 \notin DOMAIN mounts
        /\ staged' = [staged EXCEPT ![c] = staged[c] \cup {Len(mounts) + 1}]
    BY <1>1, <1>3, StageAppends
  <2>2. \A d \in Callers : staged[d] \subseteq DOMAIN mounts  BY <1>1 DEF CallsTyped
  <2>3. \A r \in rows : r.m \in DOMAIN mounts  BY <1>1 DEF StagedApart
  <2>4. ASSUME NEW d \in Callers, NEW e \in Callers, d # e PROVE staged'[d] \cap staged'[e] = {}
    BY <1>1, <2>1, <2>2, <2>4 DEF StagedApart, CallsTyped
  <2>5. ASSUME NEW r \in rows', NEW d \in Callers PROVE r.m \in DOMAIN mounts' /\ r.m \notin staged'[d]
    BY <1>1, <1>3, <2>1, <2>3, MountsKeep DEF StagedApart, CallsTyped
  <2>6. \A r \in rows' : r.m \in DOMAIN mounts'  BY <1>3, <2>3, MountsKeep
  <2> QED  BY <2>4, <2>5, <2>6 DEF StagedApart
<1>4. CASE rows' \subseteq rows /\ StageFails(c)
  <2>1. staged' = [staged EXCEPT ![c] = {}]  BY <1>4 DEF StageFails, Set
  <2> QED  BY <1>1, <1>4, <2>1, MountsKeep DEF StagedApart, CallsTyped
<1>5. CASE RecordMount(c)
  <2>1. PICK m \in staged[c] :
          /\ m \in DOMAIN mounts
          /\ rows' = rows \cup {[m |-> m, gen |-> NextGen(mounts[m].id)]}
          /\ staged' = [staged EXCEPT ![c] = staged[c] \ {m}]
    BY <1>5, RecordMoves
  <2>2. ASSUME NEW d \in Callers PROVE m \notin staged'[d]
    BY <1>1, <2>1 DEF StagedApart, CallsTyped
  <2>3. \A d \in Callers : staged'[d] \subseteq staged[d]  BY <1>1, <2>1 DEF CallsTyped
  <2>4. \A d, e \in Callers : d # e => staged'[d] \cap staged'[e] = {}
    BY <1>1, <2>3 DEF StagedApart
  <2>5. \A r \in rows' : r \in rows \/ r.m = m  BY <2>1
  <2> QED  BY <1>1, <2>1, <2>2, <2>3, <2>4, <2>5, MountsKeep DEF StagedApart
<1> QED  BY <1>2, <1>3, <1>4, <1>5, RowsStep

LEMMA GensStep ==
  ASSUME Base, NEW c \in Callers, Step(c)
  PROVE  GensBounded'
<1>1. StagedApart /\ GensBounded /\ CallsTyped /\ TreeTyped /\ Typed  BY TypedIs DEF Base
<1> DEFINE k == Cardinality(Staging)
           n == Len(mounts)
<1>a. /\ k \in Nat /\ k <= n /\ n \in Nat /\ IsFiniteSet(Staging) /\ Staging \subseteq DOMAIN mounts
  BY <1>1, StagingFinite, MountsAre
<1>b. \A r \in rows : r.gen \in Nat /\ r.gen + k <= n  BY <1>1 DEF TreeTyped, Row, GensBounded
<1>2. CASE rows' \subseteq rows /\ staged' = staged
  <2>1. Staging' = Staging  BY <1>2 DEF Staging
  <2>2. Len(mounts') \in Nat /\ Len(mounts') >= n
    <3>1. CASE Stage(c)  BY <1>1, <1>a, <3>1, StageAppends
    <3>2. CASE mounts' = mounts  BY <1>a, <3>2
    <3> QED  BY <3>1, <3>2 DEF Step, Mount, Reload, ReloadAll, Unmount, Sweep, StageFails,
                RetireDone, SweepDone, Dropped, Commit, Register, RecordMount, RetireOlder, BodyIs,
                RemoveTool, treeVars
  <2>3. Cardinality(Staging') = k  BY <2>1
  <2> QED
    <3> HIDE DEF k, n
    <3> QED  BY <1>2, <1>a, <1>b, <2>2, <2>3 DEF GensBounded
<1>3. CASE rows' \subseteq rows /\ Stage(c)
  <2>1. /\ Len(mounts) + 1 \notin DOMAIN mounts /\ Len(mounts') = n + 1
        /\ staged' = [staged EXCEPT ![c] = staged[c] \cup {Len(mounts) + 1}]
    BY <1>1, <1>3, StageAppends
  <2>2. Staging' = Staging \cup {Len(mounts) + 1}
    BY <1>1, <2>1 DEF Staging, CallsTyped
  <2>3. Cardinality(Staging') = k + 1  BY <1>a, <2>1, <2>2, FS_AddElement
  <2> HIDE DEF k, n
  <2> QED  BY <1>3, <1>a, <1>b, <2>1, <2>3 DEF GensBounded
<1>4. CASE rows' \subseteq rows /\ StageFails(c)
  <2>1. staged' = [staged EXCEPT ![c] = {}] /\ mounts' = mounts
    BY <1>4 DEF StageFails, Set, treeVars
  <2>2. Staging' \subseteq Staging  BY <1>1, <2>1 DEF Staging, CallsTyped
  <2>3. Cardinality(Staging') \in Nat /\ Cardinality(Staging') <= k
    BY <1>a, <2>2, FS_Subset, FS_CardinalityType
  <2>4. Len(mounts') = n  BY <2>1
  <2> HIDE DEF k, n
  <2> QED  BY <1>4, <1>a, <1>b, <2>4, <2>3 DEF GensBounded
<1>5. CASE RecordMount(c)
  <2>1. PICK m \in staged[c] :
          /\ m \in DOMAIN mounts /\ mounts' = mounts
          /\ rows' = rows \cup {[m |-> m, gen |-> NextGen(mounts[m].id)]}
          /\ staged' = [staged EXCEPT ![c] = staged[c] \ {m}]
    BY <1>5, RecordMoves
  <2>2. Staging' = Staging \ {m} /\ m \in Staging
    BY <1>1, <2>1 DEF Staging, CallsTyped, StagedApart
  <2>3. Cardinality(Staging') = k - 1  BY <1>a, <2>2, FS_RemoveElement
  <2>4. k >= 1  BY <1>a, <2>2, FS_EmptySet
  <2> DEFINE g == NextGen(mounts[m].id)
  <2>5. g \in Nat /\ (g = 1 \/ \E r \in rows : g = 1 + r.gen)  BY <1>1, NextGenIs
  <2>6. Len(mounts') = n  BY <2>1
  <2>7. \A r \in rows' : r \in rows \/ r.gen = g  BY <2>1
  <2> HIDE DEF k, n, g
  <2>8. g + (k - 1) <= n  BY <1>a, <1>b, <2>4, <2>5
  <2> QED  BY <1>a, <1>b, <2>3, <2>4, <2>5, <2>6, <2>7, <2>8 DEF GensBounded
<1> QED  BY <1>2, <1>3, <1>4, <1>5, RowsStep

(* What a step does to the registry.                                       *)
LEMMA ToolsStep ==
  ASSUME Base, NEW c \in Callers, Step(c)
  PROVE  tools' = tools \/ Register(c) \/ RemoveTool(c)
BY DEF Step, Mount, Reload, ReloadAll, Unmount, Sweep, Stage, StageFails, RetireDone,
       SweepDone, Dropped, Commit, RecordMount, RetireOlder, BodyIs, treeVars

LEMMA RegisterPuts ==
  ASSUME Base, NEW c \in Callers, Register(c)
  PROVE  \E p \in naming[c] :
           LET m == Min(staged[c]) IN
           /\ p.m = m /\ m \in DOMAIN mounts /\ m \in staged[c] /\ p.n \in Names
           /\ p.n \in mounts[m].names /\ todo[c] = {} /\ at[c] = "commit" /\ m # 0
           /\ tools' = [tools EXCEPT ![p.n] = m]
           /\ naming' = [naming EXCEPT ![c] = naming[c] \ {p}]
           /\ UNCHANGED <<env, at, mounts, rows, todo, staged, retire, keep, unwind, doomed>>
<1>1. Typed  BY DEF Base
<1>2. PICK p \in naming[c] :
        tools' = [tools EXCEPT ![p.n] = p.m] /\ Set(naming, c, naming[c] \ {p})
  BY DEF Register
<1> DEFINE m == Min(staged[c])
<1>3. m \in DOMAIN mounts /\ m \in staged[c] /\ naming[c] \subseteq Pairs(m) /\ todo[c] = {}
  BY MinStaged DEF Register
<1>4. p.m = m /\ p.n \in mounts[m].names  BY <1>3 DEF Pairs
<1>5. p.n \in Names /\ m # 0  BY <1>1, <1>3, <1>4, MountsAre
<1> QED  BY <1>2, <1>3, <1>4, <1>5 DEF Register, Set

LEMMA StoredStep ==
  ASSUME Base, NEW c \in Callers, Step(c)
  PROVE  StoredDeclared'
<1>1. StagedApart /\ StoredDeclared /\ CallsTyped /\ TreeTyped /\ Typed  BY TypedIs DEF Base
<1>a. \A n \in Names : tools[n] # 0 => tools[n] \in DOMAIN mounts  BY <1>1 DEF TreeTyped
<1>b. \A n \in Names : tools[n] # 0 => n \in mounts'[tools[n]].names
  BY <1>1, <1>a, MountsKeep DEF StoredDeclared
<1>2. CASE tools' = tools
  <2>1. ASSUME NEW n \in Names, tools[n] # 0, NEW d \in Callers, todo'[d] # {}
        PROVE  tools[n] \notin staged'[d]
    <3>1. CASE d # c  BY <1>1, <2>1, <3>1, OthersKeep DEF StoredDeclared
    <3>2. CASE d = c /\ Stage(c)
      <4>1. /\ Len(mounts) + 1 \notin DOMAIN mounts /\ todo[c] # {}
            /\ staged' = [staged EXCEPT ![c] = staged[c] \cup {Len(mounts) + 1}]
        BY <1>1, <3>2, StageAppends
      <4> QED  BY <1>1, <1>a, <2>1, <3>2, <4>1 DEF StoredDeclared, CallsTyped
    <3>3. CASE d = c /\ (Mount(c) \/ Reload(c) \/ ReloadAll(c))
      <4>1. staged'[c] = staged[c] /\ at[c] = "idle"
        BY <3>3 DEF Mount, Reload, ReloadAll, Begin
      <4>2. staged[c] = {}  BY <4>1 DEF Base, Places, PlaceOf
      <4> QED  BY <3>3, <4>1, <4>2
    <3>4. CASE d = c /\ RecordMount(c)  BY <2>1, <3>4, RecordMoves
    <3>5. CASE d = c /\ StageFails(c)  BY <1>1, <2>1, <3>5 DEF StageFails, Set, CallsTyped
    <3>6. CASE d = c /\ todo' = todo /\ staged' = staged
      BY <1>1, <2>1, <3>6 DEF StoredDeclared
    <3> QED
      BY <3>1, <3>2, <3>3, <3>4, <3>5, <3>6
      DEF Step, Unmount, Sweep, RetireDone, SweepDone, Dropped, Commit, Register, RetireOlder,
          BodyIs, RemoveTool, callVars
  <2> QED  BY <1>2, <1>b, <2>1 DEF StoredDeclared
<1>3. CASE Register(c)
  <2>1. PICK p \in naming[c] :
           LET m == Min(staged[c]) IN
           /\ m \in staged[c] /\ p.n \in mounts[m].names /\ todo[c] = {}
           /\ tools' = [tools EXCEPT ![p.n] = m]
           /\ UNCHANGED <<mounts, todo, staged>>
    BY <1>3, RegisterPuts
  <2> DEFINE m == Min(staged[c])
  <2>2. \A d \in Callers : todo[d] # {} => m \notin staged[d]  BY <1>1, <2>1 DEF StagedApart
  <2> HIDE DEF m
  <2>3. ASSUME NEW n \in Names, tools'[n] # 0
        PROVE  n \in mounts[tools'[n]].names /\ \A d \in Callers : todo[d] # {} => tools'[n] \notin staged[d]
    <3>1. (n = p.n /\ tools'[n] = m) \/ tools'[n] = tools[n]  BY <1>1, <2>1 DEF TreeTyped, m
    <3> QED  BY <1>1, <2>1, <2>2, <2>3, <3>1 DEF StoredDeclared, m
  <2> QED  BY <2>1, <2>3 DEF StoredDeclared
<1>4. CASE RemoveTool(c)
  <2>1. PICK p \in doomed[c] : tools' = [tools EXCEPT ![p.n] = 0]  BY <1>4 DEF RemoveTool
  <2>2. \A n \in Names : tools'[n] # 0 => tools'[n] = tools[n]  BY <1>1, <2>1 DEF TreeTyped
  <2>3. UNCHANGED <<mounts, todo, staged>>  BY <1>4 DEF RemoveTool
  <2> QED  BY <1>1, <2>2, <2>3 DEF StoredDeclared
<1> QED  BY <1>2, <1>3, <1>4, ToolsStep

LEMMA BaseStep ==
  ASSUME Base, NEW c \in Callers, Step(c)
  PROVE  Base'
BY TypedStep, TypedIsToo, PlacesStep, StagedApartStep, GensStep, StoredStep DEF Base

----------------------------------------------------------------------------
(* No tool outlives its mount                                              *)

(* A row that leaves the tree by Unmount or Sweep.                         *)
LEMMA Unseats ==
  ASSUME Base, NEW c \in Callers, Unmount(c) \/ Sweep(c)
  PROVE  \E r \in rows :
           /\ r = Newest(RowsOf(mounts[r.m].id)) \/ Unmount(c)
           /\ rows' = rows \ {r} /\ unwind[c] = {} /\ doomed[c] = {}
           /\ unwind' = [unwind EXCEPT ![c] = Pairs(r.m)]
           /\ at' = [at EXCEPT ![c] = "drop"]
           /\ UNCHANGED <<env, tools, mounts, todo, staged, naming, doomed>>
<1>1. at[c] \in {"idle", "sweep"}  BY DEF Unmount, Sweep, Begin
<1>2. unwind[c] = {} /\ doomed[c] = {}  BY <1>1 DEF Base, Places, PlaceOf
<1>3. CASE Unmount(c)
  <2>1. PICK r \in rows : Unseat(c, r)  BY <1>3 DEF Unmount, RowsOf
  <2> QED  BY <1>2, <1>3, <2>1 DEF Unmount, Unseat, Goto, Set
<1>4. CASE Sweep(c)
  <2>1. PICK s \in rows : Unseat(c, Newest(RowsOf(mounts[s.m].id)))  BY <1>4 DEF Sweep
  <2>2. RowsOf(mounts[s.m].id) # {}  BY DEF RowsOf
  <2> DEFINE r == Newest(RowsOf(mounts[s.m].id))
  <2>3. r \in rows /\ mounts[r.m].id = mounts[s.m].id  BY <2>2, NewestIs DEF RowsOf, Base
  <2>4. r = Newest(RowsOf(mounts[r.m].id))  BY <2>3
  <2> QED  BY <1>2, <1>4, <2>1, <2>3, <2>4 DEF Sweep, Unseat, Goto, Set
<1> QED  BY <1>3, <1>4

LEMMA Retirement ==
  ASSUME Base, NEW c \in Callers, RetireOlder(c)
  PROVE  \E id \in retire[c] :
           LET old == {r \in RowsOf(id) : r # Newest(RowsOf(id))} IN
           /\ rows' = rows \ old /\ unwind[c] = {} /\ staged[c] = {} /\ todo[c] = {}
           /\ at[c] = "retire" /\ doomed[c] = {}
           /\ unwind' = [unwind EXCEPT ![c] = UNION {Pairs(r.m) : r \in old}]
           /\ retire' = [retire EXCEPT ![c] = retire[c] \ {id}]
           /\ at' = [at EXCEPT ![c] = "drop"]
           /\ UNCHANGED <<env, tools, mounts, todo, staged, naming, keep, doomed>>
<1>1. unwind[c] = {} /\ staged[c] = {} /\ todo[c] = {} /\ doomed[c] = {}
  BY DEF Base, Places, PlaceOf, RetireOlder
<1> QED  BY <1>1 DEF RetireOlder, Goto, Set

(* Where the body that is stored under n belongs.                          *)
Belongs(n) ==
  \/ \E r \in rows : r.m = tools[n] /\ n \in mounts[r.m].names
  \/ \E c \in Callers : tools[n] \in staged[c]
  \/ \E c \in Callers : [n |-> n, m |-> tools[n]] \in unwind[c]

LEMMA DanglesStep ==
  ASSUME Base, NothingDangles, NEW c \in Callers, Step(c)
  PROVE  NothingDangles'
<1>1. StagedApart /\ StoredDeclared /\ CallsTyped /\ TreeTyped /\ Typed  BY TypedIs DEF Base
<1>a. SUFFICES ASSUME NEW n \in Names, tools'[n] # 0 PROVE Belongs(n)'
  BY DEF NothingDangles, Belongs
<1>b. tools[n] # 0 => Belongs(n)  BY DEF NothingDangles, Belongs
<1>c. tools[n] # 0 => n \in mounts[tools[n]].names  BY <1>1 DEF StoredDeclared
<1>d. \A r \in rows : mounts'[r.m] = mounts[r.m]  BY <1>1, MountsKeep DEF StagedApart
<1>2. CASE UNCHANGED <<tools, rows, unwind>> /\ \A d \in Callers : staged[d] \subseteq staged'[d]
  BY <1>2, <1>a, <1>b, <1>d DEF Belongs
<1>3. CASE Stage(c)
  <2>1. staged' = [staged EXCEPT ![c] = staged[c] \cup {Len(mounts) + 1}]
    BY <1>1, <1>3, StageAppends
  <2>2. UNCHANGED <<tools, rows, unwind>>  BY <1>3 DEF Stage
  <2> QED  BY <1>1, <1>2, <2>1, <2>2 DEF CallsTyped
<1>4. CASE StageFails(c)
  <2>1. /\ UNCHANGED <<tools, rows, mounts, unwind>> /\ todo[c] # {}
        /\ staged' = [staged EXCEPT ![c] = {}]
    BY <1>4 DEF StageFails, Set, treeVars
  <2>2. tools[n] \notin staged[c]  BY <1>1, <1>a, <2>1 DEF StoredDeclared
  <2> QED  BY <1>1, <1>a, <1>b, <2>1, <2>2 DEF Belongs, CallsTyped
<1>5. CASE Register(c)
  <2>1. PICK p \in naming[c] :
           LET m == Min(staged[c]) IN
           /\ m \in staged[c] /\ tools' = [tools EXCEPT ![p.n] = m]
           /\ UNCHANGED <<mounts, rows, staged, unwind>>
    BY <1>5, RegisterPuts
  <2>2. tools'[n] \in staged[c] \/ tools'[n] = tools[n]  BY <1>1, <2>1 DEF TreeTyped
  <2> QED  BY <1>a, <1>b, <2>1, <2>2 DEF Belongs
<1>6. CASE RecordMount(c)
  <2>1. PICK m \in staged[c] :
          /\ rows' = rows \cup {[m |-> m, gen |-> NextGen(mounts[m].id)]}
          /\ staged' = [staged EXCEPT ![c] = staged[c] \ {m}]
          /\ UNCHANGED <<tools, mounts, unwind>>
    BY <1>6, RecordMoves
  <2>2. CASE tools[n] = m
    <3> DEFINE q == [m |-> m, gen |-> NextGen(mounts[m].id)]
    <3>1. q \in rows' /\ q.m = tools[n] /\ n \in mounts[q.m].names
      BY <1>a, <1>c, <2>1, <2>2
    <3> QED  BY <2>1, <3>1 DEF Belongs
  <2>3. CASE tools[n] # m
    BY <1>1, <1>a, <1>b, <2>1, <2>3 DEF Belongs, CallsTyped
  <2> QED  BY <2>2, <2>3
<1>7. CASE Unmount(c) \/ Sweep(c)
  <2>1. PICK r \in rows :
          /\ rows' = rows \ {r} /\ unwind[c] = {}
          /\ unwind' = [unwind EXCEPT ![c] = Pairs(r.m)]
          /\ UNCHANGED <<tools, mounts, staged>>
    BY <1>7, Unseats
  <2>2. CASE tools[n] = r.m
    <3>1. [n |-> n, m |-> tools[n]] \in unwind'[c]
      BY <1>1, <1>a, <1>c, <2>1, <2>2 DEF Pairs, CallsTyped
    <3> QED  BY <2>1, <3>1 DEF Belongs
  <2>3. CASE tools[n] # r.m
    BY <1>1, <1>a, <1>b, <2>1, <2>3 DEF Belongs, CallsTyped
  <2> QED  BY <2>2, <2>3
<1>8. CASE RetireOlder(c)
  <2>1. PICK id \in retire[c] :
           LET old == {r \in RowsOf(id) : r # Newest(RowsOf(id))} IN
           /\ rows' = rows \ old /\ unwind[c] = {}
           /\ unwind' = [unwind EXCEPT ![c] = UNION {Pairs(r.m) : r \in old}]
           /\ UNCHANGED <<tools, mounts, staged>>
    BY <1>8, Retirement
  <2> DEFINE old == {r \in RowsOf(id) : r # Newest(RowsOf(id))}
  <2>2. unwind'[c] = UNION {Pairs(r.m) : r \in old} /\ \A d \in Callers : unwind[d] \subseteq unwind'[d]
    BY <1>1, <2>1 DEF CallsTyped
  <2>3. ASSUME NEW r \in old, r.m = tools[n], n \in mounts[r.m].names
        PROVE  [n |-> n, m |-> tools[n]] \in unwind'[c]
    <3>1. [n |-> n, m |-> tools[n]] \in Pairs(r.m)  BY <2>3 DEF Pairs
    <3> QED  BY <2>2, <3>1
  <2>4. rows' = rows \ old /\ UNCHANGED <<tools, mounts, staged>>  BY <2>1
  <2> HIDE DEF old
  <2> QED  BY <1>a, <1>b, <2>2, <2>3, <2>4 DEF Belongs
<1>9. CASE BodyIs(c)
  <2>1. UNCHANGED <<tools, rows, mounts, staged>>  BY <1>9 DEF BodyIs, treeVars
  <2>2. PICK p \in unwind[c] :
          unwind' = unwind \/ (tools[p.n] # p.m /\ unwind' = [unwind EXCEPT ![c] = unwind[c] \ {p}])
    BY <1>9 DEF BodyIs, Set
  <2>3. ASSUME NEW d \in Callers, [n |-> n, m |-> tools[n]] \in unwind[d], tools[n] # 0
        PROVE  [n |-> n, m |-> tools[n]] \in unwind'[d]
    <3>1. CASE unwind' = unwind  BY <2>3, <3>1
    <3>2. CASE tools[p.n] # p.m /\ unwind' = [unwind EXCEPT ![c] = unwind[c] \ {p}]
      <4>1. p # [n |-> n, m |-> tools[n]]  BY <3>2
      <4> QED  BY <1>1, <2>3, <3>2, <4>1 DEF CallsTyped
    <3> QED  BY <2>2, <3>1, <3>2
  <2> QED  BY <1>a, <1>b, <2>1, <2>3 DEF Belongs
<1>10. CASE RemoveTool(c)
  <2>1. UNCHANGED <<rows, mounts, staged>>  BY <1>10 DEF RemoveTool
  <2>2. PICK p \in doomed[c] : tools' = [tools EXCEPT ![p.n] = 0]  BY <1>10 DEF RemoveTool
  <2>3. tools'[n] = tools[n] /\ n # p.n  BY <1>1, <1>a, <2>2 DEF TreeTyped
  <2>4. unwind' = [unwind EXCEPT ![c] = unwind[c] \ doomed[c]]  BY <1>10 DEF RemoveTool, Set
  <2>5. \A q \in doomed[c] : q.n = p.n
    BY <1>10, <2>2 DEF Base, Places, PlaceOf
  <2>6. ASSUME NEW d \in Callers, [n |-> n, m |-> tools[n]] \in unwind[d]
        PROVE  [n |-> n, m |-> tools[n]] \in unwind'[d]
    <3>1. [n |-> n, m |-> tools[n]] \notin doomed[c]  BY <2>3, <2>5
    <3> QED  BY <1>1, <2>4, <2>6, <3>1 DEF CallsTyped
  <2> QED  BY <1>a, <1>b, <2>1, <2>3, <2>6 DEF Belongs
<1>11. ASSUME Step(c), ~ (Stage(c) \/ StageFails(c) \/ Register(c) \/ RecordMount(c) \/ Unmount(c)
                          \/ Sweep(c) \/ RetireOlder(c) \/ BodyIs(c) \/ RemoveTool(c))
       PROVE  UNCHANGED <<tools, rows, unwind, staged>>
  BY <1>11 DEF Step, Mount, Reload, ReloadAll, RetireDone, SweepDone, Dropped, Commit, treeVars, callVars
<1> QED
  BY <1>2, <1>3, <1>4, <1>5, <1>6, <1>7, <1>8, <1>9, <1>10, <1>11

----------------------------------------------------------------------------
(* One call at a time                                                      *)

LEMMA EnvKeeps ==
  ASSUME NEW c \in Callers, Step(c)
  PROVE  env' = env /\ Orderly' = Orderly
<1>1. env' = env
  BY DEF Step, Mount, Reload, ReloadAll, Unmount, Sweep, Stage, StageFails, RetireDone, SweepDone,
         Dropped, Commit, Register, RecordMount, RetireOlder, BodyIs, RemoveTool
<1> QED  BY <1>1 DEF Orderly, NamesApart

LEMMA IdleIsEmpty ==
  ASSUME Base, NEW c \in Callers, at[c] = "idle"
  PROVE  todo[c] = {} /\ staged[c] = {} /\ unwind[c] = {} /\ doomed[c] = {}
BY DEF Base, Places, PlaceOf

LEMMA Starts ==
  ASSUME NEW c \in Callers, Step(c), at[c] = "idle"
  PROVE  Begin(c) /\ (Mount(c) \/ Reload(c) \/ ReloadAll(c) \/ Unmount(c))
BY DEF Step, Mount, Reload, ReloadAll, Unmount, Sweep, Stage, StageFails, RetireDone, SweepDone,
       Dropped, Commit, Register, RecordMount, RetireOlder, BodyIs, RemoveTool

LEMMA Alone ==
  ASSUME Base, Solo, "overlap" \notin env, NEW c \in Callers, Step(c), NEW d \in Callers, d # c
  PROVE  at[d] = "idle"
<1>1. CASE at[c] = "idle"  BY <1>1, Starts DEF Begin
<1>2. CASE at[c] # "idle"  BY <1>2 DEF Solo
<1> QED  BY <1>1, <1>2

LEMMA SoloStep ==
  ASSUME Base, Solo, NEW c \in Callers, Step(c)
  PROVE  Solo'
<1>1. SUFFICES ASSUME "overlap" \notin env,
                      NEW d \in Callers, NEW e \in Callers, at'[d] # "idle", at'[e] # "idle"
               PROVE  d = e
  BY EnvKeeps DEF Solo
<1>2. \A f \in Callers : f # c => at'[f] = "idle"  BY <1>1, Alone, OthersKeep
<1> QED  BY <1>1, <1>2

----------------------------------------------------------------------------
(* Superseded generations are retired                                      *)

LEMMA DueKeeps ==
  ASSUME Base, NEW c \in Callers, Step(c), NEW d \in Callers, todo'[d] = todo[d], staged'[d] = staged[d]
  PROVE  Due(d)' = Due(d)
<1>1. \A m \in staged[d] : mounts'[m] = mounts[m]
  BY MountsKeep, TypedIs DEF Base, CallsTyped
<1> QED  BY <1>1 DEF Due

(* How DueRetires can hold of a caller.                                    *)
Retiring(c) == Due(c) \subseteq retire[c]
FirstMount(c) ==
  /\ "overlap" \notin env
  /\ \E id \in Ids : Due(c) \subseteq {id} /\ RowsOf(id) = {}
  /\ \A m, k \in staged[c] : m = k /\ todo[c] = {}

LEMMA DueStep ==
  ASSUME Base, Solo, "pile" \notin env, DueRetires, NEW c \in Callers, Step(c)
  PROVE  DueRetires'
<1>1. StagedApart /\ CallsTyped /\ TreeTyped /\ Typed  BY TypedIs DEF Base
<1>a. \A d \in Callers : Retiring(d) \/ FirstMount(d)  BY DEF DueRetires, Retiring, FirstMount
<1>b. ASSUME NEW d \in Callers, d # c PROVE Retiring(d)'
  <2>1. Due(d)' = Due(d) /\ retire'[d] = retire[d]  BY <1>b, OthersKeep, DueKeeps
  <2>2. Retiring(d)
    <3>1. CASE "overlap" \in env  BY <1>a, <3>1 DEF FirstMount
    <3>2. CASE "overlap" \notin env
      <4>1. at[d] = "idle"  BY <1>b, <3>2, Alone
      <4> QED  BY <4>1, IdleIsEmpty DEF Retiring, Due
    <3> QED  BY <3>1, <3>2
  <2> QED  BY <2>1, <2>2 DEF Retiring
<1>c. SUFFICES Retiring(c)' \/ FirstMount(c)'
  BY <1>b DEF DueRetires, Retiring, FirstMount
<1>d. env' = env  BY EnvKeeps
<1>2. CASE Mount(c)
  <2>1. at[c] = "idle" /\ "overlap" \notin env  BY <1>2 DEF Mount, Begin
  <2>2. PICK id \in Ids : RowsOf(id) = {} /\ todo' = [todo EXCEPT ![c] = {id}]
    BY <1>2, <2>1 DEF Mount, Set
  <2>3. UNCHANGED <<rows, mounts, staged>>  BY <1>2 DEF Mount, treeVars
  <2>4. staged'[c] = {} /\ todo'[c] = {id} /\ RowsOf(id)' = {}
    BY <1>1, <2>1, <2>2, <2>3, IdleIsEmpty DEF CallsTyped, RowsOf
  <2>5. Due(c)' \subseteq {id}  BY <2>4 DEF Due
  <2> QED  BY <1>d, <2>1, <2>4, <2>5 DEF FirstMount
<1>3. CASE Reload(c) \/ ReloadAll(c)
  <2>1. at[c] = "idle" /\ staged' = staged  BY <1>3 DEF Reload, ReloadAll, Begin
  <2>2. staged'[c] = {}  BY <2>1, IdleIsEmpty
  <2>3. todo'[c] = retire'[c]  BY <1>1, <1>3 DEF Reload, ReloadAll, Set, CallsTyped
  <2> QED  BY <2>2, <2>3 DEF Retiring, Due
<1>4. CASE Unmount(c) \/ Sweep(c) \/ RetireOlder(c)
  <2>1. UNCHANGED <<todo, staged>>  BY <1>4 DEF Unmount, Sweep, RetireOlder
  <2>2. todo[c] = {} /\ staged[c] = {}
    BY <1>4 DEF Unmount, Sweep, RetireOlder, Begin, Base, Places, PlaceOf
  <2> QED  BY <2>1, <2>2 DEF Retiring, Due
<1>5. CASE Stage(c)
  <2>1. PICK id \in todo[c] :
          /\ mounts'[Len(mounts) + 1].id = id
          /\ todo' = [todo EXCEPT ![c] = todo[c] \ {id}]
          /\ staged' = [staged EXCEPT ![c] = staged[c] \cup {Len(mounts) + 1}]
    BY <1>1, <1>5, StageAppends
  <2>2. /\ \A m \in DOMAIN mounts : mounts'[m] = mounts[m]
        /\ Len(mounts) + 1 \notin DOMAIN mounts
    BY <1>1, <1>5, StageAppends
  <2>3. staged[c] \subseteq DOMAIN mounts /\ \A r \in rows : r.m \in DOMAIN mounts
    BY <1>1 DEF CallsTyped, StagedApart
  <2>4. todo'[c] = todo[c] \ {id} /\ staged'[c] = staged[c] \cup {Len(mounts) + 1}
    BY <1>1, <2>1 DEF CallsTyped
  <2>5. Due(c)' = Due(c)  BY <2>1, <2>2, <2>3, <2>4 DEF Due
  <2>6. rows' = rows /\ retire' = retire  BY <1>5 DEF Stage
  <2>7. \A i \in Ids : RowsOf(i)' = RowsOf(i)  BY <2>2, <2>3, <2>6 DEF RowsOf
  <2>8. CASE Retiring(c)  BY <2>5, <2>6, <2>8 DEF Retiring
  <2>9. CASE FirstMount(c)
    <3>1. PICK i \in Ids : Due(c) \subseteq {i} /\ RowsOf(i) = {}  BY <2>9 DEF FirstMount
    <3>2. staged[c] = {} /\ todo[c] \subseteq {i}  BY <2>1, <2>9, <3>1 DEF FirstMount, Due
    <3>3. staged'[c] = {Len(mounts) + 1} /\ todo'[c] = {}  BY <2>1, <2>4, <3>2
    <3> QED  BY <1>d, <2>5, <2>7, <2>9, <3>1, <3>3 DEF FirstMount
  <2> QED  BY <1>a, <2>8, <2>9
<1>6. CASE StageFails(c)
  <2>1. todo'[c] = {} /\ staged'[c] = {}  BY <1>1, <1>6 DEF StageFails, Set, CallsTyped
  <2> QED  BY <2>1 DEF Retiring, Due
<1>7. CASE RecordMount(c)
  <2>1. PICK m \in staged[c] :
          /\ staged' = [staged EXCEPT ![c] = staged[c] \ {m}]
          /\ UNCHANGED <<mounts, todo, retire>> /\ todo[c] = {}
    BY <1>7, RecordMoves
  <2>2. staged'[c] = staged[c] \ {m}  BY <1>1, <2>1 DEF CallsTyped
  <2>3. CASE Retiring(c)  BY <2>1, <2>2, <2>3 DEF Retiring, Due
  <2>4. CASE FirstMount(c)
    <3>1. staged'[c] = {} /\ todo'[c] = {}  BY <2>1, <2>2, <2>4 DEF FirstMount
    <3> QED  BY <3>1 DEF Retiring, Due
  <2> QED  BY <1>a, <2>3, <2>4
<1>8. ASSUME Step(c), ~ (Mount(c) \/ Reload(c) \/ ReloadAll(c) \/ Unmount(c) \/ Sweep(c)
                         \/ RetireOlder(c) \/ Stage(c) \/ StageFails(c) \/ RecordMount(c))
      PROVE  UNCHANGED <<todo, staged, retire, mounts, rows>>
  BY <1>8 DEF Step, RetireDone, SweepDone, Dropped, Commit, Register, BodyIs, RemoveTool,
              treeVars, callVars
<1>9. CASE UNCHANGED <<todo, staged, retire, mounts, rows>>
  BY <1>a, <1>d, <1>9 DEF Retiring, FirstMount, Due, RowsOf
<1> QED  BY <1>2, <1>3, <1>4, <1>5, <1>6, <1>7, <1>8, <1>9

(* A caller that is to retire an id goes on to, until it has.              *)
LEMMA RetiresKeep ==
  ASSUME Base, NEW c \in Callers, Step(c), NEW d \in Callers, NEW id, Retires(d, id)
  PROVE  \/ Retires(d, id)'
         \/ RetireOlder(c) /\ \A r, q \in RowsOf(id)' : r = q
<1>1. CallsTyped /\ TreeTyped /\ Typed  BY TypedIs DEF Base
<1>2. CASE d # c  BY <1>2, OthersKeep DEF Retires
<1>3. CASE d = c /\ RetireOlder(c)
  <2>1. PICK i \in retire[c] :
           /\ rows' = rows \ {r \in RowsOf(i) : r # Newest(RowsOf(i))}
           /\ retire' = [retire EXCEPT ![c] = retire[c] \ {i}]
           /\ at' = [at EXCEPT ![c] = "drop"] /\ todo' = todo /\ mounts' = mounts
    BY <1>3, Retirement
  <2>2. CASE id = i  BY <1>3, <2>1, <2>2 DEF RowsOf
  <2>3. CASE id # i  BY <1>1, <1>3, <2>1, <2>3 DEF Retires, CallsTyped
  <2> QED  BY <2>2, <2>3
<1>4. CASE d = c /\ (Commit(c) \/ Register(c) \/ RecordMount(c) \/ BodyIs(c) \/ RemoveTool(c) \/ Dropped(c))
  BY <1>1, <1>4 DEF Retires, CallsTyped, Commit, Register, RecordMount, BodyIs, RemoveTool, Dropped,
                    Goto, Set, callVars
<1>5. ASSUME d = c PROVE Commit(c) \/ Register(c) \/ RecordMount(c) \/ BodyIs(c) \/ RemoveTool(c)
                         \/ Dropped(c) \/ RetireOlder(c)
  <2>1. at[c] # "idle" /\ todo[c] = {} /\ retire[c] # {}  BY <1>5 DEF Retires
  <2>2. at[c] # "sweep"  BY <2>1 DEF Base, Places, PlaceOf
  <2> QED
    BY <2>1, <2>2 DEF Step, Mount, Reload, ReloadAll, Unmount, Begin, Sweep, SweepDone, Stage,
                      StageFails, RetireDone
<1> QED  BY <1>2, <1>3, <1>4, <1>5

LEMMA TwinsStep ==
  ASSUME Base, DueRetires, TwinsAreRetired, NEW c \in Callers, Step(c)
  PROVE  TwinsAreRetired'
<1>1. StagedApart /\ CallsTyped /\ TreeTyped /\ Typed  BY TypedIs DEF Base
<1>a. \A r \in rows : mounts'[r.m] = mounts[r.m]  BY <1>1, MountsKeep DEF StagedApart
<1>2. SUFFICES ASSUME NEW r \in rows', NEW q \in rows', NEW id, r # q,
                      mounts'[r.m].id = id, mounts'[q.m].id = id
               PROVE  \E d \in Callers : Retires(d, id)'
  BY DEF TwinsAreRetired, Retires
<1>3. CASE r \in rows /\ q \in rows
  <2>1. PICK d \in Callers : Retires(d, id)  BY <1>2, <1>3, <1>a DEF TwinsAreRetired
  <2>2. r \in RowsOf(id)' /\ q \in RowsOf(id)'  BY <1>2 DEF RowsOf
  <2> QED  BY <1>2, <2>1, <2>2, RetiresKeep
<1>4. CASE ~ (r \in rows /\ q \in rows)
  <2>1. RecordMount(c)  BY <1>4, RowsStep
  <2>2. PICK m \in staged[c] :
          /\ m \in DOMAIN mounts
          /\ rows' = rows \cup {[m |-> m, gen |-> NextGen(mounts[m].id)]}
          /\ todo[c] = {} /\ at' = [at EXCEPT ![c] = "stage"]
          /\ UNCHANGED <<mounts, todo, retire>>
    BY <2>1, RecordMoves
  <2>3. mounts[m].id = id /\ \E s \in rows : s \in RowsOf(id)
    BY <1>2, <1>4, <2>2 DEF RowsOf
  <2>4. id \in Due(c)  BY <2>3 DEF Due
  <2>5. Due(c) \subseteq retire[c]  BY <2>3, <2>4 DEF DueRetires
  <2>6. Retires(c, id)'  BY <1>1, <2>2, <2>4, <2>5 DEF Retires, CallsTyped
  <2> QED  BY <2>6
<1> QED  BY <1>3, <1>4

LEMMA OnePerIdStep ==
  ASSUME Base, Solo, OnePerId, NEW c \in Callers, Step(c)
  PROVE  OnePerId'
BY EnvKeeps, DueStep, TwinsStep DEF OnePerId

----------------------------------------------------------------------------
(* What is mounted is served                                               *)

Orderliness ==
  /\ Base /\ Solo /\ OnePerId /\ Orderly
  /\ RowsServed /\ CommitRegisters /\ UnwoundIsGone /\ DoomedIsOwn

(* Only the caller whose step it is has anything in its hands.             *)
LEMMA OthersEmpty ==
  ASSUME Orderliness, NEW c \in Callers, Step(c), NEW d \in Callers, d # c
  PROVE  /\ at[d] = "idle" /\ at'[d] = "idle" /\ staged[d] = {} /\ staged'[d] = {}
         /\ unwind[d] = {} /\ unwind'[d] = {} /\ doomed[d] = {} /\ doomed'[d] = {}
<1>1. at[d] = "idle"  BY Alone DEF Orderliness, Orderly
<1> QED  BY <1>1, IdleIsEmpty, OthersKeep DEF Orderliness

(* A plugin that nobody is to retire is in the tree once.                  *)
LEMMA NoTwins ==
  ASSUME Orderliness, NEW c \in Callers, Unmount(c) \/ Sweep(c),
         NEW r \in rows, NEW q \in rows, mounts[r.m].id = mounts[q.m].id
  PROVE  r = q
<1>1. Step(c)  BY DEF Step
<1>2. at[c] = "idle" \/ (at[c] = "sweep" /\ retire[c] = {})
  BY DEF Unmount, Sweep, Begin, Orderliness, Base, Places, PlaceOf
<1>3. \A d \in Callers : ~ Retires(d, mounts[r.m].id)  BY <1>1, <1>2, OthersEmpty DEF Retires
<1> QED  BY <1>3 DEF Orderliness, Orderly, OnePerId, TwinsAreRetired

LEMMA NamesTell ==
  ASSUME Orderliness, NEW m \in DOMAIN mounts, NEW k \in DOMAIN mounts,
         NEW n \in mounts[m].names, n \in mounts[k].names
  PROVE  mounts[m].id = mounts[k].id
<1>1. /\ mounts[m].id \in Ids /\ mounts[m].names \in Declares[mounts[m].id]
      /\ mounts[k].id \in Ids /\ mounts[k].names \in Declares[mounts[k].id]
  BY TypedIs DEF Orderliness, Base, TreeTyped
<1> QED  BY <1>1 DEF Orderliness, Orderly, NamesApart

(* A name that is removed is declared by no row.                           *)
LEMMA RemovedIsFree ==
  ASSUME Orderliness, NEW c \in Callers, NEW p \in doomed[c], NEW r \in rows
  PROVE  p.n \notin mounts[r.m].names
<1>1. SUFFICES ASSUME p.n \in mounts[r.m].names PROVE FALSE
  OBVIOUS
<1>2. p \in unwind[c] /\ tools[p.n] = p.m
  BY TypedIs DEF Orderliness, Base, CallsTyped, DoomedIsOwn
<1>3. /\ \A q \in rows : p.m # q.m
      /\ \A d \in Callers : p.m \notin staged[d]
  BY <1>2 DEF Orderliness, UnwoundIsGone
<1> QED  BY <1>1, <1>2, <1>3 DEF Orderliness, RowsServed, ServedNewer, ServedStaged

LEMMA ServedStep ==
  ASSUME Orderliness, NEW c \in Callers, Step(c)
  PROVE  RowsServed' /\ CommitRegisters' /\ UnwoundIsGone' /\ DoomedIsOwn'
<1>1. /\ Base /\ StagedApart /\ StoredDeclared /\ CallsTyped /\ TreeTyped /\ Typed
      /\ RowsServed /\ CommitRegisters /\ UnwoundIsGone /\ DoomedIsOwn
  BY TypedIs DEF Orderliness, Base
<1>a. \A r \in rows : r.m \in DOMAIN mounts /\ mounts'[r.m] = mounts[r.m]
  BY <1>1, MountsKeep DEF StagedApart
<1>b. \A d \in Callers : staged[d] \subseteq DOMAIN mounts /\ \A m \in staged[d] : mounts'[m] = mounts[m]
  BY <1>1, MountsKeep DEF CallsTyped
<1>c. PlaceOf(c)  BY <1>1 DEF Base, Places
(* Where the others have nothing, it is enough to look at c.               *)
<1>d. ASSUME unwind'[c] = {} PROVE UnwoundIsGone'  BY <1>d, OthersEmpty DEF UnwoundIsGone
<1>e. ASSUME doomed'[c] = {} PROVE DoomedIsOwn'  BY <1>e, OthersEmpty DEF DoomedIsOwn
<1>f. ASSUME at'[c] # "commit" PROVE CommitRegisters'  BY <1>f, OthersEmpty DEF CommitRegisters
<1>2. CASE Mount(c) \/ Reload(c) \/ ReloadAll(c) \/ RetireDone(c) \/ SweepDone(c) \/ Dropped(c)
           \/ Commit(c)
  <2>1. UNCHANGED <<tools, mounts, rows, staged, unwind, doomed>>
    BY <1>2 DEF Mount, Reload, ReloadAll, RetireDone, SweepDone, Dropped, Commit, treeVars, callVars
  <2>2. RowsServed'  BY <1>1, <2>1 DEF RowsServed, ServedNewer, ServedStaged
  <2>3. UnwoundIsGone' /\ DoomedIsOwn'  BY <1>1, <2>1 DEF UnwoundIsGone, DoomedIsOwn
  <2>4. CASE Commit(c) /\ staged[c] # {}
    <3>1. naming'[c] = Pairs(Min(staged[c]))
      BY <1>1, <2>4 DEF Commit, Set, CallsTyped
    <3>2. \A n \in mounts[Min(staged[c])].names : [n |-> n, m |-> Min(staged[c])] \in naming'[c]
      BY <3>1 DEF Pairs
    <3>3. CommitRegisters'  BY <2>1, <3>2, OthersEmpty DEF CommitRegisters
    <3> QED  BY <2>2, <2>3, <3>3
  <2>5. CASE ~ (Commit(c) /\ staged[c] # {})
    <3>1. at'[c] # "commit"
      BY <1>1, <1>2, <2>5 DEF Mount, Reload, ReloadAll, RetireDone, SweepDone, Dropped, Commit,
                              CallsTyped, Goto, Set
    <3> QED  BY <1>f, <2>2, <2>3, <3>1
  <2> QED  BY <2>4, <2>5
<1>3. CASE Stage(c)
  <2>1. staged' = [staged EXCEPT ![c] = staged[c] \cup {Len(mounts) + 1}]
    BY <1>1, <1>3, StageAppends
  <2>2. /\ UNCHANGED <<tools, rows, unwind, doomed, at>> /\ at[c] = "stage"
    BY <1>3 DEF Stage
  <2>3. \A d \in Callers : staged[d] \subseteq staged'[d]  BY <1>1, <2>1 DEF CallsTyped
  <2>4. RowsServed'
    BY <1>1, <1>a, <1>b, <2>2, <2>3 DEF RowsServed, ServedNewer, ServedStaged
  <2>5. unwind'[c] = {} /\ doomed'[c] = {} /\ at'[c] # "commit"  BY <1>c, <2>2 DEF PlaceOf
  <2> QED  BY <1>d, <1>e, <1>f, <2>4, <2>5
<1>4. CASE StageFails(c)
  <2>1. /\ staged' = [staged EXCEPT ![c] = {}] /\ UNCHANGED <<tools, mounts, rows, unwind, doomed>>
        /\ at' = [at EXCEPT ![c] = "idle"] /\ todo[c] # {} /\ at[c] = "stage"
    BY <1>4 DEF StageFails, Goto, Set, treeVars
  <2>2. \A n \in Names : tools[n] # 0 => tools[n] \notin staged[c]  BY <1>1, <2>1 DEF StoredDeclared
  <2>3. \A d \in Callers : 0 \notin staged[d]  BY <1>1, MountsAre
  <2>4. ASSUME NEW r \in rows, NEW n \in mounts[r.m].names PROVE ~ ServedStaged(r, n)
    <3>1. n \in Names  BY <1>1, <1>a, MountsAre
    <3>2. \A d \in Callers : tools[n] \notin staged[d]  BY <2>2, <2>3, <3>1, OthersEmpty
    <3> QED  BY <3>2 DEF ServedStaged
  <2>5. RowsServed'  BY <1>1, <2>1, <2>4 DEF RowsServed, ServedNewer
  <2>6. unwind'[c] = {} /\ doomed'[c] = {} /\ at'[c] # "commit"
    BY <1>1, <1>c, <2>1 DEF PlaceOf, CallsTyped
  <2> QED  BY <1>d, <1>e, <1>f, <2>5, <2>6
<1>5. CASE Register(c)
  <2>1. PICK p \in naming[c] : LET m == Min(staged[c]) IN
           /\ p.m = m /\ m \in DOMAIN mounts /\ m \in staged[c] /\ p.n \in Names
           /\ p.n \in mounts[m].names /\ at[c] = "commit"
           /\ tools' = [tools EXCEPT ![p.n] = m]
           /\ naming' = [naming EXCEPT ![c] = naming[c] \ {p}]
           /\ UNCHANGED <<at, mounts, rows, staged, unwind, doomed>>
    BY <1>1, <1>5, RegisterPuts
  <2> DEFINE m == Min(staged[c])
  <2>2. tools'[p.n] = m /\ (\A n \in Names : n # p.n => tools'[n] = tools[n])
        /\ naming'[c] = naming[c] \ {p}
    BY <1>1, <2>1 DEF TreeTyped, CallsTyped
  <2>3. ASSUME NEW r \in rows, NEW n \in mounts[r.m].names
        PROVE  tools'[n] = r.m \/ ServedNewer(r, n)' \/ ServedStaged(r, n)'
    <3>1. n \in Names  BY <1>1, <1>a, MountsAre
    <3>2. CASE n = p.n
      <4>1. mounts[m].id = mounts[r.m].id  BY <1>a, <2>1, <3>2, NamesTell
      <4> QED  BY <2>1, <2>2, <3>2, <4>1 DEF ServedStaged
    <3>3. CASE n # p.n
      BY <1>1, <2>1, <2>2, <3>1, <3>3 DEF RowsServed, ServedNewer, ServedStaged
    <3> QED  BY <3>2, <3>3
  <2>4. RowsServed'  BY <2>1, <2>3 DEF RowsServed
  <2>5. ASSUME NEW n \in mounts[m].names
        PROVE  tools'[n] = m \/ [n |-> n, m |-> m] \in naming'[c]
    <3>1. n \in Names  BY <1>1, <2>1, MountsAre
    <3>2. CASE n = p.n  BY <2>2, <3>2
    <3>3. CASE n # p.n  BY <1>1, <2>1, <2>2, <3>1, <3>3 DEF CommitRegisters
    <3> QED  BY <3>2, <3>3
  <2>6. CommitRegisters'  BY <2>1, <2>5, OthersEmpty DEF CommitRegisters
  <2>7. unwind'[c] = {} /\ doomed'[c] = {}  BY <1>c, <2>1 DEF PlaceOf
  <2> QED  BY <1>d, <1>e, <2>4, <2>6, <2>7
<1>6. CASE RecordMount(c)
  <2>1. PICK m \in staged[c] :
           /\ m = Min(staged[c]) /\ m \in DOMAIN mounts
           /\ rows' = rows \cup {[m |-> m, gen |-> NextGen(mounts[m].id)]}
           /\ staged' = [staged EXCEPT ![c] = staged[c] \ {m}]
           /\ naming[c] = {} /\ at[c] = "commit" /\ at' = [at EXCEPT ![c] = "stage"]
           /\ UNCHANGED <<tools, mounts, unwind, doomed>>
    BY <1>1, <1>6, RecordMoves
  <2> DEFINE new == [m |-> m, gen |-> NextGen(mounts[m].id)]
  <2>2. new \in rows' /\ new.m = m /\ new.gen = NextGen(mounts[m].id) /\ rows \subseteq rows'
        /\ \A r \in rows' : r \in rows \/ r = new
    BY <2>1
  <2>3. \A n \in mounts[m].names : tools[n] = m  BY <1>1, <2>1 DEF CommitRegisters
  <2> HIDE DEF new
  <2>4. ASSUME NEW r \in rows, NEW n \in mounts[r.m].names
        PROVE  tools[n] = r.m \/ ServedNewer(r, n)' \/ ServedStaged(r, n)'
    <3>1. CASE ServedNewer(r, n)  BY <2>1, <2>2, <3>1 DEF ServedNewer
    <3>2. CASE ServedStaged(r, n) /\ tools[n] = m
      <4>1. r \in RowsOf(mounts[m].id)  BY <3>2 DEF ServedStaged, RowsOf
      <4>2. r.gen < new.gen  BY <1>1, <2>2, <4>1, NextGenIs
      <4> QED  BY <2>1, <2>2, <3>2, <4>2 DEF ServedStaged, ServedNewer
    <3>3. CASE ServedStaged(r, n) /\ tools[n] # m
      BY <1>1, <2>1, <3>3 DEF ServedStaged, CallsTyped
    <3> QED  BY <1>1, <3>1, <3>2, <3>3 DEF RowsServed
  <2>5. RowsServed'  BY <2>1, <2>2, <2>3, <2>4 DEF RowsServed
  <2>6. unwind'[c] = {} /\ doomed'[c] = {} /\ at'[c] # "commit"
    BY <1>1, <1>c, <2>1 DEF PlaceOf, CallsTyped
  <2> QED  BY <1>d, <1>e, <1>f, <2>5, <2>6
<1>7. CASE Unmount(c) \/ Sweep(c)
  <2>1. PICK r \in rows :
           /\ rows' = rows \ {r} /\ doomed[c] = {}
           /\ unwind' = [unwind EXCEPT ![c] = Pairs(r.m)]
           /\ at' = [at EXCEPT ![c] = "drop"]
           /\ UNCHANGED <<tools, mounts, staged, doomed>>
    BY <1>1, <1>7, Unseats
  <2>2. ASSUME NEW q \in rows', NEW n \in mounts[q.m].names, ServedNewer(q, n)
        PROVE  ServedNewer(q, n)'
    <3>1. PICK w \in rows : tools[n] = w.m /\ mounts[w.m].id = mounts[q.m].id /\ q.gen < w.gen
      BY <2>2 DEF ServedNewer
    <3>2. w = q  BY <1>7, <2>1, <3>1, NoTwins
    <3> QED  BY <2>1, <3>1, <3>2 DEF ServedNewer
  <2>3. RowsServed'  BY <1>1, <2>1, <2>2 DEF RowsServed, ServedStaged
  <2>4. unwind'[c] = Pairs(r.m) /\ doomed'[c] = {} /\ at'[c] # "commit"
    BY <1>1, <2>1 DEF CallsTyped
  <2>5. ASSUME NEW p \in unwind'[c]
        PROVE  /\ \A q \in rows' : p.m # q.m
               /\ \A d \in Callers : p.m \notin staged'[d]
    <3>1. p.m = r.m  BY <2>4 DEF Pairs
    <3> QED  BY <1>1, <2>1, <3>1 DEF TreeTyped, StagedApart
  <2>6. UnwoundIsGone'  BY <2>5, OthersEmpty DEF UnwoundIsGone
  <2> QED  BY <1>e, <1>f, <2>3, <2>4, <2>6
<1>8. CASE RetireOlder(c)
  <2>1. PICK id \in retire[c] :
           /\ rows' = rows \ {r \in RowsOf(id) : r # Newest(RowsOf(id))}
           /\ staged[c] = {} /\ doomed[c] = {}
           /\ unwind' = [unwind EXCEPT ![c] =
                UNION {Pairs(r.m) : r \in {r \in RowsOf(id) : r # Newest(RowsOf(id))}}]
           /\ at' = [at EXCEPT ![c] = "drop"]
           /\ UNCHANGED <<tools, mounts, staged, doomed>>
    BY <1>1, <1>8, Retirement
  <2> DEFINE old == {r \in RowsOf(id) : r # Newest(RowsOf(id))}
  <2>2. ASSUME NEW q \in rows', NEW n \in mounts[q.m].names, ServedNewer(q, n)
        PROVE  ServedNewer(q, n)'
    <3>1. PICK w \in rows : tools[n] = w.m /\ mounts[w.m].id = mounts[q.m].id /\ q.gen < w.gen
      BY <2>2 DEF ServedNewer
    <3>2. CASE mounts[q.m].id = id
      <4>1. q \in RowsOf(id) /\ w \in RowsOf(id)  BY <2>1, <3>1, <3>2 DEF RowsOf
      <4>2. q = Newest(RowsOf(id))  BY <2>1, <4>1
      <4>3. w.gen <= q.gen  BY <1>1, <4>1, <4>2, NewestIs
      <4>4. w.gen \in Nat /\ q.gen \in Nat  BY <1>1, <2>1 DEF TreeTyped, Row
      <4> QED  BY <3>1, <4>3, <4>4
    <3>3. CASE mounts[q.m].id # id
      <4>1. w \in rows'  BY <2>1, <3>1, <3>3 DEF RowsOf
      <4> QED  BY <2>1, <3>1, <4>1 DEF ServedNewer
    <3> QED  BY <3>2, <3>3
  <2>3. RowsServed'  BY <1>1, <2>1, <2>2 DEF RowsServed, ServedStaged
  <2>4. unwind'[c] = UNION {Pairs(r.m) : r \in old} /\ doomed'[c] = {} /\ at'[c] # "commit"
    BY <1>1, <2>1 DEF CallsTyped
  <2>5. ASSUME NEW p \in unwind'[c]
        PROVE  /\ \A q \in rows' : p.m # q.m
               /\ \A d \in Callers : p.m \notin staged'[d]
    <3>1. PICK r \in old : p.m = r.m  BY <2>4 DEF Pairs
    <3>2. r \in rows /\ r \notin rows'  BY <2>1 DEF RowsOf
    <3> QED  BY <1>1, <2>1, <3>1, <3>2 DEF TreeTyped, StagedApart
  <2>6. UnwoundIsGone'  BY <2>5, OthersEmpty DEF UnwoundIsGone
  <2> QED  BY <1>e, <1>f, <2>3, <2>4, <2>6
<1>9. CASE BodyIs(c)
  <2>1. UNCHANGED <<tools, rows, mounts, staged>> /\ at'[c] # "commit"
    BY <1>1, <1>9 DEF BodyIs, Goto, Set, treeVars, CallsTyped
  <2>2. unwind'[c] \subseteq unwind[c] /\ \A p \in doomed'[c] : p \in doomed[c] \/ tools[p.n] = p.m
    BY <1>1, <1>9 DEF BodyIs, Set, CallsTyped
  <2>3. RowsServed'  BY <1>1, <2>1 DEF RowsServed, ServedNewer, ServedStaged
  <2>4. UnwoundIsGone'  BY <1>1, <2>1, <2>2, OthersEmpty DEF UnwoundIsGone
  <2>5. DoomedIsOwn'  BY <1>1, <2>1, <2>2, OthersEmpty DEF DoomedIsOwn
  <2> QED  BY <1>f, <2>1, <2>3, <2>4, <2>5
<1>10. CASE RemoveTool(c)
  <2>1. UNCHANGED <<rows, mounts, staged>> /\ at'[c] # "commit" /\ doomed'[c] = {}
        /\ unwind'[c] \subseteq unwind[c]
    BY <1>1, <1>10 DEF RemoveTool, Goto, Set, CallsTyped
  <2>2. PICK p \in doomed[c] : tools' = [tools EXCEPT ![p.n] = 0]  BY <1>10 DEF RemoveTool
  <2>3. ASSUME NEW r \in rows, NEW n \in mounts[r.m].names PROVE tools'[n] = tools[n]
    <3>1. n # p.n  BY RemovedIsFree
    <3>2. n \in Names  BY <1>1, <1>a, MountsAre
    <3> QED  BY <1>1, <2>2, <3>1, <3>2 DEF TreeTyped
  <2>4. RowsServed'  BY <1>1, <2>1, <2>3 DEF RowsServed, ServedNewer, ServedStaged
  <2>5. UnwoundIsGone'  BY <1>1, <2>1, OthersEmpty DEF UnwoundIsGone
  <2> QED  BY <1>e, <1>f, <2>1, <2>4, <2>5
<1> QED
  BY <1>2, <1>3, <1>4, <1>5, <1>6, <1>7, <1>8, <1>9, <1>10 DEF Step

----------------------------------------------------------------------------
(* Theorems                                                                *)

LEMMA LoaderInit == Init => LoaderInv
<1> SUFFICES ASSUME Init PROVE LoaderInv  OBVIOUS
<1>1. mounts = <<>> /\ Len(mounts) = 0 /\ DOMAIN mounts = {} /\ rows = {}
  BY DEF Init
<1>2. \A c \in Callers : /\ at[c] = "idle" /\ todo[c] = {} /\ staged[c] = {} /\ naming[c] = {}
                         /\ retire[c] = {} /\ unwind[c] = {} /\ doomed[c] = {}
  BY DEF Init, Nobody
<1>3. TreeTyped
  <2>1. mounts \in Seq([id : Ids, names : SUBSET Names])  BY <1>1
  <2> QED  BY <1>1, <2>1, WasmLoaderAssumption DEF TreeTyped, Init
<1>4. CallsTyped  BY <1>2 DEF CallsTyped, Init, Nobody, Place
<1>5. Places  BY <1>2 DEF Places, PlaceOf
<1>6. StagedApart /\ GensBounded  BY <1>1, <1>2 DEF StagedApart, GensBounded
<1>7. StoredDeclared /\ NothingDangles  BY DEF Init, StoredDeclared, NothingDangles
<1>8. Solo  BY <1>2 DEF Solo
<1>9. OnePerId  BY <1>1, <1>2 DEF OnePerId, DueRetires, Due, TwinsAreRetired
<1>10. OrderlyServed
  BY <1>1, <1>2 DEF OrderlyServed, RowsServed, CommitRegisters, UnwoundIsGone, DoomedIsOwn
<1> QED
  BY <1>3, <1>4, <1>5, <1>6, <1>7, <1>8, <1>9, <1>10, TypedIs DEF LoaderInv, Base

LEMMA LoaderStep == LoaderInv /\ [Next]_vars => LoaderInv'
<1> SUFFICES ASSUME LoaderInv, [Next]_vars PROVE LoaderInv'  OBVIOUS
<1>1. CASE Next
  <2>1. PICK c \in Callers : Step(c)  BY <1>1 DEF Next, Step
  <2>2. Base' /\ NothingDangles' /\ Solo' /\ OnePerId'
    BY <2>1, BaseStep, DanglesStep, SoloStep, OnePerIdStep DEF LoaderInv
  <2>3. OrderlyServed'
    <3>1. Orderly' = Orderly  BY <2>1, EnvKeeps
    <3>2. Orderly => Orderliness  BY DEF LoaderInv, Orderliness, OrderlyServed
    <3> QED  BY <2>1, <3>1, <3>2, ServedStep DEF OrderlyServed
  <2> QED  BY <2>2, <2>3 DEF LoaderInv
<1>2. CASE UNCHANGED vars
  <2>1. Base'
    <3>1. TreeTyped' /\ CallsTyped'
      BY <1>2, TypedIs DEF LoaderInv, Base, TreeTyped, CallsTyped, vars, treeVars, callVars
    <3>2. Places'
      BY <1>2 DEF LoaderInv, Base, Places, PlaceOf, Pairs, vars, treeVars, callVars
    <3>3. StagedApart' /\ StoredDeclared'
      BY <1>2 DEF LoaderInv, Base, StagedApart, StoredDeclared, vars, treeVars, callVars
    <3>4. Staging' = Staging  BY <1>2 DEF Staging, vars, callVars
    <3>5. GensBounded'
      BY <1>2, <3>4 DEF LoaderInv, Base, GensBounded, vars, treeVars
    <3> QED  BY <3>1, <3>2, <3>3, <3>5, TypedIsToo DEF Base
  <2>2. NothingDangles' /\ Solo'
    BY <1>2 DEF LoaderInv, NothingDangles, Solo, vars, treeVars, callVars
  <2>3. OnePerId'
    <3>1. \A c \in Callers : Due(c)' = Due(c)  BY <1>2 DEF Due, vars, treeVars, callVars
    <3>2. \A id \in Ids : RowsOf(id)' = RowsOf(id)  BY <1>2 DEF RowsOf, vars, treeVars
    <3>3. DueRetires => DueRetires'  BY <1>2, <3>1, <3>2 DEF DueRetires, vars, callVars
    <3>4. TwinsAreRetired => TwinsAreRetired'
      BY <1>2 DEF TwinsAreRetired, Retires, vars, treeVars, callVars
    <3> QED  BY <1>2, <3>3, <3>4 DEF LoaderInv, OnePerId, vars
  <2>4. OrderlyServed'
    BY <1>2 DEF LoaderInv, OrderlyServed, Orderly, NamesApart, RowsServed, ServedNewer, ServedStaged,
                CommitRegisters, UnwoundIsGone, DoomedIsOwn, vars, treeVars, callVars
  <2> QED  BY <2>1, <2>2, <2>3, <2>4 DEF LoaderInv
<1> QED  BY <1>1, <1>2

LEMMA LoaderInvGives == LoaderInv => TreeIsServed
<1> SUFFICES ASSUME LoaderInv PROVE TreeIsServed  OBVIOUS
<1>1. TypeOK /\ NothingDangles  BY DEF LoaderInv, Base, Typed
<1>2. OneGeneration
  BY DEF OneGeneration, AtRest, LoaderInv, OnePerId, TwinsAreRetired, Retires
<1>3. MountedIsServed
  <2>1. SUFFICES ASSUME Orderly, AtRest, NEW r \in rows, NEW n \in mounts[r.m].names
                 PROVE  tools[n] = r.m
    BY DEF MountedIsServed
  <2>2. ~ ServedStaged(r, n)
    BY <2>1, IdleIsEmpty DEF ServedStaged, AtRest, LoaderInv
  <2>3. ~ ServedNewer(r, n)
    <3>1. SUFFICES ASSUME NEW q \in rows, mounts[q.m].id = mounts[r.m].id, r.gen < q.gen PROVE FALSE
      BY DEF ServedNewer
    <3>2. q = r  BY <1>2, <2>1, <3>1 DEF OneGeneration, Orderly
    <3>3. r.gen \in Nat  BY <1>1 DEF TypeOK, Row
    <3> QED  BY <3>1, <3>2, <3>3
  <2> QED  BY <2>1, <2>2, <2>3 DEF LoaderInv, OrderlyServed, RowsServed
<1> QED  BY <1>1, <1>2, <1>3 DEF TreeIsServed

(* TreeIsServed of WasmLoader: whatever the plugins declare and however    *)
(* many callers there are, between calls that come one at a time every     *)
(* mounted plugin serves its tools; and however calls overlap no tool      *)
(* outlives its mount, and when all have returned no plugin is mounted     *)
(* twice.                                                                  *)
THEOREM WasmTreeIsServed == Spec => []TreeIsServed
<1> QED  BY LoaderInit, LoaderStep, LoaderInvGives, PTL DEF Spec

LEMMA SwapStep == LoaderInv /\ [Next]_vars => [Orderly => VanishesUnmounted]_vars
<1> SUFFICES ASSUME LoaderInv, Next, Orderly PROVE VanishesUnmounted  OBVIOUS
<1>1. PICK c \in Callers : Step(c)  BY DEF Next, Step
<1>2. Base /\ TreeTyped /\ Orderliness
  BY TypedIs DEF LoaderInv, Base, Orderliness, OrderlyServed
<1>3. SUFFICES ASSUME NEW n \in Names, tools[n] # 0, tools'[n] = 0, NEW r \in rows
               PROVE  n \notin mounts[r.m].names
  BY DEF VanishesUnmounted
<1>4. RemoveTool(c)
  <2>1. CASE Register(c)
    <3>1. PICK p \in naming[c] : LET m == Min(staged[c]) IN m # 0 /\ tools' = [tools EXCEPT ![p.n] = m]
      BY <1>2, <2>1, RegisterPuts
    <3> QED  BY <1>2, <1>3, <3>1 DEF TreeTyped
  <2> QED  BY <1>1, <1>2, <1>3, <2>1, ToolsStep
<1>5. PICK p \in doomed[c] : tools' = [tools EXCEPT ![p.n] = 0]  BY <1>4 DEF RemoveTool
<1>6. n = p.n  BY <1>2, <1>3, <1>5 DEF TreeTyped
<1> QED  BY <1>2, <1>5, <1>6, RemovedIsFree

(* ReloadSwaps of WasmLoader: where calls come one at a time, a reload is  *)
(* a swap at every step: a name is emptied only when no mounted plugin     *)
(* declares it, whatever the old and the new generation declare.           *)
THEOREM WasmReloadSwaps == Spec => ReloadSwaps
<1> QED  BY LoaderInit, LoaderStep, SwapStep, PTL DEF Spec, ReloadSwaps

=============================================================================
