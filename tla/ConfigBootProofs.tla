-------------------------- MODULE ConfigBootProofs --------------------------
(***************************************************************************)
(* Proofs about ConfigBoot, for every set of callers and of documents,     *)
(* every bound on compositions and every choice of faults.                 *)
(*                                                                         *)
(* What a caller is served by is decided while it holds the mount lock;    *)
(* the invariant says what it has then, and that no other caller can reach *)
(* it: a composition under way is the newest, nobody holds it yet, and the *)
(* mirror it may have is the caller's own writer.                          *)
(***************************************************************************)
EXTENDS ConfigBoot, FiniteSetTheorems, SequenceTheorems, TLAPS

Mounting == {"rows", "model", "err", "panic"}

SpineTyped(s) ==
  /\ DOMAIN s = {"fiber", "rows", "wired", "tools", "model", "store", "mirror", "owned", "held"}
  /\ s.fiber \in {"none", "up", "down"}
  /\ s.mirror \in Callers \cup {Nobody}
  /\ s.owned \in BOOLEAN /\ s.held \subseteq Callers

EntryTyped(e) == DOMAIN e = {"of", "doc", "warnings", "spine"}

FrameTyped(f) ==
  /\ DOMAIN f = {"kind", "entry", "plan", "at", "k"} /\ EntryTyped(f.entry)
  /\ f.kind \in {"none", "fresh", "resumed", "created"}
  /\ f.at \in Nat /\ f.k \in 0..used

BootTyped ==
  /\ env \in Environments
  /\ lock \in Callers \cup {Nobody}
  /\ used \in 0..MaxSpines
  /\ EntryTyped(entry) /\ entry.spine \in 0..used
  /\ DOMAIN spine = Spines /\ \A k \in Spines : SpineTyped(spine[k])
  /\ pc \in [Callers -> {"idle", "armed", "failed", "panicked"} \cup Mounting]
  /\ DOMAIN plan = Callers
  /\ DOMAIN frame = Callers /\ \A c \in Callers : FrameTyped(frame[c])
  /\ writer \in [Callers -> {"none", "cell", "mirror", "lost"}]
  /\ file \in [Callers -> {"none", "resumed", "created"}]

(* Who is past the lock has it.                                            *)
LockIsHeld == \A c \in Callers : pc[c] \in Mounting => lock = c

(* Where a caller's writer is, by where the caller is.                     *)
WriterIsPlaced ==
  \A c \in Callers :
    /\ writer[c] = "cell" => pc[c] \in {"armed", "rows", "err", "panic"}
    /\ writer[c] = "mirror" => pc[c] \in {"rows", "model", "idle"}
    /\ writer[c] = "lost" => pc[c] \in {"err", "panic", "failed", "panicked"}
    /\ pc[c] = "armed" /\ frame[c].kind = "fresh" => writer[c] = "none"

(* A mirror writes for one composition, which nobody else holds.           *)
MirrorIsOwn ==
  \A k \in Spines : spine[k].mirror # Nobody =>
    /\ writer[spine[k].mirror] \in {"mirror", "lost"}
    /\ spine[k].held \subseteq {spine[k].mirror}
    /\ \A j \in Spines : spine[j].mirror = spine[k].mirror => j = k
    /\ k <= used

WriterHasMirror ==
  \A c \in Callers : writer[c] = "mirror" =>
    \E k \in Spines : spine[k].mirror = c /\ (pc[c] # "rows" => c \in spine[k].held)

(* A caller holds one composition at most, and only when it has mounted.   *)
HeldIsMounted ==
  \A c \in Callers :
    /\ \A k, j \in Spines : c \in spine[k].held /\ c \in spine[j].held => k = j
    /\ \A k \in Spines : c \in spine[k].held =>
         pc[c] \in {"idle", "model"} /\ k <= used /\ (pc[c] = "model" => k = frame[c].k)
    /\ pc[c] = "model" => frame[c].k \in Spines /\ c \in spine[frame[c].k].held

(* The composition under way.                                              *)
RowsAreApart ==
  \A c \in Callers : pc[c] = "rows" =>
    LET s == spine[frame[c].k] IN
    /\ frame[c].k \in Spines /\ frame[c].k = used /\ entry.spine # used
    /\ s.held = {} /\ ~s.owned /\ s.fiber # "down" /\ s.mirror \in {c, Nobody}
    /\ IF s.fiber = "none" THEN s.mirror = Nobody ELSE writer[c] # "cell"
    /\ \A k \in Spines : writer[c] = "mirror" /\ spine[k].mirror = c => k = used

(* Nothing has happened to what is to come.                                *)
RestIsFree ==
  \A k \in Spines : k > used =>
    spine[k].fiber = "none" /\ spine[k].mirror = Nobody /\ ~spine[k].owned /\ spine[k].held = {}

(* A spine that is up came from a row that is past.                        *)
SpineIsPast ==
  \A c \in Callers : pc[c] = "rows" =>
    /\ frame[c].entry.of # <<>>
    /\ spine[frame[c].k].fiber = "up" => \E i \in SpineRows(frame[c].entry.doc) \cap Nat : i < frame[c].at

(* Only a second spine row loses a writer to a failure.                    *)
LostIsTwice ==
  \A c \in Callers : pc[c] \in {"err", "failed"} /\ writer[c] = "lost" =>
    frame[c].entry # NoEntry /\ ~OneSpineRow(frame[c].entry.doc)
FailedIsClean ==
  \A c \in Callers : pc[c] = "failed" /\ writer[c] # "lost" => writer[c] = "none" /\ file[c] # "created"

(* Who mounts rows plainly found nothing live to share.                    *)
ColdForAReason ==
  \A c \in Callers : pc[c] = "rows" /\ frame[c].kind = "fresh" /\ Serves(plan[c]) => ~Live(entry.spine)

PlannedTools(of) == Declares(Planned[of].val)
ToolsOfEntry ==
  /\ entry.spine # 0 => spine[entry.spine].tools = PlannedTools(entry.of)
  /\ \A c \in Callers : pc[c] = "rows" =>
       /\ frame[c].plan = Planned[frame[c].entry.of].val
       /\ spine[frame[c].k].fiber = "up" => spine[frame[c].k].tools = PlannedTools(frame[c].entry.of)
  /\ \A c \in Callers, k \in Spines : c \in spine[k].held => spine[k].tools = Declares(frame[c].plan)

BootInv ==
  /\ BootTyped /\ LockIsHeld /\ WriterIsPlaced /\ MirrorIsOwn /\ WriterHasMirror /\ HeldIsMounted
  /\ RowsAreApart /\ RestIsFree /\ HeldIsLive
  /\ SpineIsPast /\ LostIsTwice /\ FailedIsClean /\ ColdForAReason /\ ToolsOfEntry
-----------------------------------------------------------------------------
(* Compositions, handles, and the rows                                     *)

(* A recomposition has no spine.                                          *)
LEMMA ComposingIs ==
  ASSUME NEW r, IsOk(Composing(r))
  PROVE  /\ DOMAIN Composing(r).val = {"of", "doc", "warnings", "spine"}
         /\ Composing(r).val.of = r /\ Composing(r).val.spine = 0
BY DEF Composing, Then, IsOk, Ok

(* A handle that is dropped, the last one with the composition.            *)
LEMMA DropIs ==
  ASSUME BootTyped, NEW k \in Spines, NEW c \in Callers, spine' = DropHandle(k, c)
  PROVE  \E s : /\ spine' = [spine EXCEPT ![k] = s] /\ SpineTyped(s)
                /\ s.held = spine[k].held \ {c} /\ s.tools = spine[k].tools
                /\ IF s.held = {} THEN s.mirror = Nobody
                   ELSE s.owned = spine[k].owned /\ s.fiber = spine[k].fiber /\ s.mirror = spine[k].mirror

<1>1. CASE spine[k].held \ {c} = {}
  <2>1. SpineTyped(Disposed(spine[k])) /\ Disposed(spine[k]).held = {}
        /\ Disposed(spine[k]).tools = spine[k].tools /\ Disposed(spine[k]).mirror = Nobody
    BY DEF BootTyped, SpineTyped, Disposed
  <2>2. spine' = [spine EXCEPT ![k] = Disposed(spine[k])]
    BY <1>1 DEF DropHandle
  <2> QED BY <1>1, <2>1, <2>2
<1>2. CASE spine[k].held \ {c} # {}
  <2> DEFINE s == [spine[k] EXCEPT !.held = @ \ {c}]
  <2>1. SpineTyped(s) /\ s.held = spine[k].held \ {c} /\ s.tools = spine[k].tools
        /\ s.owned = spine[k].owned /\ s.fiber = spine[k].fiber /\ s.mirror = spine[k].mirror
    BY DEF BootTyped, SpineTyped
  <2>2. spine' = [spine EXCEPT ![k] = s]
    BY <1>2 DEF DropHandle, BootTyped
  <2> HIDE DEF s
  <2> QED BY <1>2, <2>1, <2>2
<1> QED BY <1>1, <1>2

(* The composition a handle leaves, whoever else holds it.                 *)
LEMMA HandleDropped ==
  ASSUME BootInv, NEW c \in Callers, NEW k \in Spines, spine' = DropHandle(k, c), c \in spine[k].held,
         pc' \in [Callers -> {"idle", "armed", "failed", "panicked"} \cup Mounting],
         pc[c] \in {"idle", "model"}, pc'[c] \in {"idle", "err", "panic"},
         \A d \in Callers \ {c} : pc'[d] = pc[d],
         pc'[c] # "idle" => pc[c] = "model",
         writer' = [writer EXCEPT ![c] = "none"],
         UNCHANGED <<env, lock, entry, used, plan, frame, file>>
  PROVE  BootInv'
<1> USE ConfigBootAssumption DEF Spines
<1>1. PICK s : /\ spine' = [spine EXCEPT ![k] = s] /\ SpineTyped(s)
               /\ s.held = spine[k].held \ {c} /\ s.tools = spine[k].tools
               /\ IF s.held = {} THEN s.mirror = Nobody
                  ELSE s.owned = spine[k].owned /\ s.fiber = spine[k].fiber /\ s.mirror = spine[k].mirror
  BY DropIs DEF BootInv
<1>2. BootTyped'
  BY <1>1 DEF BootInv, BootTyped, FrameTyped, SpineTyped, Mounting
<1>3. LockIsHeld'
  BY <1>2 DEF BootInv, BootTyped, LockIsHeld, Mounting
<1>4. WriterIsPlaced'
  BY DEF BootInv, BootTyped, WriterIsPlaced
<1>5. spine[k].mirror # Nobody => spine[k].held = {c} /\ spine[k].mirror = c
  BY DEF BootInv, MirrorIsOwn
<1>6. \A j \in Spines : spine'[j].mirror # Nobody =>
        j # k /\ spine'[j] = spine[j] /\ spine[j].mirror # c
  BY <1>1, <1>5 DEF BootInv, BootTyped, HeldIsMounted, WriterIsPlaced, MirrorIsOwn, WriterHasMirror
<1>7. MirrorIsOwn'
  BY <1>2, <1>6 DEF BootInv, BootTyped, MirrorIsOwn
<1>8. WriterHasMirror'
  BY <1>1, <1>5 DEF BootInv, BootTyped, WriterHasMirror
<1>9. HeldIsMounted'
  <2>1. \A j \in Spines \ {k} : spine'[j].held = spine[j].held /\ c \notin spine[j].held
    BY <1>1 DEF BootInv, BootTyped, HeldIsMounted
  <2>2. spine'[k].held = spine[k].held \ {c} /\ pc'[c] # "model"
    BY <1>1 DEF BootInv, BootTyped
  <2>3. \A j \in Spines : spine'[j].held = spine[j].held \ {c}
    BY <2>1, <2>2
  <2>4. \A d \in Callers \ {c} : pc'[d] = pc[d] /\ frame'[d] = frame[d]
    BY DEF BootInv, BootTyped
  <2> QED BY <2>2, <2>3, <2>4 DEF BootInv, HeldIsMounted
<1>10. RowsAreApart'
  BY <1>1, <1>2 DEF BootInv, BootTyped, RowsAreApart
<1>11. RestIsFree'
  BY <1>1, <1>2 DEF BootInv, BootTyped, RestIsFree, HeldIsMounted
<1>12. HeldIsLive'
  BY <1>1, <1>5 DEF BootInv, BootTyped, HeldIsLive, HeldIsMounted
<1>13. SpineIsPast'
  BY <1>1 DEF BootInv, BootTyped, SpineIsPast, RowsAreApart
<1>14. LostIsTwice' /\ FailedIsClean'
  BY DEF BootInv, BootTyped, LostIsTwice, FailedIsClean
<1>15. ColdForAReason'
  BY <1>1 DEF BootInv, BootTyped, ColdForAReason, Live, Serves, HeldIsLive
<1>16. ToolsOfEntry'
  BY <1>1 DEF BootInv, BootTyped, ToolsOfEntry, RowsAreApart
<1> QED
  BY <1>2, <1>3, <1>4, <1>7, <1>8, <1>9, <1>10, <1>11, <1>12, <1>13, <1>14, <1>15, <1>16 DEF BootInv

(* What the rows mount into, while they do.                                *)
UnderWay(c, s) ==
  /\ SpineTyped(s) /\ s.held = {} /\ ~s.owned
  /\ s.fiber \in {"none", "up"} /\ s.mirror \in {c, Nobody}
  /\ s.fiber = "none" => s.mirror = Nobody
  /\ s.fiber = "up" => s.tools = PlannedTools(frame[c].entry.of)

LEMMA RowUnderWay ==
  ASSUME BootInv, NEW c \in Callers, pc[c] = "rows"
  PROVE  /\ frame[c].k \in Spines /\ UnderWay(c, spine[frame[c].k])
         /\ writer[c] \in {"none", "cell", "mirror"}
         /\ spine[frame[c].k].mirror = c <=> writer[c] = "mirror"
         /\ spine[frame[c].k].fiber = "up" =>
              \E i \in SpineRows(frame[c].entry.doc) \cap Nat : i < frame[c].at
         /\ spine[frame[c].k].fiber = "up" => writer[c] # "cell"
         /\ frame[c].at \in Nat /\ frame[c].entry # NoEntry
<1> USE ConfigBootAssumption DEF Spines
<1>1. frame[c].k \in Spines /\ UnderWay(c, spine[frame[c].k])
  BY DEF BootInv, BootTyped, RowsAreApart, ToolsOfEntry, UnderWay, SpineTyped
<1>2. writer[c] \in {"none", "cell", "mirror"}
  BY DEF BootInv, BootTyped, WriterIsPlaced
<1>3. writer[c] = "mirror" => spine[frame[c].k].mirror = c
  BY DEF BootInv, WriterHasMirror, RowsAreApart
<1>4. spine[frame[c].k].mirror = c => writer[c] = "mirror"
  BY <1>1, <1>2 DEF BootInv, MirrorIsOwn
<1> QED
  BY <1>1, <1>2, <1>3, <1>4 DEF BootInv, BootTyped, FrameTyped, SpineIsPast, NoEntry, RowsAreApart

(* A composition under way changes in its caller's hands only.             *)
LEMMA RowKeeps ==
  ASSUME BootInv, NEW c \in Callers, pc[c] = "rows", NEW s,
         spine' = [spine EXCEPT ![frame[c].k] = s] \/ (spine' = spine /\ s = spine[frame[c].k]),
         UnderWay(c, s),
         s.mirror = c <=> writer'[c] \in {"mirror", "lost"},
         s.fiber = "up" => writer'[c] # "cell",
         s.fiber = "up" => \E i \in SpineRows(frame[c].entry.doc) \cap Nat : i < frame'[c].at,
         writer'[c] \in {"none", "cell", "mirror", "lost"}, writer' = [writer EXCEPT ![c] = writer'[c]],
         \/ /\ pc' = pc /\ frame' = [frame EXCEPT ![c].at = @ + 1]
            /\ writer'[c] # "lost"
         \/ /\ pc' = [pc EXCEPT ![c] = "err"] \/ pc' = [pc EXCEPT ![c] = "panic"]
            /\ frame' = frame /\ writer'[c] # "mirror"
            /\ pc'[c] = "err" /\ writer'[c] = "lost" =>
                 frame[c].entry # NoEntry /\ ~OneSpineRow(frame[c].entry.doc),
         UNCHANGED <<env, lock, entry, used, plan, file>>
  PROVE  BootInv'
<1> USE ConfigBootAssumption DEF Spines, UnderWay
<1> DEFINE k == frame[c].k
<1>1. k \in Spines /\ k = used /\ entry.spine # used /\ lock = c
  BY DEF BootInv, RowsAreApart, LockIsHeld, Mounting
<1>2. \A d \in Callers : pc[d] \in Mounting => d = c
  BY <1>1 DEF BootInv, LockIsHeld
<1>3. \A d \in Callers \ {c} : pc'[d] = pc[d] /\ frame'[d] = frame[d] /\ writer'[d] = writer[d]
  BY DEF BootInv, BootTyped
<1>4. /\ DOMAIN frame' = Callers /\ DOMAIN frame'[c] = DOMAIN frame[c]
      /\ frame'[c].at \in Nat /\ frame'[c].at >= frame[c].at
      /\ frame'[c].kind = frame[c].kind /\ frame'[c].entry = frame[c].entry
      /\ frame'[c].plan = frame[c].plan /\ frame'[c].k = frame[c].k
      /\ pc'[c] \in {"rows", "err", "panic"}
      /\ IF pc'[c] = "rows" THEN writer'[c] # "lost" ELSE writer'[c] # "mirror"
  BY DEF BootInv, BootTyped, FrameTyped
<1>5. \A j \in Spines \ {k} : spine'[j] = spine[j]
  BY <1>1 DEF BootInv, BootTyped
<1>6. spine'[k] = s /\ DOMAIN spine' = DOMAIN spine
  BY <1>1 DEF BootInv, BootTyped
<1>7. \A j \in Spines : spine[j].mirror = c => j = k
  BY <1>1 DEF BootInv, MirrorIsOwn, RowsAreApart, WriterIsPlaced
<1>8. BootTyped'
  <2>1. \A j \in Spines : SpineTyped(spine'[j])
    BY <1>5, <1>6 DEF BootInv, BootTyped
  <2>2. (\A d \in Callers : FrameTyped(frame[d]))'
    BY <1>3, <1>4 DEF BootInv, BootTyped, FrameTyped
  <2>3. /\ pc' \in [Callers -> {"idle", "armed", "failed", "panicked"} \cup Mounting]
        /\ writer' \in [Callers -> {"none", "cell", "mirror", "lost"}]
    BY DEF BootInv, BootTyped, Mounting
  <2> QED BY <1>4, <1>6, <2>1, <2>2, <2>3 DEF BootInv, BootTyped
<1>9. LockIsHeld' /\ WriterIsPlaced'
  BY <1>1, <1>2, <1>3, <1>4 DEF BootInv, LockIsHeld, WriterIsPlaced, Mounting
<1>10. MirrorIsOwn'
  <2>1. \A j \in Spines \ {k} : spine'[j].mirror # Nobody => spine'[j].mirror \in Callers \ {c}
    BY <1>5, <1>7 DEF BootInv, BootTyped, SpineTyped
  <2>2. \A j \in Spines \ {k} : spine'[j].mirror # Nobody => writer'[spine'[j].mirror] \in {"mirror", "lost"}
    BY <1>3, <1>5, <2>1 DEF BootInv, MirrorIsOwn
  <2> QED BY <1>1, <1>3, <1>5, <1>6, <1>7, <2>1, <2>2 DEF BootInv, MirrorIsOwn
<1>11. WriterHasMirror'
  <2>1. ASSUME NEW d \in Callers \ {c}, writer'[d] = "mirror"
        PROVE  \E j \in Spines : spine'[j].mirror = d /\ (pc'[d] # "rows" => d \in spine'[j].held)
    <3>1. PICK j \in Spines : spine[j].mirror = d /\ (pc[d] # "rows" => d \in spine[j].held)
      BY <1>3, <2>1 DEF BootInv, WriterHasMirror
    <3>2. j # k
      BY <1>1, <3>1 DEF BootInv, RowsAreApart
    <3> QED BY <1>3, <1>5, <3>1, <3>2
  <2>2. writer'[c] = "mirror" => spine'[k].mirror = c /\ pc'[c] = "rows"
    BY <1>6
  <2> QED BY <1>1, <2>1, <2>2 DEF WriterHasMirror
<1>12. HeldIsMounted'
  <2>1. \A j \in Spines : spine'[j].held = spine[j].held
    BY <1>1, <1>5, <1>6 DEF BootInv, RowsAreApart
  <2>2. \A j \in Spines : c \notin spine[j].held
    BY DEF BootInv, HeldIsMounted
  <2> QED BY <1>1, <1>3, <1>4, <2>1, <2>2 DEF BootInv, HeldIsMounted
<1>13. RowsAreApart'
  BY <1>1, <1>2, <1>3, <1>4, <1>5, <1>6, <1>7 DEF BootInv, BootTyped, RowsAreApart, Mounting
<1>14. RestIsFree'
  BY <1>1, <1>5 DEF BootInv, BootTyped, RestIsFree
<1>15. HeldIsLive'
  <2>1. ASSUME NEW j \in Spines, spine'[j].held # {}
        PROVE  /\ j # k /\ spine'[j] = spine[j] /\ c \notin spine[j].held
               /\ \A d \in spine[j].held : d \in Callers \ {c}
    BY <1>5, <1>6, <2>1 DEF BootInv, BootTyped, SpineTyped, HeldIsMounted
  <2> QED BY <1>3, <2>1 DEF BootInv, HeldIsLive
<1>16. SpineIsPast'
  BY <1>1, <1>2, <1>3, <1>4, <1>6 DEF BootInv, SpineIsPast, Mounting
<1>17. LostIsTwice' /\ FailedIsClean'
  BY <1>3, <1>4 DEF BootInv, LostIsTwice, FailedIsClean
<1>18. ColdForAReason'
  <2>1. entry.spine \in 0..used
    BY DEF BootInv, BootTyped
  <2>2. Live(entry.spine)' => Live(entry.spine)
    BY <1>1, <1>5, <2>1 DEF Live, BootInv, BootTyped
  <2> QED BY <1>2, <1>3, <1>4, <2>2 DEF BootInv, ColdForAReason, Serves, Mounting
<1>19. ToolsOfEntry'
  <2>1. entry.spine \in 0..used
    BY DEF BootInv, BootTyped
  <2>2. entry.spine # 0 => spine'[entry.spine] = spine[entry.spine]
    BY <1>1, <1>5, <2>1 DEF BootInv, BootTyped
  <2>3. \A d \in Callers : frame'[d].plan = frame[d].plan /\ frame'[d].entry = frame[d].entry /\ frame'[d].k = frame[d].k
    BY <1>3, <1>4
  <2>4. \A j \in Spines : spine'[j].held # {} => spine'[j] = spine[j]
    BY <1>5, <1>6
  <2>5. \A d \in Callers : pc'[d] = "rows" => d = c /\ pc[d] = "rows"
    BY <1>2, <1>3 DEF Mounting
  <2>6. \A d \in Callers, j \in Spines : d \in spine'[j].held => spine'[j].tools = Declares(frame'[d].plan)
    BY <2>3, <2>4 DEF BootInv, ToolsOfEntry
  <2>7. \A d \in Callers : pc'[d] = "rows" =>
          /\ frame'[d].plan = Planned[frame'[d].entry.of].val
          /\ spine'[frame'[d].k].fiber = "up" => spine'[frame'[d].k].tools = PlannedTools(frame'[d].entry.of)
    BY <1>6, <2>3, <2>5 DEF BootInv, ToolsOfEntry
  <2> QED BY <2>2, <2>6, <2>7 DEF BootInv, ToolsOfEntry
<1> QED
  BY <1>8, <1>9, <1>10, <1>11, <1>12, <1>13, <1>14, <1>15, <1>16, <1>17, <1>18, <1>19 DEF BootInv

(* The arms of the row loop that fail, or panic, leave a dead composition. *)
LEMMA FailKeeps ==
  ASSUME BootInv, NEW c \in Callers, pc[c] = "rows", RowFails(c)
  PROVE  BootInv'
<1> DEFINE s == [spine[frame[c].k] EXCEPT !.rows = 0, !.mirror = Nobody]
<1>1. spine' = [spine EXCEPT ![frame[c].k] = s]
  BY DEF RowFails
<1>2. UnderWay(c, s) /\ s.mirror # c /\ s.fiber = spine[frame[c].k].fiber
  BY RowUnderWay, ConfigBootAssumption DEF UnderWay, SpineTyped
<1>3. /\ writer'[c] \in {"none", "cell"} /\ writer' = [writer EXCEPT ![c] = writer'[c]]
      /\ spine[frame[c].k].fiber = "up" => writer'[c] # "cell"
  BY RowUnderWay DEF RowFails, BootInv, BootTyped
<1>4. pc' = [pc EXCEPT ![c] = "err"] /\ UNCHANGED <<env, lock, entry, used, plan, frame, file>>
  BY DEF RowFails, Goto
<1> HIDE DEF s
<1> QED BY <1>1, <1>2, <1>3, <1>4, RowKeeps, RowUnderWay

LEMMA PanicKeeps ==
  ASSUME BootInv, NEW c \in Callers, pc[c] = "rows", RowPanics(c)
  PROVE  BootInv'
<1> DEFINE s == [spine[frame[c].k] EXCEPT !.rows = 0]
<1>1. spine' = [spine EXCEPT ![frame[c].k] = s]
  BY RowUnderWay DEF RowPanics, BootInv, BootTyped
<1>2. UnderWay(c, s) /\ s.mirror = spine[frame[c].k].mirror /\ s.fiber = spine[frame[c].k].fiber
  BY RowUnderWay, ConfigBootAssumption DEF UnderWay, SpineTyped
<1>3. /\ writer'[c] \in {"none", "cell", "lost"} /\ writer' = [writer EXCEPT ![c] = writer'[c]]
      /\ writer'[c] = "lost" <=> writer[c] = "mirror"
      /\ spine[frame[c].k].fiber = "up" => writer'[c] # "cell"
  BY RowUnderWay DEF RowPanics, BootInv, BootTyped
<1>4. pc' = [pc EXCEPT ![c] = "panic"] /\ UNCHANGED <<env, lock, entry, used, plan, frame, file>>
  BY DEF RowPanics, Goto
<1>5. pc'[c] = "panic"
  BY <1>4 DEF BootInv, BootTyped
<1> HIDE DEF s
<1> QED BY <1>1, <1>2, <1>3, <1>4, <1>5, RowKeeps, RowUnderWay

(* A second spine row: the first is in the document too.                   *)
LEMMA TwiceKeeps ==
  ASSUME BootInv, NEW c \in Callers, RowSpineTwice(c)
  PROVE  BootInv'
<1> DEFINE s == [spine[frame[c].k] EXCEPT !.rows = 0]
<1>1. pc[c] = "rows"
  BY DEF RowSpineTwice, AtRow
<1>2. spine' = [spine EXCEPT ![frame[c].k] = s]
  BY <1>1, RowUnderWay DEF RowSpineTwice, RowFailsMirrorOpen, BootInv, BootTyped
<1>3. UnderWay(c, s) /\ s.mirror = spine[frame[c].k].mirror /\ s.fiber = spine[frame[c].k].fiber
  BY <1>1, RowUnderWay, ConfigBootAssumption DEF UnderWay, SpineTyped
<1>4. /\ writer'[c] \in {"none", "cell", "lost"} /\ writer' = [writer EXCEPT ![c] = writer'[c]]
      /\ writer'[c] = "lost" <=> writer[c] = "mirror"
      /\ spine[frame[c].k].fiber = "up" => writer'[c] # "cell"
  BY <1>1, RowUnderWay DEF RowSpineTwice, RowFailsMirrorOpen, BootInv, BootTyped
<1>5. pc' = [pc EXCEPT ![c] = "err"] /\ UNCHANGED <<env, lock, entry, used, plan, frame, file>>
  BY DEF RowSpineTwice, RowFailsMirrorOpen, Goto
<1>6. ~OneSpineRow(frame[c].entry.doc)
  <2>1. frame[c].at \in SpineRows(frame[c].entry.doc)
    BY DEF RowSpineTwice, AtRow, Rows, RowAt, SpineRows
  <2>2. \E i \in SpineRows(frame[c].entry.doc) : i # frame[c].at
    BY <1>1, RowUnderWay DEF RowSpineTwice
  <2> QED BY <2>1, <2>2 DEF OneSpineRow
<1> HIDE DEF s
<1> QED BY <1>1, <1>2, <1>3, <1>4, <1>5, <1>6, RowKeeps, RowUnderWay

LEMMA DocumentKeeps ==
  ASSUME BootInv, NEW c \in Callers, RowDocument(c)
  PROVE  BootInv'
<1>1. pc[c] = "rows" /\ UNCHANGED <<env, lock, entry, used, spine, pc, plan, writer, file>>
      /\ frame' = [frame EXCEPT ![c].at = @ + 1]
  BY DEF RowDocument, AtRow, NextRow
<1>2. /\ writer' = [writer EXCEPT ![c] = writer'[c]] /\ frame'[c].at = frame[c].at + 1
  BY <1>1, RowUnderWay DEF BootInv, BootTyped, FrameTyped
<1>3. spine[frame[c].k].fiber = "up" =>
        \E i \in SpineRows(frame[c].entry.doc) \cap Nat : i < frame'[c].at
  BY <1>1, <1>2, RowUnderWay
<1> QED BY <1>1, <1>2, <1>3, RowKeeps, RowUnderWay

LEMMA SpineKeeps ==
  ASSUME BootInv, NEW c \in Callers, RowSpine(c) \/ SpinePanics(c)
  PROVE  BootInv'
<1> USE ConfigBootAssumption
<1> DEFINE k == frame[c].k
<1>1. pc[c] = "rows" /\ spine[k].fiber = "none"
  BY DEF RowSpine, SpinePanics, AtRow
<1>2. UnderWay(c, spine[k]) /\ spine[k].mirror = Nobody /\ writer[c] \in {"none", "cell"}
  BY <1>1, RowUnderWay DEF UnderWay
<1>3. CASE RowSpine(c) /\ HaveBodies(frame[c].plan.tools)
  <2> DEFINE s == [spine[k] EXCEPT !.fiber = "up", !.tools = Declares(frame[c].plan),
                                   !.mirror = IF writer[c] = "cell" THEN c ELSE Nobody]
  <2>1. spine' = [spine EXCEPT ![k] = s]
    BY <1>3 DEF RowSpine
  <2>2. UnderWay(c, s) /\ s.fiber = "up" /\ (s.mirror = c <=> writer[c] = "cell")
    BY <1>1, <1>2, RowUnderWay DEF UnderWay, SpineTyped, PlannedTools, BootInv, ToolsOfEntry
  <2>3. /\ writer'[c] \in {"none", "mirror"} /\ writer' = [writer EXCEPT ![c] = writer'[c]]
        /\ writer'[c] = "mirror" <=> writer[c] = "cell"
    BY <1>2, <1>3 DEF RowSpine, BootInv, BootTyped
  <2>4. pc' = pc /\ frame' = [frame EXCEPT ![c].at = @ + 1]
        /\ UNCHANGED <<env, lock, entry, used, plan, file>>
    BY <1>3 DEF RowSpine, NextRow
  <2>5. \E i \in SpineRows(frame[c].entry.doc) \cap Nat : i < frame'[c].at
    <3>1. frame[c].at \in SpineRows(frame[c].entry.doc)
      BY <1>3 DEF RowSpine, AtRow, Rows, RowAt, SpineRows
    <3>2. frame[c].at \in Nat /\ frame'[c].at = frame[c].at + 1
      BY <2>4 DEF BootInv, BootTyped, FrameTyped
    <3> QED BY <3>1, <3>2
  <2> HIDE DEF s
  <2> QED BY <1>1, <2>1, <2>2, <2>3, <2>4, <2>5, RowKeeps
<1>4. CASE (RowSpine(c) /\ ~HaveBodies(frame[c].plan.tools)) \/ SpinePanics(c)
  <2> DEFINE s == [spine[k] EXCEPT !.rows = 0]
  <2>1. spine' = [spine EXCEPT ![k] = s]
    BY <1>1, <1>4, RowUnderWay DEF RowSpine, SpinePanics, BootInv, BootTyped
  <2>2. UnderWay(c, s) /\ s.fiber = "none" /\ s.mirror # c
    BY <1>1, <1>2 DEF UnderWay, SpineTyped
  <2>3. writer'[c] = "none" /\ writer' = [writer EXCEPT ![c] = writer'[c]]
    BY <1>4 DEF RowSpine, SpinePanics, BootInv, BootTyped
  <2>4. /\ pc' = [pc EXCEPT ![c] = "err"] \/ pc' = [pc EXCEPT ![c] = "panic"]
        /\ UNCHANGED <<env, lock, entry, used, plan, frame, file>>
    BY <1>4 DEF RowSpine, SpinePanics, Goto
  <2> HIDE DEF s
  <2> QED BY <1>1, <2>1, <2>2, <2>3, <2>4, RowKeeps
<1> QED BY <1>3, <1>4

(* A row that mounts touches neither the spine's fiber nor its mirror.     *)
LEMMA MountedRowKeeps ==
  ASSUME BootInv, NEW c \in Callers, pc[c] = "rows", NEW s,
         spine' = [spine EXCEPT ![frame[c].k] = s],
         DOMAIN s = DOMAIN spine[frame[c].k],
         s.fiber = spine[frame[c].k].fiber, s.mirror = spine[frame[c].k].mirror,
         s.owned = spine[frame[c].k].owned, s.held = spine[frame[c].k].held,
         s.tools = spine[frame[c].k].tools,
         frame' = [frame EXCEPT ![c].at = @ + 1],
         UNCHANGED <<env, lock, entry, used, pc, plan, writer, file>>
  PROVE  BootInv'
<1>1. UnderWay(c, s)
  BY RowUnderWay DEF UnderWay, SpineTyped
<1>2. writer' = [writer EXCEPT ![c] = writer'[c]] /\ frame'[c].at = frame[c].at + 1
  BY RowUnderWay DEF BootInv, BootTyped, FrameTyped
<1>3. s.fiber = "up" => \E i \in SpineRows(frame[c].entry.doc) \cap Nat : i < frame'[c].at
  <2>1. spine[frame[c].k].fiber = "up" =>
          \E i \in SpineRows(frame[c].entry.doc) \cap Nat : i < frame[c].at
    BY RowUnderWay
  <2>2. frame[c].at \in Nat /\ frame'[c].at = frame[c].at + 1
    BY <1>2, RowUnderWay
  <2> QED BY <2>1, <2>2
<1> QED BY <1>1, <1>2, <1>3, RowKeeps, RowUnderWay

LEMMA StorageKeeps ==
  ASSUME BootInv, NEW c \in Callers, RowStorage(c)
  PROVE  BootInv'
<1>1. pc[c] = "rows"
  BY DEF RowStorage, AtRow
<1>2. CASE RowFails(c)
  BY <1>1, <1>2, FailKeeps
<1>3. ASSUME NEW x, spine' = [spine EXCEPT ![frame[c].k].store = x], NextRow(c),
             UNCHANGED <<env, lock, entry, used, pc, plan, writer, file>>
      PROVE  BootInv'
  <2> DEFINE s == [spine[frame[c].k] EXCEPT !.store = x]
  <2>1. spine' = [spine EXCEPT ![frame[c].k] = s]
    BY <1>1, <1>3, RowUnderWay DEF BootInv, BootTyped
  <2>2. /\ DOMAIN s = DOMAIN spine[frame[c].k]
        /\ s.fiber = spine[frame[c].k].fiber /\ s.mirror = spine[frame[c].k].mirror
        /\ s.owned = spine[frame[c].k].owned /\ s.held = spine[frame[c].k].held
        /\ s.tools = spine[frame[c].k].tools
    BY <1>1, RowUnderWay DEF UnderWay, SpineTyped
  <2> HIDE DEF s
  <2> QED BY <1>1, <1>3, <2>1, <2>2, MountedRowKeeps DEF NextRow
<1> QED BY <1>2, <1>3 DEF RowStorage

LEMMA ResourceKeeps ==
  ASSUME BootInv, NEW c \in Callers, NEW seam, RowResource(c, seam)
  PROVE  BootInv'
<1>1. pc[c] = "rows"
  BY DEF RowResource, AtRow
<1>2. CASE RowFails(c) \/ RowPanics(c)
  BY <1>1, <1>2, FailKeeps, PanicKeeps
<1>3. ASSUME NEW n, NEW x, spine' = [spine EXCEPT ![frame[c].k] = [@ EXCEPT !.rows = n, !.model = x]],
             NextRow(c), UNCHANGED <<env, lock, entry, used, pc, plan, writer, file>>
      PROVE  BootInv'
  <2> DEFINE s == [spine[frame[c].k] EXCEPT !.rows = n, !.model = x]
  <2>1. spine' = [spine EXCEPT ![frame[c].k] = s]
    BY <1>3
  <2>2. /\ DOMAIN s = DOMAIN spine[frame[c].k]
        /\ s.fiber = spine[frame[c].k].fiber /\ s.mirror = spine[frame[c].k].mirror
        /\ s.owned = spine[frame[c].k].owned /\ s.held = spine[frame[c].k].held
        /\ s.tools = spine[frame[c].k].tools
    BY <1>1, RowUnderWay DEF UnderWay, SpineTyped
  <2> HIDE DEF s
  <2> QED BY <1>1, <1>3, <2>1, <2>2, MountedRowKeeps DEF NextRow
<1> QED BY <1>2, <1>3 DEF RowResource

-----------------------------------------------------------------------------
(* Composing, and starting a mount                                         *)

LEMMA CallKeeps ==
  ASSUME BootInv, NEW c \in Callers, NEW kind \in {"fresh", "resumed", "created"}, MountCall(c, kind)
  PROVE  BootInv'
<1> USE ConfigBootAssumption DEF Spines
<1>1. BootTyped'
  BY DEF BootInv, BootTyped, SpineTyped, FrameTyped, Mounting, EntryTyped, NoEntry, MountCall, Goto, NoFrame
<1>2. LockIsHeld'
  BY DEF BootInv, BootTyped, LockIsHeld, Mounting, MountCall, Goto, NoFrame
<1>3. WriterIsPlaced'
  BY DEF BootInv, BootTyped, WriterIsPlaced, Mounting, MountCall, Goto, NoFrame
<1>4. MirrorIsOwn'
  BY DEF BootInv, BootTyped, SpineTyped, MirrorIsOwn, WriterIsPlaced, WriterHasMirror, MountCall, Goto,
        NoFrame
<1>5. WriterHasMirror'
  BY DEF BootInv, BootTyped, SpineTyped, WriterHasMirror, MountCall, Goto, NoFrame
<1>6. HeldIsMounted'
  BY DEF BootInv, BootTyped, SpineTyped, HeldIsMounted, MountCall, Goto, NoFrame
<1>7. RowsAreApart'
  BY DEF BootInv, BootTyped, SpineTyped, FrameTyped, LockIsHeld, Mounting, RowsAreApart, MountCall,
        Goto, NoFrame
<1>8. RestIsFree'
  BY DEF BootInv, BootTyped, SpineTyped, RestIsFree, MountCall, Goto, NoFrame
<1>9. HeldIsLive'
  BY DEF BootInv, BootTyped, SpineTyped, HeldIsLive, HeldIsMounted, MountCall, Goto, NoFrame
<1>10. SpineIsPast'
  BY DEF BootInv, BootTyped, SpineTyped, FrameTyped, SpineIsPast, MountCall, Goto, NoFrame
<1>11. LostIsTwice'
  BY DEF BootInv, BootTyped, FrameTyped, WriterIsPlaced, LostIsTwice, EntryTyped, MountCall, Goto, NoFrame
<1>12. FailedIsClean'
  BY DEF BootInv, BootTyped, FailedIsClean, MountCall, Goto, NoFrame
<1>13. ColdForAReason'
  BY DEF BootInv, BootTyped, SpineTyped, FrameTyped, LockIsHeld, Mounting, ColdForAReason, Live, Serves,
        MountCall, Goto, NoFrame
<1>14. ToolsOfEntry'
  BY DEF BootInv, BootTyped, SpineTyped, FrameTyped, LockIsHeld, Mounting, ToolsOfEntry, MountCall,
        Goto, NoFrame
<1> QED BY <1>1, <1>2, <1>3, <1>4, <1>5, <1>6, <1>7, <1>8, <1>9, <1>10, <1>11, <1>12, <1>13, <1>14 DEF BootInv

LEMMA ComposeKeeps ==
  ASSUME BootInv, NEW c \in Callers, NEW r, ComposeProfile(c, r)
  PROVE  BootInv'
<1> USE ConfigBootAssumption DEF Spines
<1>1. /\ EntryTyped(entry') /\ entry'.spine \in {0, entry.spine}
      /\ entry'.spine # 0 => entry' = entry
  BY ComposingIs DEF ComposeProfile, BootInv, BootTyped, EntryTyped
<1>2. BootTyped'
  BY <1>1 DEF BootInv, BootTyped, SpineTyped, FrameTyped, Mounting, EntryTyped, ComposeProfile
<1>3. LockIsHeld'
  BY DEF BootInv, BootTyped, LockIsHeld, Mounting, ComposeProfile
<1>4. WriterIsPlaced'
  BY DEF BootInv, BootTyped, WriterIsPlaced, Mounting, ComposeProfile
<1>5. MirrorIsOwn'
  BY DEF BootInv, BootTyped, SpineTyped, MirrorIsOwn, WriterIsPlaced, ComposeProfile
<1>6. WriterHasMirror'
  BY DEF BootInv, BootTyped, SpineTyped, WriterHasMirror, ComposeProfile
<1>7. HeldIsMounted'
  BY DEF BootInv, BootTyped, SpineTyped, HeldIsMounted, ComposeProfile
<1>8. RowsAreApart'
  BY <1>1 DEF BootInv, BootTyped, SpineTyped, FrameTyped, LockIsHeld, Mounting, RowsAreApart, ComposeProfile
<1>9. RestIsFree'
  BY DEF BootInv, BootTyped, SpineTyped, RestIsFree, ComposeProfile
<1>10. HeldIsLive'
  BY DEF BootInv, BootTyped, SpineTyped, HeldIsLive, HeldIsMounted, ComposeProfile
<1>11. SpineIsPast'
  BY DEF BootInv, BootTyped, SpineTyped, FrameTyped, SpineIsPast, ComposeProfile
<1>12. LostIsTwice'
  BY DEF BootInv, BootTyped, FrameTyped, WriterIsPlaced, LostIsTwice, EntryTyped, ComposeProfile
<1>13. FailedIsClean'
  BY DEF BootInv, BootTyped, FailedIsClean, ComposeProfile
<1>14. ColdForAReason'
  BY <1>1 DEF BootInv, BootTyped, SpineTyped, FrameTyped, LockIsHeld, Mounting, ColdForAReason, Live,
        Serves, ComposeProfile
<1>15. ToolsOfEntry'
  BY <1>1 DEF BootInv, BootTyped, SpineTyped, FrameTyped, LockIsHeld, Mounting, ToolsOfEntry, ComposeProfile
<1> QED BY <1>2, <1>3, <1>4, <1>5, <1>6, <1>7, <1>8, <1>9, <1>10, <1>11, <1>12, <1>13, <1>14, <1>15 DEF BootInv

(* What a mount starts from: the stored entry, or a recomposition that has *)
(* no spine yet.                                                           *)
EntryIs(c, e) ==
  /\ EntryTyped(e) /\ e.of # <<>>
  /\ e.spine # 0 => e = entry
  /\ Serves(plan[c]) => e = entry

LEMMA EntryIsServed ==
  ASSUME BootInv, NEW c \in Callers, IsOk(EntryFor(plan[c]))
  PROVE  EntryIs(c, EntryFor(plan[c]).val)
<1>1. CASE Serves(plan[c])
  <2>1. EntryFor(plan[c]).val = entry
    BY <1>1 DEF EntryFor, Ok
  <2> QED BY <1>1, <2>1 DEF EntryIs, Serves, BootInv, BootTyped
<1>2. CASE ~Serves(plan[c])
  <2>1. EntryFor(plan[c]) = Composing(<<plan[c].name>>)
    BY <1>2 DEF EntryFor
  <2> QED BY <1>2, <2>1, ComposingIs DEF EntryIs, EntryTyped
<1> QED BY <1>1, <1>2

LEMMA NoEntryKeeps ==
  ASSUME BootInv, NEW c \in Callers, pc[c] = "armed", lock = Nobody, lock' = c, Goto(c, "err"),
         UNCHANGED <<env, entry, used, spine, plan, frame, writer, file>>
  PROVE  BootInv'
<1> USE ConfigBootAssumption DEF Spines
<1>1. BootTyped'
  BY DEF BootInv, BootTyped, SpineTyped, FrameTyped, Mounting, EntryTyped, Goto
<1>2. LockIsHeld'
  BY DEF BootInv, BootTyped, LockIsHeld, Mounting, Goto
<1>3. WriterIsPlaced'
  BY DEF BootInv, BootTyped, WriterIsPlaced, Mounting, Goto
<1>4. MirrorIsOwn'
  BY DEF BootInv, BootTyped, SpineTyped, MirrorIsOwn, WriterIsPlaced, Goto
<1>5. WriterHasMirror'
  BY DEF BootInv, BootTyped, SpineTyped, WriterHasMirror, Goto
<1>6. HeldIsMounted'
  BY DEF BootInv, BootTyped, SpineTyped, HeldIsMounted, Goto
<1>7. RowsAreApart'
  BY DEF BootInv, BootTyped, SpineTyped, FrameTyped, LockIsHeld, Mounting, RowsAreApart, Goto
<1>8. RestIsFree'
  BY DEF BootInv, BootTyped, SpineTyped, RestIsFree, Goto
<1>9. HeldIsLive'
  BY DEF BootInv, BootTyped, SpineTyped, HeldIsLive, HeldIsMounted, Goto
<1>10. SpineIsPast'
  BY DEF BootInv, BootTyped, SpineTyped, FrameTyped, SpineIsPast, Goto
<1>11. LostIsTwice'
  BY DEF BootInv, BootTyped, FrameTyped, WriterIsPlaced, LostIsTwice, EntryTyped, Goto
<1>12. FailedIsClean'
  BY DEF BootInv, BootTyped, FailedIsClean, Goto
<1>13. ColdForAReason'
  BY DEF BootInv, BootTyped, SpineTyped, FrameTyped, LockIsHeld, Mounting, ColdForAReason, Live, Serves, Goto
<1>14. ToolsOfEntry'
  BY DEF BootInv, BootTyped, SpineTyped, FrameTyped, LockIsHeld, Mounting, ToolsOfEntry, Goto
<1> QED BY <1>1, <1>2, <1>3, <1>4, <1>5, <1>6, <1>7, <1>8, <1>9, <1>10, <1>11, <1>12, <1>13, <1>14 DEF BootInv

(* A caller that starts: nobody else is past the lock.                     *)
Starting(c) ==
  /\ pc[c] = "armed" /\ lock = Nobody /\ lock' = c
  /\ \A d \in Callers \ {c} : pc'[d] = pc[d] /\ frame'[d] = frame[d]
  /\ pc' \in [Callers -> {"idle", "armed", "failed", "panicked"} \cup Mounting]
  /\ pc'[c] \in Mounting /\ DOMAIN frame' = Callers
  /\ UNCHANGED <<env, entry, plan, writer, file>>

LEMMA StartingIs ==
  ASSUME BootInv, NEW c \in Callers, Starting(c)
  PROVE  /\ LockIsHeld' /\ FailedIsClean' /\ LostIsTwice'
         /\ \A d \in Callers : pc'[d] \in Mounting => d = c
         /\ writer[c] \in {"none", "cell"} /\ \A k \in Spines : spine[k].mirror # c
         /\ \A k \in Spines : c \notin spine[k].held
<1> USE ConfigBootAssumption
<1>1. \A d \in Callers : pc[d] \notin Mounting
  BY DEF BootInv, LockIsHeld, Starting
<1>2. \A d \in Callers : pc'[d] \in Mounting => d = c
  BY <1>1 DEF Starting
<1>3. writer[c] \in {"none", "cell"}
  BY DEF BootInv, BootTyped, WriterIsPlaced, Starting
<1>4. \A k \in Spines : spine[k].mirror # c
  BY <1>3 DEF BootInv, MirrorIsOwn
<1>5. \A k \in Spines : c \notin spine[k].held
  BY DEF BootInv, HeldIsMounted, Starting
<1>6. LockIsHeld' /\ FailedIsClean'
  <2>1. LockIsHeld'
    BY <1>2 DEF LockIsHeld, Starting
  <2>2. FailedIsClean'
    BY DEF BootInv, FailedIsClean, Starting, Mounting
  <2> QED BY <2>1, <2>2
<1>7. LostIsTwice'
  BY <1>3 DEF BootInv, LostIsTwice, Starting
<1> QED BY <1>2, <1>3, <1>4, <1>5, <1>6, <1>7

LEMMA WarmKeeps ==
  ASSUME BootInv, NEW c \in Callers, NEW e, EntryIs(c, e),
         pc[c] = "armed", lock = Nobody, lock' = c, WarmReuse(c, e)
  PROVE  BootInv'
<1> USE ConfigBootAssumption DEF Spines
<1> DEFINE k == e.spine
<1>1. frame[c].kind = "fresh" /\ Live(k) /\ e = entry /\ k \in Spines /\ k <= used
  BY DEF WarmReuse, EntryIs, Live, BootInv, BootTyped
<1>2. CASE ~(spine[k].wired = Declares(plan[c]) /\ spine[k].mirror = Nobody)
  BY <1>2, NoEntryKeeps DEF WarmReuse
<1>3. CASE spine[k].wired = Declares(plan[c]) /\ spine[k].mirror = Nobody
  <2> DEFINE s == [spine[k] EXCEPT !.held = @ \cup {c}]
  <2> DEFINE f == [frame[c] EXCEPT !.entry = e, !.plan = Planned[e.of].val, !.k = k]
  <2>1. /\ spine' = [spine EXCEPT ![k] = s] /\ frame' = [frame EXCEPT ![c] = f]
        /\ pc' = [pc EXCEPT ![c] = "model"]
        /\ UNCHANGED <<env, entry, used, plan, writer, file>>
    BY <1>1, <1>3 DEF WarmReuse, Goto, BootInv, BootTyped
  <2>2. /\ SpineTyped(s) /\ s.held = spine[k].held \cup {c} /\ s.tools = spine[k].tools
        /\ s.owned /\ s.fiber = "up" /\ s.mirror = Nobody
    BY <1>1, <1>3 DEF BootInv, BootTyped, SpineTyped, HeldIsLive, Live
  <2>3. f.entry = entry /\ f.plan = Planned[entry.of].val /\ f.k = k /\ FrameTyped(f)
    BY <1>1 DEF BootInv, BootTyped, FrameTyped
  <2>4. /\ DOMAIN spine' = Spines /\ spine'[k] = s /\ \A j \in Spines \ {k} : spine'[j] = spine[j]
        /\ DOMAIN frame' = Callers /\ frame'[c] = f /\ \A d \in Callers \ {c} : frame'[d] = frame[d]
        /\ pc'[c] = "model" /\ \A d \in Callers \ {c} : pc'[d] = pc[d]
    BY <1>1, <2>1 DEF BootInv, BootTyped
  <2> HIDE DEF s, f
  <2>5. Starting(c)
    BY <2>1, <2>4 DEF Starting, BootInv, BootTyped, Mounting
  <2>6. /\ LockIsHeld' /\ FailedIsClean' /\ LostIsTwice'
        /\ \A d \in Callers : pc'[d] \in Mounting => d = c
        /\ writer[c] = "none" /\ \A j \in Spines : spine[j].mirror # c
        /\ \A j \in Spines : c \notin spine[j].held
    BY <1>1, <2>5, StartingIs DEF BootInv, WriterIsPlaced
  <2>7. BootTyped'
    <3>1. (\A j \in Spines : SpineTyped(spine[j]))'
      BY <2>2, <2>4 DEF BootInv, BootTyped
    <3>2. (\A d \in Callers : FrameTyped(frame[d]))'
      BY <2>1, <2>3, <2>4 DEF BootInv, BootTyped, FrameTyped
    <3> QED BY <2>1, <2>4, <2>5, <3>1, <3>2 DEF BootInv, BootTyped, Starting
  <2>8. WriterIsPlaced'
    BY <2>1, <2>4, <2>6 DEF BootInv, WriterIsPlaced
  <2>9. MirrorIsOwn'
    BY <2>1, <2>2, <2>4 DEF BootInv, MirrorIsOwn
  <2>10. WriterHasMirror'
    BY <1>3, <2>1, <2>2, <2>4, <2>6 DEF BootInv, WriterHasMirror
  <2>11. HeldIsMounted'
    <3>1. \A j \in Spines : spine'[j].held = IF j = k THEN spine[k].held \cup {c} ELSE spine[j].held
      BY <2>2, <2>4
    <3>2. \A d \in Callers \ {c}, j \in Spines : d \in spine'[j].held => d \in spine[j].held
      BY <3>1
    <3>3. \A d \in Callers \ {c} : pc'[d] # "model"
      BY <2>6 DEF Mounting
    <3>4. \A j \in Spines : c \in spine'[j].held <=> j = k
      BY <1>1, <2>6, <3>1
    <3> QED BY <1>1, <2>1, <2>3, <2>4, <3>2, <3>3, <3>4 DEF BootInv, HeldIsMounted
  <2>12. RowsAreApart' /\ SpineIsPast' /\ ColdForAReason'
    BY <2>4, <2>6 DEF RowsAreApart, SpineIsPast, ColdForAReason, Mounting
  <2>13. RestIsFree'
    BY <1>1, <2>1, <2>4 DEF BootInv, BootTyped, RestIsFree
  <2>14. HeldIsLive'
    <3>1. ASSUME NEW j \in Spines, spine'[j].held # {}
          PROVE  /\ spine'[j].owned /\ spine'[j].fiber = "up"
                 /\ \A d \in spine'[j].held : writer'[d] = "mirror" <=> spine'[j].mirror = d
      <4>1. CASE j = k
        <5>1. \A d \in spine[k].held : writer[d] # "mirror" /\ d # Nobody
          BY <1>1, <1>3 DEF BootInv, BootTyped, SpineTyped, HeldIsLive
        <5> QED BY <2>1, <2>2, <2>4, <2>6, <4>1, <5>1
      <4>2. CASE j # k
        BY <2>1, <2>4, <3>1, <4>2 DEF BootInv, HeldIsLive
      <4> QED BY <4>1, <4>2
    <3> QED BY <3>1 DEF HeldIsLive
  <2>15. ToolsOfEntry'
    <3>1. spine[k].tools = PlannedTools(entry.of)
      BY <1>1 DEF BootInv, ToolsOfEntry
    <3>2. \A j \in Spines : spine'[j].tools = spine[j].tools
      BY <2>2, <2>4
    <3>3. ASSUME NEW d \in Callers, NEW j \in Spines, d \in spine'[j].held
          PROVE  spine'[j].tools = Declares(frame'[d].plan)
      <4>1. CASE d = c
        <5>1. j = k
          BY <2>4, <2>6, <3>3, <4>1
        <5> QED BY <2>3, <2>4, <3>1, <3>2, <4>1, <5>1 DEF PlannedTools
      <4>2. CASE d # c
        <5>1. d \in spine[j].held
          BY <2>2, <2>4, <3>3, <4>2
        <5> QED BY <2>4, <3>2, <4>2, <5>1 DEF BootInv, ToolsOfEntry
      <4> QED BY <4>1, <4>2
    <3>4. entry'.spine = k /\ entry'.of = entry.of
      BY <1>1, <2>1
    <3>5. \A d \in Callers : pc'[d] # "rows"
      BY <2>4, <2>6 DEF Mounting
    <3> QED BY <1>1, <3>1, <3>2, <3>3, <3>4, <3>5 DEF ToolsOfEntry
  <2> QED
    BY <2>6, <2>7, <2>8, <2>9, <2>10, <2>11, <2>12, <2>13, <2>14, <2>15 DEF BootInv
<1> QED BY <1>2, <1>3

LEMMA ColdKeeps ==
  ASSUME BootInv, NEW c \in Callers, NEW e, EntryIs(c, e),
         pc[c] = "armed", lock = Nobody, lock' = c, ColdMount(c, e)
  PROVE  BootInv'
<1> USE ConfigBootAssumption DEF Spines
<1>1. used' = used + 1 /\ used' \in Spines /\ used \in Nat /\ entry.spine \in 0..used
  BY DEF ColdMount, BootInv, BootTyped
<1>2. PICK p : /\ p = Planned[e.of]
               /\ frame' = [frame EXCEPT ![c] =
                    [@ EXCEPT !.entry = e, !.plan = IF IsOk(p) THEN p.val ELSE NoPlan, !.at = 1, !.k = used + 1]]
               /\ \/ pc' = [pc EXCEPT ![c] = "rows"] /\ IsOk(p)
                  \/ pc' = [pc EXCEPT ![c] = "err"]
  BY DEF ColdMount, Goto
<1>3. UNCHANGED <<env, entry, spine, plan, writer, file>>
  BY DEF ColdMount
<1>4. /\ frame'[c].kind = frame[c].kind /\ frame'[c].entry = e /\ frame'[c].at = 1
      /\ frame'[c].k = used' /\ DOMAIN frame'[c] = DOMAIN frame[c]
      /\ IsOk(p) => frame'[c].plan = Planned[e.of].val
  BY <1>1, <1>2 DEF BootInv, BootTyped, FrameTyped
<1>5. /\ DOMAIN frame' = Callers /\ \A d \in Callers \ {c} : frame'[d] = frame[d]
      /\ pc' \in [Callers -> {"idle", "armed", "failed", "panicked"} \cup Mounting]
      /\ \A d \in Callers \ {c} : pc'[d] = pc[d]
      /\ pc'[c] = "err" \/ (pc'[c] = "rows" /\ IsOk(p))
  BY <1>2 DEF BootInv, BootTyped, Mounting
<1>6. Starting(c)
  BY <1>3, <1>5 DEF Starting, Mounting
<1>7. /\ LockIsHeld' /\ FailedIsClean' /\ LostIsTwice'
      /\ \A d \in Callers : pc'[d] \in Mounting => d = c
      /\ writer[c] \in {"none", "cell"} /\ \A j \in Spines : spine[j].mirror # c
      /\ \A j \in Spines : c \notin spine[j].held
  BY <1>6, StartingIs
<1>8. spine[used'].fiber = "none" /\ spine[used'].mirror = Nobody
      /\ ~spine[used'].owned /\ spine[used'].held = {}
  BY <1>1 DEF BootInv, RestIsFree
<1>9. \A d \in Callers : pc'[d] = "rows" => d = c /\ IsOk(p)
  BY <1>5, <1>7 DEF Mounting
<1>10. BootTyped'
  <2>1. (\A d \in Callers : FrameTyped(frame[d]))'
    <3>1. \A d \in Callers : FrameTyped(frame[d])
      BY DEF BootInv, BootTyped
    <3>2. ASSUME NEW d \in Callers \ {c}
          PROVE  FrameTyped(frame[d])'
      BY <1>1, <1>5, <3>1 DEF FrameTyped
    <3>3. FrameTyped(frame[c])'
      BY <1>1, <1>4, <3>1 DEF FrameTyped, EntryIs
    <3> QED BY <3>2, <3>3
  <2> QED BY <1>1, <1>3, <1>5, <1>6, <2>1 DEF BootInv, BootTyped, Starting
<1>11. WriterIsPlaced'
  BY <1>3, <1>5, <1>7 DEF BootInv, WriterIsPlaced
<1>12. MirrorIsOwn' /\ RestIsFree' /\ HeldIsLive'
  BY <1>1, <1>3 DEF BootInv, BootTyped, MirrorIsOwn, RestIsFree, HeldIsLive
<1>13. WriterHasMirror'
  BY <1>3, <1>5, <1>7 DEF BootInv, WriterHasMirror
<1>14. HeldIsMounted'
  BY <1>1, <1>3, <1>5, <1>7 DEF BootInv, BootTyped, HeldIsMounted
<1>15. RowsAreApart'
  BY <1>1, <1>3, <1>4, <1>7, <1>8, <1>9 DEF RowsAreApart
<1>16. SpineIsPast'
  BY <1>3, <1>4, <1>8, <1>9 DEF SpineIsPast, EntryIs
<1>17. ColdForAReason'
  <2>1. ASSUME pc'[c] = "rows", frame'[c].kind = "fresh", Serves(plan[c])
        PROVE  ~Live(entry.spine)
    BY <1>4, <2>1 DEF ColdMount, EntryIs
  <2> QED BY <1>3, <1>5, <1>7, <2>1 DEF ColdForAReason, Mounting, Serves, Live
<1>18. ToolsOfEntry'
  <2>1. \A d \in Callers, j \in Spines : d \in spine[j].held => frame'[d] = frame[d]
    BY <1>5, <1>7
  <2>2. \A d \in Callers, j \in Spines : d \in spine'[j].held => spine'[j].tools = Declares(frame'[d].plan)
    BY <1>3, <2>1 DEF BootInv, ToolsOfEntry
  <2>3. \A d \in Callers : pc'[d] = "rows" =>
          /\ frame'[d].plan = Planned[frame'[d].entry.of].val /\ spine'[frame'[d].k].fiber = "none"
    BY <1>2, <1>3, <1>4, <1>8, <1>9
  <2> QED BY <1>3, <2>2, <2>3 DEF BootInv, ToolsOfEntry
<1> QED
  BY <1>7, <1>10, <1>11, <1>12, <1>13, <1>14, <1>15, <1>16, <1>17, <1>18 DEF BootInv

LEMMA StartKeeps ==
  ASSUME BootInv, NEW c \in Callers, BodyStart(c)
  PROVE  BootInv'
<1> DEFINE e == EntryFor(plan[c])
<1>1. pc[c] = "armed" /\ lock = Nobody /\ lock' = c
  BY DEF BodyStart
<1>2. CASE IsOk(e) /\ WarmReuse(c, e.val)
  BY <1>1, <1>2, EntryIsServed, WarmKeeps
<1>3. CASE IsOk(e) /\ ColdMount(c, e.val)
  BY <1>1, <1>3, EntryIsServed, ColdKeeps
<1>4. CASE ~IsOk(e)
  BY <1>1, <1>4, NoEntryKeeps DEF BodyStart
<1> QED BY <1>2, <1>3, <1>4 DEF BodyStart

-----------------------------------------------------------------------------
(* Handing over, and unwinding                                             *)

(* The end of the rows: the composition passes to its first holder.        *)
LEMMA DoneKeeps ==
  ASSUME BootInv, NEW c \in Callers, RowsDone(c)
  PROVE  BootInv'
<1> USE ConfigBootAssumption DEF Spines
<1> DEFINE k == frame[c].k
<1> DEFINE s == [spine[k] EXCEPT !.owned = TRUE, !.wired = Declares(plan[c]), !.held = {c}]
<1>1. pc[c] = "rows"
  BY DEF RowsDone
<1>2. CASE spine[k].fiber = "none"
  BY <1>1, <1>2, FailKeeps DEF RowsDone
<1>3. CASE spine[k].fiber # "none"
  <2>1. /\ spine' = [spine EXCEPT ![k] = s]
        /\ entry' = IF frame[c].kind = "fresh" THEN [frame[c].entry EXCEPT !.spine = k] ELSE entry
        /\ pc' = [pc EXCEPT ![c] = "model"]
        /\ UNCHANGED <<env, lock, used, plan, frame, writer, file>>
    BY <1>3 DEF RowsDone, Goto
  <2>2. /\ k \in Spines /\ k = used /\ lock = c
        /\ \A d \in Callers : pc[d] \in Mounting => d = c
    BY <1>1 DEF BootInv, RowsAreApart, LockIsHeld, Mounting
  <2>3. /\ spine[k].fiber = "up" /\ spine[k].mirror \in {c, Nobody}
        /\ spine[k].tools = PlannedTools(frame[c].entry.of) /\ spine[k].held = {}
        /\ spine[k].mirror = c <=> writer[c] = "mirror"
        /\ writer[c] \in {"none", "mirror"}
    BY <1>1, <1>3, RowUnderWay DEF UnderWay
  <2>4. /\ DOMAIN s = DOMAIN spine[k] /\ s.fiber = "up" /\ s.mirror = spine[k].mirror
        /\ s.tools = spine[k].tools /\ s.owned /\ s.held = {c} /\ SpineTyped(s)
    BY <2>2, <2>3 DEF BootInv, BootTyped, SpineTyped
  <2>5. /\ DOMAIN spine' = Spines /\ spine'[k] = s
        /\ \A j \in Spines \ {k} : spine'[j] = spine[j]
        /\ pc'[c] = "model" /\ \A d \in Callers \ {c} : pc'[d] = pc[d]
    BY <2>1, <2>2 DEF BootInv, BootTyped
  <2> HIDE DEF s
  <2>6. /\ EntryTyped(entry') /\ entry'.spine \in {entry.spine, k}
        /\ IF entry'.spine = k THEN entry'.of = frame[c].entry.of ELSE entry' = entry
    BY <1>1, <2>1, <2>2 DEF BootInv, BootTyped, FrameTyped, EntryTyped, RowsAreApart
  <2>7. \A d \in Callers : d # c => pc'[d] \notin Mounting
    BY <2>2, <2>5
  <2>8. BootTyped'
    <3>1. \A j \in Spines : SpineTyped(spine'[j])
      BY <2>4, <2>5 DEF BootInv, BootTyped
    <3>2. pc' \in [Callers -> {"idle", "armed", "failed", "panicked"} \cup Mounting]
      BY <2>1 DEF BootInv, BootTyped, Mounting
    <3> QED BY <2>1, <2>2, <2>5, <2>6, <3>1, <3>2 DEF BootInv, BootTyped, FrameTyped
  <2>9. LockIsHeld' /\ WriterIsPlaced'
    BY <2>1, <2>2, <2>3, <2>5, <2>7 DEF BootInv, LockIsHeld, WriterIsPlaced
  <2>10. MirrorIsOwn'
    BY <1>1, <2>1, <2>2, <2>3, <2>4, <2>5 DEF BootInv, MirrorIsOwn, RowsAreApart
  <2>11. WriterHasMirror'
    <3>1. ASSUME NEW d \in Callers \ {c}, writer[d] = "mirror"
          PROVE  \E j \in Spines : spine'[j].mirror = d /\ (pc'[d] # "rows" => d \in spine'[j].held)
      <4>1. PICK j \in Spines : spine[j].mirror = d /\ (pc[d] # "rows" => d \in spine[j].held)
        BY <3>1 DEF BootInv, WriterHasMirror
      <4> QED BY <2>3, <2>5, <4>1
    <3> QED BY <2>1, <2>2, <2>3, <2>4, <2>5, <3>1 DEF WriterHasMirror
  <2>12. HeldIsMounted'
    <3>1. \A j \in Spines : c \notin spine[j].held
      BY <1>1 DEF BootInv, HeldIsMounted
    <3>2. \A j \in Spines : spine'[j].held = IF j = k THEN {c} ELSE spine[j].held
      BY <2>4, <2>5
    <3> QED BY <2>1, <2>2, <2>5, <3>1, <3>2 DEF BootInv, BootTyped, HeldIsMounted
  <2>13. RowsAreApart' /\ SpineIsPast' /\ ColdForAReason'
    BY <2>5, <2>7 DEF RowsAreApart, SpineIsPast, ColdForAReason, Mounting
  <2>14. RestIsFree'
    BY <2>1, <2>2, <2>5 DEF BootInv, BootTyped, RestIsFree
  <2>15. HeldIsLive'
    <3>1. ASSUME NEW j \in Spines, spine'[j].held # {}
          PROVE  /\ spine'[j].owned /\ spine'[j].fiber = "up"
                 /\ \A d \in spine'[j].held : writer'[d] = "mirror" <=> spine'[j].mirror = d
      BY <2>1, <2>3, <2>4, <2>5, <3>1 DEF BootInv, HeldIsLive
    <3> QED BY <3>1 DEF HeldIsLive
  <2>16. LostIsTwice' /\ FailedIsClean'
    BY <2>1, <2>5 DEF BootInv, LostIsTwice, FailedIsClean
  <2>17. ToolsOfEntry'
    <3>1. frame[c].plan = Planned[frame[c].entry.of].val
      BY <1>1 DEF BootInv, ToolsOfEntry
    <3>2. \A d \in Callers, j \in Spines : d \in spine'[j].held => spine'[j].tools = Declares(frame[d].plan)
      BY <2>3, <2>4, <2>5, <3>1 DEF BootInv, ToolsOfEntry, PlannedTools
    <3>3. entry'.spine # 0 => spine'[entry'.spine].tools = PlannedTools(entry'.of)
      BY <2>3, <2>4, <2>5, <2>6 DEF BootInv, BootTyped, ToolsOfEntry
    <3>4. \A d \in Callers : pc'[d] # "rows"
      BY <2>5, <2>7 DEF Mounting
    <3> QED BY <2>1, <3>2, <3>3, <3>4 DEF ToolsOfEntry
  <2> QED
    BY <2>8, <2>9, <2>10, <2>11, <2>12, <2>13, <2>14, <2>15, <2>16, <2>17 DEF BootInv
<1> QED BY <1>2, <1>3

LEMMA ModelFailsKeeps ==
  ASSUME BootInv, NEW c \in Callers, ModelFails(c)
  PROVE  BootInv'
<1>1. pc[c] = "model" /\ frame[c].k \in Spines /\ c \in spine[frame[c].k].held
  BY DEF ModelFails, BootInv, HeldIsMounted
<1>2. writer[c] \in {"none", "mirror"}
  BY <1>1 DEF BootInv, BootTyped, WriterIsPlaced
<1>3. writer' = [writer EXCEPT ![c] = "none"]
  BY <1>2 DEF ModelFails
<1>4. pc' = [pc EXCEPT ![c] = "err"] \/ pc' = [pc EXCEPT ![c] = "panic"]
  BY DEF ModelFails, Goto
<1>5. /\ pc' \in [Callers -> {"idle", "armed", "failed", "panicked"} \cup Mounting]
      /\ pc'[c] \in {"err", "panic"} /\ \A d \in Callers \ {c} : pc'[d] = pc[d]
  BY <1>4 DEF BootInv, BootTyped, Mounting
<1> QED BY <1>1, <1>3, <1>5, HandleDropped DEF ModelFails

LEMMA DropKeeps ==
  ASSUME BootInv, NEW c \in Callers, NEW k \in Spines, DropMounted(c, k)
  PROVE  BootInv'
BY HandleDropped DEF DropMounted, BootInv, BootTyped

LEMMA ModelOkKeeps ==
  ASSUME BootInv, NEW c \in Callers, ModelOk(c)
  PROVE  BootInv'
<1> USE ConfigBootAssumption DEF Spines
<1>1. BootTyped'
  BY DEF BootInv, BootTyped, SpineTyped, FrameTyped, Mounting, EntryTyped, ModelOk, Goto
<1>2. LockIsHeld'
  BY DEF BootInv, BootTyped, LockIsHeld, Mounting, ModelOk, Goto
<1>3. WriterIsPlaced'
  BY DEF BootInv, BootTyped, WriterIsPlaced, Mounting, ModelOk, Goto
<1>4. MirrorIsOwn'
  BY DEF BootInv, BootTyped, SpineTyped, MirrorIsOwn, WriterIsPlaced, ModelOk, Goto
<1>5. WriterHasMirror'
  BY DEF BootInv, BootTyped, SpineTyped, WriterHasMirror, ModelOk, Goto
<1>6. HeldIsMounted'
  BY DEF BootInv, BootTyped, SpineTyped, HeldIsMounted, ModelOk, Goto
<1>7. RowsAreApart'
  BY DEF BootInv, BootTyped, SpineTyped, FrameTyped, LockIsHeld, Mounting, RowsAreApart, ModelOk, Goto
<1>8. RestIsFree'
  BY DEF BootInv, BootTyped, SpineTyped, RestIsFree, ModelOk, Goto
<1>9. HeldIsLive'
  BY DEF BootInv, BootTyped, SpineTyped, HeldIsLive, HeldIsMounted, ModelOk, Goto
<1>10. SpineIsPast'
  BY DEF BootInv, BootTyped, SpineTyped, FrameTyped, SpineIsPast, ModelOk, Goto
<1>11. LostIsTwice'
  BY DEF BootInv, BootTyped, FrameTyped, WriterIsPlaced, LostIsTwice, EntryTyped, ModelOk, Goto
<1>12. FailedIsClean'
  BY DEF BootInv, BootTyped, FailedIsClean, ModelOk, Goto
<1>13. ColdForAReason'
  BY DEF BootInv, BootTyped, SpineTyped, FrameTyped, LockIsHeld, Mounting, ColdForAReason, Live, Serves,
        ModelOk, Goto
<1>14. ToolsOfEntry'
  BY DEF BootInv, BootTyped, SpineTyped, FrameTyped, LockIsHeld, Mounting, ToolsOfEntry, ModelOk, Goto
<1> QED BY <1>1, <1>2, <1>3, <1>4, <1>5, <1>6, <1>7, <1>8, <1>9, <1>10, <1>11, <1>12, <1>13, <1>14 DEF BootInv

LEMMA WrapErrKeeps ==
  ASSUME BootInv, NEW c \in Callers, WrapErr(c)
  PROVE  BootInv'
<1> USE ConfigBootAssumption DEF Spines
<1>1. BootTyped'
  BY DEF BootInv, BootTyped, SpineTyped, FrameTyped, Mounting, EntryTyped, WrapErr, Goto
<1>2. LockIsHeld'
  BY DEF BootInv, BootTyped, LockIsHeld, Mounting, WrapErr, Goto
<1>3. WriterIsPlaced'
  BY DEF BootInv, BootTyped, WriterIsPlaced, Mounting, WrapErr, Goto
<1>4. MirrorIsOwn'
  BY DEF BootInv, BootTyped, SpineTyped, MirrorIsOwn, WriterIsPlaced, WrapErr, Goto
<1>5. WriterHasMirror'
  BY DEF BootInv, BootTyped, SpineTyped, WriterHasMirror, WrapErr, Goto
<1>6. HeldIsMounted'
  BY DEF BootInv, BootTyped, SpineTyped, HeldIsMounted, WrapErr, Goto
<1>7. RowsAreApart'
  BY DEF BootInv, BootTyped, SpineTyped, FrameTyped, LockIsHeld, Mounting, RowsAreApart, WrapErr, Goto
<1>8. RestIsFree'
  BY DEF BootInv, BootTyped, SpineTyped, RestIsFree, WrapErr, Goto
<1>9. HeldIsLive'
  BY DEF BootInv, BootTyped, SpineTyped, HeldIsLive, HeldIsMounted, WrapErr, Goto
<1>10. SpineIsPast'
  BY DEF BootInv, BootTyped, SpineTyped, FrameTyped, SpineIsPast, WrapErr, Goto
<1>11. LostIsTwice'
  BY DEF BootInv, BootTyped, FrameTyped, WriterIsPlaced, LostIsTwice, EntryTyped, WrapErr, Goto
<1>12. FailedIsClean'
  BY DEF BootInv, BootTyped, FailedIsClean, WriterIsPlaced, WrapErr, Goto
<1>13. ColdForAReason'
  BY DEF BootInv, BootTyped, SpineTyped, FrameTyped, LockIsHeld, Mounting, ColdForAReason, Live, Serves,
        WrapErr, Goto
<1>14. ToolsOfEntry'
  BY DEF BootInv, BootTyped, SpineTyped, FrameTyped, LockIsHeld, Mounting, ToolsOfEntry, WrapErr, Goto
<1> QED BY <1>1, <1>2, <1>3, <1>4, <1>5, <1>6, <1>7, <1>8, <1>9, <1>10, <1>11, <1>12, <1>13, <1>14 DEF BootInv

LEMMA WrapPanicKeeps ==
  ASSUME BootInv, NEW c \in Callers, WrapPanic(c)
  PROVE  BootInv'
<1> USE ConfigBootAssumption DEF Spines
<1>1. BootTyped'
  BY DEF BootInv, BootTyped, SpineTyped, FrameTyped, Mounting, EntryTyped, WrapPanic, Goto
<1>2. LockIsHeld'
  BY DEF BootInv, BootTyped, LockIsHeld, Mounting, WrapPanic, Goto
<1>3. WriterIsPlaced'
  BY DEF BootInv, BootTyped, WriterIsPlaced, Mounting, WrapPanic, Goto
<1>4. MirrorIsOwn'
  BY DEF BootInv, BootTyped, SpineTyped, MirrorIsOwn, WriterIsPlaced, WrapPanic, Goto
<1>5. WriterHasMirror'
  BY DEF BootInv, BootTyped, SpineTyped, WriterHasMirror, WrapPanic, Goto
<1>6. HeldIsMounted'
  BY DEF BootInv, BootTyped, SpineTyped, HeldIsMounted, WrapPanic, Goto
<1>7. RowsAreApart'
  BY DEF BootInv, BootTyped, SpineTyped, FrameTyped, LockIsHeld, Mounting, RowsAreApart, WrapPanic, Goto
<1>8. RestIsFree'
  BY DEF BootInv, BootTyped, SpineTyped, RestIsFree, WrapPanic, Goto
<1>9. HeldIsLive'
  BY DEF BootInv, BootTyped, SpineTyped, HeldIsLive, HeldIsMounted, WrapPanic, Goto
<1>10. SpineIsPast'
  BY DEF BootInv, BootTyped, SpineTyped, FrameTyped, SpineIsPast, WrapPanic, Goto
<1>11. LostIsTwice'
  BY DEF BootInv, BootTyped, FrameTyped, WriterIsPlaced, LostIsTwice, EntryTyped, WrapPanic, Goto
<1>12. FailedIsClean'
  BY DEF BootInv, BootTyped, FailedIsClean, WrapPanic, Goto
<1>13. ColdForAReason'
  BY DEF BootInv, BootTyped, SpineTyped, FrameTyped, LockIsHeld, Mounting, ColdForAReason, Live, Serves,
        WrapPanic, Goto
<1>14. ToolsOfEntry'
  BY DEF BootInv, BootTyped, SpineTyped, FrameTyped, LockIsHeld, Mounting, ToolsOfEntry, WrapPanic, Goto
<1> QED BY <1>1, <1>2, <1>3, <1>4, <1>5, <1>6, <1>7, <1>8, <1>9, <1>10, <1>11, <1>12, <1>13, <1>14 DEF BootInv

-----------------------------------------------------------------------------
(* The invariant and the theorems                                          *)

LEMMA InitKeeps == Init => BootInv
<1> SUFFICES ASSUME Init PROVE BootInv
  OBVIOUS
<1> USE ConfigBootAssumption DEF Init, Spines
<1>1. \A k \in Spines : spine[k] = Free
  OBVIOUS
<1>2. \A c \in Callers : pc[c] = "idle" /\ frame[c] = NoFrame /\ writer[c] = "none"
  OBVIOUS
<1>3. SpineTyped(Free) /\ Free.held = {} /\ Free.mirror = Nobody /\ Free.fiber = "none" /\ ~Free.owned
  BY DEF SpineTyped, Free
<1>4. FrameTyped(NoFrame) /\ EntryTyped(NoEntry) /\ NoEntry.spine = 0
  BY DEF FrameTyped, EntryTyped, NoFrame, NoEntry
<1>5. BootTyped
  BY <1>1, <1>2, <1>3, <1>4 DEF BootTyped
<1>6. LockIsHeld /\ WriterIsPlaced /\ WriterHasMirror
  BY <1>2 DEF LockIsHeld, WriterIsPlaced, WriterHasMirror, Mounting
<1>7. MirrorIsOwn /\ RestIsFree /\ HeldIsLive
  BY <1>1, <1>3 DEF MirrorIsOwn, RestIsFree, HeldIsLive
<1>8. HeldIsMounted /\ RowsAreApart /\ SpineIsPast
  BY <1>1, <1>2, <1>3 DEF HeldIsMounted, RowsAreApart, SpineIsPast
<1>9. LostIsTwice /\ FailedIsClean /\ ColdForAReason
  BY <1>2 DEF LostIsTwice, FailedIsClean, ColdForAReason
<1>10. ToolsOfEntry
  BY <1>1, <1>2, <1>3, <1>4 DEF ToolsOfEntry
<1> QED BY <1>5, <1>6, <1>7, <1>8, <1>9, <1>10 DEF BootInv

LEMMA CallersAre ==
  ASSUME BootInv, NEW c \in env.callers
  PROVE  c \in Callers
BY ConfigBootAssumption DEF BootInv, BootTyped

LEMMA StepKeeps == BootInv /\ [Next]_vars => BootInv'
<1> SUFFICES ASSUME BootInv, [Next]_vars PROVE BootInv'
  OBVIOUS
<1>1. CASE UNCHANGED vars
  BY <1>1 DEF vars, BootInv, BootTyped, FrameTyped, LockIsHeld, WriterIsPlaced, MirrorIsOwn, WriterHasMirror,
     HeldIsMounted, RowsAreApart, RestIsFree, HeldIsLive, SpineIsPast, LostIsTwice, FailedIsClean,
     ColdForAReason, Serves, Live, ToolsOfEntry
<1>2. ASSUME NEW c \in env.callers, Step(c)
      PROVE  BootInv'
  <2>1. c \in Callers
    BY CallersAre
  <2>2. ASSUME NEW r \in env.requests, ComposeProfile(c, r) PROVE BootInv'
    BY <2>1, <2>2, ComposeKeeps
  <2>3. ASSUME NEW kind \in {"fresh", "resumed", "created"}, MountCall(c, kind) PROVE BootInv'
    BY <2>1, <2>3, CallKeeps
  <2>4. CASE BodyStart(c)
    BY <2>1, <2>4, StartKeeps
  <2>5. CASE RowDocument(c)
    BY <2>1, <2>5, DocumentKeeps
  <2>6. CASE RowSpine(c) \/ SpinePanics(c)
    BY <2>1, <2>6, SpineKeeps
  <2>7. CASE RowSpineTwice(c)
    BY <2>1, <2>7, TwiceKeeps
  <2>8. CASE RowStorage(c)
    BY <2>1, <2>8, StorageKeeps
  <2>9. ASSUME NEW seam \in {"model", "tool", "unknown"}, RowResource(c, seam) PROVE BootInv'
    BY <2>1, <2>9, ResourceKeeps
  <2>10. CASE RowsDone(c)
    BY <2>1, <2>10, DoneKeeps
  <2>11. CASE ModelOk(c)
    BY <2>1, <2>11, ModelOkKeeps
  <2>12. CASE ModelFails(c)
    BY <2>1, <2>12, ModelFailsKeeps
  <2>13. CASE WrapErr(c)
    BY <2>1, <2>13, WrapErrKeeps
  <2>14. CASE WrapPanic(c)
    BY <2>1, <2>14, WrapPanicKeeps
  <2>15. ASSUME NEW k \in Spines, DropMounted(c, k) PROVE BootInv'
    BY <2>1, <2>15, DropKeeps
  <2> QED
    BY <1>2, <2>2, <2>3, <2>4, <2>5, <2>6, <2>7, <2>8, <2>9, <2>10, <2>11, <2>12, <2>13, <2>14, <2>15
    DEF Step
<1> QED BY <1>1, <1>2 DEF Next

LEMMA BootInvHolds == Spec => []BootInv
BY InitKeeps, StepKeeps, PTL DEF Spec

(* A mount that fails leaves no session lock and no file of its own making *)
(* behind, for documents with one spine row, and no mount or drop takes    *)
(* from a caller the composition it holds: of every caller, document,      *)
(* fault and interleaving of the row loop, the wrappers and the drops.     *)
THEOREM BootFailedBootIsClean == Spec => []FailedBootIsClean
<1>1. BootInv => FailedBootIsClean
  BY DEF BootInv, FailedBootIsClean, FailedBootLeavesNothing, LostIsTwice, FailedIsClean
<1> QED BY <1>1, BootInvHolds, PTL

(* Whatever races, the cached composition that is live is not mounted a    *)
(* second time for the document it was mounted for: mount_seeded_body      *)
(* decides warm or cold under the lock it keeps until it has published.    *)
THEOREM BootNeverMountedTwice == Spec => NeverMountedTwice
<1>1. ASSUME BootInv, [Next]_vars, ~UNCHANGED vars,
             Live(entry.spine), entry'.spine \notin {0, entry.spine}, entry'.of = entry.of
      PROVE  \E c \in Callers : pc[c] = "rows" /\ lock = c /\ ~Serves(plan[c])
  <2>1. PICK c \in env.callers : Step(c)
    BY <1>1 DEF Next
  <2>2. c \in Callers
    BY <1>1, CallersAre
  <2>3. CASE RowsDone(c)
    <3>1. pc[c] = "rows" /\ lock = c
      BY <1>1, <2>2, <2>3 DEF RowsDone, BootInv, LockIsHeld, Mounting
    <3>2. frame[c].kind = "fresh"
      BY <1>1, <2>3 DEF RowsDone, RowFails
    <3> QED BY <1>1, <2>2, <3>1, <3>2 DEF BootInv, ColdForAReason
  <2>4. ASSUME NEW r, ComposeProfile(c, r)
        PROVE  entry'.spine \in {0, entry.spine}
    BY <2>4, ComposingIs DEF ComposeProfile
  <2>5. CASE BodyStart(c)
    BY <1>1, <2>5 DEF BodyStart, WarmReuse, ColdMount
  <2>6. CASE ~RowsDone(c) /\ ~BodyStart(c) /\ \A r : ~ComposeProfile(c, r)
    <3>1. entry' = entry
      BY <2>1, <2>6 DEF Step, MountCall, RowDocument, RowSpine, SpinePanics, RowSpineTwice,
         RowFailsMirrorOpen, RowStorage, RowResource, RowFails, RowPanics, ModelOk, ModelFails, WrapErr,
         WrapPanic, DropMounted
    <3> QED BY <1>1, <3>1
  <2> QED BY <1>1, <2>3, <2>4, <2>5, <2>6
<1> DEFINE A == Live(entry.spine) /\ entry'.spine \notin {0, entry.spine} /\ entry'.of = entry.of
                  => \E c \in Callers : pc[c] = "rows" /\ lock = c /\ ~Serves(plan[c])
<1>2. BootInv /\ [Next]_vars => [A]_vars
  BY <1>1
<1> QED BY <1>2, BootInvHolds, PTL DEF Spec, NeverMountedTwice

(* What a mount has for tools is what the plan of its caller declares,     *)
(* warm or cold.  The other half of MountIsPlan, the store, is the subject  *)
(* of BootMountIsPlan below.                                               *)
THEOREM BootToolsArePlanned == Spec => []ToolsArePlanned
<1>1. BootInv => ToolsArePlanned
  BY DEF BootInv, ToolsOfEntry, ToolsArePlanned, IsMounted
<1> QED BY <1>1, BootInvHolds, PTL

----------------------------------------------------------------------------
(* The folds of a composition                                              *)

PutFold   == INSTANCE FoldFacts WITH Op <- PutRow
OpFold    == INSTANCE FoldFacts WITH Op <- ApplyOp
LayerFold == INSTANCE FoldFacts WITH Op <- ApplyLayer
WriteFold == INSTANCE FoldFacts WITH Op <- AddWrites

Nothing == [rows |-> <<>>, warnings |-> <<>>]

LEMMA PutFoldIs == \A b, s : PutFold!Folded(b, s) = FoldLeft(PutRow, b, s)
BY DEF PutFold!Folded, PutFold!FoldLeft, PutFold!MapThenFoldSet, PutFold!Max, FoldLeft, MapThenFoldSet, Max

LEMMA OpFoldIs == \A b, s : OpFold!Folded(b, s) = FoldLeft(ApplyOp, b, s)
BY DEF OpFold!Folded, OpFold!FoldLeft, OpFold!MapThenFoldSet, OpFold!Max, FoldLeft, MapThenFoldSet, Max

LEMMA LayerFoldIs == \A b, s : LayerFold!Folded(b, s) = FoldLeft(ApplyLayer, b, s)
BY DEF LayerFold!Folded, LayerFold!FoldLeft, LayerFold!MapThenFoldSet, LayerFold!Max, FoldLeft, MapThenFoldSet, Max

LEMMA WriteFoldIs == \A s : WriteFold!Folded(<<>>, s) = WritesOf(s)
BY DEF WriteFold!Folded, WriteFold!FoldLeft, WriteFold!MapThenFoldSet, WriteFold!Max,
       FoldLeft, MapThenFoldSet, Max, WritesOf

----------------------------------------------------------------------------
(* Positions in their order                                                *)

LEMMA MaxWithLast ==
  ASSUME NEW S, NEW m \in Nat, S \subseteq 1..m
  PROVE  Max(S \cup {m + 1}) = m + 1
<1> DEFINE T == S \cup {m + 1}
<1>1. m + 1 \in T /\ \A y \in T : m + 1 >= y
  OBVIOUS
<1>2. \A x \in T : (\A y \in T : x >= y) => x = m + 1
  OBVIOUS
<1> HIDE DEF T
<1> QED BY <1>1, <1>2 DEF Max, T

LEMMA MaxOfOne == \A x \in Nat : Max({x}) = x
BY DEF Max

Ranks(f, S) ==
  /\ f \in Seq(S) /\ Len(f) = Cardinality(S)
  /\ \A i \in S : \E k \in 1..Len(f) : f[k] = i
  /\ \A k, l \in 1..Len(f) : f[k] = f[l] => k = l

(* One more position, behind the others, comes last.                       *)
LEMMA RankedGrows ==
  ASSUME NEW m \in Nat, NEW S, S \subseteq 1..m, Ranks(Ranked(S), S)
  PROVE  /\ Ranked(S \cup {m + 1}) = Append(Ranked(S), m + 1)
         /\ Ranks(Ranked(S \cup {m + 1}), S \cup {m + 1})
         /\ Cardinality(S \cup {m + 1}) = Cardinality(S) + 1
<1> DEFINE T == S \cup {m + 1}
           c == Cardinality(S)
<1>1. IsFiniteSet(S) /\ c \in Nat /\ m + 1 \notin S
  <2>1. IsFiniteSet(1..m)
    BY FS_Interval
  <2>2. IsFiniteSet(S)
    BY <2>1, FS_Subset
  <2> QED BY <2>2, FS_CardinalityType
<1>2. IsFiniteSet(T) /\ Cardinality(T) = c + 1
  BY <1>1, FS_AddElement
<1>3. ASSUME NEW i \in S
      PROVE  /\ { j \in T : j <= i } = { j \in S : j <= i }
             /\ Cardinality({ j \in S : j <= i }) \in Nat
             /\ Cardinality({ j \in S : j <= i }) <= c
  <2>1. i \in 1..m
    OBVIOUS
  <2>2. ~(m + 1 <= i)
    BY <2>1
  <2>3. IsFiniteSet({ j \in S : j <= i }) /\ Cardinality({ j \in S : j <= i }) <= c
    BY <1>1, FS_Subset
  <2> QED BY <2>2, <2>3, FS_CardinalityType
<1>4. { j \in T : j <= m + 1 } = T
  <2>1. \A j \in T : j <= m + 1
    OBVIOUS
  <2> QED BY <2>1
<1> DEFINE At(U, n) == { i \in U : Cardinality({ j \in U : j <= i }) = n }
<1>5. ASSUME NEW n \in 1..c PROVE At(T, n) = At(S, n)
  <2>1. \A i \in S : i \in At(T, n) <=> i \in At(S, n)
    BY <1>3
  <2>2. m + 1 \notin At(T, n) /\ m + 1 \notin S
    BY <1>1, <1>2, <1>4
  <2>3. At(T, n) \subseteq T /\ At(S, n) \subseteq S
    OBVIOUS
  <2> HIDE DEF At
  <2> QED BY <2>1, <2>2, <2>3
<1>6. At(T, c + 1) = {m + 1}
  <2>1. \A i \in S : i \notin At(T, c + 1)
    <3> SUFFICES ASSUME NEW i \in S, i \in At(T, c + 1) PROVE FALSE
      OBVIOUS
    <3>1. Cardinality({ j \in S : j <= i }) = c + 1
      BY <1>3
    <3>2. Cardinality({ j \in S : j <= i }) <= c
      BY <1>3
    <3> QED BY <1>1, <3>1, <3>2
  <2>2. m + 1 \in At(T, c + 1)
    BY <1>2, <1>4
  <2>3. At(T, c + 1) \subseteq T
    OBVIOUS
  <2> HIDE DEF At
  <2> QED BY <2>1, <2>2, <2>3
<1> DEFINE f == Ranked(S)
           g == Ranked(T)
<1>7. Len(f) = c /\ f \in Seq(S)
  BY DEF Ranks
<1>8. /\ g = [n \in 1..(c + 1) |-> Max(At(T, n))]
      /\ f = [n \in 1..c |-> Max(At(S, n))]
  BY <1>2 DEF Ranked
<1> HIDE DEF At, f, g, c, T
<1>9. g[c + 1] = m + 1
  <2>1. c + 1 \in 1..(c + 1) /\ m + 1 \in Nat
    BY <1>1
  <2> QED BY <1>6, <1>8, <2>1, MaxOfOne
<1>10. \A n \in 1..c : g[n] = f[n]
  <2>1. \A n \in 1..c : n \in 1..(c + 1)
    BY <1>1
  <2> QED BY <1>5, <1>8, <2>1
<1> USE DEF c, T
<1>11. g = Append(f, m + 1)
  <2>1. Append(f, m + 1) = [n \in 1..(c + 1) |-> IF n = c + 1 THEN m + 1 ELSE f[n]]
    BY <1>7
  <2>2. \A n \in 1..(c + 1) : g[n] = IF n = c + 1 THEN m + 1 ELSE f[n]
    BY <1>1, <1>9, <1>10
  <2> QED BY <1>8, <2>1, <2>2
<1>12. g \in Seq(T) /\ Len(g) = c + 1
  <2>1. f \in Seq(T)
    BY <1>7
  <2> QED BY <1>7, <1>11, <2>1
<1>13. \A i \in T : \E k \in 1..Len(g) : g[k] = i
  <2>1. ASSUME NEW i \in S PROVE \E k \in 1..Len(g) : g[k] = i
    <3>1. PICK k \in 1..c : f[k] = i
      BY <1>7 DEF Ranks, f
    <3> QED BY <1>1, <1>10, <1>12, <3>1
  <2>2. c + 1 \in 1..Len(g)
    BY <1>1, <1>12
  <2> QED BY <1>9, <2>1, <2>2
<1>14. \A k, l \in 1..Len(g) : g[k] = g[l] => k = l
  <2>1. \A k \in 1..c : g[k] = f[k] /\ f[k] # m + 1
    BY <1>1, <1>7, <1>10
  <2>2. \A k, l \in 1..c : f[k] = f[l] => k = l
    BY <1>7 DEF Ranks, f
  <2>3. \A k \in 1..Len(g) : k \in 1..c \/ k = c + 1
    BY <1>1, <1>12
  <2> QED BY <1>9, <2>1, <2>2, <2>3
<1> QED BY <1>2, <1>11, <1>12, <1>13, <1>14 DEF Ranks, f, g

LEMMA RankedRanks == \A m \in Nat : \A S \in SUBSET (1..m) : Ranks(Ranked(S), S)
<1> DEFINE N == { m \in Nat : \A S \in SUBSET (1..m) : Ranks(Ranked(S), S) }
<1>1. 0 \in N
  <2>1. \A S \in SUBSET (1..0) : S = {}
    OBVIOUS
  <2>2. Ranked({}) = << >>
    <3>1. Cardinality({}) = 0
      BY FS_EmptySet
    <3> QED BY <3>1 DEF Ranked
  <2>3. Ranks(<< >>, {})
    BY FS_EmptySet DEF Ranks
  <2> QED BY <2>1, <2>2, <2>3
<1>2. ASSUME NEW m \in Nat, m \in N PROVE m + 1 \in N
  <2> SUFFICES ASSUME NEW S \in SUBSET (1..(m + 1)) PROVE Ranks(Ranked(S), S)
    OBVIOUS
  <2>1. CASE m + 1 \notin S
    <3>1. S \in SUBSET (1..m)
      BY <2>1
    <3> QED BY <1>2, <3>1
  <2>2. CASE m + 1 \in S
    <3> DEFINE R == S \ {m + 1}
    <3>1. R \in SUBSET (1..m) /\ S = R \cup {m + 1}
      BY <2>2
    <3>2. Ranks(Ranked(R), R)
      BY <1>2, <3>1
    <3> HIDE DEF R
    <3> QED BY <3>1, <3>2, RankedGrows
  <2> QED BY <2>1, <2>2
<1> HIDE DEF N
<1>3. Nat \subseteq N
  BY <1>1, <1>2, PutFold!NumberInduction
<1> QED BY <1>3 DEF N
----------------------------------------------------------------------------
(* One write more                                                          *)

Known(w, id) == \E j \in DOMAIN w : w[j].put /\ w[j].id = id

LEMMA MaxIs ==
  ASSUME NEW m \in Nat, NEW S \in SUBSET (1..m), S # {}
  PROVE  Max(S) \in S
<1>1. PutFold!Max(S) = Max(S)
  BY DEF PutFold!Max, Max
<1> QED BY <1>1, PutFold!MaxIsGreatest

LEMMA FirstIsKnown ==
  ASSUME NEW w, IsSeq(w), NEW id
  PROVE  /\ Known(w, id) => \E i \in Firsts(w) : w[i].id = id
         /\ \A i, j \in Firsts(w) : w[i].id = w[j].id => i = j
         /\ \A i \in Firsts(w) : Known(w, w[i].id)
         /\ Firsts(w) \in SUBSET (1..Len(w)) /\ Len(w) \in Nat /\ DOMAIN w = 1..Len(w)
<1>1. Len(w) \in Nat /\ DOMAIN w = 1..Len(w)
  BY DEF IsSeq
<1>2. ASSUME Known(w, id) PROVE \E i \in Firsts(w) : w[i].id = id
  <2> DEFINE P == { j \in 1..Len(w) : w[j].put /\ w[j].id = id }
  <2>1. P \subseteq Nat /\ P # {}
    BY <1>1, <1>2 DEF Known
  <2>2. PICK i \in P : \A j \in P : i <= j
    <3> HIDE DEF P
    <3> QED BY <2>1, PutFold!LeastNumber
  <2>3. i \in 1..Len(w) /\ w[i].put /\ w[i].id = id
    OBVIOUS
  <2>4. ASSUME NEW j \in 1..(i - 1), w[j].put, w[j].id = id PROVE FALSE
    <3>1. j \in 1..Len(w) /\ j < i
      BY <1>1, <2>3
    <3>2. i <= j
      BY <2>2, <2>4, <3>1
    <3> QED BY <1>1, <2>3, <3>1, <3>2
  <2> QED BY <1>1, <2>3, <2>4 DEF Firsts
<1>3. ASSUME NEW i \in Firsts(w), NEW j \in Firsts(w), w[i].id = w[j].id PROVE i = j
  <2>1. i \in 1..Len(w) /\ j \in 1..Len(w) /\ w[i].put /\ w[j].put
    BY <1>1 DEF Firsts
  <2>2. ~(i \in 1..(j - 1)) /\ ~(j \in 1..(i - 1))
    BY <1>3, <2>1 DEF Firsts
  <2> QED BY <1>1, <2>1, <2>2
<1>4. \A i \in Firsts(w) : Known(w, w[i].id)
  BY DEF Firsts, Known
<1> QED BY <1>1, <1>2, <1>3, <1>4 DEF Firsts

LEMMA OneWriteMore ==
  ASSUME NEW w, IsSeq(w), NEW x, x.put \in BOOLEAN
  PROVE  LET v == Append(w, x)
             n == Len(w) + 1
         IN  /\ IsSeq(v)
             /\ \A i \in 1..Len(w) : v[i] = w[i]
             /\ v[n] = x
             /\ Firsts(v) = Firsts(w) \cup IF x.put /\ ~Known(w, x.id) THEN {n} ELSE {}
             /\ Missing(v) = Missing(w) \cup IF ~x.put /\ ~Known(w, x.id) THEN {n} ELSE {}
             /\ \A id : id # x.id /\ Known(w, id) => RowOfId(v, id) = RowOfId(w, id)
             /\ x.put => RowOfId(v, x.id) = Row(x.id, x.plugin, x.config)
             /\ ~x.put /\ Known(w, x.id) =>
                  RowOfId(v, x.id) = Row(x.id, RowOfId(w, x.id).plugin, x.config)
<1> DEFINE m == Len(w)
           n == m + 1
           v == Append(w, x)
<1>1. m \in Nat /\ DOMAIN w = 1..m /\ DOMAIN v = 1..n /\ Len(v) = n
  BY DEF IsSeq
<1>2. (\A i \in 1..m : v[i] = w[i]) /\ v[n] = x
  BY DEF IsSeq
<1>3. IsSeq(v)
  <2> DEFINE S == ToSet(w) \cup {x}
  <2>1. v \in Seq(S)
    BY DEF IsSeq
  <2>2. \A i \in 1..n : v[i] \in ToSet(v)
    BY <1>1 DEF ToSet
  <2> HIDE DEF v
  <2> QED BY <1>1, <2>1, <2>2 DEF IsSeq
<1> HIDE DEF v, m
<1>4. \A i \in 1..n : i \in 1..m \/ i = n
  BY <1>1
<1>5. \A i \in 1..m : i \in 1..n /\ i # n
  BY <1>1
<1>6. \A i \in 1..m : Declared(v, i) <=> Declared(w, i)
  <2> SUFFICES ASSUME NEW i \in 1..m PROVE Declared(v, i) <=> Declared(w, i)
    OBVIOUS
  <2>1. \A j \in 1..i : j \in 1..m
    BY <1>1
  <2> QED BY <1>2, <2>1 DEF Declared
<1>7. Declared(v, n) <=> x.put \/ Known(w, x.id)
  <2>1. n \in 1..n /\ 1..n = 1..m \cup {n}
    BY <1>1
  <2> QED BY <1>1, <1>2, <2>1 DEF Declared, Known
<1>8. Missing(v) = Missing(w) \cup IF ~x.put /\ ~Known(w, x.id) THEN {n} ELSE {}
  <2>1. \A i \in 1..m : i \in Missing(v) <=> i \in Missing(w)
    BY <1>1, <1>5, <1>6 DEF Missing
  <2>2. n \in Missing(v) <=> ~x.put /\ ~Known(w, x.id)
    BY <1>1, <1>7 DEF Missing
  <2>3. Missing(v) \subseteq 1..n /\ Missing(w) \subseteq 1..m
    BY <1>1 DEF Missing
  <2> QED BY <1>4, <1>5, <2>1, <2>2, <2>3
<1>9. Firsts(v) = Firsts(w) \cup IF x.put /\ ~Known(w, x.id) THEN {n} ELSE {}
  <2>1. ASSUME NEW i \in 1..m PROVE i \in Firsts(v) <=> i \in Firsts(w)
    <3>1. \A j \in 1..(i - 1) : j \in 1..m
      BY <1>1
    <3> QED BY <1>1, <1>2, <1>5, <3>1 DEF Firsts
  <2>2. n \in Firsts(v) <=> x.put /\ ~Known(w, x.id)
    <3>1. 1..(n - 1) = 1..m /\ n \in 1..n
      BY <1>1
    <3> QED BY <1>1, <1>2, <3>1 DEF Firsts, Known
  <2>3. Firsts(v) \subseteq 1..n /\ Firsts(w) \subseteq 1..m
    BY <1>1 DEF Firsts
  <2> QED BY <1>4, <1>5, <2>1, <2>2, <2>3
<1> DEFINE Put(u, id) == { i \in DOMAIN u : u[i].id = id /\ u[i].put }
           Said(u, id) == { i \in DOMAIN u : u[i].id = id /\ Declared(u, i) }
<1>10. \A u, id : RowOfId(u, id) = Row(id, u[Max(Put(u, id))].plugin, u[Max(Said(u, id))].config)
  BY DEF RowOfId
<1>11. ASSUME NEW id
       PROVE  /\ Put(w, id) \in SUBSET (1..m) /\ Said(w, id) \in SUBSET (1..m)
              /\ Put(v, id) = Put(w, id) \cup IF x.put /\ id = x.id THEN {n} ELSE {}
              /\ Said(v, id) = Said(w, id) \cup
                   IF id = x.id /\ (x.put \/ Known(w, x.id)) THEN {n} ELSE {}
              /\ Known(w, id) => Put(w, id) # {} /\ Said(w, id) # {}
  <2>1. Put(w, id) \in SUBSET (1..m) /\ Said(w, id) \in SUBSET (1..m)
    BY <1>1
  <2>2. Put(v, id) \subseteq 1..n /\ Said(v, id) \subseteq 1..n
    BY <1>1
  <2>3. \A i \in 1..m : (i \in Put(v, id) <=> i \in Put(w, id)) /\ (i \in Said(v, id) <=> i \in Said(w, id))
    BY <1>1, <1>2, <1>5, <1>6
  <2>4. n \in DOMAIN v
    BY <1>1
  <2>5. (n \in Put(v, id) <=> x.put /\ id = x.id)
        /\ (n \in Said(v, id) <=> id = x.id /\ (x.put \/ Known(w, x.id)))
    BY <1>2, <1>7, <2>4
  <2>6. Known(w, id) => Put(w, id) # {} /\ Said(w, id) # {}
    <3>1. \A j \in DOMAIN w : w[j].put => Declared(w, j)
      BY <1>1 DEF Declared
    <3> QED BY <3>1 DEF Known
  <2> HIDE DEF Put, Said
  <2> QED BY <1>4, <1>5, <2>1, <2>2, <2>3, <2>5, <2>6
<1> HIDE DEF Put, Said
<1>12. ASSUME NEW id, Known(w, id)
       PROVE  /\ v[Max(Put(w, id))] = w[Max(Put(w, id))]
              /\ v[Max(Said(w, id))] = w[Max(Said(w, id))]
  <2>1. Max(Put(w, id)) \in 1..m /\ Max(Said(w, id)) \in 1..m
    BY <1>1, <1>11, <1>12, MaxIs
  <2> QED BY <1>2, <2>1
<1>13. \A id : Max(Put(w, id) \cup {n}) = n /\ Max(Said(w, id) \cup {n}) = n
  BY <1>1, <1>11, MaxWithLast
<1>14. \A id : id # x.id /\ Known(w, id) => RowOfId(v, id) = RowOfId(w, id)
  <2> SUFFICES ASSUME NEW id, id # x.id, Known(w, id) PROVE RowOfId(v, id) = RowOfId(w, id)
    OBVIOUS
  <2>1. Put(v, id) = Put(w, id) /\ Said(v, id) = Said(w, id)
    BY <1>11
  <2> QED BY <1>10, <1>12, <2>1
<1>15. x.put => RowOfId(v, x.id) = Row(x.id, x.plugin, x.config)
  <2> SUFFICES ASSUME x.put PROVE RowOfId(v, x.id) = Row(x.id, x.plugin, x.config)
    OBVIOUS
  <2>1. Put(v, x.id) = Put(w, x.id) \cup {n} /\ Said(v, x.id) = Said(w, x.id) \cup {n}
    BY <1>11
  <2> QED BY <1>2, <1>10, <1>13, <2>1
<1>16. ~x.put /\ Known(w, x.id) => RowOfId(v, x.id) = Row(x.id, RowOfId(w, x.id).plugin, x.config)
  <2> SUFFICES ASSUME ~x.put, Known(w, x.id)
               PROVE  RowOfId(v, x.id) = Row(x.id, RowOfId(w, x.id).plugin, x.config)
    OBVIOUS
  <2>1. Put(v, x.id) = Put(w, x.id) /\ Said(v, x.id) = Said(w, x.id) \cup {n}
    BY <1>11
  <2>2. RowOfId(v, x.id) = Row(x.id, w[Max(Put(w, x.id))].plugin, x.config)
    BY <1>2, <1>10, <1>12, <1>13, <2>1
  <2>3. RowOfId(w, x.id).plugin = w[Max(Put(w, x.id))].plugin
    BY <1>10 DEF Row
  <2> QED BY <2>2, <2>3
<1> QED BY <1>2, <1>3, <1>8, <1>9, <1>14, <1>15, <1>16 DEF v, m

----------------------------------------------------------------------------
(* The rows of the reference                                               *)

(* One row for every id that is known, in its place.                       *)
LEMMA RowsOfReference ==
  ASSUME NEW w, IsSeq(w)
  PROVE  LET f == Ranked(Firsts(w))
             R == LastWriter(w).rows
         IN  /\ Ranks(f, Firsts(w)) /\ Len(f) \in Nat
             /\ \A n \in 1..Len(f) : f[n] \in Firsts(w)
             /\ R = [n \in 1..Len(f) |-> RowOfId(w, w[f[n]].id)]
             /\ Len(R) = Len(f)
             /\ \A n \in 1..Len(R) : R[n].id = w[f[n]].id /\ Known(w, w[f[n]].id)
<1> DEFINE f == Ranked(Firsts(w))
           R == LastWriter(w).rows
<1>1. Ranks(f, Firsts(w))
  BY FirstIsKnown, RankedRanks
<1>2. Len(f) = Cardinality(Firsts(w)) /\ Len(f) \in Nat /\ \A n \in 1..Len(f) : f[n] \in Firsts(w)
  <2>1. f \in Seq(Firsts(w)) /\ Len(f) = Cardinality(Firsts(w))
    BY <1>1 DEF Ranks
  <2> HIDE DEF f
  <2> QED BY <2>1
<1>3. R = [n \in 1..Len(f) |-> RowOfId(w, w[f[n]].id)]
  BY <1>2 DEF LastWriter
<1>4. \A id : RowOfId(w, id).id = id
  BY DEF RowOfId, Row
<1> HIDE DEF f, R
<1>5. Len(R) = Len(f)
  BY <1>2, <1>3
<1>6. \A n \in 1..Len(R) : R[n].id = w[f[n]].id
  BY <1>2, <1>3, <1>4, <1>5
<1>7. \A n \in 1..Len(R) : Known(w, w[f[n]].id)
  BY <1>2, <1>5, FirstIsKnown
<1> QED BY <1>1, <1>2, <1>3, <1>5, <1>6, <1>7 DEF f, R

LEMMA PositionIs ==
  ASSUME NEW rows, NEW id, Len(rows) \in Nat
  PROVE  /\ (\A n \in 1..Len(rows) : rows[n].id # id) => Position(rows, id) = 0
         /\ \A n \in 1..Len(rows) :
              rows[n].id = id /\ (\A k \in 1..Len(rows) : rows[k].id = id => k = n)
                => Position(rows, id) = n
<1> DEFINE I == { i \in 1..Len(rows) : rows[i].id = id }
<1>1. Position(rows, id) = IF I # {} THEN Min(I) ELSE 0
  BY DEF Position, SelectInSeq
<1>2. \A n \in Nat : Min({n}) = n
  BY DEF Min
<1>3. ASSUME NEW n \in 1..Len(rows), rows[n].id = id,
             \A k \in 1..Len(rows) : rows[k].id = id => k = n
      PROVE  I = {n}
  BY <1>3
<1>4. (\A n \in 1..Len(rows) : rows[n].id # id) => I = {}
  OBVIOUS
<1> HIDE DEF I
<1> QED BY <1>1, <1>2, <1>3, <1>4

(* Where the row of an id is.                                              *)
LEMMA PlaceOfId ==
  ASSUME NEW w, IsSeq(w), NEW id
  PROVE  LET R == LastWriter(w).rows IN
         /\ Len(R) \in Nat
         /\ ~Known(w, id) => Position(R, id) = 0
         /\ Known(w, id) => /\ Position(R, id) \in 1..Len(R)
                            /\ R[Position(R, id)] = RowOfId(w, id)
                            /\ \A n \in 1..Len(R) : n # Position(R, id) => R[n].id # id
<1> DEFINE f == Ranked(Firsts(w))
           R == LastWriter(w).rows
<1>1. /\ Ranks(f, Firsts(w)) /\ Len(f) \in Nat
      /\ \A n \in 1..Len(f) : f[n] \in Firsts(w)
      /\ R = [n \in 1..Len(f) |-> RowOfId(w, w[f[n]].id)]
      /\ Len(R) = Len(f)
      /\ \A n \in 1..Len(R) : R[n].id = w[f[n]].id /\ Known(w, w[f[n]].id)
  BY RowsOfReference
<1> HIDE DEF f, R
<1>2. ASSUME ~Known(w, id) PROVE Position(R, id) = 0
  BY <1>1, <1>2, PositionIs
<1>3. ASSUME Known(w, id)
      PROVE  /\ Position(R, id) \in 1..Len(R)
             /\ R[Position(R, id)] = RowOfId(w, id)
             /\ \A n \in 1..Len(R) : n # Position(R, id) => R[n].id # id
  <2>1. PICK i \in Firsts(w) : w[i].id = id
    BY <1>3, FirstIsKnown
  <2>2. PICK n \in 1..Len(f) : f[n] = i
    BY <1>1 DEF Ranks
  <2>3. \A k \in 1..Len(R) : R[k].id = id => k = n
    <3> SUFFICES ASSUME NEW k \in 1..Len(R), R[k].id = id PROVE k = n
      OBVIOUS
    <3>1. k \in 1..Len(f) /\ f[k] \in Firsts(w) /\ w[f[k]].id = w[i].id
      BY <1>1, <2>1
    <3>2. f[k] = i
      BY <2>1, <3>1, FirstIsKnown
    <3> QED BY <1>1, <2>2, <3>1, <3>2 DEF Ranks
  <2>4. n \in 1..Len(R) /\ R[n].id = id /\ R[n] = RowOfId(w, id)
    BY <1>1, <2>1, <2>2
  <2>5. Position(R, id) = n
    BY <1>1, <2>3, <2>4, PositionIs
  <2> QED BY <2>3, <2>4, <2>5
<1> QED BY <1>1, <1>2, <1>3 DEF R

(* What a write does to the reference: the row of its id is replaced in    *)
(* its place or comes last, or there is a warning more.                    *)
LEMMA WriteOnReference ==
  ASSUME NEW w, IsSeq(w), NEW x, x.put \in BOOLEAN
  PROVE  LET v  == Append(w, x)
             R  == LastWriter(w).rows
             at == Position(R, x.id)
         IN  /\ IsSeq(v)
             /\ LastWriter(v).rows =
                  IF at # 0 THEN [R EXCEPT ![at] = RowOfId(v, x.id)]
                  ELSE IF x.put THEN Append(R, RowOfId(v, x.id)) ELSE R
             /\ LastWriter(v).warnings =
                  IF at = 0 /\ ~x.put THEN Append(LastWriter(w).warnings, x.id)
                  ELSE LastWriter(w).warnings
             /\ x.put => RowOfId(v, x.id) = Row(x.id, x.plugin, x.config)
             /\ ~x.put /\ at # 0 => RowOfId(v, x.id) = Row(x.id, R[at].plugin, x.config)
<1> DEFINE v == Append(w, x)
           n == Len(w) + 1
           f == Ranked(Firsts(w))
           g == Ranked(Firsts(v))
           R == LastWriter(w).rows
           U == LastWriter(v).rows
           at == Position(R, x.id)
           new == RowOfId(v, x.id)
<1>1. /\ Firsts(w) \in SUBSET (1..Len(w)) /\ Len(w) \in Nat /\ DOMAIN w = 1..Len(w)
  BY FirstIsKnown
<1>2. /\ IsSeq(v)
      /\ \A i \in 1..Len(w) : v[i] = w[i]
      /\ v[n] = x
      /\ Firsts(v) = Firsts(w) \cup IF x.put /\ ~Known(w, x.id) THEN {n} ELSE {}
      /\ Missing(v) = Missing(w) \cup IF ~x.put /\ ~Known(w, x.id) THEN {n} ELSE {}
      /\ \A id : id # x.id /\ Known(w, id) => RowOfId(v, id) = RowOfId(w, id)
      /\ x.put => RowOfId(v, x.id) = Row(x.id, x.plugin, x.config)
      /\ ~x.put /\ Known(w, x.id) =>
           RowOfId(v, x.id) = Row(x.id, RowOfId(w, x.id).plugin, x.config)
  <2> HIDE DEF f, g, R, U, at, new
  <2> QED BY OneWriteMore
<1> HIDE DEF v
<1>3. /\ Ranks(f, Firsts(w)) /\ Len(f) \in Nat
      /\ \A k \in 1..Len(f) : f[k] \in Firsts(w)
      /\ R = [k \in 1..Len(f) |-> RowOfId(w, w[f[k]].id)]
      /\ Len(R) = Len(f)
      /\ \A k \in 1..Len(R) : R[k].id = w[f[k]].id /\ Known(w, w[f[k]].id)
  BY RowsOfReference
<1>4. U = [k \in 1..Len(g) |-> RowOfId(v, v[g[k]].id)]
  BY <1>2, RowsOfReference
<1>5. /\ ~Known(w, x.id) => at = 0
      /\ Known(w, x.id) => /\ at \in 1..Len(R)
                           /\ \A k \in 1..Len(R) : k # at => R[k].id # x.id
                           /\ R[at] = RowOfId(w, x.id)
  BY PlaceOfId
<1>6. Known(w, x.id) <=> at # 0
  <2> HIDE DEF R, at, f
  <2> QED BY <1>3, <1>5
<1>7. LastWriter(v).warnings =
        IF at = 0 /\ ~x.put THEN Append(LastWriter(w).warnings, x.id) ELSE LastWriter(w).warnings
  <2> DEFINE h == Ranked(Missing(w))
             c == Cardinality(Missing(w))
  <2>1. Missing(w) \in SUBSET (1..Len(w))
    BY <1>1 DEF Missing
  <2>2. Ranks(h, Missing(w))
    BY <1>1, <2>1, RankedRanks
  <2>3. Len(h) \in Nat /\ Len(h) = c /\ \A k \in 1..Len(h) : h[k] \in Missing(w)
    <3>1. h \in Seq(Missing(w)) /\ Len(h) = Cardinality(Missing(w))
      BY <2>2 DEF Ranks
    <3> HIDE DEF h
    <3> QED BY <3>1
  <2>4. LastWriter(w).warnings = [k \in 1..c |-> w[h[k]].id]
    BY DEF LastWriter
  <2>5. CASE at = 0 /\ ~x.put
    <3>1. Missing(v) = Missing(w) \cup {n}
      BY <1>2, <1>6, <2>5
    <3>2. Ranked(Missing(v)) = Append(h, n) /\ Cardinality(Missing(v)) = c + 1
      BY <1>1, <2>1, <2>2, <3>1, RankedGrows
    <3>3. LastWriter(v).warnings = [k \in 1..(c + 1) |-> v[Append(h, n)[k]].id]
      BY <3>2 DEF LastWriter
    <3>4. h \in Seq(Missing(w))
      BY <2>2 DEF Ranks
    <3> HIDE DEF h, c
    <3>5. c \in Nat
      BY <2>3
    <3>6. Append(h, n)[c + 1] = n /\ \A k \in 1..c : Append(h, n)[k] = h[k]
      BY <2>3, <3>4
    <3>7. \A k \in 1..c : v[Append(h, n)[k]].id = w[h[k]].id
      BY <1>2, <2>1, <2>3, <3>6
    <3>8. v[Append(h, n)[c + 1]].id = x.id
      BY <1>2, <3>6
    <3>9. LastWriter(v).warnings = [k \in 1..(c + 1) |-> IF k = c + 1 THEN x.id ELSE w[h[k]].id]
      <4>1. \A k \in 1..(c + 1) : k = c + 1 \/ k \in 1..c
        BY <3>5
      <4> QED BY <3>3, <3>7, <3>8, <4>1
    <3>10. Append(LastWriter(w).warnings, x.id)
             = [k \in 1..(c + 1) |-> IF k = c + 1 THEN x.id ELSE w[h[k]].id]
      <4> DEFINE W == [k \in 1..c |-> w[h[k]].id]
      <4>1. Len(W) = c
        BY <3>5
      <4>2. \A k \in 1..c : W[k] = w[h[k]].id
        OBVIOUS
      <4>3. W = LastWriter(w).warnings
        BY <2>4
      <4> HIDE DEF W
      <4>4. Append(W, x.id) = [k \in 1..(c + 1) |-> IF k = c + 1 THEN x.id ELSE W[k]]
        BY <4>1
      <4>5. \A k \in 1..(c + 1) : k # c + 1 => W[k] = w[h[k]].id
        BY <3>5, <4>2
      <4> QED BY <4>3, <4>4, <4>5
    <3> QED BY <2>5, <3>9, <3>10
  <2>6. CASE ~(at = 0 /\ ~x.put)
    <3>1. Missing(v) = Missing(w)
      BY <1>2, <1>6, <2>6
    <3>2. LastWriter(v).warnings = [k \in 1..c |-> v[h[k]].id]
      BY <3>1 DEF LastWriter
    <3> HIDE DEF h, c
    <3>3. \A k \in 1..c : v[h[k]].id = w[h[k]].id
      BY <1>2, <2>1, <2>3
    <3> QED BY <2>4, <2>6, <3>2, <3>3
  <2> QED BY <2>5, <2>6
<1> HIDE DEF R, U
<1>8. ASSUME NEW k \in 1..Len(f) PROVE v[f[k]] = w[f[k]]
  BY <1>1, <1>2, <1>3
<1>9. U = IF at # 0 THEN [R EXCEPT ![at] = new] ELSE IF x.put THEN Append(R, new) ELSE R
  <2>1. CASE at # 0
    <3>1. Known(w, x.id) /\ at \in 1..Len(R)
      BY <1>5, <1>6, <2>1
    <3>2. Firsts(v) = Firsts(w) /\ g = f
      BY <1>2, <3>1
    <3> HIDE DEF f, g, at, new
    <3>3. \A k \in 1..Len(f) : RowOfId(v, v[g[k]].id) = IF k = at THEN new ELSE R[k]
      <4> SUFFICES ASSUME NEW k \in 1..Len(f)
                   PROVE  RowOfId(v, v[g[k]].id) = IF k = at THEN new ELSE R[k]
        OBVIOUS
      <4>1. v[g[k]] = w[f[k]]
        BY <1>8, <3>2
      <4>2. CASE k = at
        <5>1. R[at].id = x.id
          BY <1>5, <3>1 DEF RowOfId, Row
        <5> QED BY <1>3, <4>1, <4>2, <5>1 DEF new
      <4>3. CASE k # at
        <5>1. R[k].id # x.id
          BY <1>3, <1>5, <3>1, <4>3
        <5> QED BY <1>2, <1>3, <4>1, <4>3, <5>1
      <4> QED BY <4>2, <4>3
    <3>4. [R EXCEPT ![at] = new] = [k \in 1..Len(f) |-> IF k = at THEN new ELSE R[k]]
      BY <1>3
    <3> QED BY <1>4, <2>1, <3>2, <3>3, <3>4
  <2>2. CASE at = 0 /\ x.put
    <3>1. Firsts(v) = Firsts(w) \cup {n} /\ ~Known(w, x.id)
      BY <1>2, <1>6, <2>2
    <3>2. g = Append(f, n)
      BY <1>1, <1>3, <3>1, RankedGrows
    <3>3. f \in Seq(Firsts(w))
      BY <1>3 DEF Ranks
    <3> HIDE DEF f, g
    <3>4. Len(g) = Len(f) + 1 /\ g[Len(f) + 1] = n /\ \A k \in 1..Len(f) : g[k] = f[k]
      BY <1>3, <3>2, <3>3
    <3>5. \A k \in 1..Len(f) : RowOfId(v, v[g[k]].id) = R[k]
      <4> SUFFICES ASSUME NEW k \in 1..Len(f) PROVE RowOfId(v, v[g[k]].id) = R[k]
        OBVIOUS
      <4>1. v[g[k]] = w[f[k]]
        BY <1>8, <3>4
      <4>2. w[f[k]].id # x.id /\ Known(w, w[f[k]].id)
        BY <1>3, <3>1
      <4> QED BY <1>2, <1>3, <4>1, <4>2
    <3>6. RowOfId(v, v[g[Len(f) + 1]].id) = new
      BY <1>2, <3>4
    <3> HIDE DEF new
    <3>7. U = [k \in 1..(Len(f) + 1) |-> IF k = Len(f) + 1 THEN new ELSE R[k]]
      <4>1. \A k \in 1..(Len(f) + 1) : k = Len(f) + 1 \/ k \in 1..Len(f)
        BY <1>3
      <4> QED BY <1>4, <3>4, <3>5, <3>6, <4>1
    <3>8. Append(R, new) = [k \in 1..(Len(f) + 1) |-> IF k = Len(f) + 1 THEN new ELSE R[k]]
      BY <1>3
    <3> QED BY <2>2, <3>7, <3>8
  <2>3. CASE at = 0 /\ ~x.put
    <3>1. Firsts(v) = Firsts(w) /\ g = f
      BY <1>2, <2>3
    <3>2. ~Known(w, x.id)
      BY <1>6, <2>3
    <3> HIDE DEF f, g
    <3>3. \A k \in 1..Len(f) : RowOfId(v, v[g[k]].id) = R[k]
      <4> SUFFICES ASSUME NEW k \in 1..Len(f) PROVE RowOfId(v, v[g[k]].id) = R[k]
        OBVIOUS
      <4>1. v[g[k]] = w[f[k]]
        BY <1>8, <3>1
      <4>2. w[f[k]].id # x.id /\ Known(w, w[f[k]].id)
        BY <1>3, <3>2
      <4> QED BY <1>2, <1>3, <4>1, <4>2
    <3>4. U = [k \in 1..Len(f) |-> R[k]]
      BY <1>4, <3>1, <3>3
    <3>5. R = [k \in 1..Len(f) |-> R[k]]
      BY <1>3
    <3> QED BY <2>3, <3>4, <3>5
  <2> QED BY <2>1, <2>2, <2>3
<1>10. ~x.put /\ at # 0 => new = Row(x.id, R[at].plugin, x.config)
  BY <1>2, <1>5, <1>6
<1> QED BY <1>2, <1>7, <1>9, <1>10 DEF v, R, U

LEMMA PutIsAWrite ==
  ASSUME NEW w, IsSeq(w), NEW row, IsRow(row)
  PROVE  /\ IsSeq(Append(w, PutWrite(row)))
         /\ LastWriter(Append(w, PutWrite(row))) =
              [rows |-> PutRow(LastWriter(w).rows, row), warnings |-> LastWriter(w).warnings]
<1> DEFINE x == PutWrite(row)
           v == Append(w, x)
<1>1. /\ x.put = TRUE /\ x.id = row.id /\ x.plugin = row.plugin /\ x.config = row.config
      /\ Row(x.id, x.plugin, x.config) = row
  BY DEF PutWrite, IsRow
<1>2. x.put \in BOOLEAN
  BY <1>1
<1> HIDE DEF x
<1> DEFINE R == LastWriter(w).rows
           at == Position(R, x.id)
<1>3. /\ IsSeq(v)
      /\ LastWriter(v).rows =
           IF at # 0 THEN [R EXCEPT ![at] = RowOfId(v, x.id)]
           ELSE IF x.put THEN Append(R, RowOfId(v, x.id)) ELSE R
      /\ LastWriter(v).warnings =
           IF at = 0 /\ ~x.put THEN Append(LastWriter(w).warnings, x.id) ELSE LastWriter(w).warnings
      /\ x.put => RowOfId(v, x.id) = Row(x.id, x.plugin, x.config)
  BY <1>2, WriteOnReference
<1> HIDE DEF v, R
<1>4. LastWriter(v).rows = PutRow(R, row)
  BY <1>1, <1>3 DEF PutRow
<1>5. LastWriter(v) = [rows |-> LastWriter(v).rows, warnings |-> LastWriter(v).warnings]
  BY DEF LastWriter
<1>6. IsSeq(v) /\ LastWriter(v) = [rows |-> PutRow(R, row), warnings |-> LastWriter(w).warnings]
  BY <1>1, <1>3, <1>5, <1>4
<1> QED BY <1>6 DEF v, x, R

LEMMA OpIsAWrite ==
  ASSUME NEW w, IsSeq(w), NEW o, IsOp(o)
  PROVE  /\ IsSeq(Append(w, OpWrite(o)))
         /\ LastWriter(Append(w, OpWrite(o))) = ApplyOp(LastWriter(w), o)
<1> DEFINE L == LastWriter(w)
<1>1. L = [rows |-> L.rows, warnings |-> L.warnings]
  BY DEF LastWriter
<1>2. CASE o.op = "set"
  <2> DEFINE x == OpWrite(o)
             v == Append(w, x)
             at == Position(L.rows, o.id)
  <2>1. x.put = FALSE /\ x.id = o.id /\ x.config = o.config
    BY <1>2 DEF OpWrite
  <2>2. x.put \in BOOLEAN
    BY <2>1
  <2>3. ApplyOp(L, o) = SetConfig(L, o)
    BY <1>2 DEF ApplyOp
  <2> HIDE DEF x
  <2>4. /\ IsSeq(v)
        /\ LastWriter(v).rows = IF at # 0 THEN [L.rows EXCEPT ![at] = RowOfId(v, x.id)] ELSE L.rows
        /\ LastWriter(v).warnings = IF at = 0 THEN Append(L.warnings, o.id) ELSE L.warnings
        /\ at # 0 => RowOfId(v, x.id) = Row(o.id, L.rows[at].plugin, o.config)
    BY <2>1, <2>2, WriteOnReference
  <2> HIDE DEF v
  <2>5. LastWriter(v) = [rows |-> LastWriter(v).rows, warnings |-> LastWriter(v).warnings]
    BY DEF LastWriter
  <2>6. CASE at = 0
    <3>1. SetConfig(L, o) = [rows |-> L.rows, warnings |-> Append(L.warnings, o.id)]
      <4> HIDE DEF L
      <4> QED BY <1>1, <2>6 DEF SetConfig
    <3> QED BY <2>3, <2>4, <2>5, <2>6, <3>1 DEF v, x
  <2>7. CASE at # 0
    <3>1. SetConfig(L, o) = [rows |-> [L.rows EXCEPT ![at].config = o.config], warnings |-> L.warnings]
      <4> HIDE DEF L
      <4> QED BY <1>1, <2>7 DEF SetConfig
    <3>2. at \in 1..Len(L.rows) /\ L.rows[at] = RowOfId(w, o.id)
      <4>1. Known(w, o.id)
        BY <2>7, PlaceOfId
      <4> QED BY <4>1, PlaceOfId
    <3>3. L.rows[at] = Row(o.id, L.rows[at].plugin, L.rows[at].config)
      BY <3>2 DEF RowOfId, Row
    <3>4. [L.rows[at] EXCEPT !.config = o.config] = Row(o.id, L.rows[at].plugin, o.config)
      <4> HIDE DEF L, at
      <4> QED BY <3>3 DEF Row
    <3>5. [L.rows EXCEPT ![at].config = o.config] = [L.rows EXCEPT ![at] = Row(o.id, L.rows[at].plugin, o.config)]
      <4> HIDE DEF L, at
      <4> QED BY <3>4
    <3> QED BY <2>3, <2>4, <2>5, <2>7, <3>1, <3>5 DEF v, x
  <2> QED BY <2>6, <2>7
<1>3. CASE o.op # "set"
  <2>1. o.op = "insert" /\ IsRow(o.row)
    BY <1>3 DEF IsOp, InsertOp
  <2>2. OpWrite(o) = PutWrite(o.row)
    BY <2>1 DEF OpWrite
  <2>3. ApplyOp(L, o) = [rows |-> PutRow(L.rows, o.row), warnings |-> L.warnings]
    <3> HIDE DEF L
    <3> QED BY <1>1, <1>3 DEF ApplyOp
  <2> QED BY <2>1, <2>2, <2>3, PutIsAWrite
<1> QED BY <1>2, <1>3

----------------------------------------------------------------------------
(* Rows, operations and layers as writes                                   *)

PutWrites(rows) == [i \in DOMAIN rows |-> PutWrite(rows[i])]
OpWrites(ops)   == [i \in DOMAIN ops |-> OpWrite(ops[i])]

LEMMA IsSeqOf == ASSUME NEW S, NEW s \in Seq(S) PROVE IsSeq(s)
<1>1. DOMAIN s = 1..Len(s) /\ Len(s) \in Nat
  OBVIOUS
<1>2. \A i \in 1..Len(s) : s[i] \in ToSet(s)
  BY <1>1 DEF ToSet
<1> QED BY <1>1, <1>2 DEF IsSeq

LEMMA ConcatAppend ==
  ASSUME NEW w, IsSeq(w), NEW u, IsSeq(u), NEW y
  PROVE  w \o Append(u, y) = Append(w \o u, y) /\ IsSeq(w \o u)
<1> DEFINE S == ToSet(w) \cup ToSet(u) \cup {y}
<1>1. w \in Seq(S) /\ u \in Seq(S) /\ y \in S
  BY DEF IsSeq
<1> HIDE DEF S
<1>2. w \o u \in Seq(S) /\ w \o Append(u, y) = Append(w \o u, y)
  BY <1>1
<1> QED BY <1>2, IsSeqOf

LEMMA AppendIs ==
  ASSUME NEW F, NEW u, NEW n \in Nat, u = [i \in 1..n |-> F[i]], NEW y
  PROVE  Append(u, y) = [i \in 1..(n + 1) |-> IF i = n + 1 THEN y ELSE u[i]]
OBVIOUS

LEMMA WritesGrow ==
  ASSUME NEW S, NEW s \in Seq(S), NEW x \in S
  PROVE  /\ IsSeq(PutWrites(s)) /\ PutWrites(Append(s, x)) = Append(PutWrites(s), PutWrite(x))
         /\ IsSeq(OpWrites(s)) /\ OpWrites(Append(s, x)) = Append(OpWrites(s), OpWrite(x))
<1> DEFINE n == Len(s)
           t == Append(s, x)
<1>1. /\ n \in Nat /\ DOMAIN s = 1..n /\ DOMAIN t = 1..(n + 1)
      /\ t[n + 1] = x /\ \A i \in 1..n : t[i] = s[i]
  OBVIOUS
<1>2. \A i \in 1..(n + 1) : i = n + 1 \/ i \in 1..n
  BY <1>1
<1> HIDE DEF n, t
<1>3. IsSeq(PutWrites(s)) /\ IsSeq(OpWrites(s))
  <2>1. PutWrites(s) \in Seq({ PutWrite(y) : y \in S })
    BY <1>1 DEF PutWrites
  <2>2. OpWrites(s) \in Seq({ OpWrite(y) : y \in S })
    BY <1>1 DEF OpWrites
  <2> QED BY <2>1, <2>2, IsSeqOf
<1>4. PutWrites(t) = Append(PutWrites(s), PutWrite(x))
  <2> DEFINE u == PutWrites(s)
  <2>1. Len(u) = n /\ \A i \in 1..n : u[i] = PutWrite(s[i])
    BY <1>1 DEF PutWrites
  <2>2. u = [i \in 1..n |-> u[i]]
    BY <1>1 DEF PutWrites
  <2> HIDE DEF u
  <2> DEFINE y == PutWrite(x)
  <2> HIDE DEF y
  <2>3. Append(u, y) = [i \in 1..(n + 1) |-> IF i = n + 1 THEN y ELSE u[i]]
    BY <1>1, <2>2, AppendIs
  <2>4. PutWrites(t) = [i \in 1..(n + 1) |-> PutWrite(t[i])]
    BY <1>1 DEF PutWrites
  <2>5. \A i \in 1..(n + 1) : PutWrite(t[i]) = IF i = n + 1 THEN y ELSE u[i]
    BY <1>1, <1>2, <2>1 DEF y
  <2> QED BY <2>3, <2>4, <2>5 DEF u, y
<1>5. OpWrites(t) = Append(OpWrites(s), OpWrite(x))
  <2> DEFINE u == OpWrites(s)
  <2>1. Len(u) = n /\ \A i \in 1..n : u[i] = OpWrite(s[i])
    BY <1>1 DEF OpWrites
  <2>2. u = [i \in 1..n |-> u[i]]
    BY <1>1 DEF OpWrites
  <2> HIDE DEF u
  <2> DEFINE y == OpWrite(x)
  <2> HIDE DEF y
  <2>3. Append(u, y) = [i \in 1..(n + 1) |-> IF i = n + 1 THEN y ELSE u[i]]
    BY <1>1, <2>2, AppendIs
  <2>4. OpWrites(t) = [i \in 1..(n + 1) |-> OpWrite(t[i])]
    BY <1>1 DEF OpWrites
  <2>5. \A i \in 1..(n + 1) : OpWrite(t[i]) = IF i = n + 1 THEN y ELSE u[i]
    BY <1>1, <1>2, <2>1 DEF y
  <2> QED BY <2>3, <2>4, <2>5 DEF u, y
<1> QED BY <1>3, <1>4, <1>5 DEF t

LEMMA NoWrites == ASSUME NEW w, IsSeq(w) PROVE w \o PutWrites(<<>>) = w /\ w \o OpWrites(<<>>) = w
<1>1. PutWrites(<<>>) = <<>> /\ OpWrites(<<>>) = <<>>
  BY DEF PutWrites, OpWrites
<1>2. w \o <<>> = w
  BY DEF IsSeq
<1> QED BY <1>1, <1>2

LEMMA RowsAreWrites ==
  ASSUME NEW w, IsSeq(w), NEW rows, IsRows(rows)
  PROVE  /\ IsSeq(w \o PutWrites(rows))
         /\ LastWriter(w \o PutWrites(rows)) =
              [rows |-> FoldLeft(PutRow, LastWriter(w).rows, rows), warnings |-> LastWriter(w).warnings]
<1> DEFINE S == ToSet(rows)
           L == LastWriter(w)
           P(s) == /\ IsSeq(w \o PutWrites(s))
                   /\ LastWriter(w \o PutWrites(s)) =
                        [rows |-> PutFold!Folded(L.rows, s), warnings |-> L.warnings]
           T == { s \in Seq(S) : P(s) }
<1>1. rows \in Seq(S) /\ \A r \in S : IsRow(r)
  BY DEF IsRows, IsSeq, ToSet
<1> HIDE DEF S
<1>2. << >> \in T
  <2>1. L = [rows |-> L.rows, warnings |-> L.warnings]
    BY DEF LastWriter
  <2>2. PutFold!Folded(L.rows, <<>>) = L.rows
    BY PutFold!FoldOfEmpty
  <2>3. w \o PutWrites(<<>>) = w
    BY NoWrites
  <2> HIDE DEF L
  <2>4. P(<<>>)
    BY <2>1, <2>2, <2>3 DEF L
  <2> QED BY <2>4
<1>3. ASSUME NEW s \in Seq(S), NEW x \in S, s \in T PROVE Append(s, x) \in T
  <2> DEFINE u == w \o PutWrites(s)
  <2>1. IsSeq(u) /\ LastWriter(u) = [rows |-> PutFold!Folded(L.rows, s), warnings |-> L.warnings]
    BY <1>3
  <2>2. w \o PutWrites(Append(s, x)) = Append(u, PutWrite(x))
    <3>1. IsSeq(PutWrites(s)) /\ PutWrites(Append(s, x)) = Append(PutWrites(s), PutWrite(x))
      BY WritesGrow
    <3> QED BY <3>1, ConcatAppend
  <2>3. PutFold!Folded(L.rows, Append(s, x)) = PutRow(PutFold!Folded(L.rows, s), x)
    BY PutFold!FoldOfAppend
  <2> HIDE DEF u, L
  <2>4. /\ IsSeq(Append(u, PutWrite(x)))
        /\ LastWriter(Append(u, PutWrite(x))) =
             [rows |-> PutRow(LastWriter(u).rows, x), warnings |-> LastWriter(u).warnings]
    BY <1>1, <2>1, PutIsAWrite
  <2>5. LastWriter(u).rows = PutFold!Folded(L.rows, s) /\ LastWriter(u).warnings = L.warnings
    BY <2>1
  <2>6. P(Append(s, x))
    BY <2>2, <2>3, <2>4, <2>5 DEF u
  <2> QED BY <2>6
<1> HIDE DEF T
<1>4. Seq(S) \subseteq T
  BY <1>2, <1>3, PutFold!SequenceInduction
<1>5. P(rows)
  BY <1>1, <1>4 DEF T
<1> QED BY <1>5, PutFoldIs

LEMMA OpsAreWrites ==
  ASSUME NEW w, IsSeq(w), NEW ops, IsPatch(ops)
  PROVE  /\ IsSeq(w \o OpWrites(ops))
         /\ LastWriter(w \o OpWrites(ops)) = FoldLeft(ApplyOp, LastWriter(w), ops)
<1> DEFINE S == ToSet(ops)
           L == LastWriter(w)
           P(s) == /\ IsSeq(w \o OpWrites(s))
                   /\ LastWriter(w \o OpWrites(s)) = OpFold!Folded(L, s)
           T == { s \in Seq(S) : P(s) }
<1>1. ops \in Seq(S) /\ \A o \in S : IsOp(o)
  BY DEF IsPatch, IsSeq, ToSet
<1> HIDE DEF S
<1>2. << >> \in T
  <2>1. OpFold!Folded(L, <<>>) = L
    BY OpFold!FoldOfEmpty
  <2>2. w \o OpWrites(<<>>) = w
    BY NoWrites
  <2>3. P(<<>>)
    BY <2>1, <2>2
  <2> QED BY <2>3
<1>3. ASSUME NEW s \in Seq(S), NEW x \in S, s \in T PROVE Append(s, x) \in T
  <2> DEFINE u == w \o OpWrites(s)
  <2>1. IsSeq(u) /\ LastWriter(u) = OpFold!Folded(L, s)
    BY <1>3
  <2>2. w \o OpWrites(Append(s, x)) = Append(u, OpWrite(x))
    <3>1. IsSeq(OpWrites(s)) /\ OpWrites(Append(s, x)) = Append(OpWrites(s), OpWrite(x))
      BY WritesGrow
    <3> QED BY <3>1, ConcatAppend
  <2>3. OpFold!Folded(L, Append(s, x)) = ApplyOp(OpFold!Folded(L, s), x)
    BY OpFold!FoldOfAppend
  <2> HIDE DEF u, L
  <2>4. /\ IsSeq(Append(u, OpWrite(x)))
        /\ LastWriter(Append(u, OpWrite(x))) = ApplyOp(LastWriter(u), x)
    BY <1>1, <2>1, OpIsAWrite
  <2>5. P(Append(s, x))
    BY <2>1, <2>2, <2>3, <2>4 DEF u
  <2> QED BY <2>5
<1> HIDE DEF T
<1>4. Seq(S) \subseteq T
  BY <1>2, <1>3, PutFold!SequenceInduction
<1>5. P(ops)
  BY <1>1, <1>4 DEF T
<1> QED BY <1>5, OpFoldIs

IsLayer(l)   == l = Layer(l.name, l.rows, l.patch) /\ IsRows(l.rows) /\ IsPatch(l.patch)
IsLayers(ls) == IsSeq(ls) /\ \A i \in DOMAIN ls : IsLayer(ls[i])

LEMMA LayerIsWrites ==
  ASSUME NEW w, IsSeq(w), NEW l, IsLayer(l)
  PROVE  /\ IsSeq(AddWrites(w, l))
         /\ LastWriter(AddWrites(w, l)) = ApplyLayer(LastWriter(w), l)
<1> DEFINE L == LastWriter(w)
           u == w \o PutWrites(l.rows)
<1>1. AddWrites(w, l) = u \o OpWrites(l.patch)
  BY DEF AddWrites, PutWrites, OpWrites
<1>2. /\ IsSeq(u)
      /\ LastWriter(u) = [rows |-> FoldLeft(PutRow, L.rows, l.rows), warnings |-> L.warnings]
  BY RowsAreWrites DEF IsLayer
<1> HIDE DEF u
<1>3. IsSeq(u \o OpWrites(l.patch)) /\ LastWriter(u \o OpWrites(l.patch)) = FoldLeft(ApplyOp, LastWriter(u), l.patch)
  BY <1>2, OpsAreWrites DEF IsLayer
<1>4. L = [rows |-> L.rows, warnings |-> L.warnings]
  BY DEF LastWriter
<1> HIDE DEF L
<1>5. [L EXCEPT !.rows = FoldLeft(PutRow, @, l.rows)] = LastWriter(u)
  BY <1>2, <1>4
<1>6. ApplyLayer(L, l) = FoldLeft(ApplyOp, LastWriter(u), l.patch)
  BY <1>5 DEF ApplyLayer
<1> QED BY <1>1, <1>3, <1>6 DEF L

LEMMA LayersAreWrites ==
  ASSUME NEW ls, IsLayers(ls)
  PROVE  /\ IsSeq(WritesOf(ls))
         /\ LastWriter(WritesOf(ls)) = FoldLeft(ApplyLayer, Nothing, ls)
<1> DEFINE S == ToSet(ls)
           P(s) == /\ IsSeq(WriteFold!Folded(<<>>, s))
                   /\ LastWriter(WriteFold!Folded(<<>>, s)) = LayerFold!Folded(Nothing, s)
           T == { s \in Seq(S) : P(s) }
<1>1. ls \in Seq(S) /\ \A l \in S : IsLayer(l)
  BY DEF IsLayers, IsSeq, ToSet
<1> HIDE DEF S
<1>2. << >> \in T
  <2>1. LayerFold!Folded(Nothing, <<>>) = Nothing /\ WriteFold!Folded(<<>>, <<>>) = <<>>
    BY LayerFold!FoldOfEmpty, WriteFold!FoldOfEmpty
  <2>2. LastWriter(<<>>) = Nothing
    <3>1. Firsts(<<>>) = {} /\ Missing(<<>>) = {}
      BY DEF Firsts, Missing
    <3>2. Cardinality({}) = 0
      BY FS_EmptySet
    <3> DEFINE R == LastWriter(<<>>).rows
               W == LastWriter(<<>>).warnings
    <3>3. R = <<>>
      <4>1. R = [n \in 1..0 |-> R[n]]
        BY <3>1, <3>2 DEF LastWriter
      <4> HIDE DEF R
      <4> QED BY <4>1
    <3>4. W = <<>>
      <4>1. W = [n \in 1..0 |-> W[n]]
        BY <3>1, <3>2 DEF LastWriter
      <4> HIDE DEF W
      <4> QED BY <4>1
    <3>5. LastWriter(<<>>) = [rows |-> LastWriter(<<>>).rows, warnings |-> LastWriter(<<>>).warnings]
      BY DEF LastWriter
    <3> QED BY <3>3, <3>4, <3>5 DEF Nothing
  <2>3. IsSeq(<<>>)
    BY DEF IsSeq
  <2>4. P(<<>>)
    BY <2>1, <2>2, <2>3
  <2> QED BY <2>4
<1>3. ASSUME NEW s \in Seq(S), NEW x \in S, s \in T PROVE Append(s, x) \in T
  <2>1. P(s)
    BY <1>3
  <2>2. LayerFold!Folded(Nothing, Append(s, x)) = ApplyLayer(LayerFold!Folded(Nothing, s), x)
    BY LayerFold!FoldOfAppend
  <2>3. WriteFold!Folded(<<>>, Append(s, x)) = AddWrites(WriteFold!Folded(<<>>, s), x)
    BY WriteFold!FoldOfAppend
  <2>4. P(Append(s, x))
    BY <1>1, <2>1, <2>2, <2>3, LayerIsWrites
  <2> QED BY <2>4
<1> HIDE DEF T
<1>4. Seq(S) \subseteq T
  BY <1>2, <1>3, PutFold!SequenceInduction
<1>5. P(ls)
  BY <1>1, <1>4 DEF T
<1> QED BY <1>5, LayerFoldIs, WriteFoldIs

----------------------------------------------------------------------------
(* The layers of a composition, and of its reference                       *)

CollectFold == INSTANCE FoldFacts WITH Op <- Collect
KeepFold    == INSTANCE FoldFacts WITH Op <- KeepLayer

LEMMA CollectFoldIs == \A b, s : CollectFold!Folded(b, s) = FoldLeft(Collect, b, s)
BY DEF CollectFold!Folded, CollectFold!FoldLeft, CollectFold!MapThenFoldSet, CollectFold!Max, FoldLeft, MapThenFoldSet, Max

LEMMA KeepFoldIs == \A b, s : KeepFold!Folded(b, s) = FoldLeft(KeepLayer, b, s)
BY DEF KeepFold!Folded, KeepFold!FoldLeft, KeepFold!MapThenFoldSet, KeepFold!Max, FoldLeft, MapThenFoldSet, Max

LEMMA OkIs == \A v : Ok(v).val = v /\ IsOk(Ok(v))
BY DEF Ok, IsOk

(* Collected without an error, the values of every result in their order.  *)
LEMMA CollectIs ==
  ASSUME NEW S, NEW rs \in Seq(S), IsOk(FoldLeft(Collect, Ok(<<>>), rs))
  PROVE  /\ FoldLeft(Collect, Ok(<<>>), rs).val = [i \in DOMAIN rs |-> rs[i].val]
         /\ \A i \in DOMAIN rs : IsOk(rs[i])
<1> DEFINE F(s) == CollectFold!Folded(Ok(<<>>), s)
           P(s) == IsOk(F(s)) => F(s) = Ok([i \in 1..Len(s) |-> s[i].val]) /\ \A i \in 1..Len(s) : IsOk(s[i])
           T == { s \in Seq(S) : P(s) }
<1>1. << >> \in T
  <2>1. F(<<>>) = Ok(<<>>)
    BY CollectFold!FoldOfEmpty
  <2>2. [i \in 1..Len(<<>>) |-> <<>>[i].val] = <<>>
    OBVIOUS
  <2>3. P(<<>>)
    BY <2>1, <2>2
  <2> QED BY <2>3
<1>2. ASSUME NEW s \in Seq(S), NEW x \in S, s \in T PROVE Append(s, x) \in T
  <2> DEFINE t == Append(s, x)
             n == Len(s)
  <2>1. F(t) = Collect(F(s), x)
    BY CollectFold!FoldOfAppend
  <2>2. P(s)
    BY <1>2
  <2>3. /\ n \in Nat /\ Len(t) = n + 1 /\ t[n + 1] = x /\ \A i \in 1..n : t[i] = s[i]
        /\ t \in Seq(S)
    OBVIOUS
  <2> HIDE DEF F, t, n
  <2>4. ASSUME IsOk(F(t))
        PROVE  F(t) = Ok([i \in 1..Len(t) |-> t[i].val]) /\ \A i \in 1..Len(t) : IsOk(t[i])
    <3>1. IsOk(F(s))
      BY <2>1, <2>4 DEF Collect, Then
    <3>2. F(s) = Ok([i \in 1..n |-> s[i].val]) /\ \A i \in 1..n : IsOk(s[i])
      BY <2>2, <3>1 DEF n
    <3> DEFINE u == [i \in 1..n |-> s[i].val]
    <3>3. F(s).val = u
      <4>1. F(s) = Ok(u)
        BY <3>2
      <4> HIDE DEF u
      <4> QED BY <4>1, OkIs
    <3>4. Collect(F(s), x) = IF IsOk(x) THEN Ok(Append(F(s).val, x.val)) ELSE x
      BY <3>1 DEF Collect, Then
    <3>5. IsOk(x)
      BY <2>1, <2>4, <3>4
    <3>6. F(t) = Ok(Append(u, x.val))
      BY <2>1, <3>3, <3>4, <3>5
    <3>7. Append(u, x.val) = [i \in 1..(n + 1) |-> IF i = n + 1 THEN x.val ELSE u[i]]
      <4> DEFINE y == x.val
                 G == u
      <4>1. u = [i \in 1..n |-> G[i]]
        OBVIOUS
      <4> HIDE DEF u, y, G
      <4> QED BY <2>3, <4>1, AppendIs DEF y
    <3>8. \A i \in 1..(n + 1) : i = n + 1 \/ (i \in 1..n /\ i # n + 1)
      BY <2>3
    <3>9. \A i \in 1..(n + 1) : (IF i = n + 1 THEN x.val ELSE u[i]) = t[i].val
      BY <2>3, <3>8
    <3> HIDE DEF u
    <3>10. [i \in 1..(n + 1) |-> IF i = n + 1 THEN x.val ELSE u[i]] = [i \in 1..(n + 1) |-> t[i].val]
      BY <3>9
    <3>11. \A i \in 1..(n + 1) : IsOk(t[i])
      BY <2>3, <3>2, <3>5, <3>8
    <3> QED BY <2>3, <3>6, <3>7, <3>10, <3>11
  <2>5. P(t)
    BY <2>4
  <2> QED BY <2>3, <2>5 DEF t
<1> HIDE DEF T
<1>3. Seq(S) \subseteq T
  BY <1>1, <1>2, PutFold!SequenceInduction
<1>4. P(rs)
  BY <1>3 DEF T
<1>5. F(rs) = FoldLeft(Collect, Ok(<<>>), rs) /\ DOMAIN rs = 1..Len(rs)
  BY CollectFoldIs
<1> DEFINE u == [i \in DOMAIN rs |-> rs[i].val]
<1> HIDE DEF F
<1>6. F(rs) = Ok(u) /\ \A i \in DOMAIN rs : IsOk(rs[i])
  BY <1>4, <1>5
<1> HIDE DEF u
<1>7. F(rs).val = u
  BY <1>6, OkIs
<1> QED BY <1>5, <1>6, <1>7 DEF u

LEMMA SeqByMap ==
  ASSUME NEW s, IsSeq(s), NEW f, DOMAIN f = DOMAIN s, f = [i \in DOMAIN s |-> f[i]]
  PROVE  IsSeq(f)
<1>1. Len(s) \in Nat /\ DOMAIN s = 1..Len(s)
  BY DEF IsSeq
<1>2. f \in Seq({ f[i] : i \in DOMAIN s })
  BY <1>1
<1> QED BY <1>2, IsSeqOf

LEMMA CollectedIs ==
  ASSUME NEW s, IsSeq(s), NEW f, DOMAIN f = DOMAIN s, f = [i \in DOMAIN s |-> f[i]],
         IsOk(FoldLeft(Collect, Ok(<<>>), f))
  PROVE  /\ FoldLeft(Collect, Ok(<<>>), f).val = [i \in DOMAIN s |-> f[i].val]
         /\ \A i \in DOMAIN s : IsOk(f[i])
         /\ IsSeq(FoldLeft(Collect, Ok(<<>>), f).val)
<1> DEFINE v == FoldLeft(Collect, Ok(<<>>), f).val
<1>1. f \in Seq(ToSet(f))
  BY SeqByMap DEF IsSeq
<1>2. v = [i \in DOMAIN f |-> f[i].val] /\ \A i \in DOMAIN f : IsOk(f[i])
  BY <1>1, CollectIs
<1> HIDE DEF v
<1>3. DOMAIN v = DOMAIN s /\ v = [i \in DOMAIN s |-> v[i]]
  BY <1>2
<1>4. IsSeq(v)
  BY <1>3, SeqByMap
<1> QED BY <1>2, <1>4 DEF v

LEMMA MapIsOk ==
  ASSUME NEW s, IsSeq(s)
  PROVE  /\ IsOk(TryMap(FromValue, s)) =>
              /\ TryMap(FromValue, s).val = [i \in DOMAIN s |-> FromValue(s[i]).val]
              /\ \A i \in DOMAIN s : IsOk(FromValue(s[i]))
         /\ IsOk(TryMap(LoadBundle, s)) =>
              /\ TryMap(LoadBundle, s).val = [i \in DOMAIN s |-> LoadBundle(s[i]).val]
              /\ \A i \in DOMAIN s : IsOk(LoadBundle(s[i]))
         /\ IsOk(TryMap(ExpandRow, s)) => IsSeq(TryMap(ExpandRow, s).val)
<1> DEFINE f == [i \in DOMAIN s |-> FromValue(s[i])]
           g == [i \in DOMAIN s |-> LoadBundle(s[i])]
           h == [i \in DOMAIN s |-> ExpandRow(s[i])]
<1>1. /\ TryMap(FromValue, s) = FoldLeft(Collect, Ok(<<>>), f)
      /\ TryMap(LoadBundle, s) = FoldLeft(Collect, Ok(<<>>), g)
      /\ TryMap(ExpandRow, s) = FoldLeft(Collect, Ok(<<>>), h)
  BY DEF TryMap
<1>2. /\ DOMAIN f = DOMAIN s /\ f = [i \in DOMAIN s |-> f[i]]
      /\ DOMAIN g = DOMAIN s /\ g = [i \in DOMAIN s |-> g[i]]
      /\ DOMAIN h = DOMAIN s /\ h = [i \in DOMAIN s |-> h[i]]
  OBVIOUS
<1>3. \A i \in DOMAIN s : f[i] = FromValue(s[i]) /\ g[i] = LoadBundle(s[i])
  OBVIOUS
<1> HIDE DEF f, g, h
<1>4. IsOk(TryMap(FromValue, s)) =>
        /\ TryMap(FromValue, s).val = [i \in DOMAIN s |-> f[i].val]
        /\ \A i \in DOMAIN s : IsOk(f[i])
  BY <1>1, <1>2, CollectedIs
<1>5. IsOk(TryMap(LoadBundle, s)) =>
        /\ TryMap(LoadBundle, s).val = [i \in DOMAIN s |-> g[i].val]
        /\ \A i \in DOMAIN s : IsOk(g[i])
  BY <1>1, <1>2, CollectedIs
<1>6. IsOk(TryMap(ExpandRow, s)) => IsSeq(TryMap(ExpandRow, s).val)
  BY <1>1, <1>2, CollectedIs
<1> QED BY <1>3, <1>4, <1>5, <1>6

LEMMA FailIs ==
  /\ ~IsOk(Fail("bad-tag")) /\ ~IsOk(Fail("bad-patch")) /\ ~IsOk(Fail("io-error"))
  /\ ~IsOk(Fail("bad-profile")) /\ ~IsOk(Fail("unknown-profile"))
  /\ ~IsOk(Fail("bad-bundle")) /\ ~IsOk(Fail("unknown-bundle"))
BY DEF Fail, IsOk

LEMMA RowsAndOps ==
  /\ IsRows(<<>>) /\ IsPatch(<<>>)
  /\ \A r : IsRow(r) => IsRows(<< r >>)
  /\ \A o : IsOp(o) => IsPatch(<< o >>)
  /\ \A m : IsRow(RowOf(m)) /\ IsOp(OpOf(m))
<1>1. IsRows(<<>>) /\ IsPatch(<<>>)
  BY DEF IsRows, IsPatch, IsSeq
<1>2. \A x : IsSeq(<< x >>) /\ DOMAIN << x >> = {1}
  <2> SUFFICES ASSUME NEW x PROVE IsSeq(<< x >>) /\ DOMAIN << x >> = {1}
    OBVIOUS
  <2>1. << x >> \in Seq({x}) /\ DOMAIN << x >> = {1}
    OBVIOUS
  <2> QED BY <2>1, IsSeqOf
<1>3. \A m : IsRow(RowOf(m))
  BY DEF RowOf, Row, IsRow
<1>4. \A m : IsOp(OpOf(m))
  BY <1>3 DEF OpOf, IsOp, SetOp, InsertOp
<1> QED BY <1>1, <1>2, <1>3, <1>4 DEF IsRows, IsPatch

LEMMA FromValueIs ==
  ASSUME NEW doc, IsDocument(doc), IsOk(FromValue(doc))
  PROVE  IsLayer(FromValue(doc).val)
<1>1. \A n, rows, patch : IsRows(rows) /\ IsPatch(patch) => IsLayer(Ok(Layer(n, rows, patch)).val)
  BY DEF IsLayer, Layer, Ok
<1>2. ~RejectsTags(doc)
  BY FailIs DEF FromValue
<1>3. CASE doc.kind = "null"
  <2>1. FromValue(doc) = Ok(Layer("", <<>>, <<>>))
    BY <1>2, <1>3 DEF FromValue
  <2> QED BY <1>1, <2>1, RowsAndOps
<1>4. CASE doc.kind = "sequence"
  <2> DEFINE rows == \A i \in DOMAIN doc.of : DecodesRow(doc.of[i])
             ops  == \A i \in DOMAIN doc.of : DecodesOp(doc.of[i])
             r == [i \in DOMAIN doc.of |-> RowOf(doc.of[i])]
             o == [i \in DOMAIN doc.of |-> OpOf(doc.of[i])]
  <2>1. FromValue(doc) = IF rows = ops THEN Fail("bad-patch")
                         ELSE IF rows THEN Ok(Layer("", r, <<>>)) ELSE Ok(Layer("", <<>>, o))
    BY <1>2, <1>4 DEF FromValue
  <2>2. Len(doc.of) \in Nat /\ DOMAIN doc.of = 1..Len(doc.of)
    BY <1>4 DEF IsDocument, IsSeq
  <2>3. IsRows(r)
    <3>1. r \in Seq({ r[i] : i \in DOMAIN doc.of })
      BY <2>2
    <3>2. DOMAIN r = DOMAIN doc.of /\ \A i \in DOMAIN doc.of : r[i] = RowOf(doc.of[i])
      OBVIOUS
    <3> HIDE DEF r
    <3> QED BY <3>1, <3>2, IsSeqOf, RowsAndOps DEF IsRows
  <2>4. IsPatch(o)
    <3>1. o \in Seq({ o[i] : i \in DOMAIN doc.of })
      BY <2>2
    <3>2. DOMAIN o = DOMAIN doc.of /\ \A i \in DOMAIN doc.of : o[i] = OpOf(doc.of[i])
      OBVIOUS
    <3> HIDE DEF o
    <3> QED BY <3>1, <3>2, IsSeqOf, RowsAndOps DEF IsPatch
  <2> HIDE DEF rows, ops, r, o
  <2> QED BY <1>1, <2>1, <2>3, <2>4, RowsAndOps, FailIs
<1>5. CASE doc.kind = "mapping"
  <2> DEFINE m == doc.of
  <2>1. FromValue(doc) =
          IF DecodesOp(m) THEN Ok(Layer("", <<>>, << OpOf(m) >>))
          ELSE IF DecodesLayer(m) /\ LayerOf(m).rows \o LayerOf(m).patch # <<>> THEN Ok(LayerOf(m))
          ELSE IF DecodesRow(m) THEN Ok(Layer("", << RowOf(m) >>, <<>>))
          ELSE FieldPatch(m)
    BY <1>2, <1>5 DEF FromValue
  <2>2. DecodesLayer(m) => IsLayer(Ok(LayerOf(m)).val)
    <3>1. DecodesLayer(m) => IsRows(LayerOf(m).rows) /\ IsPatch(LayerOf(m).patch)
      BY <1>5 DEF IsDocument
    <3>2. LayerOf(m) = Layer(LayerOf(m).name, LayerOf(m).rows, LayerOf(m).patch)
      BY DEF LayerOf, Layer
    <3> QED BY <3>1, <3>2, OkIs DEF IsLayer
  <2>3. IsLayer(Ok(Layer("", <<>>, << OpOf(m) >>)).val) /\ IsLayer(Ok(Layer("", << RowOf(m) >>, <<>>)).val)
    BY <1>1, RowsAndOps
  <2>4. IsOk(FieldPatch(m)) => IsLayer(FieldPatch(m).val)
    <3> DEFINE FieldRows(f) == IF f \notin DOMAIN m THEN <<>> ELSE << Row(<<f>>, <<DocPrefix, f>>, m[f]) >>
               rows == FieldRows("system_prompt") \o FieldRows("tools")
               patch == IF "model" \in DOMAIN m THEN << SetOp(ModelRow, m.model) >> ELSE <<>>
    <3>1. IsOk(FieldPatch(m)) => FieldPatch(m) = Ok(Layer("", rows, patch))
      BY FailIs DEF FieldPatch
    <3>2. IsPatch(patch)
      <4>1. IsOp(SetOp(ModelRow, m.model))
        BY DEF IsOp, SetOp
      <4> QED BY <4>1, RowsAndOps
    <3>3. IsRows(rows)
      <4>1. \A f : IsRows(FieldRows(f))
        <5>1. \A f : IsRow(Row(<<f>>, <<DocPrefix, f>>, m[f]))
          BY DEF IsRow, Row
        <5> QED BY <5>1, RowsAndOps
      <4> HIDE DEF FieldRows
      <4>2. \A s, t : IsRows(s) /\ IsRows(t) => IsRows(s \o t)
        <5> SUFFICES ASSUME NEW s, NEW t, IsRows(s), IsRows(t) PROVE IsRows(s \o t)
          OBVIOUS
        <5> DEFINE S == ToSet(s) \cup ToSet(t)
        <5>1. s \in Seq(S) /\ t \in Seq(S) /\ \A x \in S : IsRow(x)
          BY DEF IsRows, IsSeq, ToSet
        <5> HIDE DEF S
        <5>2. s \o t \in Seq(S)
          BY <5>1
        <5>3. \A i \in DOMAIN (s \o t) : (s \o t)[i] \in S
          BY <5>2
        <5> QED BY <5>1, <5>2, <5>3, IsSeqOf DEF IsRows
      <4> QED BY <4>1, <4>2
    <3> HIDE DEF rows, patch
    <3> QED BY <1>1, <3>1, <3>2, <3>3
  <2> HIDE DEF m
  <2> QED BY <2>1, <2>2, <2>3, <2>4
<1>6. CASE doc.kind \notin {"null", "sequence", "mapping"}
  <2>1. FromValue(doc) = Fail("bad-patch")
    BY <1>2, <1>6 DEF FromValue
  <2> QED BY <2>1, FailIs
<1> QED BY <1>3, <1>4, <1>5, <1>6

LEMMA SpecsAre ==
  /\ \A n : IsOk(LoadProfile(n)) => IsSpec(LoadProfile(n).val, n)
  /\ \A n : IsOk(LoadBundle(n)) => IsRows(LoadBundle(n).val)
<1>1. ASSUME NEW n, IsOk(LoadProfile(n)) PROVE IsSpec(LoadProfile(n).val, n)
  <2> DEFINE L == LoadDisk(DiskProfiles, n, "bad-profile")
  <2>1. LoadProfile(n) = IF ~IsOk(L) THEN L
                         ELSE IF L.val # <<>> THEN Ok(L.val[1])
                         ELSE IF n \in DOMAIN BuiltInProfiles THEN Ok(BuiltInProfiles[n])
                         ELSE Fail("unknown-profile")
    BY DEF LoadProfile, LoadLayered, Then
  <2>2. IsOk(L) => \/ L = Ok(<<>>)
                   \/ /\ n \in DOMAIN DiskProfiles /\ DiskProfiles[n].status = "ok"
                      /\ DiskProfiles[n].declares = n /\ L = Ok(<< DiskProfiles[n].doc >>)
    BY ComposeAssumption, FailIs DEF LoadDisk
  <2>3. IsOk(L)
    BY <1>1, <2>1
  <2> HIDE DEF L
  <2>4. CASE L.val # <<>>
    <3>1. L # Ok(<<>>)
      BY <2>4, OkIs
    <3>2. L.val = << DiskProfiles[n].doc >>
      BY <2>2, <2>3, <3>1, OkIs
    <3>3. L.val[1] = DiskProfiles[n].doc
      BY <3>2
    <3>4. IsSpec(DiskProfiles[n].doc, n)
      BY <2>2, <2>3, <3>1, ComposeAssumption
    <3>5. LoadProfile(n) = Ok(DiskProfiles[n].doc)
      BY <2>1, <2>3, <2>4, <3>3
    <3> QED BY <3>4, <3>5, OkIs
  <2>5. CASE L.val = <<>>
    <3>1. n \in DOMAIN BuiltInProfiles /\ LoadProfile(n) = Ok(BuiltInProfiles[n])
      BY <1>1, <2>1, <2>3, <2>5, FailIs
    <3> QED BY <3>1, OkIs, ComposeAssumption
  <2> QED BY <2>4, <2>5
<1>2. ASSUME NEW n, IsOk(LoadBundle(n)) PROVE IsRows(LoadBundle(n).val)
  <2> DEFINE L == LoadDisk(DiskBundles, n, "bad-bundle")
  <2>1. LoadBundle(n) = IF ~IsOk(L) THEN L
                        ELSE IF L.val # <<>> THEN Ok(L.val[1])
                        ELSE IF n \in DOMAIN BuiltInBundles THEN Ok(BuiltInBundles[n])
                        ELSE Fail("unknown-bundle")
    BY DEF LoadBundle, LoadLayered, Then
  <2>2. IsOk(L) => \/ L = Ok(<<>>)
                   \/ /\ n \in DOMAIN DiskBundles /\ DiskBundles[n].status = "ok"
                      /\ L = Ok(<< DiskBundles[n].doc >>)
    BY ComposeAssumption, FailIs DEF LoadDisk
  <2>3. IsOk(L)
    BY <1>2, <2>1
  <2> HIDE DEF L
  <2>4. CASE L.val # <<>>
    <3>1. L # Ok(<<>>)
      BY <2>4, OkIs
    <3>2. L.val = << DiskBundles[n].doc >>
      BY <2>2, <2>3, <3>1, OkIs
    <3>3. L.val[1] = DiskBundles[n].doc
      BY <3>2
    <3>4. IsRows(DiskBundles[n].doc)
      BY <2>2, <2>3, <3>1, ComposeAssumption
    <3>5. LoadBundle(n) = Ok(DiskBundles[n].doc)
      BY <2>1, <2>3, <2>4, <3>3
    <3> QED BY <3>4, <3>5, OkIs
  <2>5. CASE L.val = <<>>
    <3>1. n \in DOMAIN BuiltInBundles /\ LoadBundle(n) = Ok(BuiltInBundles[n])
      BY <1>2, <2>1, <2>3, <2>5, FailIs
    <3> QED BY <3>1, OkIs, ComposeAssumption
  <2> QED BY <2>4, <2>5
<1> QED BY <1>1, <1>2

LEMMA DocsAreLayers ==
  ASSUME NEW docs, IsSeq(docs), \A i \in DOMAIN docs : IsDocument(docs[i]), IsOk(TryMap(FromValue, docs))
  PROVE  IsLayers(TryMap(FromValue, docs).val)
<1> DEFINE ls == TryMap(FromValue, docs).val
<1>1. ls = [i \in DOMAIN docs |-> FromValue(docs[i]).val] /\ \A i \in DOMAIN docs : IsOk(FromValue(docs[i]))
  BY MapIsOk
<1> HIDE DEF ls
<1>2. DOMAIN ls = DOMAIN docs /\ ls = [i \in DOMAIN docs |-> ls[i]]
  BY <1>1
<1>3. \A i \in DOMAIN docs : ls[i] = FromValue(docs[i]).val
  BY <1>1
<1>4. \A i \in DOMAIN docs : IsLayer(ls[i])
  BY <1>1, <1>3, FromValueIs
<1>5. IsSeq(ls)
  BY <1>2, SeqByMap
<1> QED BY <1>2, <1>4, <1>5 DEF IsLayers, ls

LEMMA HomeIsLayers == IsLayers(HomeLayers)
<1> DEFINE r == TryMap(FromValue, HomePatch)
           ls == r.val
           H == [i \in DOMAIN ls |-> [ls[i] EXCEPT !.name = "home"]]
<1>1. CASE IsOk(r)
  <2>1. IsLayers(ls)
    BY <1>1, ComposeAssumption, DocsAreLayers
  <2>2. HomeLayers = H
    BY <1>1 DEF HomeLayers
  <2> HIDE DEF ls
  <2>3. DOMAIN H = DOMAIN ls /\ H = [i \in DOMAIN ls |-> H[i]]
    OBVIOUS
  <2>4. ASSUME NEW i \in DOMAIN ls PROVE IsLayer(H[i])
    <3> DEFINE l == ls[i]
    <3>1. l = Layer(l.name, l.rows, l.patch) /\ IsRows(l.rows) /\ IsPatch(l.patch)
      BY <2>1 DEF IsLayers, IsLayer
    <3>2. H[i] = [l EXCEPT !.name = "home"]
      OBVIOUS
    <3> HIDE DEF l
    <3>3. [l EXCEPT !.name = "home"] = Layer("home", l.rows, l.patch)
      BY <3>1 DEF Layer
    <3> QED BY <3>1, <3>2, <3>3 DEF IsLayer, Layer
  <2> HIDE DEF H
  <2>5. IsSeq(H)
    BY <2>1, <2>3, SeqByMap DEF IsLayers
  <2> QED BY <2>2, <2>3, <2>4, <2>5 DEF IsLayers
<1>2. CASE ~IsOk(r)
  <2>1. HomeLayers = <<>>
    BY <1>2 DEF HomeLayers
  <2> QED BY <2>1 DEF IsLayers, IsSeq
<1> QED BY <1>1, <1>2

LEMMA OverlaysAreLayers ==
  ASSUME NEW r \in Requests, IsOk(Layers(r)) PROVE IsLayers(Layers(r).val)
<1> DEFINE docs == [i \in DOMAIN Tail(r) |-> Overlays[Tail(r)[i]]]
           t == TryMap(FromValue, docs)
<1>1. IsSeq(r) /\ r # <<>> /\ \A i \in 2..Len(r) : r[i] \in DOMAIN Overlays
  BY RequestsAssumption
<1>2. /\ IsSeq(Tail(r)) /\ Len(r) \in Nat /\ DOMAIN Tail(r) = 1..(Len(r) - 1)
      /\ \A i \in 1..(Len(r) - 1) : Tail(r)[i] = r[i + 1]
  <2>1. r \in Seq(ToSet(r))
    BY <1>1 DEF IsSeq
  <2>2. Tail(r) \in Seq(ToSet(r))
    BY <1>1, <2>1
  <2>3. IsSeq(Tail(r))
    BY <2>2, IsSeqOf
  <2> QED BY <1>1, <2>1, <2>2, <2>3
<1>3. \A i \in DOMAIN Tail(r) : IsDocument(Overlays[Tail(r)[i]])
  <2>1. \A i \in 1..(Len(r) - 1) : i + 1 \in 2..Len(r)
    BY <1>2
  <2> QED BY <1>1, <1>2, <2>1, RequestsAssumption
<1>4. IsSeq(docs) /\ \A i \in DOMAIN docs : IsDocument(docs[i])
  <2>1. DOMAIN docs = DOMAIN Tail(r) /\ docs = [i \in DOMAIN Tail(r) |-> docs[i]]
        /\ \A i \in DOMAIN docs : docs[i] = Overlays[Tail(r)[i]]
    OBVIOUS
  <2> HIDE DEF docs
  <2> QED BY <1>2, <1>3, <2>1, SeqByMap
<1>5. Layers(r) = IF IsOk(t) THEN Ok(FoldLeft(KeepLayer, <<>>, t.val)) ELSE t
  BY DEF Layers, ParseOverlays, Then
<1> HIDE DEF docs
<1>6. IsOk(t) /\ IsLayers(t.val)
  BY <1>4, <1>5, DocsAreLayers
<1> HIDE DEF t
<1>7. Layers(r).val = FoldLeft(KeepLayer, <<>>, t.val)
  BY <1>5, <1>6, OkIs
<1> DEFINE S == ToSet(t.val)
<1>8. t.val \in Seq(S) /\ \A l \in S : IsLayer(l)
  BY <1>6 DEF IsLayers, IsSeq, ToSet
<1> HIDE DEF S
<1>9. KeepFold!Folded(<<>>, t.val) \in Seq(S)
  <2> DEFINE D == Seq(S)
  <2>1. <<>> \in D /\ \A d \in D, x \in S : KeepLayer(d, x) \in D
    BY DEF KeepLayer
  <2>2. \A s \in Seq(S) : KeepFold!Folded(<<>>, s) \in D
    <3> HIDE DEF D
    <3> QED BY <2>1, KeepFold!FoldStaysIn
  <2> QED BY <1>8, <2>2
<1> DEFINE L == Layers(r).val
<1>10. L \in Seq(S)
  BY <1>7, <1>9, KeepFoldIs
<1> HIDE DEF L
<1>11. IsSeq(L) /\ \A i \in DOMAIN L : L[i] \in S
  BY <1>10, IsSeqOf
<1> QED BY <1>8, <1>11 DEF IsLayers, L

LEMMA TableIs == \A f : Table(f) = f
BY DEF Table

LEMMA Concats ==
  ASSUME NEW s, IsLayers(s), NEW t, IsLayers(t)
  PROVE  /\ IsLayers(s \o t)
         /\ WriteFold!Folded(<<>>, s \o t) = WriteFold!Folded(WriteFold!Folded(<<>>, s), t)
<1> DEFINE S == ToSet(s) \cup ToSet(t)
<1>1. s \in Seq(S) /\ t \in Seq(S) /\ \A x \in S : IsLayer(x)
  BY DEF IsLayers, IsSeq, ToSet
<1> HIDE DEF S
<1>2. s \o t \in Seq(S) /\ \A i \in DOMAIN (s \o t) : (s \o t)[i] \in S
  BY <1>1
<1>3. WriteFold!Folded(<<>>, s \o t) = WriteFold!Folded(WriteFold!Folded(<<>>, s), t)
  BY <1>1, WriteFold!FoldOfConcat
<1> QED BY <1>1, <1>2, <1>3, IsSeqOf DEF IsLayers

LEMMA OneLayer ==
  ASSUME NEW l, IsLayer(l)
  PROVE  IsLayers(<< l >>) /\ \A w : WriteFold!Folded(w, << l >>) = AddWrites(w, l)
<1>1. << l >> = Append(<<>>, l) /\ <<>> \in Seq({l}) /\ << l >> \in Seq({l})
  OBVIOUS
<1>2. \A w : WriteFold!Folded(w, <<>>) = w
  BY WriteFold!FoldOfEmpty
<1>3. ASSUME NEW w PROVE WriteFold!Folded(w, Append(<<>>, l)) = AddWrites(WriteFold!Folded(w, <<>>), l)
  <2> DEFINE S == {l}
             e == <<>>
  <2>1. e \in Seq(S)
    BY <1>1
  <2> HIDE DEF S, e
  <2>2. WriteFold!Folded(w, Append(e, l)) = AddWrites(WriteFold!Folded(w, e), l)
    BY <2>1, WriteFold!FoldOfAppend
  <2> QED BY <2>2 DEF e
<1>4. IsLayers(<< l >>)
  <2>1. \A i \in DOMAIN << l >> : << l >>[i] = l
    OBVIOUS
  <2> QED BY <1>1, <2>1, IsSeqOf DEF IsLayers
<1> QED BY <1>1, <1>2, <1>3, <1>4

LEMMA NoLayer ==
  /\ IsLayers(<<>>) /\ \A w : WriteFold!Folded(w, <<>>) = w
  /\ \A w, n : IsSeq(w) => AddWrites(w, Layer(n, <<>>, <<>>)) = w
<1>1. IsLayers(<<>>)
  BY DEF IsLayers, IsSeq
<1>2. \A w : WriteFold!Folded(w, <<>>) = w
  BY WriteFold!FoldOfEmpty
<1>3. ASSUME NEW w, NEW n, IsSeq(w) PROVE AddWrites(w, Layer(n, <<>>, <<>>)) = w
  <2>1. AddWrites(w, Layer(n, <<>>, <<>>)) = w \o PutWrites(<<>>) \o OpWrites(<<>>)
    BY DEF AddWrites, Layer, PutWrites, OpWrites
  <2> QED BY <1>3, <2>1, NoWrites
<1> QED BY <1>1, <1>2, <1>3

(* An empty layer that is left out, and one that is there, write the same. *)
LEMMA SameWrites ==
  ASSUME NEW b, IsLayers(b), NEW h, IsLayers(h), NEW o, IsLayers(o), NEW rows, IsRows(rows), NEW patch, IsPatch(patch)
  PROVE  LET p  == Layer("profile", rows, <<>>)
             q  == Layer("profile:patch", <<>>, patch)
             ls == b \o (IF rows = <<>> THEN <<>> ELSE << p >>)
                     \o (IF patch = <<>> THEN <<>> ELSE << q >>) \o h \o o
         IN  IsLayers(ls) /\ WritesOf(b \o << p, q >> \o h \o o) = WritesOf(ls)
<1> DEFINE F(s) == WriteFold!Folded(<<>>, s)
           p == Layer("profile", rows, <<>>)
           q == Layer("profile:patch", <<>>, patch)
           pl == IF rows = <<>> THEN <<>> ELSE << p >>
           ql == IF patch = <<>> THEN <<>> ELSE << q >>
<1>1. IsLayer(p) /\ IsLayer(q)
  BY RowsAndOps DEF IsLayer, Layer
<1>2. (rows = <<>> => p = Layer("profile", <<>>, <<>>)) /\ (patch = <<>> => q = Layer("profile:patch", <<>>, <<>>))
  OBVIOUS
<1> HIDE DEF p, q
<1>3. IsLayers(pl) /\ IsLayers(ql) /\ IsLayers(<< p >>) /\ IsLayers(<< q >>)
  BY <1>1, NoLayer, OneLayer
<1>4. \A s : IsLayers(s) => IsSeq(F(s))
  BY LayersAreWrites, WriteFoldIs
<1>5. \A w : IsSeq(w) => WriteFold!Folded(w, pl) = AddWrites(w, p) /\ WriteFold!Folded(w, ql) = AddWrites(w, q)
  BY <1>1, <1>2, NoLayer, OneLayer
<1>6. << p, q >> = Append(<< p >>, q)
  OBVIOUS
<1> HIDE DEF pl, ql, F
<1>7. IsLayers(b \o pl) /\ F(b \o pl) = AddWrites(F(b), p)
  BY <1>3, <1>4, <1>5, Concats DEF F
<1>8. IsLayers(b \o pl \o ql) /\ F(b \o pl \o ql) = AddWrites(AddWrites(F(b), p), q)
  BY <1>3, <1>4, <1>5, <1>7, Concats DEF F
<1>9. IsLayers(b \o << p >>) /\ F(b \o << p >>) = AddWrites(F(b), p)
  BY <1>1, <1>3, Concats, OneLayer DEF F
<1>10. IsLayers((b \o << p >>) \o << q >>) /\ F((b \o << p >>) \o << q >>) = AddWrites(AddWrites(F(b), p), q)
  BY <1>1, <1>3, <1>9, Concats, OneLayer DEF F
<1>11. b \o << p, q >> = (b \o << p >>) \o << q >>
  <2>1. IsSeq(b) /\ IsSeq(<< p >>)
    BY <1>3 DEF IsLayers
  <2>2. b \o << p, q >> = Append(b \o << p >>, q) /\ IsSeq(b \o << p >>)
    BY <1>6, <2>1, ConcatAppend
  <2> DEFINE s == b \o << p >>
  <2>3. s \in Seq(ToSet(s))
    BY <2>2 DEF IsSeq
  <2> HIDE DEF s
  <2>4. Append(s, q) = s \o << q >>
    BY <2>3
  <2> QED BY <2>2, <2>4 DEF s
<1>12. IsLayers(b \o << p, q >>) /\ F(b \o << p, q >>) = F(b \o pl \o ql)
  BY <1>8, <1>10, <1>11
<1> DEFINE x == b \o << p, q >>
           y == b \o pl \o ql
<1> HIDE DEF x, y
<1>13. IsLayers(x) /\ IsLayers(y) /\ F(x) = F(y)
  BY <1>8, <1>12 DEF x, y
<1>14. IsLayers(x \o h) /\ IsLayers(y \o h) /\ F(x \o h) = F(y \o h)
  BY <1>13, Concats DEF F
<1>15. IsLayers(y \o h \o o) /\ F(x \o h \o o) = F(y \o h \o o)
  BY <1>14, Concats DEF F
<1>16. \A s : F(s) = WritesOf(s)
  BY WriteFoldIs DEF F
<1>17. IsLayers(y \o h \o o) /\ WritesOf(x \o h \o o) = WritesOf(y \o h \o o)
  BY <1>15, <1>16
<1> QED BY <1>17 DEF x, y, p, q, pl, ql

(* What a request composes to is its reference, under the profile's name.  *)
LEMMA ComposedIs ==
  ASSUME NEW r \in Requests, IsOk(Composed[r])
  PROVE  /\ [doc |-> Composed[r].val.doc, warnings |-> Composed[r].val.warnings] = Reference[r]
         /\ Composed[r].val.doc.name = Head(r)
         /\ IsSeq(Composed[r].val.doc.rows)
<1> DEFINE L == Layers(r)
           P == LoadProfile(Head(r))
           spec == P.val
           B == TryMap(LoadBundle, spec.bundles)
           ls == LayersOf(spec, B.val, L.val)
           out == FoldLeft(ApplyLayer, Nothing, ls)
           E(rows) == ExpandDoc([name |-> spec.name, rows |-> rows, prompt |-> spec.prompt])
           bundles == [i \in DOMAIN spec.bundles |->
                        Layer(spec.bundles[i], LoadBundle(spec.bundles[i]).val, <<>>)]
           own == << Layer("profile", spec.rows, <<>>), Layer("profile:patch", <<>>, spec.patch) >>
           ref == LastWriter(WritesOf(bundles \o own \o HomeLayers \o L.val))
<1>1. Composed[r] = IF IsOk(L) THEN IF IsOk(P) THEN IF IsOk(B) THEN ComposeLayers(spec, ls) ELSE B ELSE P ELSE L
  BY TableIs DEF Composed, Compose, Then
<1>2. IsOk(L) /\ IsOk(P) /\ IsOk(B) /\ Composed[r] = ComposeLayers(spec, ls)
  BY <1>1
<1>3. Reference[r] = [doc |-> E(ref.rows).val, warnings |-> ref.warnings]
  <2>1. Reference[r] = ReferenceOf(r)
    BY TableIs DEF Reference
  <2> QED BY <2>1 DEF ReferenceOf
<1>4. Composed[r] = IF IsOk(E(out.rows)) THEN Ok([doc |-> E(out.rows).val, warnings |-> out.warnings])
                    ELSE E(out.rows)
  BY <1>2 DEF ComposeLayers, Finish, Then, Nothing
<1>5. IsSpec(spec, Head(r)) /\ IsLayers(L.val) /\ IsLayers(HomeLayers)
  BY <1>2, SpecsAre, OverlaysAreLayers, HomeIsLayers
<1>6. /\ B.val = [i \in DOMAIN spec.bundles |-> LoadBundle(spec.bundles[i]).val]
      /\ \A i \in DOMAIN spec.bundles : IsOk(LoadBundle(spec.bundles[i]))
  BY <1>2, <1>5, MapIsOk DEF IsSpec
<1> HIDE DEF L, P, B
<1>7. ls = bundles \o (IF spec.rows = <<>> THEN <<>> ELSE << Layer("profile", spec.rows, <<>>) >>)
             \o (IF spec.patch = <<>> THEN <<>> ELSE << Layer("profile:patch", <<>>, spec.patch) >>)
             \o HomeLayers \o L.val
  <2>1. [i \in DOMAIN B.val |-> Layer(spec.bundles[i], B.val[i], <<>>)] = bundles
    <3>1. DOMAIN B.val = DOMAIN spec.bundles
      BY <1>6
    <3>2. \A i \in DOMAIN spec.bundles : B.val[i] = LoadBundle(spec.bundles[i]).val
      BY <1>6
    <3> QED BY <3>1, <3>2
  <2> HIDE DEF bundles
  <2> QED BY <2>1 DEF LayersOf
<1>8. IsLayers(bundles)
  <2>1. DOMAIN bundles = DOMAIN spec.bundles /\ bundles = [i \in DOMAIN spec.bundles |-> bundles[i]]
        /\ \A i \in DOMAIN bundles : bundles[i] = Layer(spec.bundles[i], LoadBundle(spec.bundles[i]).val, <<>>)
    OBVIOUS
  <2> HIDE DEF bundles
  <2>2. IsSeq(bundles)
    BY <1>5, <2>1, SeqByMap DEF IsSpec
  <2>3. ASSUME NEW i \in DOMAIN bundles PROVE IsLayer(bundles[i])
    <3>1. IsRows(LoadBundle(spec.bundles[i]).val)
      BY <1>6, <2>1, SpecsAre
    <3>2. \A n, rows : IsRows(rows) => IsLayer(Layer(n, rows, <<>>))
      BY RowsAndOps DEF IsLayer, Layer
    <3> QED BY <2>1, <3>1, <3>2
  <2> QED BY <2>2, <2>3 DEF IsLayers
<1>9. IsLayers(ls) /\ WritesOf(bundles \o own \o HomeLayers \o L.val) = WritesOf(ls)
  <2> HIDE DEF bundles, spec, ls, E, out, ref
  <2>1. IsRows(spec.rows) /\ IsPatch(spec.patch)
    BY <1>5 DEF IsSpec
  <2> DEFINE rows == spec.rows
             patch == spec.patch
             o == L.val
             p == Layer("profile", rows, <<>>)
             q == Layer("profile:patch", <<>>, patch)
             all == bundles \o (IF rows = <<>> THEN <<>> ELSE << p >>)
                      \o (IF patch = <<>> THEN <<>> ELSE << q >>) \o HomeLayers \o o
  <2>2. all = ls /\ own = << p, q >>
    BY <1>7
  <2>3. IsRows(rows) /\ IsPatch(patch) /\ IsLayers(o)
    BY <1>5, <2>1
  <2> HIDE DEF rows, patch, o, own
  <2>4. IsLayers(all) /\ WritesOf(bundles \o << p, q >> \o HomeLayers \o o) = WritesOf(all)
    BY <1>5, <1>8, <2>3, SameWrites
  <2> HIDE DEF all, p, q
  <2> QED BY <2>2, <2>4 DEF o
<1>10. ref = out
  <2> HIDE DEF ls, bundles, own
  <2> QED BY <1>9, LayersAreWrites
<1> HIDE DEF out, ref
<1>11. /\ IsOk(E(out.rows))
       /\ Composed[r].val.doc = E(out.rows).val /\ Composed[r].val.warnings = out.warnings
  <2> HIDE DEF E
  <2>1. IsOk(E(out.rows))
    BY <1>4
  <2>2. Composed[r].val = [doc |-> E(out.rows).val, warnings |-> out.warnings]
    BY <1>4, <2>1, OkIs
  <2> QED BY <2>1, <2>2
<1> DEFINE d == [name |-> spec.name, rows |-> out.rows, prompt |-> spec.prompt]
           R == TryMap(ExpandRow, d.rows)
           V == ExpandValue(d.prompt)
<1>12. E(out.rows).val = [d EXCEPT !.rows = R.val, !.prompt = V.val] /\ IsOk(R)
  <2>1. E(out.rows) = IF IsOk(R) THEN IF IsOk(V) THEN Ok([d EXCEPT !.rows = R.val, !.prompt = V.val]) ELSE V ELSE R
    <3> HIDE DEF d
    <3>1. ExpandDoc(d) = IF IsOk(R) THEN IF IsOk(V) THEN Ok([d EXCEPT !.rows = R.val, !.prompt = V.val]) ELSE V ELSE R
      BY DEF ExpandDoc, Then
    <3> QED BY <3>1 DEF d
  <2> HIDE DEF E, d, R, V
  <2> QED BY <1>11, <2>1, OkIs
<1>13. E(out.rows).val.name = spec.name /\ E(out.rows).val.rows = R.val
  <2> HIDE DEF E, R, V, spec
  <2> QED BY <1>12
<1>14. IsSeq(R.val)
  <2>1. ref.rows = LastWriter(WritesOf(ls)).rows
    BY <1>9 DEF ref
  <2>2. IsSeq(LastWriter(WritesOf(ls)).rows)
    <3> DEFINE w == WritesOf(ls)
               rows == LastWriter(w).rows
    <3>1. IsSeq(w)
      BY <1>9, LayersAreWrites
    <3> HIDE DEF w
    <3>2. rows = [n \in 1..Len(Ranked(Firsts(w))) |-> RowOfId(w, w[Ranked(Firsts(w))[n]].id)]
          /\ Len(Ranked(Firsts(w))) \in Nat
      BY <3>1, RowsOfReference
    <3> DEFINE m == Len(Ranked(Firsts(w)))
    <3> HIDE DEF rows, m
    <3>3. rows = [n \in 1..m |-> rows[n]] /\ m \in Nat
      BY <3>2 DEF m
    <3>4. rows \in Seq({ rows[n] : n \in 1..m })
      BY <3>3
    <3> QED BY <3>4, IsSeqOf DEF rows, w
  <2>3. IsSeq(d.rows)
    BY <1>10, <2>1, <2>2
  <2> HIDE DEF d
  <2> QED BY <1>12, <2>3, MapIsOk
<1> QED BY <1>3, <1>5, <1>10, <1>11, <1>13, <1>14 DEF IsSpec

----------------------------------------------------------------------------
(* The plan of a composition keeps its name                                *)

PlanFold == INSTANCE FoldFacts WITH Op <- PlanNext

LEMMA PlanFoldIs == \A b, s : PlanFold!Folded(b, s) = FoldLeft(PlanNext, b, s)
BY DEF PlanFold!Folded, PlanFold!FoldLeft, PlanFold!MapThenFoldSet, PlanFold!Max, FoldLeft, MapThenFoldSet, Max

IsPlanOf(name, p) == DOMAIN p = {"name", "model", "tools", "prompt", "store"} /\ p.name = name

LEMMA RowKeepsName ==
  ASSUME NEW name, NEW p, IsPlanOf(name, p), NEW row, IsOk(PlanRow(p, row))
  PROVE  IsPlanOf(name, PlanRow(p, row).val)
<1>1. \A x : /\ IsPlanOf(name, [p EXCEPT !.model = x]) /\ IsPlanOf(name, [p EXCEPT !.prompt = x])
             /\ IsPlanOf(name, [p EXCEPT !.tools = x]) /\ IsPlanOf(name, [p EXCEPT !.store = x])
  BY DEF IsPlanOf
<1>2. /\ IsPlanOf(name, Ok(p).val)
      /\ \A x : /\ IsPlanOf(name, Ok([p EXCEPT !.model = x]).val)
                /\ IsPlanOf(name, Ok([p EXCEPT !.prompt = x]).val)
                /\ IsPlanOf(name, Ok([p EXCEPT !.tools = x]).val)
                /\ IsPlanOf(name, Ok([p EXCEPT !.store = x]).val)
  <2>1. \A y : IsPlanOf(name, y) => IsPlanOf(name, Ok(y).val)
    BY OkIs
  <2>2. IsPlanOf(name, Ok(p).val)
    BY <2>1
  <2> QED BY <1>1, <2>1, <2>2
<1>3. ~IsOk(Fail("plugin-build-failed")) /\ ~IsOk(Fail("unknown-plugin"))
  BY DEF Fail, IsOk
<1>4. CASE IsDocRow(row)
  <2>1. PlanRow(p, row) = PlanDocRow(p, row)
    BY <1>4 DEF PlanRow
  <2> DEFINE q == PlanDocRow(p, row)
             a == row.config
             b == p.tools \o row.config.of
  <2>2. \/ q = Fail("plugin-build-failed") \/ q = Fail("unknown-plugin") \/ q = Ok(p)
        \/ q = Ok([p EXCEPT !.prompt = a]) \/ q = Ok([p EXCEPT !.tools = b])
    BY DEF PlanDocRow
  <2>3. IsOk(q)
    BY <2>1
  <2> HIDE DEF q, a, b
  <2>4. IsPlanOf(name, q.val)
    <3>1. q = Ok(p) => IsPlanOf(name, q.val)
      BY <1>2
    <3>2. q = Ok([p EXCEPT !.prompt = a]) => IsPlanOf(name, q.val)
      BY <1>2
    <3>3. q = Ok([p EXCEPT !.tools = b]) => IsPlanOf(name, q.val)
      BY <1>2
    <3> QED BY <1>3, <2>2, <2>3, <3>1, <3>2, <3>3
  <2> QED BY <2>1, <2>4 DEF q
<1>5. CASE ~IsDocRow(row)
  <2> DEFINE m == ModelSpec(row.config)
             s == StoreSpec(row.config)
             t == Append(p.tools, ToolName(row))
             q == PlanRow(p, row)
  <2>1. \/ q = IF IsOk(m) THEN Ok([p EXCEPT !.model = m.val]) ELSE m
        \/ q = Ok([p EXCEPT !.tools = t])
        \/ q = Fail("plugin-build-failed")
        \/ q = IF IsOk(s) THEN Ok([p EXCEPT !.store = s.val]) ELSE s
        \/ q = Ok(p)
    BY <1>5 DEF PlanRow, Then
  <2> HIDE DEF m, s, t, q
  <2>2. IsOk(q)
    BY DEF q
  <2>3. IsPlanOf(name, q.val)
    <3>1. q = Ok(p) => IsPlanOf(name, q.val)
      BY <1>2
    <3>2. q = Ok([p EXCEPT !.model = m.val]) => IsPlanOf(name, q.val)
      BY <1>2
    <3>3. q = Ok([p EXCEPT !.tools = t]) => IsPlanOf(name, q.val)
      BY <1>2
    <3>4. q = Ok([p EXCEPT !.store = s.val]) => IsPlanOf(name, q.val)
      BY <1>2
    <3> QED BY <1>3, <2>1, <2>2, <3>1, <3>2, <3>3, <3>4
  <2> QED BY <2>3 DEF q
<1> QED BY <1>4, <1>5

LEMMA PlanKeepsName ==
  ASSUME NEW doc, IsSeq(doc.rows), IsOk(Plan(doc))
  PROVE  Plan(doc).val.name = doc.name
<1> DEFINE S == ToSet(doc.rows)
           b == Ok(EmptyPlan(doc.name, doc.prompt))
           F(s) == PlanFold!Folded(b, s)
           T == { s \in Seq(S) : IsOk(F(s)) => IsPlanOf(doc.name, F(s).val) }
<1>1. << >> \in T
  <2>1. F(<<>>) = b
    BY PlanFold!FoldOfEmpty
  <2>2. b.val = EmptyPlan(doc.name, doc.prompt)
    BY OkIs
  <2>3. IsPlanOf(doc.name, EmptyPlan(doc.name, doc.prompt))
    BY DEF IsPlanOf, EmptyPlan
  <2> HIDE DEF F, b
  <2> QED BY <2>1, <2>2, <2>3
<1>2. ASSUME NEW s \in Seq(S), NEW x \in S, s \in T PROVE Append(s, x) \in T
  <2>1. F(Append(s, x)) = PlanNext(F(s), x)
    BY PlanFold!FoldOfAppend
  <2>2. IsOk(F(s)) => IsPlanOf(doc.name, F(s).val)
    BY <1>2
  <2>3. Append(s, x) \in Seq(S)
    OBVIOUS
  <2> HIDE DEF F, b
  <2>4. PlanNext(F(s), x) = IF IsOk(F(s)) THEN PlanRow(F(s).val, x) ELSE F(s)
    BY DEF PlanNext, Then
  <2>5. IsOk(F(Append(s, x))) => IsPlanOf(doc.name, F(Append(s, x)).val)
    BY <2>1, <2>2, <2>4, RowKeepsName
  <2> QED BY <2>3, <2>5
<1> HIDE DEF T
<1>3. Seq(S) \subseteq T
  BY <1>1, <1>2, PutFold!SequenceInduction
<1>4. doc.rows \in Seq(S)
  BY DEF IsSeq
<1>5. F(doc.rows) = Plan(doc)
  BY PlanFoldIs DEF Plan
<1>6. IsOk(F(doc.rows)) => IsPlanOf(doc.name, F(doc.rows).val)
  BY <1>3, <1>4 DEF T
<1> HIDE DEF F
<1> QED BY <1>5, <1>6 DEF IsPlanOf

LEMMA PlannedIs ==
  ASSUME NEW r \in Requests, IsOk(Planned[r])
  PROVE  <<Planned[r].val.name>> \in Requests
<1>1. Planned[r] = IF IsOk(Composed[r]) THEN Plan(Composed[r].val.doc) ELSE Composed[r]
  BY TableIs DEF Planned, Then
<1>2. IsOk(Composed[r])
  BY <1>1
<1>3. Composed[r].val.doc.name = Head(r) /\ IsSeq(Composed[r].val.doc.rows)
  BY <1>2, ComposedIs
<1>4. Planned[r].val.name = Head(r)
  BY <1>1, <1>2, <1>3, PlanKeepsName
<1> QED BY <1>4, ConfigBootAssumption

----------------------------------------------------------------------------
(* The stored document                                                     *)

IsComposed(e) ==
  e.of # <<>> => /\ e.of \in Requests /\ IsOk(Composed[e.of])
                 /\ e.doc = Composed[e.of].val.doc /\ e.warnings = Composed[e.of].val.warnings

(* What is stored, and what a mount took from it, was composed from a      *)
(* request; a caller that mounts has the plan of a profile.                *)
DocumentInv ==
  /\ IsComposed(entry)
  /\ \A c \in Callers : plan[c] # NoPlan => <<plan[c].name>> \in Requests
  /\ \A c \in Callers : pc[c] = "armed" => plan[c] # NoPlan
  /\ \A c \in Callers : pc[c] = "rows" => IsComposed(frame[c].entry)

LEMMA ComposingIsComposed ==
  ASSUME NEW r \in Requests, IsOk(Composing(r)) PROVE IsComposed(Composing(r).val)
<1>1. Composing(r) = IF IsOk(Composed[r])
                     THEN Ok([of |-> r, doc |-> Composed[r].val.doc,
                              warnings |-> Composed[r].val.warnings, spine |-> 0])
                     ELSE Composed[r]
  BY DEF Composing, Then
<1>2. IsOk(Composed[r])
  BY <1>1
<1>3. Composing(r).val = [of |-> r, doc |-> Composed[r].val.doc,
                          warnings |-> Composed[r].val.warnings, spine |-> 0]
  BY <1>1, <1>2, OkIs
<1> QED BY <1>2, <1>3 DEF IsComposed

LEMMA ComposeDocument ==
  ASSUME BootInv, DocumentInv, NEW c \in Callers, NEW r \in Requests, ComposeProfile(c, r)
  PROVE  DocumentInv'
<1>1. IsComposed(entry')
  BY ComposingIsComposed DEF ComposeProfile, DocumentInv
<1>2. plan' = [plan EXCEPT ![c] = IF IsOk(Planned[r]) THEN Planned[r].val ELSE NoPlan]
      /\ pc' = pc /\ frame' = frame /\ pc[c] = "idle"
  BY DEF ComposeProfile
<1>3. DOMAIN plan = Callers
  BY DEF BootInv, BootTyped
<1>4. \A d \in Callers : plan'[d] # NoPlan => <<plan'[d].name>> \in Requests
  BY <1>2, <1>3, PlannedIs DEF DocumentInv
<1>5. \A d \in Callers : pc'[d] = "armed" => plan'[d] # NoPlan
  BY <1>2, <1>3 DEF DocumentInv
<1> QED BY <1>1, <1>2, <1>4, <1>5 DEF DocumentInv, IsComposed

LEMMA StartDocument ==
  ASSUME BootInv, DocumentInv, NEW c \in Callers, BodyStart(c)
  PROVE  DocumentInv'
<1> DEFINE E == EntryFor(plan[c])
<1>1. pc[c] = "armed" /\ entry' = entry /\ plan' = plan
  BY DEF BodyStart, WarmReuse, ColdMount
<1>2. IsOk(E) => IsComposed(E.val)
  <2>1. <<plan[c].name>> \in Requests
    BY <1>1 DEF DocumentInv
  <2>2. E = IF Serves(plan[c]) THEN Ok(entry) ELSE Composing(<<plan[c].name>>)
    BY DEF EntryFor
  <2> QED BY <2>1, <2>2, OkIs, ComposingIsComposed DEF DocumentInv
<1>3. DOMAIN frame = Callers /\ pc \in [Callers -> {"idle", "armed", "failed", "panicked"} \cup Mounting]
      /\ FrameTyped(frame[c])
  BY DEF BootInv, BootTyped
<1>4. \A d \in Callers \ {c} : pc'[d] = pc[d] /\ frame'[d] = frame[d]
  BY <1>3 DEF BodyStart, WarmReuse, ColdMount, Goto
<1>5. pc'[c] # "armed"
  BY <1>3 DEF BodyStart, WarmReuse, ColdMount, Goto
<1>6. pc'[c] = "rows" => IsOk(E) /\ frame'[c].entry = E.val
  <2> SUFFICES ASSUME pc'[c] = "rows" PROVE IsOk(E) /\ frame'[c].entry = E.val
    OBVIOUS
  <2>1. \A l : Goto(c, l) => l = "rows"
    BY <1>3 DEF Goto
  <2>2. IF IsOk(E) THEN WarmReuse(c, E.val) \/ ColdMount(c, E.val) ELSE Goto(c, "err")
    BY DEF BodyStart
  <2> HIDE DEF E
  <2>3. IsOk(E) /\ ColdMount(c, E.val)
    BY <2>1, <2>2 DEF WarmReuse
  <2>4. PICK p : frame' = [frame EXCEPT ![c] =
            [@ EXCEPT !.entry = E.val, !.plan = IF IsOk(p) THEN p.val ELSE NoPlan, !.at = 1, !.k = used + 1]]
    BY <2>3 DEF ColdMount
  <2> QED BY <1>3, <2>3, <2>4 DEF FrameTyped
<1> HIDE DEF E
<1>7. IsComposed(entry')
  BY <1>1 DEF DocumentInv
<1>8. \A d \in Callers : pc'[d] = "rows" => IsComposed(frame'[d].entry)
  BY <1>2, <1>4, <1>6 DEF DocumentInv
<1>9. \A d \in Callers : pc'[d] = "armed" => plan'[d] # NoPlan
  BY <1>1, <1>4, <1>5 DEF DocumentInv
<1> QED BY <1>1, <1>7, <1>8, <1>9 DEF DocumentInv, IsComposed

(* A step that mounts rows, hands over or unwinds: no caller is armed or   *)
(* starts its rows by it, and the entry is the one the rows mounted.       *)
LEMMA RestDocument ==
  ASSUME BootInv, DocumentInv, NEW c \in Callers,
         \/ RowDocument(c) \/ RowSpine(c) \/ SpinePanics(c) \/ RowSpineTwice(c) \/ RowStorage(c)
         \/ \E seam \in {"model", "tool", "unknown"} : RowResource(c, seam)
         \/ RowsDone(c) \/ ModelOk(c) \/ ModelFails(c)
         \/ WrapErr(c) \/ WrapPanic(c)
         \/ \E k \in Spines : DropMounted(c, k)
  PROVE  DocumentInv'
<1>1. DOMAIN frame = Callers /\ pc \in [Callers -> {"idle", "armed", "failed", "panicked"} \cup Mounting]
      /\ FrameTyped(frame[c]) /\ EntryTyped(frame[c].entry)
  BY DEF BootInv, BootTyped, FrameTyped
<1>2. plan' = plan
  BY DEF RowDocument, RowSpine, SpinePanics, RowSpineTwice, RowFailsMirrorOpen, RowStorage, RowResource,
     RowFails, RowPanics, RowsDone, ModelOk, ModelFails, WrapErr, WrapPanic, DropMounted
<1>3. \A d \in Callers : pc'[d] = pc[d] \/ pc'[d] \notin {"armed", "rows"}
  BY <1>1 DEF RowDocument, RowSpine, SpinePanics, RowSpineTwice, RowFailsMirrorOpen, RowStorage, RowResource,
     RowFails, RowPanics, RowsDone, ModelOk, ModelFails, WrapErr, WrapPanic, DropMounted, Goto
<1>4. frame' = frame \/ frame' = [frame EXCEPT ![c].at = @ + 1]
  BY DEF RowDocument, RowSpine, SpinePanics, RowSpineTwice, RowFailsMirrorOpen, RowStorage, RowResource,
     RowFails, RowPanics, RowsDone, ModelOk, ModelFails, WrapErr, WrapPanic, DropMounted, NextRow
<1>5. \A d \in Callers : frame'[d].entry = frame[d].entry
  BY <1>1, <1>4 DEF FrameTyped
<1>6. \/ entry' = entry
      \/ pc[c] = "rows" /\ entry' = [frame[c].entry EXCEPT !.spine = frame[c].k]
  BY DEF RowDocument, RowSpine, SpinePanics, RowSpineTwice, RowFailsMirrorOpen, RowStorage, RowResource,
     RowFails, RowPanics, RowsDone, ModelOk, ModelFails, WrapErr, WrapPanic, DropMounted
<1>7. IsComposed(entry')
  <2>1. CASE entry' = entry
    BY <2>1 DEF DocumentInv
  <2>2. CASE pc[c] = "rows" /\ entry' = [frame[c].entry EXCEPT !.spine = frame[c].k]
    <3> DEFINE f == frame[c].entry
    <3>1. DOMAIN f = {"of", "doc", "warnings", "spine"} /\ IsComposed(f)
      BY <1>1, <2>2 DEF EntryTyped, DocumentInv
    <3> HIDE DEF f
    <3>2. entry' = [f EXCEPT !.spine = frame[c].k]
      BY <2>2 DEF f
    <3>3. entry'.of = f.of /\ entry'.doc = f.doc /\ entry'.warnings = f.warnings
      BY <3>1, <3>2
    <3> QED BY <3>1, <3>3 DEF IsComposed
  <2> QED BY <1>6, <2>1, <2>2
<1>8. \A d \in Callers : pc'[d] = "rows" => IsComposed(frame'[d].entry)
  BY <1>3, <1>5 DEF DocumentInv, IsComposed
<1>9. \A d \in Callers : pc'[d] = "armed" => plan'[d] # NoPlan
  BY <1>2, <1>3 DEF DocumentInv
<1> QED BY <1>2, <1>7, <1>8, <1>9 DEF DocumentInv, IsComposed

LEMMA DocumentStep == BootInv /\ DocumentInv /\ [Next]_vars => DocumentInv'
<1> SUFFICES ASSUME BootInv, DocumentInv, [Next]_vars PROVE DocumentInv'
  OBVIOUS
<1>1. CASE UNCHANGED vars
  BY <1>1 DEF vars, DocumentInv, IsComposed
<1>2. ASSUME NEW c \in env.callers, Step(c) PROVE DocumentInv'
  <2>1. c \in Callers /\ env.requests \subseteq Requests
    BY ConfigBootAssumption DEF BootInv, BootTyped
  <2>2. CASE \E r \in env.requests : ComposeProfile(c, r)
    BY <2>1, <2>2, ComposeDocument
  <2>3. CASE \E kind \in {"fresh", "resumed", "created"} : MountCall(c, kind)
    <3>1. /\ plan[c] # NoPlan /\ entry' = entry /\ plan' = plan
          /\ \A d \in Callers : (pc'[d] = pc[d] /\ frame'[d] = frame[d]) \/ d = c
          /\ pc'[c] = "armed"
      BY <2>1, <2>3 DEF MountCall, Goto, BootInv, BootTyped
    <3>2. \A d \in Callers : pc'[d] = "armed" => plan'[d] # NoPlan
      BY <3>1 DEF DocumentInv
    <3>3. \A d \in Callers : pc'[d] = "rows" => IsComposed(frame'[d].entry)
      BY <3>1 DEF DocumentInv
    <3> QED BY <3>1, <3>2, <3>3 DEF DocumentInv, IsComposed
  <2>4. CASE BodyStart(c)
    BY <2>1, <2>4, StartDocument
  <2>5. CASE \/ RowDocument(c) \/ RowSpine(c) \/ SpinePanics(c) \/ RowSpineTwice(c) \/ RowStorage(c)
             \/ \E seam \in {"model", "tool", "unknown"} : RowResource(c, seam)
             \/ RowsDone(c) \/ ModelOk(c) \/ ModelFails(c)
             \/ WrapErr(c) \/ WrapPanic(c)
             \/ \E k \in Spines : DropMounted(c, k)
    BY <2>1, <2>5, RestDocument
  <2> QED BY <1>2, <2>2, <2>3, <2>4, <2>5 DEF Step
<1> QED BY <1>1, <1>2 DEF Next

(* The stored document is what the last writer of every row said, for      *)
(* every choice of profiles, bundles, patches and overlays that compose:   *)
(* compose_layers puts, sets and warns exactly as the documented           *)
(* precedence has it, and no mount stores another document.                *)
THEOREM BootComposedIsLastWriter == Spec => []ComposedIsLastWriter
<1>1. Init => DocumentInv
  BY DEF Init, DocumentInv, IsComposed, NoEntry
<1>2. DocumentInv => ComposedIsLastWriter
  <2> SUFFICES ASSUME DocumentInv, entry.of # <<>>
               PROVE  [doc |-> entry.doc, warnings |-> entry.warnings] = Reference[entry.of]
    BY DEF ComposedIsLastWriter
  <2> DEFINE r == entry.of
  <2>1. /\ r \in Requests /\ IsOk(Composed[r])
        /\ entry.doc = Composed[r].val.doc /\ entry.warnings = Composed[r].val.warnings
    BY DEF DocumentInv, IsComposed
  <2> HIDE DEF r
  <2>2. [doc |-> Composed[r].val.doc, warnings |-> Composed[r].val.warnings] = Reference[r]
    BY <2>1, ComposedIs
  <2> QED BY <2>1, <2>2 DEF r
<1> QED BY <1>1, <1>2, BootInvHolds, DocumentStep, PTL DEF Spec

----------------------------------------------------------------------------
(* The store of a plan, and of the rows that mount                         *)

IsStoreRow(row) == ~IsDocRow(row) /\ SeamOf(row.plugin) = "storage"

(* A storage row's expanded config holds no expression of its own: the     *)
(* mount expands it again, the plan does not.                              *)
ExpandsOnce ==
  \A r \in Requests : IsOk(Composed[r]) =>
    \A i \in DOMAIN Composed[r].val.doc.rows :
      IsStoreRow(Composed[r].val.doc.rows[i]) =>
        ExpandValue(Composed[r].val.doc.rows[i].config) = Ok(Composed[r].val.doc.rows[i].config)

(* The plan of the first n rows of what a request composes to.             *)
RowsOf(r) == Composed[r].val.doc.rows
PlanOfRows(r, n) ==
  FoldLeft(PlanNext, Ok(EmptyPlan(Composed[r].val.doc.name, Composed[r].val.doc.prompt)),
           SubSeq(RowsOf(r), 1, n))

(* Only a storage row gives a plan its store.                              *)
LEMMA RowGivesStore ==
  ASSUME NEW name, NEW p, IsPlanOf(name, p), NEW row, IsOk(PlanRow(p, row))
  PROVE  IF IsStoreRow(row)
         THEN IsOk(StoreSpec(row.config)) /\ PlanRow(p, row).val.store = StoreSpec(row.config).val
         ELSE PlanRow(p, row).val.store = p.store
<1>1. \A x : /\ [p EXCEPT !.model = x].store = p.store /\ [p EXCEPT !.prompt = x].store = p.store
             /\ [p EXCEPT !.tools = x].store = p.store /\ [p EXCEPT !.store = x].store = x
  BY DEF IsPlanOf
<1>2. /\ Ok(p).val.store = p.store
      /\ \A x : /\ Ok([p EXCEPT !.model = x]).val.store = p.store
                /\ Ok([p EXCEPT !.prompt = x]).val.store = p.store
                /\ Ok([p EXCEPT !.tools = x]).val.store = p.store
                /\ Ok([p EXCEPT !.store = x]).val.store = x
  <2>1. \A y : Ok(y).val.store = y.store
    BY OkIs
  <2> QED BY <1>1, <2>1
<1>3. ~IsOk(Fail("plugin-build-failed")) /\ ~IsOk(Fail("unknown-plugin"))
  BY DEF Fail, IsOk
<1>4. CASE IsDocRow(row)
  <2>1. PlanRow(p, row) = PlanDocRow(p, row)
    BY <1>4 DEF PlanRow
  <2> DEFINE q == PlanDocRow(p, row)
             a == row.config
             b == p.tools \o row.config.of
  <2>2. \/ q = Fail("plugin-build-failed") \/ q = Fail("unknown-plugin") \/ q = Ok(p)
        \/ q = Ok([p EXCEPT !.prompt = a]) \/ q = Ok([p EXCEPT !.tools = b])
    BY DEF PlanDocRow
  <2>3. IsOk(q)
    BY <2>1
  <2> HIDE DEF q, a, b
  <2>4. q.val.store = p.store
    <3>1. q = Ok(p) => q.val.store = p.store
      BY <1>2
    <3>2. q = Ok([p EXCEPT !.prompt = a]) => q.val.store = p.store
      BY <1>2
    <3>3. q = Ok([p EXCEPT !.tools = b]) => q.val.store = p.store
      BY <1>2
    <3> QED BY <1>3, <2>2, <2>3, <3>1, <3>2, <3>3
  <2> QED BY <1>4, <2>1, <2>4 DEF q, IsStoreRow
<1>5. CASE ~IsDocRow(row) /\ SeamOf(row.plugin) = "storage"
  <2> DEFINE s == StoreSpec(row.config)
             q == PlanRow(p, row)
  <2>1. q = IF p.store # NoText THEN Fail("plugin-build-failed")
            ELSE IF IsOk(s) THEN Ok([p EXCEPT !.store = s.val]) ELSE s
    BY <1>5 DEF PlanRow, Then
  <2>2. IsOk(q)
    BY DEF q
  <2> HIDE DEF s, q
  <2>3. IsOk(s) /\ q = Ok([p EXCEPT !.store = s.val])
    BY <1>3, <2>1, <2>2
  <2>4. q.val.store = s.val
    BY <1>2, <2>3
  <2> QED BY <1>5, <2>3, <2>4 DEF q, s, IsStoreRow
<1>6. CASE ~IsDocRow(row) /\ SeamOf(row.plugin) # "storage"
  <2> DEFINE m == ModelSpec(row.config)
             t == Append(p.tools, ToolName(row))
             q == PlanRow(p, row)
  <2>1. \/ q = IF IsOk(m) THEN Ok([p EXCEPT !.model = m.val]) ELSE m
        \/ q = Ok([p EXCEPT !.tools = t])
        \/ q = Ok(p)
    BY <1>6 DEF PlanRow, Then
  <2>2. IsOk(q)
    BY DEF q
  <2> HIDE DEF m, t, q
  <2>3. q.val.store = p.store
    <3>1. q = Ok(p) => q.val.store = p.store
      BY <1>2
    <3>2. q = Ok([p EXCEPT !.model = m.val]) => q.val.store = p.store
      BY <1>2
    <3>3. q = Ok([p EXCEPT !.tools = t]) => q.val.store = p.store
      BY <1>2
    <3> QED BY <2>1, <2>2, <3>1, <3>2, <3>3
  <2> QED BY <1>6, <2>3 DEF q, IsStoreRow
<1> QED BY <1>4, <1>5, <1>6

(* A plan that fails has failed at a row, and stays failed.                *)
LEMMA FailedPlanStays ==
  ASSUME NEW S, NEW d, ~IsOk(d)
  PROVE  \A s \in Seq(S) : PlanFold!Folded(d, s) = d
<1>1. \A e \in {d}, x \in S : PlanNext(e, x) \in {d}
  BY DEF PlanNext, Then
<1>2. \A s \in Seq(S) : PlanFold!Folded(d, s) \in {d}
  BY <1>1, PlanFold!FoldStaysIn
<1> QED BY <1>2

LEMMA RowsPlanned ==
  ASSUME NEW r \in Requests, IsOk(Planned[r])
  PROVE  /\ IsOk(Composed[r]) /\ Len(RowsOf(r)) \in Nat /\ DOMAIN RowsOf(r) = 1..Len(RowsOf(r))
         /\ PlanOfRows(r, 0).val.store = NoText
         /\ PlanOfRows(r, Len(RowsOf(r))) = Planned[r]
         /\ \A n \in 1..Len(RowsOf(r)) :
              LET row == RowsOf(r)[n]
                  p   == PlanOfRows(r, n - 1).val
              IN  /\ IsPlanOf(Composed[r].val.doc.name, p)
                  /\ PlanOfRows(r, n) = PlanRow(p, row) /\ IsOk(PlanRow(p, row))
<1> DEFINE rows == RowsOf(r)
           S == ToSet(rows)
           name == Composed[r].val.doc.name
           b == Ok(EmptyPlan(name, Composed[r].val.doc.prompt))
           F(s) == PlanFold!Folded(b, s)
           first(n) == SubSeq(rows, 1, n)
<1>1. Planned[r] = IF IsOk(Composed[r]) THEN Plan(Composed[r].val.doc) ELSE Composed[r]
  BY TableIs DEF Planned, Then
<1>2. IsOk(Composed[r]) /\ Planned[r] = Plan(Composed[r].val.doc)
  BY <1>1
<1>3. rows \in Seq(S)
  BY <1>2, ComposedIs DEF IsSeq, RowsOf
<1>4. \A n : PlanOfRows(r, n) = F(first(n))
  BY PlanFoldIs DEF PlanOfRows
<1>5. F(rows) = Planned[r]
  BY <1>2, PlanFoldIs DEF Plan, RowsOf
<1>6. F(<<>>) = b /\ b.val = EmptyPlan(name, Composed[r].val.doc.prompt) /\ IsOk(b)
  BY PlanFold!FoldOfEmpty, OkIs
<1> HIDE DEF rows, S
<1>7. EmptyPlan(name, Composed[r].val.doc.prompt).store = NoText
      /\ IsPlanOf(name, EmptyPlan(name, Composed[r].val.doc.prompt))
  BY DEF EmptyPlan, IsPlanOf
<1>8. Len(rows) \in Nat /\ DOMAIN rows = 1..Len(rows) /\ first(Len(rows)) = rows /\ first(0) = <<>>
      /\ \A n \in 1..Len(rows) : rows[n] \in S
  BY <1>3
<1>9. \A n \in 0..Len(rows) : first(n) \in Seq(S) /\ IsOk(F(first(n)))
  <2> SUFFICES ASSUME NEW n \in 0..Len(rows) PROVE first(n) \in Seq(S) /\ IsOk(F(first(n)))
    OBVIOUS
  <2> DEFINE rest == SubSeq(rows, n + 1, Len(rows))
  <2>1. first(n) \in Seq(S) /\ rest \in Seq(S) /\ rows = first(n) \o rest
    <3> DEFINE m == Len(rows)
    <3>1. /\ first(n) = [i \in 1..n |-> rows[i]] /\ n \in Nat /\ m - n \in Nat
          /\ rest = [i \in 1..(m - n) |-> rows[n + i]]
      BY <1>3, <1>8
    <3>2. first(n) \in Seq(S) /\ Len(first(n)) = n
      <4>1. \A i \in 1..n : rows[i] \in S
        BY <1>8
      <4> HIDE DEF first
      <4> QED BY <3>1, <4>1
    <3>3. rest \in Seq(S) /\ Len(rest) = m - n
      <4>1. \A i \in 1..(m - n) : n + i \in 1..m
        BY <1>8, <3>1
      <4>2. \A i \in 1..(m - n) : rows[n + i] \in S
        BY <1>8, <4>1
      <4> HIDE DEF rest, m
      <4> QED BY <3>1, <4>2
    <3>4. rows = first(n) \o rest
      <4> HIDE DEF first, rest
      <4>1. \A i \in 1..m : IF i <= n THEN rows[i] = first(n)[i] ELSE rows[i] = rest[i - n]
        BY <1>8, <3>1
      <4>2. first(n) \o rest \in Seq(S) /\ Len(first(n) \o rest) = m
        BY <1>8, <3>1, <3>2, <3>3
      <4>3. \A i \in 1..m : (first(n) \o rest)[i] = IF i <= n THEN first(n)[i] ELSE rest[i - n]
        BY <1>8, <3>1, <3>2, <3>3
      <4> DEFINE u == first(n) \o rest
      <4>4. u \in Seq(S) /\ Len(u) = Len(rows) /\ \A i \in 1..Len(rows) : rows[i] = u[i]
        BY <4>1, <4>2, <4>3
      <4> HIDE DEF u, m
      <4>5. rows = u
        BY <1>3, <4>4, SeqEqual
      <4> QED BY <4>5 DEF u
    <3> QED BY <3>2, <3>3, <3>4
  <2> HIDE DEF first, rest, b
  <2>2. F(rows) = PlanFold!Folded(F(first(n)), rest)
    BY <2>1, PlanFold!FoldOfConcat
  <2>3. ~IsOk(F(first(n))) => F(rows) = F(first(n))
    BY <2>1, <2>2, FailedPlanStays
  <2> QED BY <1>5, <2>1, <2>3
<1>10. \A n \in 1..Len(rows) : F(first(n)) = PlanNext(F(first(n - 1)), rows[n])
  <2> SUFFICES ASSUME NEW n \in 1..Len(rows) PROVE F(first(n)) = PlanNext(F(first(n - 1)), rows[n])
    OBVIOUS
  <2>1. n - 1 \in 0..Len(rows) /\ first(n - 1) \in Seq(S) /\ rows[n] \in S
    BY <1>8, <1>9
  <2>2. first(n) = Append(first(n - 1), rows[n])
    BY <1>3, <1>8
  <2> HIDE DEF first, b
  <2> QED BY <2>1, <2>2, PlanFold!FoldOfAppend
<1>11. \A n \in 1..Len(rows) : F(first(n)) = PlanRow(F(first(n - 1)).val, rows[n])
  <2> SUFFICES ASSUME NEW n \in 1..Len(rows) PROVE F(first(n)) = PlanRow(F(first(n - 1)).val, rows[n])
    OBVIOUS
  <2>1. n - 1 \in 0..Len(rows)
    BY <1>8
  <2> HIDE DEF first, b, F
  <2> QED BY <1>9, <1>10, <2>1 DEF PlanNext, Then
<1>12. \A n \in 0..Len(rows) : IsPlanOf(name, F(first(n)).val)
  <2> DEFINE N == { n \in Nat : n <= Len(rows) => IsPlanOf(name, F(first(n)).val) }
  <2>1. 0 \in N
    <3> HIDE DEF first, b, F, name
    <3> QED BY <1>6, <1>7, <1>8
  <2>2. ASSUME NEW n \in Nat, n \in N PROVE n + 1 \in N
    <3> SUFFICES ASSUME n + 1 <= Len(rows) PROVE IsPlanOf(name, F(first(n + 1)).val)
      OBVIOUS
    <3>1. n + 1 \in 1..Len(rows) /\ n + 1 \in 0..Len(rows) /\ n + 1 - 1 = n /\ n <= Len(rows)
      BY <1>8
    <3>2. IsPlanOf(name, F(first(n)).val)
      BY <2>2, <3>1
    <3> HIDE DEF first, b, F
    <3>3. F(first(n + 1)) = PlanRow(F(first(n)).val, rows[n + 1]) /\ IsOk(F(first(n + 1)))
      BY <1>9, <1>11, <3>1
    <3> QED BY <3>2, <3>3, RowKeepsName
  <2> HIDE DEF N
  <2>3. Nat \subseteq N
    BY <2>1, <2>2, PlanFold!NumberInduction
  <2> QED BY <1>8, <2>3 DEF N
<1>13. PlanOfRows(r, 0).val.store = NoText /\ PlanOfRows(r, Len(rows)) = Planned[r]
  <2>1. 0 <= Len(rows)
    BY <1>8
  <2> HIDE DEF first, b, F, name
  <2> QED BY <1>4, <1>5, <1>6, <1>7, <1>8
<1> HIDE DEF first, b, F, name
<1>14. \A n \in 1..Len(rows) : n - 1 \in 0..Len(rows) /\ n \in 0..Len(rows)
  BY <1>8
<1> QED BY <1>2, <1>4, <1>8, <1>9, <1>11, <1>12, <1>13, <1>14 DEF rows, name

(* What a composition has for its store: nothing before its rows, what the *)
(* plan of the rows that are past has while they mount, and the store of   *)
(* the document's plan once it is cached or held.                          *)
StoreInv ==
  /\ \A k \in Spines : k > used => spine[k].store = NoText
  /\ entry.spine # 0 => spine[entry.spine].store = Planned[entry.of].val.store
  /\ \A c \in Callers, k \in Spines : c \in spine[k].held => spine[k].store = frame[c].plan.store
  /\ \A c \in Callers : pc[c] = "rows" =>
       LET r == frame[c].entry.of
       IN  /\ IsOk(Planned[r]) /\ frame[c].at \in 1..(Len(RowsOf(r)) + 1)
           /\ spine[frame[c].k].store = PlanOfRows(r, frame[c].at - 1).val.store

(* The rows a caller mounts are those of a request, and nobody else mounts.*)
LEMMA MountedRows ==
  ASSUME BootInv, DocumentInv, StoreInv, NEW c \in Callers, pc[c] = "rows"
  PROVE  LET r == frame[c].entry.of
         IN  /\ r \in Requests /\ IsOk(Planned[r]) /\ Rows(c) = RowsOf(r)
             /\ DOMAIN Rows(c) = 1..Len(Rows(c)) /\ Len(Rows(c)) \in Nat
             /\ frame[c].at \in 1..(Len(Rows(c)) + 1)
             /\ \A d \in Callers \ {c} : pc[d] # "rows"
             /\ frame[c].k \in Spines /\ frame[c].k = used /\ entry.spine # used
             /\ spine[frame[c].k].held = {}
<1> DEFINE r == frame[c].entry.of
<1>1. r # <<>> /\ IsComposed(frame[c].entry)
  BY DEF BootInv, SpineIsPast, DocumentInv
<1>2. r \in Requests /\ Rows(c) = RowsOf(r)
  BY <1>1 DEF IsComposed, Rows, RowsOf
<1>3. IsOk(Planned[r]) /\ frame[c].at \in 1..(Len(RowsOf(r)) + 1)
  BY DEF StoreInv
<1>4. DOMAIN RowsOf(r) = 1..Len(RowsOf(r)) /\ Len(RowsOf(r)) \in Nat
  BY <1>2, <1>3, RowsPlanned
<1>5. \A d \in Callers \ {c} : pc[d] # "rows"
  BY DEF BootInv, LockIsHeld, Mounting
<1>6. /\ frame[c].k \in Spines /\ frame[c].k = used /\ entry.spine # used
      /\ spine[frame[c].k].held = {}
  BY DEF BootInv, RowsAreApart
<1> QED BY <1>2, <1>3, <1>4, <1>5, <1>6

(* A step that mounts no row and hands nothing over.                       *)
LEMMA StoresRest ==
  ASSUME StoreInv, used' = used, \A k \in Spines : spine'[k].store = spine[k].store /\ spine'[k].held \subseteq spine[k].held,
         entry' = entry \/ entry'.spine = 0, entry.spine # 0 => entry.spine \in Spines,
         \A d \in Callers : pc'[d] = "rows" => pc[d] = "rows" /\ frame'[d] = frame[d] /\ frame[d].k \in Spines,
         \A d \in Callers, k \in Spines : d \in spine'[k].held => frame'[d].plan = frame[d].plan
  PROVE  StoreInv'
<1>1. \A k \in Spines : k > used' => spine'[k].store = NoText
  BY DEF StoreInv
<1>2. entry'.spine # 0 => spine'[entry'.spine].store = Planned[entry'.of].val.store
  BY DEF StoreInv
<1>3. \A d \in Callers, k \in Spines : d \in spine'[k].held => spine'[k].store = frame'[d].plan.store
  BY DEF StoreInv
<1>4. \A d \in Callers : pc'[d] = "rows" =>
        LET r == frame'[d].entry.of
        IN  /\ IsOk(Planned[r]) /\ frame'[d].at \in 1..(Len(RowsOf(r)) + 1)
            /\ spine'[frame'[d].k].store = PlanOfRows(r, frame'[d].at - 1).val.store
  BY DEF StoreInv
<1> QED BY <1>1, <1>2, <1>3, <1>4 DEF StoreInv

(* A row that mounts.                                                      *)
LEMMA StoreOfRow ==
  ASSUME BootInv, DocumentInv, StoreInv, ExpandsOnce, NEW c \in Callers, pc[c] = "rows",
         frame[c].at \in DOMAIN Rows(c), NEW s, spine'[frame[c].k] = s,
         \A j \in Spines \ {frame[c].k} : spine'[j] = spine[j],
         s.held = spine[frame[c].k].held,
         s.store = IF IsStoreRow(RowAt(c)) THEN StoreSpec(ExpandValue(RowAt(c).config).val).val
                   ELSE spine[frame[c].k].store,
         frame' = [frame EXCEPT ![c].at = @ + 1],
         UNCHANGED <<entry, used, pc>>
  PROVE  StoreInv'
<1> DEFINE r == frame[c].entry.of
           k == frame[c].k
           n == frame[c].at
<1>1. /\ r \in Requests /\ IsOk(Planned[r]) /\ Rows(c) = RowsOf(r)
      /\ n \in 1..Len(RowsOf(r)) /\ Len(RowsOf(r)) \in Nat
      /\ \A d \in Callers \ {c} : pc[d] # "rows"
      /\ k \in Spines /\ k = used /\ entry.spine # used /\ spine[k].held = {}
  BY MountedRows
<1>2. /\ DOMAIN spine = Spines /\ DOMAIN frame = Callers /\ DOMAIN frame[c] = {"kind", "entry", "plan", "at", "k"}
      /\ Spines = 1..MaxSpines /\ MaxSpines \in Nat /\ used \in 0..MaxSpines /\ entry.spine \in 0..used
  BY ConfigBootAssumption DEF BootInv, BootTyped, FrameTyped, Spines
<1>3. /\ \A d \in Callers \ {c} : frame'[d] = frame[d]
      /\ frame'[c].entry = frame[c].entry /\ frame'[c].plan = frame[c].plan
      /\ frame'[c].k = k /\ frame'[c].at = n + 1
  BY <1>2
<1>4. spine'[k] = s /\ \A j \in Spines \ {k} : spine'[j] = spine[j]
  OBVIOUS
<1>5. s.store = PlanOfRows(r, n).val.store
  <2> DEFINE row == RowsOf(r)[n]
             p == PlanOfRows(r, n - 1).val
  <2>1. /\ IsPlanOf(Composed[r].val.doc.name, p) /\ PlanOfRows(r, n) = PlanRow(p, row)
        /\ IsOk(PlanRow(p, row)) /\ IsOk(Composed[r]) /\ n \in DOMAIN RowsOf(r)
    BY <1>1, RowsPlanned
  <2>2. row = RowAt(c)
    BY <1>1 DEF RowAt
  <2>3. spine[k].store = p.store
    BY DEF StoreInv
  <2>4. IsStoreRow(row) => ExpandValue(row.config).val = row.config
    <3>1. IsStoreRow(row) => ExpandValue(row.config) = Ok(row.config)
      BY <1>1, <2>1 DEF ExpandsOnce, RowsOf
    <3> QED BY <3>1, OkIs
  <2> HIDE DEF row, p, r, n, k
  <2>5. IF IsStoreRow(row)
        THEN IsOk(StoreSpec(row.config)) /\ PlanRow(p, row).val.store = StoreSpec(row.config).val
        ELSE PlanRow(p, row).val.store = p.store
    BY <2>1, RowGivesStore
  <2>6. s.store = IF IsStoreRow(row) THEN StoreSpec(ExpandValue(row.config).val).val ELSE spine[k].store
    BY <2>2 DEF k
  <2> QED BY <2>1, <2>3, <2>4, <2>5, <2>6
<1> HIDE DEF r, k, n
<1>6. \A j \in Spines : j > used' => spine'[j].store = NoText
  <2> SUFFICES ASSUME NEW j \in Spines, j > used' PROVE spine'[j].store = NoText
    OBVIOUS
  <2>1. j # k /\ j > used
    BY <1>1, <1>2
  <2> QED BY <1>4, <2>1 DEF StoreInv
<1>7. entry'.spine # 0 => spine'[entry'.spine].store = Planned[entry'.of].val.store
  BY <1>1, <1>2, <1>4 DEF StoreInv
<1>8. \A d \in Callers, j \in Spines : d \in spine'[j].held => spine'[j].store = frame'[d].plan.store
  BY <1>1, <1>3, <1>4 DEF StoreInv, k
<1>9. \A d \in Callers : pc'[d] = "rows" =>
        LET q == frame'[d].entry.of
        IN  /\ IsOk(Planned[q]) /\ frame'[d].at \in 1..(Len(RowsOf(q)) + 1)
            /\ spine'[frame'[d].k].store = PlanOfRows(q, frame'[d].at - 1).val.store
  <2> SUFFICES ASSUME pc'[c] = "rows"
               PROVE  /\ IsOk(Planned[r]) /\ n + 1 \in 1..(Len(RowsOf(r)) + 1)
                      /\ s.store = PlanOfRows(r, n + 1 - 1).val.store
    BY <1>1, <1>3, <1>4 DEF r, k
  <2>1. n + 1 - 1 = n /\ n + 1 \in 1..(Len(RowsOf(r)) + 1)
    BY <1>1
  <2> QED BY <1>1, <1>5, <2>1
<1> QED BY <1>6, <1>7, <1>8, <1>9 DEF StoreInv

LEMMA DropKeepsStores ==
  ASSUME BootTyped, NEW k \in Spines, NEW c \in Callers, spine' = DropHandle(k, c)
  PROVE  \A j \in Spines : spine'[j].store = spine[j].store /\ spine'[j].held \subseteq spine[j].held
<1>1. \A j \in Spines : SpineTyped(spine[j]) /\ DOMAIN spine = Spines
  BY DEF BootTyped
<1>2. Disposed(spine[k]).store = spine[k].store /\ Disposed(spine[k]).held = {}
  BY <1>1 DEF SpineTyped, Disposed
<1>3. CASE spine[k].held \ {c} = {}
  BY <1>1, <1>2, <1>3 DEF DropHandle
<1>4. CASE spine[k].held \ {c} # {}
  <2> DEFINE s == [spine[k] EXCEPT !.held = @ \ {c}]
  <2>1. s.store = spine[k].store /\ s.held = spine[k].held \ {c}
    BY <1>1 DEF SpineTyped
  <2>2. spine' = [spine EXCEPT ![k] = s]
    BY <1>4 DEF DropHandle
  <2> HIDE DEF s
  <2> QED BY <1>1, <2>1, <2>2
<1> QED BY <1>3, <1>4

LEMMA ResourceIs ==
  ASSUME NEW c, NEW seam, RowResource(c, seam)
  PROVE  \/ RowFails(c) \/ RowPanics(c)
         \/ /\ \E n, x : spine' = [spine EXCEPT ![frame[c].k] = [@ EXCEPT !.rows = n, !.model = x]]
            /\ NextRow(c) /\ UNCHANGED <<entry, used, pc>>
<1>1. ASSUME NEW n, NEW x, spine' = [spine EXCEPT ![frame[c].k] = [@ EXCEPT !.rows = n, !.model = x]]
      PROVE  \E m, y : spine' = [spine EXCEPT ![frame[c].k] = [@ EXCEPT !.rows = m, !.model = y]]
  BY <1>1
<1> QED BY <1>1 DEF RowResource

LEMMA RowStores ==
  ASSUME BootInv, DocumentInv, StoreInv, ExpandsOnce, NEW c \in Callers,
         \/ RowDocument(c) \/ RowSpine(c) \/ SpinePanics(c) \/ RowSpineTwice(c) \/ RowStorage(c)
         \/ \E seam \in {"model", "tool", "unknown"} : RowResource(c, seam)
  PROVE  StoreInv'
<1> DEFINE k == frame[c].k
           Becomes(s) == spine'[k] = s /\ \A j \in Spines \ {k} : spine'[j] = spine[j]
           Mounts(s) == Becomes(s) /\ NextRow(c) /\ UNCHANGED <<entry, used, pc>>
<1>1. pc[c] = "rows" /\ frame[c].at \in DOMAIN Rows(c)
  BY DEF RowDocument, RowSpine, SpinePanics, RowSpineTwice, RowStorage, RowResource, AtRow
<1>2. /\ k \in Spines /\ DOMAIN spine = Spines /\ \A j \in Spines : SpineTyped(spine[j])
      /\ entry.spine # 0 => entry.spine \in Spines
      /\ \A d \in Callers \ {c} : pc[d] # "rows"
      /\ pc \in [Callers -> {"idle", "armed", "failed", "panicked"} \cup Mounting]
  <2>1. used \in 0..MaxSpines /\ entry.spine \in 0..used /\ MaxSpines \in Nat
    BY ConfigBootAssumption DEF BootInv, BootTyped
  <2> QED BY <1>1, <2>1, MountedRows DEF BootInv, BootTyped, Spines
<1>3. ASSUME NEW s, Mounts(s), s.held = spine[k].held,
             s.store = IF IsStoreRow(RowAt(c)) THEN StoreSpec(ExpandValue(RowAt(c).config).val).val
                       ELSE spine[k].store
      PROVE  StoreInv'
  BY <1>1, <1>3, StoreOfRow DEF NextRow
<1>4. ASSUME NEW s, Becomes(s), s.held = spine[k].held, s.store = spine[k].store,
             UNCHANGED <<entry, used, frame>>, Goto(c, "err") \/ Goto(c, "panic")
      PROVE  StoreInv'
  <2>1. pc'[c] # "rows" /\ \A d \in Callers \ {c} : pc'[d] = pc[d]
    BY <1>2, <1>4 DEF Goto
  <2>2. \A j \in Spines : spine'[j].store = spine[j].store /\ spine'[j].held \subseteq spine[j].held
    BY <1>2, <1>4
  <2> QED BY <1>2, <1>4, <2>1, <2>2, StoresRest
<1>5. SpineTyped(spine[k])
  BY <1>2
<1>6. CASE RowDocument(c)
  <2>1. Mounts(spine[k])
    BY <1>2, <1>6 DEF RowDocument
  <2>2. ~IsStoreRow(RowAt(c))
    BY <1>6 DEF RowDocument, AtRow, IsStoreRow
  <2> HIDE DEF Mounts
  <2> QED BY <1>3, <2>1, <2>2
<1>7. ASSUME spine' = [spine EXCEPT ![k].rows = 0], UNCHANGED <<entry, used, frame>>,
             Goto(c, "err") \/ Goto(c, "panic")
      PROVE  StoreInv'
  <2> DEFINE s == [spine[k] EXCEPT !.rows = 0]
  <2>1. Becomes(s) /\ s.held = spine[k].held /\ s.store = spine[k].store
    BY <1>2, <1>5, <1>7 DEF SpineTyped
  <2> HIDE DEF s
  <2> QED BY <1>4, <1>7, <2>1
<1>8. CASE RowFails(c)
  <2> DEFINE s == [spine[k] EXCEPT !.rows = 0, !.mirror = Nobody]
  <2>1. Becomes(s) /\ s.held = spine[k].held /\ s.store = spine[k].store
    BY <1>2, <1>5, <1>8 DEF SpineTyped, RowFails
  <2>2. UNCHANGED <<entry, used, frame>> /\ Goto(c, "err")
    BY <1>8 DEF RowFails
  <2> HIDE DEF s
  <2> QED BY <1>4, <2>1, <2>2
<1>9. CASE RowPanics(c)
  BY <1>7, <1>9 DEF RowPanics
<1>10. CASE RowSpine(c)
  <2>1. ~IsStoreRow(RowAt(c))
    BY <1>10 DEF RowSpine, AtRow, IsStoreRow
  <2>2. CASE HaveBodies(frame[c].plan.tools)
    <3> DEFINE m == IF writer[c] = "cell" THEN c ELSE Nobody
               s == [spine[k] EXCEPT !.fiber = "up", !.tools = Declares(frame[c].plan), !.mirror = m]
    <3>1. Mounts(s) /\ s.held = spine[k].held /\ s.store = spine[k].store
      BY <1>2, <1>5, <1>10, <2>2 DEF SpineTyped, RowSpine
    <3> HIDE DEF s, Mounts
    <3> QED BY <1>3, <2>1, <3>1
  <2>3. CASE ~HaveBodies(frame[c].plan.tools)
    BY <1>7, <1>10, <2>3 DEF RowSpine
  <2> QED BY <2>2, <2>3
<1>11. CASE SpinePanics(c) \/ RowSpineTwice(c)
  BY <1>7, <1>11 DEF SpinePanics, RowSpineTwice, RowFailsMirrorOpen
<1>12. CASE RowStorage(c)
  <2> DEFINE v == StoreSpec(ExpandValue(RowAt(c).config).val).val
             s == [spine[k] EXCEPT !.store = v]
  <2>1. IsStoreRow(RowAt(c))
    BY <1>12 DEF RowStorage, AtRow, IsStoreRow
  <2>2. RowFails(c) \/ Mounts(s)
    BY <1>2, <1>12 DEF RowStorage
  <2>3. s.held = spine[k].held /\ s.store = v
    BY <1>5 DEF SpineTyped
  <2> HIDE DEF s, Mounts
  <2>4. Mounts(s) => StoreInv'
    BY <1>3, <2>1, <2>3
  <2> QED BY <1>8, <2>2, <2>4
<1>13. CASE \E seam \in {"model", "tool", "unknown"} : RowResource(c, seam)
  <2>1. PICK seam \in {"model", "tool", "unknown"} : RowResource(c, seam)
    BY <1>13
  <2>2. ~IsStoreRow(RowAt(c))
    BY <2>1 DEF RowResource, AtRow, IsStoreRow
  <2>3. ASSUME NEW n, NEW x, spine' = [spine EXCEPT ![frame[c].k] = [@ EXCEPT !.rows = n, !.model = x]],
               NextRow(c), UNCHANGED <<entry, used, pc>>
        PROVE  StoreInv'
    <3> DEFINE s == [spine[k] EXCEPT !.rows = n, !.model = x]
    <3>1. s.held = spine[k].held /\ s.store = spine[k].store
      BY <1>5 DEF SpineTyped
    <3>2. Mounts(s)
      BY <1>2, <2>3
    <3> HIDE DEF s, Mounts
    <3> QED BY <1>3, <2>2, <3>1, <3>2
  <2> HIDE DEF Mounts
  <2> QED BY <1>8, <1>9, <2>1, <2>3, ResourceIs
<1> QED BY <1>6, <1>10, <1>11, <1>12, <1>13

LEMMA DoneStores ==
  ASSUME BootInv, DocumentInv, StoreInv, NEW c \in Callers, RowsDone(c)
  PROVE  StoreInv'
<1> DEFINE k == frame[c].k
           r == frame[c].entry.of
           s == [spine[k] EXCEPT !.owned = TRUE, !.wired = Declares(plan[c]), !.held = {c}]
<1>1. pc[c] = "rows" /\ frame[c].at \notin DOMAIN Rows(c)
  BY DEF RowsDone
<1>2. /\ r \in Requests /\ IsOk(Planned[r]) /\ Rows(c) = RowsOf(r)
      /\ Len(RowsOf(r)) \in Nat /\ frame[c].at \in 1..(Len(RowsOf(r)) + 1)
      /\ DOMAIN Rows(c) = 1..Len(RowsOf(r))
      /\ \A d \in Callers \ {c} : pc[d] # "rows"
      /\ k \in Spines /\ k = used /\ entry.spine # used /\ spine[k].held = {}
  BY <1>1, MountedRows
<1>3. /\ DOMAIN spine = Spines /\ \A j \in Spines : SpineTyped(spine[j])
      /\ Spines = 1..MaxSpines /\ MaxSpines \in Nat /\ used \in 0..MaxSpines /\ entry.spine \in 0..used
      /\ pc \in [Callers -> {"idle", "armed", "failed", "panicked"} \cup Mounting]
      /\ DOMAIN frame[c].entry = {"of", "doc", "warnings", "spine"}
  BY ConfigBootAssumption DEF BootInv, BootTyped, FrameTyped, EntryTyped, Spines
<1>4. spine[k].store = Planned[r].val.store
  <2>1. frame[c].at - 1 = Len(RowsOf(r))
    BY <1>1, <1>2
  <2>2. spine[k].store = PlanOfRows(r, frame[c].at - 1).val.store
    BY <1>1 DEF StoreInv
  <2> QED BY <1>2, <2>1, <2>2, RowsPlanned
<1>5. CASE spine[k].fiber = "none"
  <2> DEFINE t == [spine[k] EXCEPT !.rows = 0, !.mirror = Nobody]
  <2>1. t.held = spine[k].held /\ t.store = spine[k].store
    BY <1>2, <1>3 DEF SpineTyped
  <2>2. spine'[k] = t /\ (\A j \in Spines \ {k} : spine'[j] = spine[j])
        /\ UNCHANGED <<entry, used, frame>> /\ pc' = [pc EXCEPT ![c] = "err"]
    BY <1>2, <1>3, <1>5 DEF RowsDone, RowFails, Goto
  <2> HIDE DEF t
  <2>3. \A j \in Spines : spine'[j].store = spine[j].store /\ spine'[j].held \subseteq spine[j].held
    BY <2>1, <2>2
  <2>4. \A d \in Callers : pc'[d] # "rows"
    BY <1>2, <1>3, <2>2
  <2> QED BY <1>3, <2>2, <2>3, <2>4, StoresRest
<1>6. CASE spine[k].fiber # "none"
  <2>1. s.held = {c} /\ s.store = spine[k].store
    BY <1>2, <1>3 DEF SpineTyped
  <2>2. spine'[k] = s /\ (\A j \in Spines \ {k} : spine'[j] = spine[j])
        /\ UNCHANGED <<used, frame>> /\ pc' = [pc EXCEPT ![c] = "model"]
        /\ entry' = IF frame[c].kind = "fresh" THEN [frame[c].entry EXCEPT !.spine = k] ELSE entry
    BY <1>2, <1>3, <1>6 DEF RowsDone, Goto
  <2>3. frame[c].plan = Planned[r].val
    BY <1>1 DEF BootInv, ToolsOfEntry
  <2>4. \/ entry' = entry
        \/ entry'.of = r /\ entry'.spine = k
    BY <1>3, <2>2
  <2> HIDE DEF s, r
  <2>5. \A j \in Spines : j > used' => spine'[j].store = NoText
    <3> SUFFICES ASSUME NEW j \in Spines, j > used' PROVE spine'[j].store = NoText
      OBVIOUS
    <3>1. j # k /\ j > used
      BY <1>2, <1>3, <2>2
    <3> QED BY <2>2, <3>1 DEF StoreInv
  <2>6. entry'.spine # 0 => spine'[entry'.spine].store = Planned[entry'.of].val.store
    <3>1. CASE entry' = entry
      BY <1>2, <1>3, <2>2, <3>1 DEF StoreInv
    <3>2. CASE entry'.of = r /\ entry'.spine = k
      BY <1>4, <2>1, <2>2, <3>2
    <3> QED BY <2>4, <3>1, <3>2
  <2>7. \A d \in Callers, j \in Spines : d \in spine'[j].held => spine'[j].store = frame'[d].plan.store
    BY <1>4, <2>1, <2>2, <2>3 DEF StoreInv
  <2>8. \A d \in Callers : pc'[d] # "rows"
    BY <1>2, <1>3, <2>2
  <2> QED BY <2>5, <2>6, <2>7, <2>8 DEF StoreInv
<1> QED BY <1>5, <1>6

(* Warm, a caller takes the store of the cached document; cold, it has     *)
(* none yet.                                                               *)
LEMMA StartStores ==
  ASSUME BootInv, DocumentInv, StoreInv, NEW c \in Callers, BodyStart(c)
  PROVE  StoreInv'
<1> DEFINE E == EntryFor(plan[c])
           e == E.val
<1>1. pc[c] = "armed" /\ lock = Nobody
  BY DEF BodyStart
<1>2. /\ DOMAIN spine = Spines /\ \A j \in Spines : SpineTyped(spine[j])
      /\ Spines = 1..MaxSpines /\ MaxSpines \in Nat /\ used \in 0..MaxSpines /\ entry.spine \in 0..used
      /\ pc \in [Callers -> {"idle", "armed", "failed", "panicked"} \cup Mounting]
      /\ DOMAIN frame = Callers /\ FrameTyped(frame[c])
      /\ \A d \in Callers : pc[d] # "rows"
      /\ \A k \in Spines : c \notin spine[k].held
  <2>1. \A d \in Callers : pc[d] # "rows"
    BY <1>1, ConfigBootAssumption DEF BootInv, LockIsHeld, Mounting
  <2>2. \A k \in Spines : c \notin spine[k].held
    BY <1>1 DEF BootInv, HeldIsMounted
  <2> QED BY <2>1, <2>2, ConfigBootAssumption DEF BootInv, BootTyped, Spines
<1>3. IsOk(E) => EntryIs(c, e) /\ IsComposed(e)
  <2>1. <<plan[c].name>> \in Requests
    BY <1>1 DEF DocumentInv
  <2>2. E = IF Serves(plan[c]) THEN Ok(entry) ELSE Composing(<<plan[c].name>>)
    BY DEF EntryFor
  <2> QED BY <2>1, <2>2, OkIs, ComposingIsComposed, EntryIsServed DEF DocumentInv
<1>4. ASSUME UNCHANGED <<entry, used, spine, frame>>, Goto(c, "err") PROVE StoreInv'
  <2>1. \A d \in Callers : pc'[d] # "rows"
    BY <1>2, <1>4 DEF Goto
  <2> QED BY <1>2, <1>4, <2>1, StoresRest
<1>5. CASE ~IsOk(E)
  BY <1>4, <1>5 DEF BodyStart
<1>6. CASE IsOk(E) /\ WarmReuse(c, e)
  <2> DEFINE k == e.spine
             s == [spine[k] EXCEPT !.held = @ \cup {c}]
             f == [frame[c] EXCEPT !.entry = e, !.plan = Planned[e.of].val, !.k = k]
  <2> HIDE DEF E, e
  <2>1. e = entry /\ k # 0 /\ k \in Spines
    BY <1>2, <1>3, <1>6 DEF WarmReuse, Live, EntryIs
  <2>2. used' = used
    BY <1>1, <1>6 DEF BodyStart, WarmReuse, ColdMount, E, e
  <2>3. CASE ~(spine[k].wired = Declares(plan[c]) /\ spine[k].mirror = Nobody)
    BY <1>4, <1>6, <2>2, <2>3 DEF WarmReuse
  <2>4. CASE spine[k].wired = Declares(plan[c]) /\ spine[k].mirror = Nobody
    <3>1. /\ spine'[k] = s /\ (\A j \in Spines \ {k} : spine'[j] = spine[j])
          /\ frame'[c] = f /\ (\A d \in Callers \ {c} : frame'[d] = frame[d])
          /\ pc' = [pc EXCEPT ![c] = "model"] /\ entry' = entry
      BY <1>2, <1>6, <2>1, <2>4 DEF WarmReuse, Goto, FrameTyped
    <3>2. s.held = spine[k].held \cup {c} /\ s.store = spine[k].store
      BY <1>2, <2>1 DEF SpineTyped
    <3>3. f.plan = Planned[entry.of].val
      BY <1>2, <2>1 DEF FrameTyped
    <3>4. spine[k].store = Planned[entry.of].val.store
      BY <2>1 DEF StoreInv
    <3> HIDE DEF s, f
    <3>5. \A j \in Spines : spine'[j].store = spine[j].store
      BY <3>1, <3>2
    <3>6. \A d \in Callers, j \in Spines : d \in spine'[j].held => spine'[j].store = frame'[d].plan.store
      BY <1>2, <3>1, <3>2, <3>3, <3>4, <3>5 DEF StoreInv
    <3>7. \A d \in Callers : pc'[d] # "rows"
      BY <1>2, <3>1
    <3>8. entry'.spine # 0 => spine'[entry'.spine].store = Planned[entry'.of].val.store
      BY <1>2, <3>1, <3>5 DEF StoreInv
    <3>9. \A j \in Spines : j > used' => spine'[j].store = NoText
      BY <2>2, <3>5 DEF StoreInv
    <3> QED BY <3>6, <3>7, <3>8, <3>9 DEF StoreInv
  <2> QED BY <2>3, <2>4
<1>7. CASE IsOk(E) /\ ColdMount(c, e)
  <2> DEFINE r == e.of
             f == frame'[c]
  <2> HIDE DEF E, e
  <2>1. r \in Requests
    BY <1>3, <1>7 DEF EntryIs, IsComposed
  <2>2. PICK p : /\ p = Planned[r]
                 /\ frame' = [frame EXCEPT ![c] =
                      [@ EXCEPT !.entry = e, !.plan = IF IsOk(p) THEN p.val ELSE NoPlan, !.at = 1, !.k = used + 1]]
                 /\ \/ pc' = [pc EXCEPT ![c] = "rows"] /\ IsOk(p)
                    \/ pc' = [pc EXCEPT ![c] = "err"]
    BY <1>7 DEF ColdMount, Goto
  <2>3. UNCHANGED <<entry, spine>> /\ used' = used + 1 /\ used + 1 \in Spines
    BY <1>2, <1>7, ConfigBootAssumption DEF ColdMount, BootInv, BootTyped
  <2>4. /\ f.entry = e /\ f.at = 1 /\ f.k = used + 1
        /\ \A d \in Callers \ {c} : frame'[d] = frame[d]
    BY <1>2, <2>2 DEF FrameTyped
  <2>5. \A d \in Callers : pc'[d] = "rows" => d = c /\ IsOk(Planned[r])
    BY <1>2, <2>2
  <2> HIDE DEF f
  <2>6. \A d \in Callers : pc'[d] = "rows" =>
          LET q == frame'[d].entry.of
          IN  /\ IsOk(Planned[q]) /\ frame'[d].at \in 1..(Len(RowsOf(q)) + 1)
              /\ spine'[frame'[d].k].store = PlanOfRows(q, frame'[d].at - 1).val.store
    <3> SUFFICES ASSUME pc'[c] = "rows"
                 PROVE  /\ IsOk(Planned[r]) /\ 1 \in 1..(Len(RowsOf(r)) + 1)
                        /\ spine[used + 1].store = PlanOfRows(r, 1 - 1).val.store
      BY <2>3, <2>4, <2>5 DEF f
    <3>1. IsOk(Planned[r]) /\ Len(RowsOf(r)) \in Nat /\ PlanOfRows(r, 0).val.store = NoText
      BY <2>1, <2>5, RowsPlanned
    <3>2. spine[used + 1].store = NoText
      BY <1>2, <2>3 DEF StoreInv
    <3> QED BY <3>1, <3>2
  <2>7. \A d \in Callers, j \in Spines : d \in spine'[j].held => spine'[j].store = frame'[d].plan.store
    BY <1>2, <2>3, <2>4 DEF StoreInv
  <2>8. \A j \in Spines : j > used' => spine'[j].store = NoText
    BY <1>2, <2>3 DEF StoreInv
  <2>9. entry'.spine # 0 => spine'[entry'.spine].store = Planned[entry'.of].val.store
    BY <2>3 DEF StoreInv
  <2> QED BY <2>6, <2>7, <2>8, <2>9 DEF StoreInv
<1> QED BY <1>5, <1>6, <1>7 DEF BodyStart

LEMMA StoreStep ==
  ExpandsOnce => (BootInv /\ DocumentInv /\ StoreInv /\ [Next]_vars => StoreInv')
<1> SUFFICES ASSUME ExpandsOnce, BootInv, DocumentInv, StoreInv, [Next]_vars PROVE StoreInv'
  OBVIOUS
<1>1. CASE UNCHANGED vars
  BY <1>1 DEF vars, StoreInv
<1>2. /\ entry.spine # 0 => entry.spine \in Spines
      /\ pc \in [Callers -> {"idle", "armed", "failed", "panicked"} \cup Mounting]
      /\ DOMAIN frame = Callers
      /\ \A d \in Callers : pc[d] = "rows" => frame[d].k \in Spines
      /\ \A d \in Callers : pc[d] = "model" => frame[d].k \in Spines
  <2>1. used \in 0..MaxSpines /\ entry.spine \in 0..used /\ MaxSpines \in Nat
    BY ConfigBootAssumption DEF BootInv, BootTyped
  <2> QED BY <2>1 DEF BootInv, BootTyped, RowsAreApart, HeldIsMounted, Spines
<1>3. ASSUME NEW c \in env.callers, Step(c) PROVE StoreInv'
  <2>1. c \in Callers
    BY CallersAre
  <2>2. ASSUME NEW r, ComposeProfile(c, r) PROVE StoreInv'
    <3>1. entry' = entry \/ entry'.spine = 0
      BY <2>2, ComposingIs DEF ComposeProfile
    <3> QED BY <1>2, <2>2, <3>1, StoresRest DEF ComposeProfile
  <2>3. ASSUME NEW kind, MountCall(c, kind) PROVE StoreInv'
    <3>1. /\ UNCHANGED <<entry, used, spine>> /\ \A d \in Callers \ {c} : frame'[d] = frame[d] /\ pc'[d] = pc[d]
          /\ pc'[c] = "armed" /\ \A k \in Spines : c \notin spine[k].held
      BY <1>2, <2>1, <2>3 DEF MountCall, Goto
    <3> QED BY <1>2, <3>1, StoresRest
  <2>4. CASE BodyStart(c)
    BY <2>1, <2>4, StartStores
  <2>5. CASE \/ RowDocument(c) \/ RowSpine(c) \/ SpinePanics(c) \/ RowSpineTwice(c) \/ RowStorage(c)
             \/ \E seam \in {"model", "tool", "unknown"} : RowResource(c, seam)
    BY <2>1, <2>5, RowStores
  <2>6. CASE RowsDone(c)
    BY <2>1, <2>6, DoneStores
  <2>7. CASE ModelOk(c) \/ WrapErr(c) \/ WrapPanic(c)
    <3>1. UNCHANGED <<entry, used, spine, frame>> /\ \A d \in Callers : pc'[d] = "rows" => pc[d] = "rows"
      BY <1>2, <2>1, <2>7 DEF ModelOk, WrapErr, WrapPanic, Goto
    <3> QED BY <1>2, <3>1, StoresRest
  <2>8. CASE ModelFails(c) \/ \E k \in Spines : DropMounted(c, k)
    <3>1. /\ UNCHANGED <<entry, used, frame>> /\ \A d \in Callers : pc'[d] = "rows" => pc[d] = "rows"
          /\ \E k \in Spines : spine' = DropHandle(k, c)
      BY <1>2, <2>1, <2>8 DEF ModelFails, DropMounted, Goto
    <3>2. \A j \in Spines : spine'[j].store = spine[j].store /\ spine'[j].held \subseteq spine[j].held
      BY <2>1, <3>1, DropKeepsStores DEF BootInv
    <3> QED BY <1>2, <3>1, <3>2, StoresRest
  <2> QED BY <1>3, <2>2, <2>3, <2>4, <2>5, <2>6, <2>7, <2>8 DEF Step
<1> QED BY <1>1, <1>3 DEF Next

(* What a caller mounted is what its plan declares, tools and store: the   *)
(* dump equals the mount, warm or cold, whoever else composes or mounts    *)
(* meanwhile.  The store's half is for documents whose storage config an   *)
(* expansion leaves as it is once it is expanded.                          *)
THEOREM BootMountIsPlan == ExpandsOnce => (Spec => []MountIsPlan)
<1> SUFFICES ASSUME ExpandsOnce PROVE Spec => []MountIsPlan
  OBVIOUS
<1>1. Init => DocumentInv /\ StoreInv
  BY DEF Init, DocumentInv, IsComposed, NoEntry, StoreInv, Free
<1>2. BootInv /\ DocumentInv /\ StoreInv /\ [Next]_vars => StoreInv'
  BY StoreStep
<1>3. BootInv /\ StoreInv => MountIsPlan
  BY DEF BootInv, ToolsOfEntry, StoreInv, ToolsArePlanned, MountIsPlan, IsMounted
<1> QED BY <1>1, <1>2, <1>3, BootInvHolds, DocumentStep, PTL DEF Spec

=============================================================================
