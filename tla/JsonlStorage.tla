---------------------------- MODULE JsonlStorage ---------------------------
(***************************************************************************)
(* The JSONL storage hub, crates/harnless-storage-jsonl/src/provider.rs:   *)
(* one append-only file per backend, replayed line by line by every get,   *)
(* rewritten whole by compaction.  A hub's writer lock is its own: two     *)
(* hubs over one root, in one process or two, do not share it.             *)
(*                                                                         *)
(* A file is a sequence of segments: an entry's text, the beginning of one *)
(* that a crash cut short, and line ends, which are written on their own.  *)
(***************************************************************************)
EXTENDS Naturals, SequencesExt, FiniteSets

CONSTANTS
  StoreCallers,  \* threads that use a hub
  Hub,           \* caller -> its hub
  Keys,          \* keys of the one backend
  MaxEntries,    \* bound: sets and deletes of a behaviour
  MaxCompactions,
  StoreFaultSets \* what may go wrong in a behaviour: "crash" a hub's process

NoHolder == "no one"

ASSUME StoreAssumption == IsFiniteSet(Keys) /\ NoHolder \notin StoreCallers

LineEnd == [kind |-> "end", key |-> NoHolder, value |-> 0]
Torn    == [kind |-> "torn", key |-> NoHolder, value |-> 0]

VARIABLES
  storeFaults, \* what may go wrong
  log,        \* the backend's file
  writerLock, \* hub -> the caller that holds it
  thread,     \* each caller: what it writes, and how far it is
  entries,    \* entries appended so far: the values are their numbers
  compactions,
  acked       \* key -> what the last acknowledged operation left there

storeVars == <<storeFaults, log, writerLock, thread, entries, compactions, acked>>

Hubs == { Hub[c] : c \in StoreCallers }
NoValue == 0
Idle == [pc |-> "idle", entry |-> LineEnd, snapshot |-> <<>>, tail |-> <<>>, before |-> 0]

StoreFrom(faults) ==
  /\ storeFaults = faults
  /\ log = <<>>
  /\ writerLock = [h \in Hubs |-> NoHolder]
  /\ thread = [c \in StoreCallers |-> Idle]
  /\ entries = 0 /\ compactions = 0
  /\ acked = [k \in Keys |-> NoValue]

StoreInit == \E faults \in StoreFaultSets : StoreFrom(faults)

----------------------------------------------------------------------------
(* Replay                                                                  *)

(* The lines of a file: the segments between its line ends.                *)
ReadSegment(lines, s) ==
  IF s = LineEnd THEN Append(lines, <<>>)
  ELSE [lines EXCEPT ![Len(lines)] = Append(@, s)]
Lines(f) == FoldLeft(ReadSegment, << <<>> >>, f)

(* Entry::from_line: a blank line is skipped, any other must be one whole  *)
(* entry.                                                                  *)
Reads(line) == line = <<>> \/ (Len(line) = 1 /\ line[1] # Torn)

ApplyEntry(live, line) ==
  IF line = <<>> THEN live
  ELSE [live EXCEPT ![line[1].key] = IF line[1].kind = "set" THEN line[1].value ELSE NoValue]

(* replay: one line that does not read and the backend does not.           *)
Readable(f) == \A i \in DOMAIN Lines(f) : Reads(Lines(f)[i])
NothingLive == [k \in Keys |-> NoValue]
Replay(f)   == FoldLeft(ApplyEntry, NothingLive, Lines(f))

----------------------------------------------------------------------------
(* Appending and compacting                                                *)

To(c, l) == thread' = [thread EXCEPT ![c].pc = l]

(* append: the writer lock, the text, the line end, and the return; a      *)
(* crash may come after each.                                              *)
AppendCall(c, kind, k) ==
  /\ thread[c].pc = "idle" /\ entries < MaxEntries
  /\ writerLock[Hub[c]] = NoHolder
  /\ writerLock' = [writerLock EXCEPT ![Hub[c]] = c]
  /\ entries' = entries + 1
  /\ thread' = [thread EXCEPT ![c] = [Idle EXCEPT !.pc = "text",
                  !.entry = [kind |-> kind, key |-> k, value |-> entries + 1]]]
  /\ UNCHANGED <<storeFaults, log, compactions, acked>>

WriteText(c) ==
  /\ thread[c].pc = "text"
  /\ log' = Append(log, thread[c].entry)
  /\ To(c, "end")
  /\ UNCHANGED <<storeFaults, writerLock, entries, compactions, acked>>

WriteEnd(c) ==
  /\ thread[c].pc = "end"
  /\ log' = Append(log, LineEnd)
  /\ To(c, "idle")
  /\ writerLock' = [writerLock EXCEPT ![Hub[c]] = NoHolder]
  /\ acked' = ApplyEntry(acked, << thread[c].entry >>)
  /\ UNCHANGED <<storeFaults, entries, compactions>>

(* A plausible slip: the lock is taken for the rename only.                *)
CompactCallUnlocked(c) ==
  /\ thread[c].pc = "idle" /\ compactions < MaxCompactions
  /\ compactions' = compactions + 1
  /\ thread' = [thread EXCEPT ![c] = [Idle EXCEPT !.pc = "snapshot", !.before = Len(log)]]
  /\ UNCHANGED <<storeFaults, log, writerLock, entries, acked>>

(* compact, under the same lock: the length, the replay, the tail past the *)
(* length, the temp file, the rename.                                      *)
CompactCall(c) ==
  /\ thread[c].pc = "idle" /\ compactions < MaxCompactions
  /\ writerLock[Hub[c]] = NoHolder
  /\ writerLock' = [writerLock EXCEPT ![Hub[c]] = c]
  /\ compactions' = compactions + 1
  /\ thread' = [thread EXCEPT ![c] = [Idle EXCEPT !.pc = "snapshot", !.before = Len(log)]]
  /\ UNCHANGED <<storeFaults, log, entries, acked>>

Unlock(c) == writerLock' = [writerLock EXCEPT ![Hub[c]] = IF @ = c THEN NoHolder ELSE @]

(* A line for every live key, in the order the map of the replay has them. *)
PushLine(text, entry) == text \o <<entry, LineEnd>>
Snapshot(live) ==
  LET keys == SetToSeq({ k \in Keys : live[k] # NoValue })
  IN  FoldLeft(PushLine, <<>>,
               [i \in DOMAIN keys |-> [kind |-> "set", key |-> keys[i], value |-> live[keys[i]]]])

(* A backend that does not read is not compacted, nor is one without a     *)
(* file.                                                                   *)
CompactReplay(c) ==
  /\ thread[c].pc = "snapshot"
  /\ IF Readable(log)
     THEN /\ thread' = [thread EXCEPT ![c].pc = "tail", ![c].snapshot = Snapshot(Replay(log))]
          /\ UNCHANGED writerLock
     ELSE To(c, "idle") /\ Unlock(c)
  /\ UNCHANGED <<storeFaults, log, entries, compactions, acked>>

CompactTail(c) ==
  /\ thread[c].pc = "tail"
  /\ IF log = <<>> THEN To(c, "idle") /\ Unlock(c)
     ELSE /\ thread' = [thread EXCEPT ![c].pc = "rename",
                          ![c].tail = SubSeq(log, thread[c].before + 1, Len(log))]
          /\ UNCHANGED writerLock
  /\ UNCHANGED <<storeFaults, log, entries, compactions, acked>>

CompactRename(c) ==
  /\ thread[c].pc = "rename"
  /\ log' = thread[c].snapshot \o thread[c].tail
  /\ To(c, "idle")
  /\ Unlock(c)
  /\ UNCHANGED <<storeFaults, entries, compactions, acked>>

(* The process of a hub dies, possibly in the middle of a text; its lock   *)
(* is in memory and the hub opened next has a new one.                     *)
CrashHub(h) ==
  /\ "crash" \in storeFaults
  /\ \E c \in StoreCallers : Hub[c] = h /\ thread[c].pc # "idle"
  /\ \/ UNCHANGED log
     \/ \E c \in StoreCallers : Hub[c] = h /\ thread[c].pc = "text" /\ log' = Append(log, Torn)
  /\ thread' = [c \in StoreCallers |-> IF Hub[c] = h THEN Idle ELSE thread[c]]
  /\ writerLock' = [writerLock EXCEPT ![h] = NoHolder]
  /\ UNCHANGED <<storeFaults, entries, compactions, acked>>

StoreNext ==
  \/ \E c \in StoreCallers :
       \/ \E k \in Keys, kind \in {"set", "del"} : AppendCall(c, kind, k)
       \/ WriteText(c) \/ WriteEnd(c)
       \/ CompactCall(c) \/ CompactReplay(c) \/ CompactTail(c) \/ CompactRename(c)
  \/ \E h \in Hubs : CrashHub(h)

----------------------------------------------------------------------------
(* Properties                                                              *)

(* Every acknowledged set and delete is what a get replays, through any    *)
(* interleaving of appends, compactions and gets of one hub; the one entry *)
(* that is under way may show already (append and compact under one lock). *)
(* Two hubs over one root, and a crash, break it.                          *)
OneHub == \A c, d \in StoreCallers : Hub[c] = Hub[d]
AckedReplays ==
  OneHub /\ storeFaults = {} =>
    /\ Readable(log)
    /\ \/ Replay(log) = acked
       \/ \E c \in StoreCallers :
            thread[c].pc = "end" /\ Replay(log) = ApplyEntry(acked, << thread[c].entry >>)

=============================================================================
