---------------------------- MODULE ReplayScript ---------------------------
(***************************************************************************)
(* The replay adapter (harnless-llm-replay): a stream that has ended is    *)
(* captured into a recording, a script answers call after call with its    *)
(* recordings, and a consumer folds what it is told into the blocks of a   *)
(* message and the metadata kept with them (harnless-seams BlockAssembler).*)
(* The metadata of a block is modelled by the block's index.               *)
(***************************************************************************)
EXTENDS ModelStream

CONSTANT ReplayCallers   \* the callers of one adapter, at once

(* An environment also says which recordings were written by hand (golden) *)
(* and, to bound a behaviour, how often the adapter is called (calls).     *)

VARIABLES script, calls, plays

replayVars == <<script, calls, plays>>

(* A recording: its frames, the metadata of its blocks in the order they   *)
(* ended, and the failure it ended in, if it did.                          *)
NoFailure == ""
FailureOf(out) == IF out # <<>> /\ out[Len(out)].e = "failed" THEN out[Len(out)].code ELSE NoFailure
FramesOf(out)  == IF FailureOf(out) = NoFailure THEN out ELSE Front(out)
Ending(ends, ev) == IF ev.e = "end" THEN Append(ends, ev) ELSE ends
EndsOf(out)      == FoldLeft(Ending, <<>>, out)
Entries(out)     == [i \in DOMAIN EndsOf(out) |-> EndsOf(out)[i].at]

CaptureBare(out) ==   \* a bug: the failure a stream ended in is not kept
  [frames |-> FramesOf(out), blocks |-> Entries(out), failure |-> NoFailure, of |-> out]
Capture(out) ==
  [frames  |-> FramesOf(out),
   blocks  |-> IF FailureOf(out) = NoFailure THEN Entries(out) ELSE <<>>,
   failure |-> FailureOf(out),
   of      |-> out]

(* A golden recording has the metadata of its first blocks, or of all.     *)
EventName == {"start", "delta", "end", "usage", "finish", "failed"}
EventCode == {"", "context-overflow", "provider-failure", "stream-terminated", "empty-completion"}
KnownKind == {"", "text", "reasoning", "tool_call", "tool_result", "image"}
RecordedFrame ==
  [e : EventName, at : Int, kind : KnownKind \cup {"unknown"}, call : Nat, said : Seq(STRING),
   usage : SUBSET [uncached : Nat, reads : Nat, output : Nat, reasoning : Nat], code : EventCode]
ASSUME ReplayAssumption ==
  \A env \in ModelEnvironments : \A rec \in env.golden :
    rec.frames \in Seq(RecordedFrame) /\ rec.blocks \in Seq(Int) /\ IsPrefix(rec.blocks, Entries(rec.frames))

(* Finish is the last frame and not beside a failure; every kind is known. *)
ValidRecording(rec) ==
  \A i \in DOMAIN rec.frames :
    /\ rec.frames[i].e = "finish" => i = Len(rec.frames) /\ rec.failure = NoFailure
    /\ rec.frames[i].kind \in KnownKind

HasContent(frames) == \E i \in DOMAIN frames : frames[i].e \in {"start", "delta", "end"}

(* What a stream of the recording yields, if it is accepted at all.        *)
ReplayOf(rec) ==
  rec.frames \o (IF rec.failure # NoFailure THEN <<Failed(rec.failure)>>
                 ELSE IF HasContent(rec.frames) THEN <<>> ELSE <<Failed("empty-completion")>>)

(* Past the end of the script its last recording repeats.                  *)
Lesser(a, b) == IF a < b THEN a ELSE b
Recorded(n) == script[Lesser(n, Len(script) - 1) + 1]

----------------------------------------------------------------------------
(* BlockAssembler.                                                         *)
NewAssembler == [completed |-> <<>>, open |-> <<>>, truncated |-> FALSE]

Remove1(sq, x) == IF x \in ToSet(sq) THEN RemoveFirst(sq, x) ELSE sq
AssemblerPush(a, ev) ==
  CASE ev.e = "start"  -> [a EXCEPT !.open = Append(@, ev.at)]
    [] ev.e = "end"    -> [a EXCEPT !.open = Remove1(@, ev.at), !.completed = Append(@, ev)]
    [] ev.e = "finish" -> [a EXCEPT !.truncated = a.open # <<>>]
    [] OTHER           -> a

Kept(a, block) == ~(a.truncated /\ block.kind = "tool_call")
Blocks(a) ==
  LET kept   == { i \in DOMAIN a.completed : Kept(a, a.completed[i]) }
      at(i)  == a.completed[i].at
      order  == { p \in kept \X kept : at(p[1]) < at(p[2]) \/ (at(p[1]) = at(p[2]) /\ p[1] < p[2]) }
      sorted == Ranked(kept, order)
  IN  [k \in DOMAIN sorted |-> a.completed[sorted[k]]]

AlignReplay(a, blocks) ==
  LET kept == Ascending({ i \in DOMAIN a.completed : Kept(a, a.completed[i]) /\ i <= Len(blocks) })
  IN  [k \in DOMAIN kept |-> blocks[kept[k]]]

----------------------------------------------------------------------------
IdlePlay == [at |-> "idle", call |-> 0, rec |-> Capture(<<Finish>>), told |-> 0, asm |-> NewAssembler, kept |-> <<>>]

ReplayFrom == script = <<>> /\ calls = 0 /\ plays = [c \in ReplayCallers |-> IdlePlay]
ReplayInit == ReplayFrom

(* A recording is captured, or loaded from a golden file, before the       *)
(* adapter is built over the script.                                       *)
AddRecording(rec) ==
  /\ calls = 0 /\ Len(script) < modelEnv.calls
  /\ script' = Append(script, rec) /\ UNCHANGED <<calls, plays>>
CaptureStream(s) == streams[s].at = "ended" /\ AddRecording(Capture(streams[s].out))
LoadGolden       == \E rec \in modelEnv.golden : AddRecording(rec)

(* stream(): a recording that breaks the protocol is refused at the entry. *)
ReplayCall(c) ==
  LET rec == Recorded(calls) IN
  /\ plays[c].at = "idle" /\ script # <<>> /\ calls < modelEnv.calls
  /\ calls' = calls + 1
  /\ plays' = [plays EXCEPT ![c] = [IdlePlay EXCEPT !.at = IF ValidRecording(rec) THEN "playing" ELSE "thrown",
                                                    !.call = calls + 1, !.rec = rec]]
  /\ UNCHANGED script

(* The consumer is told the next event; at the end it aligns the metadata. *)
ReplayPoll(c) ==
  LET p == plays[c]
      all == ReplayOf(p.rec)
      asm == AssemblerPush(p.asm, all[p.told + 1])
  IN
  /\ p.at = "playing"
  /\ plays' = [plays EXCEPT ![c] =
       IF p.told = Len(all) THEN [p EXCEPT !.at = "over", !.kept = AlignReplay(p.asm, p.rec.blocks)]
       ELSE [p EXCEPT !.told = @ + 1, !.asm = asm]]
  /\ UNCHANGED <<script, calls>>

ReplayNext ==
  \/ \E s \in Streams : CaptureStream(s)
  \/ LoadGolden
  \/ \E c \in ReplayCallers : ReplayCall(c) \/ ReplayPoll(c)

----------------------------------------------------------------------------
(* "replay(record(x)) == x": a live stream and the replay of its recording *)
(* tell a consumer the same events, the failed ones included, and none     *)
(* that was captured is refused.                                           *)
ReplayIsTheStream ==
  \A c \in ReplayCallers : LET p == plays[c] IN
    p.rec \notin modelEnv.golden /\ p.at # "idle" =>
      /\ p.at # "thrown"
      /\ SubSeq(ReplayOf(p.rec), 1, p.told) = SubSeq(p.rec.of, 1, p.told)
      /\ p.at = "over" => p.told = Len(p.rec.of)

(* What is stored with a message describes what is stored in it: a call    *)
(* dropped because the stream was cut short takes its metadata with it,    *)
(* and where every block has its metadata nothing else does.               *)
MetadataDescribesContent ==
  \A c \in ReplayCallers : LET p == plays[c]
                               stored == { block.at : block \in ToSet(Blocks(p.asm)) } IN
    p.at = "over" =>
      /\ ToSet(p.kept) \subseteq stored
      /\ Len(p.rec.blocks) = Len(p.asm.completed) =>
           Len(p.kept) = Len(Blocks(p.asm)) /\ ToSet(p.kept) = stored

(* A recording stands in for its stream, with the metadata that goes with  *)
(* what a consumer stores.                                                 *)
ReplayStandsIn == ReplayIsTheStream /\ MetadataDescribesContent
=============================================================================
