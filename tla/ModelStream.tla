---------------------------- MODULE ModelStream ----------------------------
(***************************************************************************)
(* The live model adapter (harnless-llm-openai): a request is answered by  *)
(* a body of server-sent events that arrives cut anywhere; the events are  *)
(* framed out of it, decoded chunk by chunk into the frames of the seam,   *)
(* and the stream ends in exactly one terminal event.                      *)
(*                                                                         *)
(* A body is a sequence of line contents and line ends: <<"data", c, p>>   *)
(* is a data line with the whole, the head or the tail of chunk c,         *)
(* <<"note">> any other line, <<"lf">> and <<"cr">> the two line ends.     *)
(***************************************************************************)
EXTENDS Integers, Sequences, SequencesExt, FiniteSets

CONSTANTS
  Streams,           \* the streams; stream s is given the call id s
  ChunkOf,           \* chunk name -> what its JSON says; no name, no JSON
  ModelEnvironments  \* [bodies, streams, faults: sets, and what ReplayScript adds]

(* A chunk: what its first choice adds to the text, to the reasoning and to *)
(* the calls (carries: there is an argument fragment), its usage if it has *)
(* one, and the error it reports.                                          *)
CallParts == { c \in [index : Nat, carries : BOOLEAN, args : Seq(STRING)] : ~c.carries => c.args = <<>> }
Counts    == [prompt : Nat, hit : Nat, miss : Nat, cached : Nat, completion : Nat, reasoning : Nat]
IsChunk(c) ==
  /\ c.text \in Seq(STRING) /\ c.reasoning \in Seq(STRING) /\ c.calls \in Seq(CallParts)
  /\ c.usage \subseteq Counts /\ \A u, v \in c.usage : u = v
  /\ c.finish \in BOOLEAN /\ c.error \in STRING

ASSUME ModelAssumption ==
  /\ Streams \subseteq Nat
  /\ \A c \in DOMAIN ChunkOf : IsChunk(ChunkOf[c])

VARIABLES modelEnv, streams

modelVars == <<modelEnv, streams>>

Lf == <<"lf">>
Cr == <<"cr">>
NoIndex == -1

----------------------------------------------------------------------------
(* Events of the seam, as records of one shape.                            *)
NoEvent == [e |-> "none", at |-> NoIndex, kind |-> "", call |-> 0, said |-> <<>>, usage |-> {}, code |-> ""]

Start(i, kind)          == [NoEvent EXCEPT !.e = "start", !.at = i, !.kind = kind]
Delta(i, kind, call, w) == [NoEvent EXCEPT !.e = "delta", !.at = i, !.kind = kind, !.call = call, !.said = w]
End(i, kind, w)         == [NoEvent EXCEPT !.e = "end", !.at = i, !.kind = kind, !.said = w]
UsageFrame(u)           == [NoEvent EXCEPT !.e = "usage", !.usage = {u}]
Finish                  == [NoEvent EXCEPT !.e = "finish"]
Failed(code)            == [NoEvent EXCEPT !.e = "failed", !.code = code]

Terminal(ev) == ev.e \in {"finish", "failed"}

(* The provider's usage object, split without overlap: an explicit miss    *)
(* count first, then what the declared reads leave of the prompt.          *)
Saturating(a, b) == IF a > b THEN a - b ELSE 0
UsageFromValue(u) ==
  LET split == IF u.miss > 0 THEN <<u.miss, u.hit>>
               ELSE IF u.hit > 0 THEN <<Saturating(u.prompt, u.hit), u.hit>>
               ELSE <<Saturating(u.prompt, u.cached), u.cached>>
  IN  [uncached |-> split[1], reads |-> split[2], output |-> u.completion, reasoning |-> u.reasoning]

----------------------------------------------------------------------------
(* The decoder. Its calls are keyed by the provider's index of the call.   *)
OneBlock == {"text", "reasoning"}   \* the kinds that have one block at most
NewDecoder(first) ==
  [next |-> 0, at |-> [k \in OneBlock |-> NoIndex], said |-> [k \in OneBlock |-> <<>>],
   calls |-> <<>>, nextCall |-> first, usage |-> {}, finished |-> FALSE]

(* r is a decoder with the frames it has emitted for this chunk.           *)
Say(r, kind, w) ==
  LET fresh == r.dec.at[kind] = NoIndex
      i     == IF fresh THEN r.dec.next ELSE r.dec.at[kind]
  IN  IF w = <<>> THEN r
      ELSE [dec    |-> [r.dec EXCEPT !.next = IF fresh THEN @ + 1 ELSE @, !.at[kind] = i, !.said[kind] = @ \o w],
            frames |-> r.frames \o (IF fresh THEN <<Start(i, kind)>> ELSE <<>>) \o <<Delta(i, kind, 0, w)>>]

(* One element of tool_calls[]: only one that carries an argument fragment *)
(* is told to the consumer.                                                *)
ApplyToolCall(r, c) ==
  LET d     == r.dec
      fresh == c.index \notin DOMAIN d.calls
      entry == IF fresh THEN [at |-> d.next, call |-> d.nextCall + 1, args |-> <<>>] ELSE d.calls[c.index]
      full  == [entry EXCEPT !.args = @ \o c.args]
  IN  [dec    |-> [d EXCEPT !.next = IF fresh THEN @ + 1 ELSE @, !.nextCall = IF fresh THEN @ + 1 ELSE @,
                            !.calls = [x \in DOMAIN @ \cup {c.index} |-> IF x = c.index THEN full ELSE @[x]]],
       frames |-> r.frames \o (IF fresh THEN <<Start(entry.at, "tool_call")>> ELSE <<>>)
                           \o (IF c.carries THEN <<Delta(entry.at, "tool_call", entry.call, c.args)>> ELSE <<>>)]

ApplyDelta(r, chunk) ==
  FoldLeft(ApplyToolCall, Say(Say(r, "text", chunk.text), "reasoning", chunk.reasoning), chunk.calls)

(* S in the strict total order R: the i-th has i - 1 elements before it.   *)
Ranked(S, R) == [i \in 1..Cardinality(S) |-> CHOOSE x \in S : Cardinality({ y \in S : <<y, x>> \in R }) = i - 1]
Ascending(S) == Ranked(S, { p \in S \X S : p[1] < p[2] })

CloseOne(d, kind) == IF d.at[kind] = NoIndex THEN <<>> ELSE <<End(d.at[kind], kind, d.said[kind])>>
CloseCalls(d) ==
  LET ids == Ascending(DOMAIN d.calls)
  IN  [i \in DOMAIN ids |-> End(d.calls[ids[i]].at, "tool_call", d.calls[ids[i]].args)]

CloseBlocks(r) ==
  [dec    |-> [r.dec EXCEPT !.at = [k \in OneBlock |-> NoIndex], !.calls = <<>>, !.finished = TRUE],
   frames |-> r.frames \o CloseOne(r.dec, "text") \o CloseOne(r.dec, "reasoning") \o CloseCalls(r.dec)]

PushPastFinish(d, chunk) ==   \* a bug: a chunk after the finish reason opens blocks again
  LET told == ApplyDelta([dec |-> d, frames |-> <<>>], chunk) IN IF chunk.finish THEN CloseBlocks(told) ELSE told

(* What arrives after a finish reason is ignored, usage included.          *)
Push(d, chunk) ==
  LET counted == [d EXCEPT !.usage = IF chunk.usage = {} THEN @ ELSE { UsageFromValue(u) : u \in chunk.usage }]
      told    == ApplyDelta([dec |-> counted, frames |-> <<>>], chunk)
  IN  IF d.finished THEN [dec |-> d, frames |-> <<>>]
      ELSE IF chunk.finish THEN CloseBlocks(told) ELSE told

FinishDecoder(d) == IF d.finished THEN [dec |-> d, frames |-> <<>>] ELSE CloseBlocks([dec |-> d, frames |-> <<>>])

HadContent(d) == d.said["text"] # <<>> \/ d.said["reasoning"] # <<>> \/ DOMAIN d.calls # {}

----------------------------------------------------------------------------
(* Framing: every piece is normalised by itself, then appended.            *)
Normalise(piece) ==
  LET kept == SelectSeq([i \in DOMAIN piece |-> i], LAMBDA i : ~(i > 1 /\ piece[i] = Lf /\ piece[i-1] = Cr))
  IN  [k \in DOMAIN kept |-> IF piece[kept[k]] = Cr THEN Lf ELSE piece[kept[k]]]

Blanks(buf) == { i \in 1..(Len(buf) - 1) : buf[i] = Lf /\ buf[i+1] = Lf }
FirstBlank(buf) == CHOOSE i \in Blanks(buf) : \A j \in Blanks(buf) : i <= j

(* The chunk the data lines of an event join to, if they are its JSON.     *)
DataLines(event) == SelectSeq(event, LAMBDA t : t[1] = "data")
Parses(lines) ==
  /\ lines[1][2] \in DOMAIN ChunkOf
  /\ \/ Len(lines) = 1 /\ lines[1][3] = "whole"
     \/ Len(lines) = 2 /\ lines[1][3] = "head" /\ lines[2] = <<"data", lines[1][2], "tail">>

----------------------------------------------------------------------------
IdleStream == [at |-> "idle", sent |-> <<>>, body |-> <<>>, buf |-> <<>>, dec |-> NewDecoder(0),
               chunks |-> <<>>, malformed |-> 0, out |-> <<>>]

ModelFrom(env) == modelEnv = env /\ streams = [s \in Streams |-> IdleStream]
ModelInit == \E env \in ModelEnvironments : ModelFrom(env)

Set(s, r) == streams' = [streams EXCEPT ![s] = r] /\ UNCHANGED modelEnv
Ended(r, event) == [r EXCEPT !.at = "ended", !.out = Append(@, event)]
MayFail(f) == f \in modelEnv.faults

(* stream(): the request is sent when the stream is first polled.          *)
StreamCall(s, body) ==
  /\ streams[s].at = "idle" /\ s \in modelEnv.streams /\ body \in modelEnv.bodies
  /\ Set(s, [IdleStream EXCEPT !.at = "connecting", !.sent = body, !.body = body, !.dec = NewDecoder(s)])

(* A refused connection, or a status that is no success: its text says     *)
(* why, and is empty when the read of it stalls.                           *)
Unanswered(s, why) ==
  /\ streams[s].at = "connecting" /\ MayFail("connect")
  /\ Set(s, Ended(streams[s], Failed(IF why \in {"window", "tokens"} THEN "context-overflow" ELSE "provider-failure")))

Connected(s) ==
  /\ streams[s].at = "connecting"
  /\ Set(s, [streams[s] EXCEPT !.at = "open"])

ArriveFresh(s, n) ==   \* a bug: the buffer becomes the piece
  LET r == streams[s] IN
  /\ r.at = "open" /\ Blanks(r.buf) = {} /\ n <= Len(r.body)
  /\ Set(s, [r EXCEPT !.buf = Normalise(SubSeq(r.body, 1, n)), !.body = SubSeq(@, n + 1, Len(@))])

(* The next n tokens arrive; the complete events of the buffer are taken   *)
(* out before the body is read again.                                      *)
Arrive(s, n) ==
  LET r == streams[s] IN
  /\ r.at = "open" /\ Blanks(r.buf) = {} /\ n <= Len(r.body)
  /\ Set(s, [r EXCEPT !.buf = @ \o Normalise(SubSeq(r.body, 1, n)), !.body = SubSeq(@, n + 1, Len(@))])

(* An error inside the stream is matched against three of the six markers  *)
(* of a failed status: "tokens" stands for the other three.                *)
InBandError(chunk) == IF chunk.error = "window" THEN Failed("context-overflow") ELSE Failed("provider-failure")

DecodeEvent(s) ==
  LET r     == streams[s]
      i     == FirstBlank(r.buf)
      lines == DataLines(SubSeq(r.buf, 1, i - 1))
      rest  == [r EXCEPT !.buf = SubSeq(@, i + 2, Len(@))]
      chunk == ChunkOf[lines[1][2]]
      p     == Push(r.dec, chunk)
      heard == [rest EXCEPT !.chunks = Append(@, lines[1][2])]
  IN
  /\ r.at = "open" /\ Blanks(r.buf) # {}
  /\ Set(s, IF lines = <<>> THEN rest
            ELSE IF ~Parses(lines) THEN [rest EXCEPT !.malformed = @ + 1]
            ELSE IF chunk.error # "none" THEN Ended(heard, InBandError(chunk))
            ELSE [heard EXCEPT !.dec = p.dec, !.out = @ \o p.frames])

(* The transport dies, or stays silent longer than the idle timeout.       *)
ReadFails(s) ==
  /\ streams[s].at = "open" /\ Blanks(streams[s].buf) = {} /\ MayFail("read")
  /\ Set(s, Ended(streams[s], Failed("stream-terminated")))

(* The body ends: what is left in the buffer is no event and is dropped.   *)
Closing(r) ==
  LET f     == FinishDecoder(r.dec)
      usage == SetToSeq({ UsageFrame(u) : u \in f.dec.usage })
  IN  Ended([r EXCEPT !.dec = f.dec, !.out = @ \o f.frames \o usage],
            IF HadContent(f.dec) THEN Finish ELSE Failed("empty-completion"))
EndOfBody(s) ==
  /\ streams[s].at = "open" /\ Blanks(streams[s].buf) = {} /\ streams[s].body = <<>>
  /\ Set(s, Closing(streams[s]))

ModelNext ==
  \E s \in Streams :
    \/ \E body \in modelEnv.bodies : StreamCall(s, body)
    \/ \E why \in {"window", "tokens", "other"} : Unanswered(s, why)
    \/ Connected(s)
    \/ \E n \in 1..Len(streams[s].body) : Arrive(s, n)
    \/ DecodeEvent(s) \/ ReadFails(s) \/ EndOfBody(s)

----------------------------------------------------------------------------
(* A protocol every consumer relies on: one terminal event, last; usage    *)
(* once, right before it; a block is started once, grows only while it is  *)
(* open, and ends as the concatenation of its deltas; a finished stream    *)
(* leaves no block open.                                                   *)
Positions(out, P(_)) == { i \in DOMAIN out : P(out[i]) }
Join(w, v) == w \o v
Fragments(out, i) == [k \in DOMAIN out |-> IF out[k].e = "delta" /\ out[k].at = i THEN out[k].said ELSE <<>>]
BlockIsSound(out, i) ==
  LET starts == Positions(out, LAMBDA ev : ev.e = "start" /\ ev.at = i)
      deltas == Positions(out, LAMBDA ev : ev.e = "delta" /\ ev.at = i)
      ends   == Positions(out, LAMBDA ev : ev.e = "end" /\ ev.at = i)
      grown  == FoldLeft(Join, <<>>, Fragments(out, i))
  IN  /\ Cardinality(starts) = 1 /\ Cardinality(ends) <= 1
      /\ \A a \in starts, d \in deltas, z \in ends : a < d /\ d < z /\ out[z].said = grown
      /\ \A a \in starts, z \in ends : a < z /\ out[a].kind = out[z].kind

WellFormed(out) ==
  LET usages == Positions(out, LAMBDA ev : ev.e = "usage") IN
  /\ \A i \in DOMAIN out : Terminal(out[i]) => i = Len(out)
  /\ Cardinality(usages) <= 1 /\ \A i \in usages : i >= Len(out) - 1
  /\ \A i \in { out[k].at : k \in DOMAIN out } \ {NoIndex} : BlockIsSound(out, i)
  /\ out # <<>> /\ out[Len(out)].e = "finish" =>
       { out[k].at : k \in Positions(out, LAMBDA ev : ev.e = "start") }
         = { out[k].at : k \in Positions(out, LAMBDA ev : ev.e = "end") }

StreamIsWellFormed ==
  \A s \in Streams :
    /\ WellFormed(streams[s].out)
    /\ (streams[s].at = "ended" <=> \E i \in DOMAIN streams[s].out : Terminal(streams[s].out[i]))

(* Where a body is cut changes nothing: what a stream read to the end has  *)
(* decoded is what framing the whole body at once yields. Bodies with a    *)
(* chunk on two lines that end in CRLF are left out: a cut between CR and  *)
(* LF ends their event early.                                              *)
Events(buf) ==
  LET f[b \in Seq(Seq(STRING))] ==
        IF Blanks(b) = {} THEN <<>>
        ELSE LET lines == DataLines(SubSeq(b, 1, FirstBlank(b) - 1))
             IN  (IF lines = <<>> \/ (lines # <<>> /\ ~Parses(lines)) THEN <<>> ELSE <<lines[1][2]>>)
                 \o f[SubSeq(b, FirstBlank(b) + 2, Len(b))]
  IN  f[buf]
SplitByCrlf(body) == \E i \in 1..(Len(body) - 1) : body[i][1] = "data" /\ body[i][3] = "head" /\ body[i+1] = Cr

FramingIsCutFree ==
  \A s \in Streams : LET r == streams[s] IN
    r.at = "ended" /\ r.out[Len(r.out)].e = "finish" /\ ~SplitByCrlf(r.sent)
      => r.chunks = Events(Normalise(r.sent))

(* The prompt of a provider whose counts add up is accounted once: what    *)
(* was read from the cache and what was not sum to it.                     *)
Consistent(u) == u.hit <= u.prompt /\ u.cached <= u.prompt /\ (u.miss > 0 => u.miss + u.hit = u.prompt)
UsageIsDisjoint ==
  \A s \in Streams : \A i \in DOMAIN streams[s].out : \A u \in streams[s].out[i].usage :
    \E c \in ToSet(streams[s].chunks) : \E v \in ChunkOf[c].usage :
      /\ u.output = v.completion
      /\ Consistent(v) => u.uncached + u.reads = v.prompt

(* VIOLATED. "Whether any content block (text, reasoning, or a tool call)  *)
(* was seen" decides between a completion and an empty one; the calls are  *)
(* forgotten when the blocks close.                                        *)
ToolCallIsContent ==
  \A s \in Streams : LET out == streams[s].out IN
    (\E i \in DOMAIN out : out[i].e = "end" /\ out[i].kind = "tool_call")
      => ~\E i \in DOMAIN out : out[i] = Failed("empty-completion")

(* VIOLATED. "two concurrent streams never mint colliding ids": a stream   *)
(* counts up from its own call id, and so do the calls themselves.         *)
MintedBy(s) == { streams[s].out[i].call : i \in DOMAIN streams[s].out } \ {0}
CallIdsAreDistinct == \A s, t \in Streams : s # t => MintedBy(s) \cap MintedBy(t) = {}

(* A stream tells a consumer a well-formed story, its usage disjoint.      *)
StreamIsSound == StreamIsWellFormed /\ UsageIsDisjoint
=============================================================================
