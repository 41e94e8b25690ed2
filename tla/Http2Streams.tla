----------------------------- MODULE Http2Streams -----------------------------
(***************************************************************************)
(* The HTTP/2 stream reconstruction of stage T01: decodeHTTP2 in           *)
(* tools/decoder/http2_decoder.go and writeHTTP2Stream in                  *)
(* http2_stream_writer.go.                                                 *)
(*                                                                         *)
(* tshark hands over the frames of the capture in order.  The decoder      *)
(* keeps a state per live stream key, decides from the headers it has seen *)
(* which side a frame belongs to, writes the stream's document as soon as  *)
(* both sides have ended or the stream was reset, forgets the stream, and  *)
(* writes whatever is left at the end of the capture.                      *)
(*                                                                         *)
(* The two peers of a stream are the environment.  They follow RFC 9113,   *)
(* which the decoder does not check: a peer ends its side once, and after  *)
(* a stream is closed WINDOW_UPDATE, RST_STREAM and frames that were in    *)
(* flight can still arrive.  A frame is its number in the capture; header  *)
(* values, bodies and addresses are left out.  A document id is a function *)
(* of the stream key, so a stream key stands for its file.                 *)
(***************************************************************************)
EXTENDS Naturals, Sequences, FiniteSets

CONSTANTS
  Stream,       \* stream keys "tcp.stream:http2.streamid"
  KeyOrder,     \* the keys in the lexical order of sortedStreamKeys
  MaxFrames,    \* bound: HTTP/2 frames of the capture
  HalfDuplex,   \* streams whose server answers only once the client has ended its side
  LateFrames,   \* streams on which frames can arrive after the close
  MidCapture,   \* streams that can be under way when the capture begins
  WriteFaults,  \* streams whose document can fail to be written
  NoState, NoDoc

Peer == {"client", "server"}

PeerState == {"idle", "open", "ended"}

Completion ==
  {"complete", "request_only", "response_only", "reset", "truncated_capture",
   "incomplete"}

Frame == 1 .. MaxFrames

\* http2StreamState: the frames that gave each side its headers and its body
\* segments, the end and reset flags, and whether the endpoints are known.
StreamState ==
  [reqHdr : SUBSET Frame, reqSeg : SUBSET Frame, reqEnd : BOOLEAN,
   respHdr : SUBSET Frame, respSeg : SUBSET Frame, respEnd : BOOLEAN,
   rst : BOOLEAN, known : BOOLEAN, frames : SUBSET Frame]

\* HTTP2Document: the stream's state when it was written.
Document == [content : StreamState, completion : Completion]

ASSUME Http2Assumption ==
  /\ MaxFrames \in Nat
  /\ KeyOrder \in Seq(Stream)
  /\ HalfDuplex \subseteq Stream /\ LateFrames \subseteq Stream
  /\ MidCapture \subseteq Stream /\ WriteFaults \subseteq Stream
  /\ NoState \notin StreamState
  /\ NoDoc \notin Document

VARIABLES
  peer,     \* what each peer of a stream has done on the wire
  reset,    \* has the stream been reset on the wire?
  webPort,  \* does the server of the stream use port 80, 443 or 8080?
  carried,  \* frames of the capture that carried a body or headers, and whose
  count,    \* frames handed over by tshark so far
  phase,    \* reading, flushing (end of capture) or done
  states,   \* the map of live stream states
  disk,     \* the documents under decoder/full/http2/streams/
  flushed   \* the documents built, in order; those written are the members of
            \* the collection and the lines of stream_index.jsonl

wire == <<peer, reset, webPort, carried, count>>
vars == <<wire, phase, states, disk, flushed>>

Carried == [n : Frame, stream : Stream, from : Peer, what : {"body", "headers"}]

Write == [stream : Stream, doc : Document, ok : BOOLEAN]

TypeOK ==
  /\ peer \in [Stream -> [Peer -> PeerState]]
  /\ reset \in [Stream -> BOOLEAN]
  /\ webPort \in [Stream -> BOOLEAN]
  /\ carried \subseteq Carried
  /\ count \in 0 .. MaxFrames
  /\ phase \in {"reading", "flushing", "done"}
  /\ states \in [Stream -> StreamState \cup {NoState}]
  /\ disk \in [Stream -> Document \cup {NoDoc}]
  /\ flushed \in Seq(Write)

Init ==
  /\ peer \in [Stream -> [Peer -> PeerState]]
  /\ \A k \in Stream \ MidCapture : \A p \in Peer : peer[k][p] = "idle"
  /\ \A k \in Stream : peer[k]["server"] # "idle" => peer[k]["client"] # "idle"
  /\ \A k \in Stream : k \in HalfDuplex /\ peer[k]["server"] # "idle" => peer[k]["client"] = "ended"
  /\ reset = [k \in Stream |-> FALSE]
  /\ webPort \in [Stream -> BOOLEAN]
  /\ carried = {}
  /\ count = 0
  /\ phase = "reading"
  /\ states = [k \in Stream |-> NoState]
  /\ disk = [k \in Stream |-> NoDoc]
  /\ flushed = << >>

-----------------------------------------------------------------------------
(* The decoder's handling of one frame.                                    *)

\* Fault-injection variant: the frame list lags one frame behind.
LookupPrevious(k) ==
  LET s == IF states[k] # NoState THEN states[k]
           ELSE [reqHdr |-> {}, reqSeg |-> {}, reqEnd |-> FALSE,
                 respHdr |-> {}, respSeg |-> {}, respEnd |-> FALSE,
                 rst |-> FALSE, known |-> FALSE, frames |-> {}]
  IN  [s EXCEPT !.frames = @ \cup {count}]

\* getOrCreateHTTP2State and appendUniq(state.frames, frame).
Lookup(k) ==
  LET s == IF states[k] # NoState THEN states[k]
           ELSE [reqHdr |-> {}, reqSeg |-> {}, reqEnd |-> FALSE,
                 respHdr |-> {}, respSeg |-> {}, respEnd |-> FALSE,
                 rst |-> FALSE, known |-> FALSE, frames |-> {}]
  IN  [s EXCEPT !.frames = @ \cup {count + 1}]

\* HEADERS with :method: request side, endpoints known from here on.
OnRequest(s, end) ==
  [s EXCEPT !.reqHdr = @ \cup {count + 1}, !.known = TRUE, !.reqEnd = @ \/ end]

\* HEADERS with :status: response side, endpoints known from here on.
OnResponse(s, end) ==
  [s EXCEPT !.respHdr = @ \cup {count + 1}, !.known = TRUE, !.respEnd = @ \/ end]

\* Fault-injection variant: response headers do not count, ports alone do.
ToResponseByPort(k, s, from) == ~ s.known /\ from = "server" /\ webPort[k]

\* Which side takes a frame without :method and :status: the response once it
\* has headers, else the request, unless neither endpoint is known and the
\* frame comes from a well-known port.
ToResponse(k, s, from) ==
  s.respHdr # {} \/ (~ s.known /\ from = "server" /\ webPort[k])

\* A DATA frame, or any other frame without :method and :status.
OnBare(k, s, from, body, end) ==
  IF ToResponse(k, s, from)
    THEN [s EXCEPT !.respSeg = IF body THEN @ \cup {count + 1} ELSE @,
                   !.respEnd = @ \/ end]
    ELSE [s EXCEPT !.reqSeg = IF body THEN @ \cup {count + 1} ELSE @,
                   !.reqEnd = @ \/ end]

\* Fault-injection variant: one ended side is enough.
StreamIsCompleteEarly(s) == s.rst \/ s.reqEnd \/ s.respEnd

\* streamIsComplete.
StreamIsComplete(s) == s.rst \/ (s.reqEnd /\ s.respEnd)

\* completionState.
CompletionState(s, atEOF) ==
  LET hasReq == s.reqHdr # {} \/ s.reqSeg # {}
      hasResp == s.respHdr # {} \/ s.respSeg # {}
  IN  IF s.rst THEN "reset"
      ELSE IF s.reqEnd /\ s.respEnd THEN "complete"
      ELSE IF ~ atEOF THEN "incomplete"
      ELSE IF hasReq /\ ~ hasResp THEN "request_only"
      ELSE IF ~ hasReq /\ hasResp THEN "response_only"
      ELSE "truncated_capture"

\* writeHTTP2Stream: build the document, rename it over the stream's file,
\* return the member and the index entry; or fail, which is only a warning.
WriteStream(k, s, atEOF) ==
  LET doc == [content |-> s, completion |-> CompletionState(s, atEOF)] IN
  \E ok \in {TRUE, k \notin WriteFaults} :
    /\ flushed' = Append(flushed, [stream |-> k, doc |-> doc, ok |-> ok])
    /\ disk' = IF ok THEN [disk EXCEPT ![k] = doc] ELSE disk

\* Fault-injection variant: a completed stream is written but not forgotten.
StoreKeepsState(k, s) ==
  /\ states' = [states EXCEPT ![k] = s]
  /\ IF StreamIsComplete(s) THEN WriteStream(k, s, FALSE)
                            ELSE UNCHANGED <<flushed, disk>>

\* Fault-injection variant: the map keeps the state of a stream's first frame;
\* what later frames add is lost unless they complete the stream.
StoreForgetful(k, s) ==
  IF StreamIsComplete(s)
    THEN /\ WriteStream(k, s, FALSE)
         /\ states' = [states EXCEPT ![k] = NoState]
    ELSE /\ states' = [states EXCEPT ![k] = IF @ = NoState THEN s ELSE @]
         /\ UNCHANGED <<flushed, disk>>

\* The end of the loop body: a complete stream is written and forgotten.
Store(k, s) ==
  IF StreamIsComplete(s)
    THEN /\ WriteStream(k, s, FALSE)
         /\ states' = [states EXCEPT ![k] = NoState]
    ELSE /\ states' = [states EXCEPT ![k] = s]
         /\ UNCHANGED <<flushed, disk>>

-----------------------------------------------------------------------------
(* One action per kind of frame: what the peers do, what the decoder does. *)

Closed(k) == reset[k] \/ \A p \in Peer : peer[k][p] = "ended"

\* tshark has another frame of stream k.
Arrives(k) ==
  /\ phase = "reading"
  /\ count < MaxFrames
  /\ count' = count + 1
  /\ UNCHANGED <<phase, webPort>>

Carry(k, from, what) ==
  carried' = carried \cup {[n |-> count + 1, stream |-> k, from |-> from, what |-> what]}

\* Peer p moves on, ending its side if the frame has END_STREAM.
Advance(k, p, end) ==
  peer' = [peer EXCEPT ![k][p] = IF end THEN "ended" ELSE "open"]

RequestHeaders(k) ==
  \E end \in BOOLEAN :
    /\ Arrives(k)
    /\ ~ Closed(k)
    /\ peer[k]["client"] = "idle"
    /\ Advance(k, "client", end)
    /\ Carry(k, "client", "headers")
    /\ Store(k, OnRequest(Lookup(k), end))
    /\ UNCHANGED reset

\* Final headers, or an informational 1xx status (which also has :status).
ResponseHeaders(k) ==
  \E end, informational \in BOOLEAN :
    /\ Arrives(k)
    /\ ~ Closed(k) \/ k \in LateFrames
    /\ ~ (end /\ informational)
    /\ peer[k]["server"] = "idle"
    /\ peer[k]["client"] \in IF k \in HalfDuplex THEN {"ended"} ELSE {"open", "ended"}
    /\ IF informational THEN UNCHANGED peer ELSE Advance(k, "server", end)
    /\ Carry(k, "server", "headers")
    /\ Store(k, OnResponse(Lookup(k), end))
    /\ UNCHANGED reset

\* A DATA frame; an empty one only carries END_STREAM.
Data(k, p) ==
  \E end, body \in BOOLEAN :
    /\ Arrives(k)
    /\ ~ Closed(k) \/ k \in LateFrames
    /\ peer[k][p] = "open"
    /\ body \/ end
    /\ Advance(k, p, end)
    /\ IF body THEN Carry(k, p, "body") ELSE UNCHANGED carried
    /\ Store(k, OnBare(k, Lookup(k), p, body, end))
    /\ UNCHANGED reset

\* HEADERS without pseudo-headers end a peer's side.
Trailers(k, p) ==
  /\ Arrives(k)
  /\ ~ Closed(k) \/ k \in LateFrames
  /\ peer[k][p] = "open"
  /\ Advance(k, p, TRUE)
  /\ Carry(k, p, "headers")
  /\ Store(k, OnBare(k, Lookup(k), p, FALSE, TRUE))
  /\ UNCHANGED reset

\* WINDOW_UPDATE or another frame that changes nothing but the frame list.
Control(k, p) ==
  /\ Arrives(k)
  /\ ~ Closed(k) \/ k \in LateFrames
  /\ peer[k]["client"] # "idle"
  /\ Store(k, OnBare(k, Lookup(k), p, FALSE, FALSE))
  /\ UNCHANGED <<peer, carried, reset>>

ResetStream(k, p) ==
  /\ Arrives(k)
  /\ ~ Closed(k) \/ k \in LateFrames
  /\ peer[k]["client"] # "idle"
  /\ reset' = [reset EXCEPT ![k] = TRUE]
  /\ Store(k, OnBare(k, [Lookup(k) EXCEPT !.rst = TRUE], p, FALSE, FALSE))
  /\ UNCHANGED <<peer, carried>>

-----------------------------------------------------------------------------
(* The end of the capture.                                                 *)

\* `for dec.More()` ends, wherever the peers are.
EndOfCapture ==
  /\ phase = "reading"
  /\ phase' = "flushing"
  /\ UNCHANGED <<wire, states, disk, flushed>>

Live == {k \in Stream : states[k] # NoState}

\* The EOF flush: every remaining stream in the order of its key.
FlushRemaining(k) ==
  /\ phase = "flushing"
  /\ \E j \in DOMAIN KeyOrder :
       /\ KeyOrder[j] = k
       /\ k \in Live
       /\ \A i \in 1 .. (j - 1) : KeyOrder[i] \notin Live
  /\ WriteStream(k, states[k], TRUE)
  /\ states' = [states EXCEPT ![k] = NoState]
  /\ UNCHANGED <<wire, phase>>

Finish ==
  /\ phase = "flushing"
  /\ Live = {}
  /\ phase' = "done"
  /\ UNCHANGED <<wire, states, disk, flushed>>

Next ==
  \/ \E k \in Stream :
       \/ RequestHeaders(k)
       \/ ResponseHeaders(k)
       \/ \E p \in Peer : Data(k, p) \/ Trailers(k, p) \/ Control(k, p) \/ ResetStream(k, p)
       \/ FlushRemaining(k)
  \/ EndOfCapture
  \/ Finish

Spec == Init /\ [][Next]_vars

-----------------------------------------------------------------------------
(* Properties.                                                             *)

Writes == DOMAIN flushed

Bodies == {c \in carried : c.what = "body"}

\* The sides of a stream state that hold body frame n.
Sides(s, n) ==
  (IF n \in s.reqSeg THEN {"request"} ELSE {})
    \cup (IF n \in s.respSeg THEN {"response"} ELSE {})

\* The document of write i is not on disk: its write failed, which was reported,
\* or a later document of the same stream replaced the file.  The second happens
\* silently, to the streams that see frames after their close: the decoder makes
\* a new state for them (http2_decoder.go:416) and writes it to the same path.
Gone(i) ==
  \/ ~ flushed[i].ok
  \/ /\ flushed[i].stream \in LateFrames
     /\ \E j \in Writes : j > i /\ flushed[j].stream = flushed[i].stream /\ flushed[j].ok

\* How often body segment c is held: by its stream's live state and its file.
Copies(c) ==
  (IF states[c.stream] = NoState THEN 0
   ELSE Cardinality(Sides(states[c.stream], c.n)))
    + (IF disk[c.stream] = NoDoc THEN 0
       ELSE Cardinality(Sides(disk[c.stream].content, c.n)))

\* Every captured body segment is in exactly one place, on one side of its
\* stream's live state or of its stream's file, or it was in a document that is
\* Gone.  Nothing else is dropped when a stream is flushed, re-created or ends
\* mid-air, and nothing is kept twice.
SegmentsKept ==
  \A c \in Bodies :
    \/ Copies(c) = 1
    \/ /\ Copies(c) = 0
       /\ \E i \in Writes :
            /\ Gone(i) /\ flushed[i].stream = c.stream
            /\ Sides(flushed[i].doc.content, c.n) # {}

\* streamIsComplete and completionState agree although they are coded apart:
\* a document written before the end of the capture is complete or reset,
\* never incomplete, and "complete" means that both peers ended their side.
CompletionAgrees ==
  \A i \in Writes :
    /\ flushed[i].doc.completion # "incomplete"
    /\ phase = "reading" => flushed[i].doc.completion \in {"complete", "reset"}
    /\ flushed[i].doc.completion = "complete" =>
         \A p \in Peer : peer[flushed[i].stream][p] = "ended"

\* What validate_collection checks: each member's checksum is that of the file
\* on disk, so no later document may replace an earlier one.  It holds of the
\* streams that see no frame after their close (the others are written again).
MembersMatchDisk ==
  \A i \in Writes :
    flushed[i].ok /\ flushed[i].stream \notin LateFrames =>
      disk[flushed[i].stream] = flushed[i].doc

\* After the flush every frame of the capture, of whatever kind, is in the file
\* of a stream or was in a document that is Gone.
AllAccounted ==
  phase = "done" =>
    \A n \in 1 .. count :
      \/ \E k \in Stream : disk[k] # NoDoc /\ n \in disk[k].content.frames
      \/ \E i \in Writes : Gone(i) /\ n \in flushed[i].doc.content.frames

\* A body segment is filed under the peer that sent it, in any stream whose
\* two header blocks are in the capture and whose server waited for the end of
\* the request.
AttributionExact ==
  \A c \in Bodies : \A i \in Writes :
    LET s == flushed[i].doc.content IN
    (flushed[i].stream = c.stream /\ c.stream \in HalfDuplex
       /\ s.reqHdr # {} /\ s.respHdr # {}) =>
      /\ c.n \in s.reqSeg => c.from = "client"
      /\ c.n \in s.respSeg => c.from = "server"

\* T01_decode_capture.md: "Keep only active HTTP/2 stream state in memory": a
\* stream captured from its request on and closed on the wire is forgotten,
\* if its server waited for the end of the request and nothing came after.
ActiveOnly ==
  \A k \in Live :
    k \in HalfDuplex \ LateFrames /\ states[k].reqHdr # {} => ~ Closed(k)

\* Nothing of the capture is missing from the files but for the two losses that
\* Gone names: no body segment (SegmentsKept) and, once all is flushed, no frame
\* (AllAccounted).  T01_decode_capture.md:324 promises more, "Preserve all body
\* segments with source frame references"; the code does not keep that for a
\* stream re-opened by a late frame, and this property says so.
NothingElseLost == SegmentsKept /\ AllAccounted

\* The two notions of a closed stream agree: the one that names a document's
\* completion and the one by which a stream leaves memory.
ClosedMeansWritten == CompletionAgrees /\ ActiveOnly
=============================================================================
