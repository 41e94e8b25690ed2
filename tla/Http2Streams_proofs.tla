------------------------- MODULE Http2Streams_proofs -------------------------
(***************************************************************************)
(* Nothing of a capture is lost or filed under the wrong peer, for any     *)
(* streams, any length of the capture and any interleaving of its frames.  *)
(*                                                                         *)
(* Every frame takes the same way: the state of its stream is looked up,   *)
(* updated, and stored or written and forgotten.  StoreStep is that way,   *)
(* once; each kind of frame then only shows that the updated state says    *)
(* the truth about the wire (StateTrue) and that it has what the stream    *)
(* had plus this frame (Extended).                                         *)
(***************************************************************************)
EXTENDS Http2Streams, TLAPS, FiniteSetTheorems

\* What the decoder concluded from the frames of stream k it remembers.
StateTrue(k, s) ==
  /\ s.reqEnd \/ s.respEnd => \E p \in Peer : peer[k][p] = "ended"
  /\ s.rst => reset[k]
  /\ s.reqSeg \subseteq 1 .. count /\ s.respSeg \subseteq 1 .. count
  /\ s.reqSeg \cap s.respSeg = {}
  /\ s.reqHdr # {} => s.known /\ peer[k]["client"] # "idle"
  /\ k \in HalfDuplex /\ s.respHdr # {} => peer[k]["client"] = "ended"
  /\ k \in HalfDuplex /\ s.reqHdr # {} =>
       /\ peer[k]["server"] # "idle" => s.respHdr # {}
       /\ peer[k]["client"] = "ended" => s.reqEnd
       /\ peer[k]["server"] = "ended" => s.respEnd
       /\ \A c \in Bodies : c.stream = k =>
            (c.n \in s.reqSeg => c.from = "client") /\ (c.n \in s.respSeg => c.from = "server")

\* A stream that is remembered has not been seen to close.
LiveTrue ==
  \A k \in Stream : states[k] # NoState =>
    /\ StateTrue(k, states[k])
    /\ states[k].frames \subseteq 1 .. count
    /\ ~ StreamIsComplete(states[k])
    /\ reset[k] => k \in LateFrames

\* The turns of the peers, and that nothing was carried before the request.
WireTrue ==
  /\ \A k \in Stream :
       /\ peer[k]["server"] # "idle" => peer[k]["client"] # "idle"
       /\ k \in HalfDuplex /\ peer[k]["server"] # "idle" => peer[k]["client"] = "ended"
  /\ \A c \in carried : c.n \in 1 .. count
  /\ \A c \in Bodies : peer[c.stream]["client"] # "idle"

\* What a document says, and why a stream without late frames has only one.
DocTrue(w) ==
  LET s == w.doc.content IN
  /\ s.reqSeg \subseteq 1 .. count /\ s.respSeg \subseteq 1 .. count
  /\ s.frames \subseteq 1 .. count
  /\ w.doc.completion # "incomplete"
  /\ phase = "reading" => w.doc.completion \in {"complete", "reset"}
  /\ w.doc.completion = "complete" => \A p \in Peer : peer[w.stream][p] = "ended"
  /\ w.stream \in HalfDuplex /\ s.reqHdr # {} =>
       \A c \in Bodies : c.stream = w.stream =>
         (c.n \in s.reqSeg => c.from = "client") /\ (c.n \in s.respSeg => c.from = "server")
  /\ w.stream \notin LateFrames =>
       /\ states[w.stream] = NoState
       /\ Closed(w.stream) \/ phase # "reading"
       /\ w.ok => disk[w.stream] = w.doc

DocsTrue == \A i \in Writes : DocTrue(flushed[i])

Absent(s, n) == n \notin s.reqSeg /\ n \notin s.respSeg
Once(s, n) == (n \in s.reqSeg) # (n \in s.respSeg)

InState(c) == states[c.stream] # NoState /\ ~ Absent(states[c.stream], c.n)
InDoc(c, i) == flushed[i].stream = c.stream /\ ~ Absent(flushed[i].doc.content, c.n)

\* A body segment is on one side of the live state, or of one document.
PlacedOnce ==
  \A c \in Bodies :
    \/ /\ InState(c) /\ Once(states[c.stream], c.n)
       /\ \A i \in Writes : ~ InDoc(c, i)
    \/ /\ ~ InState(c)
       /\ \E i \in Writes :
            /\ InDoc(c, i) /\ Once(flushed[i].doc.content, c.n)
            /\ \A j \in Writes : InDoc(c, j) => j = i

\* Every frame is in the frame list of a live state or of a document.
FramesKept ==
  \A n \in 1 .. count :
    \/ \E k \in Stream : states[k] # NoState /\ n \in states[k].frames
    \/ \E i \in Writes : n \in flushed[i].doc.content.frames

NothingLive == phase = "done" => Live = {}

IInv ==
  TypeOK /\ LiveTrue /\ WireTrue /\ DocsTrue /\ PlacedOnce /\ FramesKept /\ NothingLive

-----------------------------------------------------------------------------
(* One frame: looked up, handled, stored.                                  *)

\* What the map holds of stream k, field by field.
Held(k) ==
  IF states[k] # NoState THEN states[k]
  ELSE [reqHdr |-> {}, reqSeg |-> {}, reqEnd |-> FALSE,
        respHdr |-> {}, respSeg |-> {}, respEnd |-> FALSE,
        rst |-> FALSE, known |-> FALSE, frames |-> {}]

Body(k, p) == [n |-> count + 1, stream |-> k, from |-> p, what |-> "body"]

\* s is what the map holds of k and this frame, which is in at most one side.
Extended(k, s) ==
  /\ s.frames = Held(k).frames \cup {count + 1}
  /\ \/ /\ s.reqSeg = Held(k).reqSeg /\ s.respSeg = Held(k).respSeg
        /\ Bodies' = Bodies
     \/ /\ \E p \in Peer : Bodies' = Bodies \cup {Body(k, p)}
        /\ \/ s.reqSeg = Held(k).reqSeg \cup {count + 1} /\ s.respSeg = Held(k).respSeg
           \/ s.reqSeg = Held(k).reqSeg /\ s.respSeg = Held(k).respSeg \cup {count + 1}

\* What any frame of stream k does to the wire.
Moved(k) ==
  /\ Arrives(k)
  /\ ~ Closed(k) \/ k \in LateFrames
  /\ peer' \in [Stream -> [Peer -> PeerState]]
  /\ reset' \in [Stream -> BOOLEAN]
  /\ carried' \subseteq Carried
  /\ \A j \in Stream \ {k} : peer'[j] = peer[j] /\ reset'[j] = reset[j]
  /\ \A p \in Peer : peer[k][p] = "ended" => peer'[k][p] = "ended"
  /\ reset[k] => reset'[k]

LEMMA HeldTrue ==
  ASSUME IInv, NEW k \in Stream
  PROVE  /\ Held(k) \in StreamState
         /\ StateTrue(k, Held(k))
         /\ Held(k).frames \subseteq 1 .. count
         /\ ~ StreamIsComplete(Held(k))
         /\ Held(k).rst = FALSE
<1>1. CASE states[k] # NoState
  <2>1. Held(k) = states[k]
    BY <1>1 DEF Held
  <2>2. states[k] \in StreamState
    BY <1>1 DEF IInv, TypeOK
  <2>3. states[k].rst \in BOOLEAN
    BY <2>2 DEF StreamState
  <2> QED
    BY <1>1, <2>1, <2>2, <2>3 DEF IInv, LiveTrue, StreamIsComplete
<1>2. CASE states[k] = NoState
  <2> DEFINE fresh == [reqHdr |-> {}, reqSeg |-> {}, reqEnd |-> FALSE,
                       respHdr |-> {}, respSeg |-> {}, respEnd |-> FALSE,
                       rst |-> FALSE, known |-> FALSE, frames |-> {}]
  <2>1. Held(k) = fresh
    BY <1>2 DEF Held
  <2>2. fresh \in StreamState
    BY DEF StreamState
  <2>3. StateTrue(k, fresh)
    BY DEF StateTrue
  <2> QED
    BY <2>1, <2>2, <2>3 DEF StreamIsComplete
<1> QED
  BY <1>1, <1>2

LEMMA LookupFacts ==
  ASSUME IInv, NEW k \in Stream, count < MaxFrames
  PROVE  /\ Lookup(k) \in StreamState
         /\ Lookup(k) = [Held(k) EXCEPT !.frames = @ \cup {count + 1}]
         /\ StateTrue(k, Lookup(k))
<1>1. Lookup(k) = [Held(k) EXCEPT !.frames = @ \cup {count + 1}]
  BY DEF Lookup, Held
<1>2. count + 1 \in Frame
  BY Http2Assumption DEF IInv, TypeOK, Frame
<1>3. Held(k) \in StreamState /\ StateTrue(k, Held(k))
  BY HeldTrue
<1> QED
  BY <1>1, <1>2, <1>3 DEF StreamState, StateTrue

LEMMA Appended ==
  ASSUME NEW S, NEW q \in Seq(S), NEW w \in S
  PROVE  /\ Append(q, w) \in Seq(S)
         /\ DOMAIN Append(q, w) = DOMAIN q \cup {Len(q) + 1}
         /\ Len(q) + 1 \notin DOMAIN q
         /\ \A i \in DOMAIN q : Append(q, w)[i] = q[i]
         /\ Append(q, w)[Len(q) + 1] = w
  OBVIOUS

LEMMA WritesTyped ==
  ASSUME TypeOK
  PROVE  \A i \in Writes : flushed[i] \in Write /\ flushed[i].stream \in Stream
<1>1. flushed \in Seq(Write) /\ DOMAIN flushed = 1 .. Len(flushed)
  BY DEF TypeOK
<1>2. \A i \in Writes : flushed[i] \in Write
  BY <1>1 DEF Writes
<1> QED
  BY <1>2 DEF Write

-----------------------------------------------------------------------------
(* The common step.                                                        *)

\* A state that is not complete is kept.
LEMMA KeepStep ==
  ASSUME IInv, NEW k \in Stream, NEW s \in StreamState,
         Moved(k), WireTrue', StateTrue(k, s)', Extended(k, s),
         reset'[k] => k \in LateFrames \/ StreamIsComplete(s),
         ~ StreamIsComplete(s), Store(k, s)
  PROVE  IInv'
<1>1. /\ states' = [states EXCEPT ![k] = s]
      /\ flushed' = flushed /\ disk' = disk
  BY DEF Store
<1>2. s # NoState
  BY Http2Assumption
<1>3. /\ phase = "reading" /\ phase' = phase /\ count' = count + 1 /\ count \in Nat
      /\ webPort' = webPort
  BY Http2Assumption DEF Moved, Arrives, IInv, TypeOK
<1>4. /\ states'[k] = s /\ \A j \in Stream \ {k} : states'[j] = states[j]
  BY <1>1 DEF IInv, TypeOK
<1>5. /\ Held(k) \in StreamState /\ Held(k).frames \subseteq 1 .. count
      /\ Held(k).reqSeg \subseteq 1 .. count /\ Held(k).respSeg \subseteq 1 .. count
      /\ Held(k).reqSeg \cap Held(k).respSeg = {}
  BY HeldTrue DEF StateTrue
<1>6. TypeOK'
  <2>1. count' \in 0 .. MaxFrames
    BY <1>3, Http2Assumption DEF Moved, Arrives, IInv, TypeOK
  <2>2. states' \in [Stream -> StreamState \cup {NoState}]
    BY <1>1 DEF IInv, TypeOK
  <2> QED
    BY <1>1, <1>3, <2>1, <2>2 DEF IInv, TypeOK, Moved
<1>7. \A c \in Bodies' : c \in Bodies \/ (c.n = count + 1 /\ c.stream = k)
  BY DEF Extended, Body
<1>8. LiveTrue'
  <2> SUFFICES ASSUME NEW j \in Stream, states'[j] # NoState
               PROVE  /\ StateTrue(j, states[j])'
                      /\ states'[j].frames \subseteq 1 .. count'
                      /\ ~ StreamIsComplete(states'[j])
                      /\ reset'[j] => j \in LateFrames
    BY DEF LiveTrue, StreamIsComplete
  <2>1. CASE j = k
    <3>1. StateTrue(j, states[j])'
      BY <1>4, <2>1 DEF StateTrue
    <3>2. states'[j].frames \subseteq 1 .. count'
      BY <1>3, <1>4, <1>5, <2>1 DEF Extended
    <3> QED
      BY <3>1, <3>2, <1>4, <2>1
  <2>2. CASE j # k
    <3>1. /\ states'[j] = states[j] /\ peer'[j] = peer[j] /\ reset'[j] = reset[j]
      BY <1>4, <2>2 DEF Moved
    <3>2. /\ StateTrue(j, states[j]) /\ states[j].frames \subseteq 1 .. count
          /\ ~ StreamIsComplete(states[j])
          /\ reset[j] => j \in LateFrames
      BY <3>1 DEF IInv, LiveTrue
    <3>3. StateTrue(j, states[j])'
      BY <1>3, <1>7, <2>2, <3>1, <3>2 DEF StateTrue
    <3>4. states'[j].frames \subseteq 1 .. count'
      BY <1>3, <3>1, <3>2
    <3> QED
      BY <3>1, <3>2, <3>3, <3>4
  <2> QED
    BY <2>1, <2>2
<1>9. DocsTrue'
  <2> SUFFICES ASSUME NEW i \in Writes
               PROVE  DocTrue(flushed[i])'
    BY <1>1 DEF DocsTrue, Writes
  <2>1. flushed[i] \in Write /\ flushed'[i] = flushed[i] /\ flushed[i].stream \in Stream
    BY <1>1, WritesTyped DEF IInv
  <2>2. DocTrue(flushed[i])
    BY DEF IInv, DocsTrue
  <2> DEFINE w == flushed[i]
  <2>3. \A p \in Peer : peer[w.stream][p] = "ended" => peer'[w.stream][p] = "ended"
    BY <2>1 DEF Moved
  <2>4. w.stream \notin LateFrames =>
          /\ states'[w.stream] = NoState
          /\ Closed(w.stream)' \/ phase' # "reading"
          /\ w.ok => disk'[w.stream] = w.doc
    <3> SUFFICES ASSUME w.stream \notin LateFrames
                 PROVE  /\ states'[w.stream] = NoState
                        /\ Closed(w.stream)' \/ phase' # "reading"
                        /\ w.ok => disk'[w.stream] = w.doc
      OBVIOUS
    <3>1. Closed(w.stream) /\ w.stream # k
      BY <1>3, <2>2 DEF DocTrue, Moved
    <3> QED
      BY <1>1, <1>4, <2>1, <2>2, <3>1 DEF DocTrue, Moved, Closed
  <2> QED
    BY <1>1, <1>3, <1>7, <2>1, <2>2, <2>3, <2>4 DEF DocTrue
<1>10. PlacedOnce'
  <2> SUFFICES ASSUME NEW c \in Bodies'
               PROVE  \/ /\ InState(c)' /\ Once(states'[c.stream], c.n)
                         /\ \A i \in Writes : ~ InDoc(c, i)
                      \/ /\ ~ InState(c)'
                         /\ \E i \in Writes :
                              /\ InDoc(c, i) /\ Once(flushed[i].doc.content, c.n)
                              /\ \A j \in Writes : InDoc(c, j) => j = i
    BY <1>1 DEF PlacedOnce, Writes, InDoc, Once
  <2>1. CASE c \in Bodies
    <3>1. c.n \in 1 .. count /\ c.stream \in Stream
      BY <2>1 DEF IInv, WireTrue, TypeOK, Bodies, Carried
    <3>2. /\ (c.n \in s.reqSeg) = (c.n \in Held(k).reqSeg)
          /\ (c.n \in s.respSeg) = (c.n \in Held(k).respSeg)
      BY <1>3, <3>1 DEF Extended
    <3>3. CASE c.stream = k
      <4>1. CASE states[k] = NoState
        BY <1>2, <1>4, <2>1, <3>2, <3>3, <4>1 DEF IInv, PlacedOnce, InState, Absent, Once, Held
      <4>2. CASE states[k] # NoState
        BY <1>2, <1>4, <2>1, <3>2, <3>3, <4>2 DEF IInv, PlacedOnce, InState, Absent, Once, Held
      <4> QED
        BY <4>1, <4>2
    <3>4. CASE c.stream # k
      BY <1>4, <2>1, <3>1, <3>4 DEF IInv, PlacedOnce, InState
    <3> QED
      BY <3>3, <3>4
  <2>2. CASE c \notin Bodies
    <3>1. c.n = count + 1 /\ c.stream = k
      BY <1>7, <2>2
    <3>2. Once(s, c.n)
      BY <1>3, <1>5, <2>2, <3>1 DEF Extended, Once
    <3>3. \A i \in Writes : ~ InDoc(c, i)
      BY <1>3, <3>1 DEF IInv, DocsTrue, DocTrue, InDoc, Absent
    <3> QED
      BY <1>2, <1>4, <3>1, <3>2, <3>3 DEF InState, Once, Absent
  <2> QED
    BY <2>1, <2>2
<1>11. FramesKept'
  <2> SUFFICES ASSUME NEW n \in 1 .. count'
               PROVE  \/ \E j \in Stream : states'[j] # NoState /\ n \in states'[j].frames
                      \/ \E i \in Writes : n \in flushed[i].doc.content.frames
    BY <1>1 DEF FramesKept, Writes
  <2>1. CASE n = count + 1
    BY <1>2, <1>4, <2>1 DEF Extended
  <2>2. CASE n \in 1 .. count
    <3>1. CASE \E i \in Writes : n \in flushed[i].doc.content.frames
      BY <3>1
    <3>2. CASE \E j \in Stream : states[j] # NoState /\ n \in states[j].frames
      <4> PICK j \in Stream : states[j] # NoState /\ n \in states[j].frames
        BY <3>2
      <4>1. CASE j = k
        BY <1>2, <1>4, <4>1 DEF Extended, Held
      <4>2. CASE j # k
        BY <1>4, <4>2
      <4> QED
        BY <4>1, <4>2
    <3> QED
      BY <2>2, <3>1, <3>2 DEF IInv, FramesKept
  <2> QED
    BY <1>3, <2>1, <2>2
<1> QED
  BY <1>3, <1>6, <1>8, <1>9, <1>10, <1>11 DEF IInv, NothingLive

\* s has what the map holds of k, and what the capture has gained since.
Grown(k, s) ==
  /\ peer' \in [Stream -> [Peer -> PeerState]]
  /\ reset' \in [Stream -> BOOLEAN] /\ webPort' = webPort /\ phase' = phase
  /\ carried' \subseteq Carried /\ count' \in count .. MaxFrames
  /\ \A j \in Stream \ {k} : peer'[j] = peer[j] /\ reset'[j] = reset[j]
  /\ \A p \in Peer : peer[k][p] = "ended" => peer'[k][p] = "ended"
  /\ reset[k] => reset'[k]
  /\ \A c \in Bodies' :
       \/ c \in Bodies
       \/ c.n \in (count + 1) .. count' /\ c.stream = k /\ Once(s, c.n)
  /\ \A n \in 1 .. count :
       /\ (n \in s.reqSeg) = (n \in Held(k).reqSeg)
       /\ (n \in s.respSeg) = (n \in Held(k).respSeg)
  /\ Held(k).frames \subseteq s.frames /\ s.frames \subseteq 1 .. count'
  /\ \A n \in 1 .. count' : n \in 1 .. count \/ n \in s.frames

LEMMA WriteFacts ==
  ASSUME TypeOK, NEW k \in Stream, NEW s \in StreamState, NEW atEOF \in BOOLEAN,
         WriteStream(k, s, atEOF)
  PROVE  \E w \in Write :
           /\ w.stream = k /\ w.doc.content = s
           /\ w.doc.completion = CompletionState(s, atEOF)
           /\ flushed' = Append(flushed, w)
           /\ disk' \in [Stream -> Document \cup {NoDoc}]
           /\ disk'[k] = IF w.ok THEN w.doc ELSE disk[k]
           /\ \A j \in Stream \ {k} : disk'[j] = disk[j]
<1> DEFINE doc == [content |-> s, completion |-> CompletionState(s, atEOF)]
<1>1. doc \in Document
  BY DEF Document, CompletionState, Completion
<1>2. PICK ok \in BOOLEAN :
        /\ flushed' = Append(flushed, [stream |-> k, doc |-> doc, ok |-> ok])
        /\ disk' = IF ok THEN [disk EXCEPT ![k] = doc] ELSE disk
  BY DEF WriteStream
<1> DEFINE w == [stream |-> k, doc |-> doc, ok |-> ok]
<1>3. w \in Write
  BY <1>1, <1>2 DEF Write
<1>4. disk' \in [Stream -> Document \cup {NoDoc}]
  BY <1>1, <1>2 DEF TypeOK
<1>5. /\ disk'[k] = IF w.ok THEN w.doc ELSE disk[k]
      /\ \A j \in Stream \ {k} : disk'[j] = disk[j]
  BY <1>2 DEF TypeOK
<1> QED
  BY <1>2, <1>3, <1>4, <1>5

\* A state that is written is forgotten.
LEMMA WriteStep ==
  ASSUME IInv, NEW k \in Stream, NEW s \in StreamState, NEW atEOF \in BOOLEAN,
         WriteStream(k, s, atEOF), states' = [states EXCEPT ![k] = NoState],
         Grown(k, s), WireTrue', StateTrue(k, s)',
         \A i \in Writes : flushed[i].stream = k => k \in LateFrames,
         atEOF => phase = "flushing" /\ ~ StreamIsComplete(s),
         ~ atEOF => /\ phase = "reading" /\ StreamIsComplete(s)
                    /\ s.rst \/ \A p \in Peer : peer'[k][p] = "ended"
  PROVE  IInv'
<1>1. PICK w \in Write :
        /\ w.stream = k /\ w.doc.content = s
        /\ w.doc.completion = CompletionState(s, atEOF)
        /\ flushed' = Append(flushed, w)
        /\ disk' \in [Stream -> Document \cup {NoDoc}]
        /\ w.ok => disk'[k] = w.doc
        /\ \A j \in Stream \ {k} : disk'[j] = disk[j]
  BY WriteFacts DEF IInv
<1>2. PICK last \in Nat :
        /\ flushed' \in Seq(Write)
        /\ Writes' = Writes \cup {last} /\ last \notin Writes
        /\ \A i \in Writes : flushed'[i] = flushed[i]
        /\ flushed'[last] = w
  <2>1. flushed \in Seq(Write)
    BY DEF IInv, TypeOK
  <2>2. Len(flushed) + 1 \in Nat
    BY <2>1
  <2> QED
    BY <1>1, <2>1, <2>2, Appended DEF Writes
<1>3. states'[k] = NoState /\ \A j \in Stream \ {k} : states'[j] = states[j]
  BY DEF IInv, TypeOK
<1>4. /\ count \in Nat /\ count' \in Nat /\ count <= count' /\ phase' = phase
      /\ 1 .. count \subseteq 1 .. count'
  BY Http2Assumption DEF Grown, IInv, TypeOK
<1>5. /\ Held(k) \in StreamState /\ Held(k).frames \subseteq 1 .. count
      /\ Held(k).reqSeg \subseteq 1 .. count /\ Held(k).respSeg \subseteq 1 .. count
  BY HeldTrue DEF StateTrue
<1>6. TypeOK'
  <2>1. count' \in 0 .. MaxFrames
    BY <1>4, Http2Assumption DEF Grown
  <2>2. states' \in [Stream -> StreamState \cup {NoState}]
    BY DEF IInv, TypeOK
  <2> QED
    BY <1>1, <1>2, <1>4, <2>1, <2>2 DEF IInv, TypeOK, Grown
<1>7. LiveTrue'
  <2> SUFFICES ASSUME NEW j \in Stream, states'[j] # NoState
               PROVE  /\ StateTrue(j, states[j])'
                      /\ states'[j].frames \subseteq 1 .. count'
                      /\ ~ StreamIsComplete(states'[j])
                      /\ reset'[j] => j \in LateFrames
    BY DEF LiveTrue, StreamIsComplete
  <2>1. /\ j # k /\ states'[j] = states[j] /\ peer'[j] = peer[j] /\ reset'[j] = reset[j]
    BY <1>3 DEF Grown
  <2>2. /\ StateTrue(j, states[j]) /\ states[j].frames \subseteq 1 .. count
        /\ ~ StreamIsComplete(states[j])
        /\ reset[j] => j \in LateFrames
    BY <2>1 DEF IInv, LiveTrue
  <2>3. \A c \in Bodies' : c.stream = j => c \in Bodies
    BY <2>1 DEF Grown
  <2>4. StateTrue(j, states[j])'
    BY <1>4, <2>1, <2>2, <2>3 DEF StateTrue
  <2> QED
    BY <1>4, <2>1, <2>2, <2>4
<1>8. DocsTrue'
  <2>1. ASSUME NEW i \in Writes
        PROVE  DocTrue(flushed[i])'
    <3>1. flushed[i] \in Write /\ flushed'[i] = flushed[i] /\ flushed[i].stream \in Stream
      BY <1>2, WritesTyped DEF IInv
    <3>2. DocTrue(flushed[i])
      BY DEF IInv, DocsTrue
    <3> DEFINE v == flushed[i]
    <3>3. \A p \in Peer : peer[v.stream][p] = "ended" => peer'[v.stream][p] = "ended"
      BY <3>1 DEF Grown
    <3>4. v.stream \notin LateFrames =>
            /\ states'[v.stream] = NoState
            /\ Closed(v.stream)' \/ phase' # "reading"
            /\ v.ok => disk'[v.stream] = v.doc
      <4> SUFFICES ASSUME v.stream \notin LateFrames
                   PROVE  /\ states'[v.stream] = NoState
                          /\ Closed(v.stream)' \/ phase' # "reading"
                          /\ v.ok => disk'[v.stream] = v.doc
        OBVIOUS
      <4>1. v.stream \in Stream \ {k}
        BY <3>1
      <4>2. /\ states'[v.stream] = states[v.stream] /\ disk'[v.stream] = disk[v.stream]
            /\ peer'[v.stream] = peer[v.stream] /\ reset'[v.stream] = reset[v.stream]
        BY <1>1, <1>3, <4>1 DEF Grown
      <4>3. Closed(v.stream)' <=> Closed(v.stream)
        BY <3>1, <4>2 DEF Closed
      <4>4. /\ states[v.stream] = NoState
            /\ Closed(v.stream) \/ phase # "reading"
            /\ v.ok => disk[v.stream] = v.doc
        BY <3>2 DEF DocTrue
      <4> QED
        BY <1>4, <4>2, <4>3, <4>4
    <3>5. \A c \in Bodies' : c \in Bodies \/ c.n \notin 1 .. count
      BY <1>4 DEF Grown
    <3> QED
      BY <1>4, <3>1, <3>2, <3>3, <3>4, <3>5 DEF DocTrue
  <2>2. DocTrue(flushed[last])'
    <3>1. w.doc.completion # "incomplete"
      BY <1>1 DEF CompletionState, StreamIsComplete
    <3>2. phase = "reading" => w.doc.completion \in {"complete", "reset"}
      BY <1>1 DEF CompletionState, StreamIsComplete
    <3>3. w.doc.completion = "complete" => \A p \in Peer : peer'[k][p] = "ended"
      <4> SUFFICES ASSUME w.doc.completion = "complete"
                   PROVE  \A p \in Peer : peer'[k][p] = "ended"
        OBVIOUS
      <4>1. ~ s.rst /\ s.reqEnd /\ s.respEnd
        BY <1>1 DEF CompletionState
      <4> QED
        BY <4>1 DEF StreamIsComplete
    <3>4. Closed(k)' \/ phase' # "reading"
      BY <1>4 DEF Closed, StateTrue
    <3>5. /\ s.reqSeg \subseteq 1 .. count' /\ s.respSeg \subseteq 1 .. count'
          /\ s.frames \subseteq 1 .. count'
      BY DEF StateTrue, Grown
    <3>6. k \in HalfDuplex /\ s.reqHdr # {} =>
            \A c \in Bodies' : c.stream = k =>
              (c.n \in s.reqSeg => c.from = "client") /\ (c.n \in s.respSeg => c.from = "server")
      BY DEF StateTrue
    <3> QED
      BY <1>1, <1>2, <1>3, <1>4, <3>1, <3>2, <3>3, <3>4, <3>5, <3>6 DEF DocTrue
  <2> QED
    BY <1>2, <2>1, <2>2 DEF DocsTrue
<1>9. PlacedOnce'
  <2> SUFFICES ASSUME NEW c \in Bodies'
               PROVE  \/ /\ InState(c)' /\ Once(states'[c.stream], c.n)
                         /\ \A i \in Writes' : ~ InDoc(c, i)'
                      \/ /\ ~ InState(c)'
                         /\ \E i \in Writes' :
                              /\ InDoc(c, i)' /\ Once(flushed'[i].doc.content, c.n)
                              /\ \A j \in Writes' : InDoc(c, j)' => j = i
    BY DEF PlacedOnce, Once
  <2>1. \A i \in Writes : InDoc(c, i)' <=> InDoc(c, i)
    BY <1>2 DEF InDoc, Absent
  <2>2. InDoc(c, last)' <=> (c.stream = k /\ ~ Absent(s, c.n))
    BY <1>1, <1>2 DEF InDoc, Absent
  <2>3. CASE c \in Bodies
    <3>1. c.n \in 1 .. count /\ c.stream \in Stream
      BY <2>3 DEF IInv, WireTrue, TypeOK, Bodies, Carried
    <3>2. Absent(s, c.n) <=> Absent(Held(k), c.n)
      BY <3>1 DEF Grown, Absent
    <3>3. Once(s, c.n) <=> Once(Held(k), c.n)
      BY <3>1 DEF Grown, Once
    <3>4. CASE c.stream = k /\ InState(c)
      <4>1. Held(k) = states[k] /\ Once(states[k], c.n) /\ ~ Absent(states[k], c.n)
        BY <2>3, <3>4 DEF IInv, PlacedOnce, InState, Held
      <4>2. \A i \in Writes : ~ InDoc(c, i)
        BY <2>3, <3>4 DEF IInv, PlacedOnce
      <4>3. ~ InState(c)'
        BY <1>3, <3>4 DEF InState
      <4>4. InDoc(c, last)' /\ Once(flushed'[last].doc.content, c.n)
        BY <1>1, <1>2, <2>2, <3>2, <3>3, <3>4, <4>1
      <4> QED
        BY <1>2, <2>1, <4>2, <4>3, <4>4
    <3>5. CASE c.stream = k /\ ~ InState(c)
      <4>1. Absent(Held(k), c.n)
        BY <3>5 DEF InState, Held, Absent
      <4>2. ~ InDoc(c, last)' /\ ~ InState(c)'
        BY <1>3, <2>2, <3>2, <3>5, <4>1 DEF InState
      <4>3. PICK i \in Writes : /\ InDoc(c, i) /\ Once(flushed[i].doc.content, c.n)
                                /\ \A j \in Writes : InDoc(c, j) => j = i
        BY <2>3, <3>5 DEF IInv, PlacedOnce
      <4>4. flushed'[i] = flushed[i] /\ i \in Writes'
        BY <1>2, <4>3
      <4> QED
        BY <1>2, <2>1, <4>2, <4>3, <4>4
    <3>6. CASE c.stream # k
      <4>1. InState(c)' <=> InState(c)
        BY <1>3, <3>1, <3>6 DEF InState
      <4>2. ~ InDoc(c, last)'
        BY <2>2, <3>6
      <4>3. CASE InState(c)
        BY <1>2, <1>3, <2>1, <2>3, <3>1, <3>6, <4>1, <4>2, <4>3 DEF IInv, PlacedOnce
      <4>4. CASE ~ InState(c)
        <5>1. PICK i \in Writes : /\ InDoc(c, i) /\ Once(flushed[i].doc.content, c.n)
                                  /\ \A j \in Writes : InDoc(c, j) => j = i
          BY <2>3, <4>4 DEF IInv, PlacedOnce
        <5>2. flushed'[i] = flushed[i] /\ i \in Writes'
          BY <1>2, <5>1
        <5> QED
          BY <1>2, <2>1, <4>1, <4>2, <4>4, <5>1, <5>2
      <4> QED
        BY <4>3, <4>4
    <3> QED
      BY <3>4, <3>5, <3>6
  <2>4. CASE c \notin Bodies
    <3>1. c.n \in (count + 1) .. count' /\ c.stream = k /\ Once(s, c.n)
      BY <2>4 DEF Grown
    <3>2. \A i \in Writes : ~ InDoc(c, i)
      BY <1>4, <3>1 DEF IInv, DocsTrue, DocTrue, InDoc, Absent
    <3>3. ~ InState(c)'
      BY <1>3, <3>1 DEF InState
    <3>4. InDoc(c, last)' /\ Once(flushed'[last].doc.content, c.n)
      BY <1>1, <1>2, <2>2, <3>1 DEF Once, Absent
    <3> QED
      BY <1>2, <2>1, <3>2, <3>3, <3>4
  <2> QED
    BY <2>3, <2>4
<1>10. FramesKept'
  <2> SUFFICES ASSUME NEW n \in 1 .. count'
               PROVE  \/ \E j \in Stream : states'[j] # NoState /\ n \in states'[j].frames
                      \/ \E i \in Writes' : n \in flushed'[i].doc.content.frames
    BY DEF FramesKept
  <2>1. CASE n \in s.frames
    BY <1>1, <1>2, <2>1
  <2>2. CASE n \notin s.frames
    <3>1. n \in 1 .. count
      BY <2>2 DEF Grown
    <3>2. CASE \E i \in Writes : n \in flushed[i].doc.content.frames
      BY <1>2, <3>2
    <3>3. CASE \E j \in Stream : states[j] # NoState /\ n \in states[j].frames
      <4>1. PICK j \in Stream : states[j] # NoState /\ n \in states[j].frames
        BY <3>3
      <4>2. j # k
        BY <2>2, <4>1 DEF Grown, Held
      <4> QED
        BY <1>3, <4>1, <4>2
    <3> QED
      BY <3>1, <3>2, <3>3 DEF IInv, FramesKept
  <2> QED
    BY <2>1, <2>2
<1>11. NothingLive'
  BY <1>4 DEF NothingLive
<1> QED
  BY <1>6, <1>7, <1>8, <1>9, <1>10, <1>11 DEF IInv

LEMMA StoreStep ==
  ASSUME IInv, NEW k \in Stream, NEW s \in StreamState,
         Moved(k), WireTrue', StateTrue(k, s)', Extended(k, s),
         reset' = reset \/ s.rst,
         StreamIsComplete(s) => s.rst \/ \A p \in Peer : peer'[k][p] = "ended",
         Store(k, s)
  PROVE  IInv'
<1>1. CASE ~ StreamIsComplete(s)
  <2>1. reset'[k] => k \in LateFrames
    BY <1>1 DEF Moved, Closed, StreamIsComplete
  <2> QED
    BY <1>1, <2>1, KeepStep
<1>2. CASE StreamIsComplete(s)
  <2>1. WriteStream(k, s, FALSE) /\ states' = [states EXCEPT ![k] = NoState]
    BY <1>2 DEF Store
  <2>2. phase = "reading"
    BY DEF Moved, Arrives
  <2>3. \A i \in Writes : flushed[i].stream = k => k \in LateFrames
    BY <2>2 DEF IInv, DocsTrue, DocTrue, Moved
  <2>4. Grown(k, s)
    <3>1. /\ count \in Nat /\ count' = count + 1 /\ count' \in count .. MaxFrames
      BY Http2Assumption DEF Moved, Arrives, IInv, TypeOK
    <3>2. /\ Held(k).frames \subseteq 1 .. count
          /\ Held(k).reqSeg \subseteq 1 .. count /\ Held(k).respSeg \subseteq 1 .. count
      BY HeldTrue DEF StateTrue
    <3>3. \A c \in Bodies' :
            \/ c \in Bodies
            \/ c.n \in (count + 1) .. count' /\ c.stream = k /\ Once(s, c.n)
      BY <3>1, <3>2 DEF Extended, Body, Once
    <3>4. /\ \A n \in 1 .. count :
               /\ (n \in s.reqSeg) = (n \in Held(k).reqSeg)
               /\ (n \in s.respSeg) = (n \in Held(k).respSeg)
          /\ Held(k).frames \subseteq s.frames /\ s.frames \subseteq 1 .. count'
          /\ \A n \in 1 .. count' : n \in 1 .. count \/ n \in s.frames
      BY <3>1, <3>2 DEF Extended
    <3> QED
      BY <3>1, <3>3, <3>4 DEF Grown, Moved, Arrives
  <2> QED
    BY <1>2, <2>1, <2>2, <2>3, <2>4, WriteStep
<1> QED
  BY <1>1, <1>2

-----------------------------------------------------------------------------
(* The kinds of frames.                                                    *)

LEMMA PeerFacts == Peer = {"client", "server"} /\ \A p \in Peer : p \in {"client", "server"}
  BY DEF Peer

LEMMA AdvanceFacts ==
  ASSUME TypeOK, NEW k \in Stream, NEW p \in Peer, NEW end, Advance(k, p, end)
  PROVE  /\ peer' \in [Stream -> [Peer -> PeerState]]
         /\ peer'[k][p] = IF end THEN "ended" ELSE "open"
         /\ \A r \in Peer \ {p} : peer'[k][r] = peer[k][r]
         /\ \A j \in Stream \ {k} : peer'[j] = peer[j]
  BY DEF Advance, TypeOK, PeerState

LEMMA RequestHeadersStep ==
  ASSUME IInv, NEW k \in Stream, RequestHeaders(k)
  PROVE  IInv'
<1>1. PICK end \in BOOLEAN :
        /\ Arrives(k) /\ ~ Closed(k) /\ peer[k]["client"] = "idle"
        /\ Advance(k, "client", end) /\ Carry(k, "client", "headers")
        /\ Store(k, OnRequest(Lookup(k), end)) /\ UNCHANGED reset
  BY DEF RequestHeaders
<1>2. PICK q : q = Lookup(k)
  OBVIOUS
<1>3. /\ count < MaxFrames /\ count \in Nat /\ count' = count + 1 /\ count + 1 \in Frame
  BY <1>1, Http2Assumption DEF Arrives, IInv, TypeOK, Frame
<1>4. /\ q \in StreamState /\ StateTrue(k, q)
      /\ q = [Held(k) EXCEPT !.frames = @ \cup {count + 1}]
  BY <1>2, <1>3, LookupFacts
<1>5. /\ Held(k) \in StreamState /\ Held(k).rst = FALSE /\ ~ StreamIsComplete(Held(k))
  BY HeldTrue
<1>6. PICK s : s = OnRequest(q, end)
  OBVIOUS
<1>7. /\ s \in StreamState
      /\ s.reqHdr = q.reqHdr \cup {count + 1} /\ s.known = TRUE
      /\ s.reqEnd = (q.reqEnd \/ end)
      /\ s.reqSeg = q.reqSeg /\ s.respSeg = q.respSeg /\ s.respHdr = q.respHdr
      /\ s.respEnd = q.respEnd /\ s.rst = q.rst /\ s.frames = q.frames
  BY <1>3, <1>4, <1>6 DEF OnRequest, StreamState
<1>8. /\ q.reqSeg = Held(k).reqSeg /\ q.respSeg = Held(k).respSeg
      /\ q.frames = Held(k).frames \cup {count + 1} /\ q.rst = FALSE
      /\ q.reqEnd = Held(k).reqEnd /\ q.respEnd = Held(k).respEnd
  BY <1>4, <1>5 DEF StreamState
<1>9. /\ peer' \in [Stream -> [Peer -> PeerState]]
      /\ peer'[k]["client"] = IF end THEN "ended" ELSE "open"
      /\ peer'[k]["server"] = peer[k]["server"]
      /\ \A j \in Stream \ {k} : peer'[j] = peer[j]
  BY <1>1 DEF Advance, IInv, TypeOK, Peer, PeerState
<1>10. peer[k]["server"] = "idle"
  BY <1>1 DEF IInv, WireTrue
<1>11. carried' \subseteq Carried /\ Bodies' = Bodies
  BY <1>1, <1>3 DEF Carry, IInv, TypeOK, Carried, Bodies, Peer
<1>12. Moved(k)
  BY <1>1, <1>9, <1>10, <1>11 DEF Moved, Peer, IInv, TypeOK
<1>13. WireTrue'
  <2>1. \A c \in carried' : c.n \in 1 .. count'
    BY <1>1, <1>3 DEF Carry, IInv, WireTrue
  <2>2. \A j \in Stream :
          /\ peer'[j]["server"] # "idle" => peer'[j]["client"] # "idle"
          /\ j \in HalfDuplex /\ peer'[j]["server"] # "idle" => peer'[j]["client"] = "ended"
    BY <1>9, <1>10 DEF IInv, WireTrue
  <2>3. \A c \in Bodies' : peer'[c.stream]["client"] # "idle"
    <3> SUFFICES ASSUME NEW c \in Bodies
                 PROVE  peer'[c.stream]["client"] # "idle"
      BY <1>11
    <3>1. c.stream \in Stream /\ peer[c.stream]["client"] # "idle"
      BY DEF IInv, WireTrue, TypeOK, Bodies, Carried
    <3> QED
      BY <1>1, <1>9, <3>1
  <2> QED
    BY <2>1, <2>2, <2>3 DEF WireTrue
<1>14. StateTrue(k, s)'
  <2>1. \A c \in Bodies' : c.stream # k
    BY <1>1, <1>11 DEF IInv, WireTrue
  <2>2. s.reqEnd \/ s.respEnd => \E p \in Peer : peer'[k][p] = "ended"
    BY <1>4, <1>7, <1>9, <1>12 DEF StateTrue, Moved, Peer
  <2>3. s.rst => reset'[k]
    BY <1>7, <1>8
  <2>4. /\ s.reqSeg \subseteq 1 .. count' /\ s.respSeg \subseteq 1 .. count'
        /\ s.reqSeg \cap s.respSeg = {}
    BY <1>3, <1>4, <1>7 DEF StateTrue
  <2>5. k \in HalfDuplex => s.respHdr = {}
    BY <1>1, <1>4, <1>7 DEF StateTrue
  <2>6. peer'[k]["client"] # "idle" /\ (peer'[k]["client"] = "ended" => s.reqEnd)
    BY <1>7, <1>9
  <2> QED
    BY <1>7, <1>9, <1>10, <2>1, <2>2, <2>3, <2>4, <2>5, <2>6 DEF StateTrue
<1>15. Extended(k, s)
  BY <1>7, <1>8, <1>11 DEF Extended
<1>16. ~ StreamIsComplete(s)
  BY <1>1, <1>4, <1>7, <1>8, <1>10, <1>5 DEF StreamIsComplete, StateTrue, Peer
<1> QED
  BY <1>1, <1>2, <1>6, <1>7, <1>12, <1>13, <1>14, <1>15, <1>16, StoreStep

LEMMA ResponseHeadersStep ==
  ASSUME IInv, NEW k \in Stream, ResponseHeaders(k)
  PROVE  IInv'
<1>1. PICK end \in BOOLEAN, informational \in BOOLEAN :
        /\ Arrives(k)
        /\ ~ Closed(k) \/ k \in LateFrames
        /\ ~ (end /\ informational) /\ peer[k]["server"] = "idle"
        /\ peer[k]["client"] \in IF k \in HalfDuplex THEN {"ended"} ELSE {"open", "ended"}
        /\ IF informational THEN UNCHANGED peer ELSE Advance(k, "server", end)
        /\ Carry(k, "server", "headers")
        /\ Store(k, OnResponse(Lookup(k), end)) /\ UNCHANGED reset
  BY DEF ResponseHeaders
<1>2. PICK q : q = Lookup(k)
  OBVIOUS
<1>3. /\ Arrives(k)
      /\ ~ Closed(k) \/ k \in LateFrames
      /\ count < MaxFrames /\ count \in Nat /\ count' = count + 1 /\ count + 1 \in Frame
  BY <1>1, Http2Assumption DEF Arrives, IInv, TypeOK, Frame
<1>4. /\ q \in StreamState /\ StateTrue(k, q)
      /\ q = [Held(k) EXCEPT !.frames = @ \cup {count + 1}]
  BY <1>2, <1>3, LookupFacts
<1>5. /\ Held(k) \in StreamState /\ Held(k).rst = FALSE /\ ~ StreamIsComplete(Held(k))
  BY HeldTrue
<1>6. PICK s : s = OnResponse(q, end)
  OBVIOUS
<1>7. /\ s \in StreamState
      /\ s.respHdr = q.respHdr \cup {count + 1} /\ s.known = TRUE
      /\ s.respEnd = (q.respEnd \/ end)
      /\ s.reqSeg = q.reqSeg /\ s.respSeg = q.respSeg /\ s.reqHdr = q.reqHdr
      /\ s.reqEnd = q.reqEnd /\ s.rst = q.rst /\ s.frames = q.frames
  BY <1>3, <1>4, <1>6 DEF OnResponse, StreamState
<1>8. /\ q.reqSeg = Held(k).reqSeg /\ q.respSeg = Held(k).respSeg
      /\ q.frames = Held(k).frames \cup {count + 1} /\ q.rst = FALSE
      /\ q.reqEnd = Held(k).reqEnd /\ q.respEnd = Held(k).respEnd
  BY <1>4, <1>5 DEF StreamState
<1>9. /\ peer' \in [Stream -> [Peer -> PeerState]]
      /\ peer'[k]["client"] = peer[k]["client"]
      /\ peer'[k]["server"] =
           IF informational THEN "idle" ELSE IF end THEN "ended" ELSE "open"
      /\ \A j \in Stream \ {k} : peer'[j] = peer[j]
  <2>1. CASE informational
    <3>1. peer' = peer
      BY <1>1, <2>1
    <3> QED
      BY <1>1, <2>1, <3>1 DEF IInv, TypeOK
  <2>2. CASE ~ informational
    <3>1. Advance(k, "server", end)
      BY <1>1, <2>2
    <3>2. "server" \in Peer /\ "client" \in Peer
      BY DEF Peer
    <3> QED
      BY <2>2, <3>1, <3>2, AdvanceFacts DEF IInv
  <2> QED
    BY <2>1, <2>2
<1>10. /\ peer[k]["client"] # "idle" /\ peer[k]["server"] = "idle"
       /\ k \in HalfDuplex => peer[k]["client"] = "ended"
  BY <1>1
<1>11. carried' \subseteq Carried /\ Bodies' = Bodies
  BY <1>1, <1>3 DEF Carry, IInv, TypeOK, Carried, Bodies, Peer
<1>12. Moved(k)
  BY <1>1, <1>3, <1>9, <1>10, <1>11 DEF Moved, Peer, IInv, TypeOK
<1>13. WireTrue'
  <2>1. \A c \in carried' : c.n \in 1 .. count'
    BY <1>1, <1>3 DEF Carry, IInv, WireTrue
  <2>2. \A j \in Stream :
          /\ peer'[j]["server"] # "idle" => peer'[j]["client"] # "idle"
          /\ j \in HalfDuplex /\ peer'[j]["server"] # "idle" => peer'[j]["client"] = "ended"
    BY <1>9, <1>10 DEF IInv, WireTrue
  <2>3. \A c \in Bodies' : peer'[c.stream]["client"] # "idle"
    <3> SUFFICES ASSUME NEW c \in Bodies
                 PROVE  peer'[c.stream]["client"] # "idle"
      BY <1>11
    <3>1. c.stream \in Stream /\ peer[c.stream]["client"] # "idle"
      BY DEF IInv, WireTrue, TypeOK, Bodies, Carried
    <3> QED
      BY <1>9, <3>1
  <2> QED
    BY <2>1, <2>2, <2>3 DEF WireTrue
<1>14. StateTrue(k, s)'
  <2>1. s.reqEnd \/ s.respEnd => \E p \in Peer : peer'[k][p] = "ended"
    BY <1>1, <1>4, <1>7, <1>9, <1>12 DEF StateTrue, Moved, Peer
  <2>2. s.rst => reset'[k]
    BY <1>7, <1>8
  <2>3. /\ s.reqSeg \subseteq 1 .. count' /\ s.respSeg \subseteq 1 .. count'
        /\ s.reqSeg \cap s.respSeg = {}
    BY <1>3, <1>4, <1>7 DEF StateTrue
  <2>4. s.reqHdr # {} => peer'[k]["client"] # "idle"
    BY <1>9, <1>10
  <2>5. k \in HalfDuplex /\ s.reqHdr # {} =>
          /\ peer'[k]["client"] = "ended" => s.reqEnd
          /\ peer'[k]["server"] = "ended" => s.respEnd
    BY <1>4, <1>7, <1>9 DEF StateTrue
  <2>6. k \in HalfDuplex /\ s.reqHdr # {} =>
          \A c \in Bodies' : c.stream = k =>
            (c.n \in s.reqSeg => c.from = "client") /\ (c.n \in s.respSeg => c.from = "server")
    BY <1>4, <1>7, <1>11 DEF StateTrue
  <2> QED
    BY <1>7, <1>9, <1>10, <2>1, <2>2, <2>3, <2>4, <2>5, <2>6 DEF StateTrue
<1>15. Extended(k, s)
  BY <1>7, <1>8, <1>11 DEF Extended
<1>16. StreamIsComplete(s) => s.rst \/ \A p \in Peer : peer'[k][p] = "ended"
  <2> SUFFICES ASSUME s.reqEnd, s.respEnd
               PROVE  \A p \in Peer : peer'[k][p] = "ended"
    BY DEF StreamIsComplete
  <2>1. q.reqEnd /\ ~ q.respEnd /\ end
    BY <1>5, <1>7, <1>8 DEF StreamIsComplete
  <2>2. peer[k]["client"] = "ended"
    BY <1>4, <1>10, <2>1, PeerFacts DEF StateTrue
  <2> QED
    BY <1>1, <1>9, <2>1, <2>2, PeerFacts
<1> QED
  BY <1>1, <1>2, <1>6, <1>7, <1>12, <1>13, <1>14, <1>15, <1>16, StoreStep

\* A frame without :method and :status, from a peer whose side is open if the
\* frame carries or ends anything.
LEMMA BareStep ==
  ASSUME IInv, NEW k \in Stream, NEW p \in Peer, NEW body \in BOOLEAN, NEW end \in BOOLEAN,
         NEW rst \in BOOLEAN, NEW q,
         q = IF rst THEN [Lookup(k) EXCEPT !.rst = TRUE] ELSE Lookup(k),
         reset' = IF rst THEN [reset EXCEPT ![k] = TRUE] ELSE reset,
         Arrives(k), ~ Closed(k) \/ k \in LateFrames, peer[k]["client"] # "idle",
         body \/ end => peer[k][p] = "open" /\ Advance(k, p, end),
         ~ (body \/ end) => peer' = peer,
         IF body THEN Carry(k, p, "body")
                 ELSE carried' = carried \/ Carry(k, p, "headers"),
         Store(k, OnBare(k, q, p, body, end))
  PROVE  IInv'
<1>1. PICK l : l = Lookup(k)
  OBVIOUS
<1>2. PICK s : s = OnBare(k, q, p, body, end)
  OBVIOUS
<1>3. /\ count < MaxFrames /\ count \in Nat /\ count' = count + 1 /\ count + 1 \in Frame
  BY Http2Assumption DEF Arrives, IInv, TypeOK, Frame
<1>4. /\ l \in StreamState /\ StateTrue(k, l)
      /\ l = [Held(k) EXCEPT !.frames = @ \cup {count + 1}]
  BY <1>1, <1>3, LookupFacts
<1>5. /\ Held(k) \in StreamState /\ Held(k).rst = FALSE /\ ~ StreamIsComplete(Held(k))
      /\ Held(k).reqSeg \subseteq 1 .. count /\ Held(k).respSeg \subseteq 1 .. count
      /\ Held(k).reqSeg \cap Held(k).respSeg = {}
  BY HeldTrue DEF StateTrue
<1>6. /\ q \in StreamState /\ q.rst = rst
      /\ q.reqHdr = l.reqHdr /\ q.reqSeg = l.reqSeg /\ q.reqEnd = l.reqEnd
      /\ q.respHdr = l.respHdr /\ q.respSeg = l.respSeg /\ q.respEnd = l.respEnd
      /\ q.known = l.known /\ q.frames = l.frames
  <2>1. l.rst = FALSE
    BY <1>4, <1>5 DEF StreamState
  <2>2. CASE rst
    BY <1>1, <1>4, <2>2 DEF StreamState
  <2>3. CASE ~ rst
    <3>1. q = l
      BY <1>1, <2>3
    <3> QED
      BY <1>4, <2>1, <2>3, <3>1
  <2> QED
    BY <2>2, <2>3
<1>7. /\ q.reqSeg = Held(k).reqSeg /\ q.respSeg = Held(k).respSeg
      /\ q.frames = Held(k).frames \cup {count + 1}
      /\ q.reqEnd = Held(k).reqEnd /\ q.respEnd = Held(k).respEnd
  BY <1>4, <1>5, <1>6 DEF StreamState
<1>8. /\ s \in StreamState
      /\ s.reqHdr = q.reqHdr /\ s.respHdr = q.respHdr /\ s.known = q.known
      /\ s.rst = q.rst /\ s.frames = q.frames
      /\ ToResponse(k, q, p) =>
           /\ s.respSeg = IF body THEN q.respSeg \cup {count + 1} ELSE q.respSeg
           /\ s.respEnd = (q.respEnd \/ end)
           /\ s.reqSeg = q.reqSeg /\ s.reqEnd = q.reqEnd
      /\ ~ ToResponse(k, q, p) =>
           /\ s.reqSeg = IF body THEN q.reqSeg \cup {count + 1} ELSE q.reqSeg
           /\ s.reqEnd = (q.reqEnd \/ end)
           /\ s.respSeg = q.respSeg /\ s.respEnd = q.respEnd
  <2>1. CASE ToResponse(k, q, p)
    <3>1. q.respSeg \in SUBSET Frame /\ q.respEnd \in BOOLEAN
      BY <1>6 DEF StreamState
    <3>2. PICK seg \in SUBSET Frame :
            seg = IF body THEN q.respSeg \cup {count + 1} ELSE q.respSeg
      <4>1. q.respSeg \cup {count + 1} \in SUBSET Frame
        BY <1>3, <3>1
      <4>2. CASE body
        BY <4>1, <4>2
      <4>3. CASE ~ body
        BY <3>1, <4>3
      <4> QED
        BY <4>2, <4>3
    <3>3. PICK over \in BOOLEAN : over = (q.respEnd \/ end)
      BY <3>1
    <3>4. s = [q EXCEPT !.respSeg = seg, !.respEnd = over]
      BY <1>2, <2>1, <3>2, <3>3 DEF OnBare
    <3>5. /\ s \in StreamState /\ s.respSeg = seg /\ s.respEnd = over
          /\ s.reqHdr = q.reqHdr /\ s.respHdr = q.respHdr /\ s.known = q.known
          /\ s.rst = q.rst /\ s.frames = q.frames
          /\ s.reqSeg = q.reqSeg /\ s.reqEnd = q.reqEnd
      BY <1>6, <3>4 DEF StreamState
    <3> QED
      BY <2>1, <3>2, <3>3, <3>5
  <2>2. CASE ~ ToResponse(k, q, p)
    <3>1. q.reqSeg \in SUBSET Frame /\ q.reqEnd \in BOOLEAN
      BY <1>6 DEF StreamState
    <3>2. PICK seg \in SUBSET Frame :
            seg = IF body THEN q.reqSeg \cup {count + 1} ELSE q.reqSeg
      <4>1. q.reqSeg \cup {count + 1} \in SUBSET Frame
        BY <1>3, <3>1
      <4>2. CASE body
        BY <4>1, <4>2
      <4>3. CASE ~ body
        BY <3>1, <4>3
      <4> QED
        BY <4>2, <4>3
    <3>3. PICK over \in BOOLEAN : over = (q.reqEnd \/ end)
      BY <3>1
    <3>4. s = [q EXCEPT !.reqSeg = seg, !.reqEnd = over]
      BY <1>2, <2>2, <3>2, <3>3 DEF OnBare
    <3>5. /\ s \in StreamState /\ s.reqSeg = seg /\ s.reqEnd = over
          /\ s.reqHdr = q.reqHdr /\ s.respHdr = q.respHdr /\ s.known = q.known
          /\ s.rst = q.rst /\ s.frames = q.frames
          /\ s.respSeg = q.respSeg /\ s.respEnd = q.respEnd
      BY <1>6, <3>4 DEF StreamState
    <3> QED
      BY <2>2, <3>2, <3>3, <3>5
  <2> QED
    BY <2>1, <2>2
<1>9. /\ peer' \in [Stream -> [Peer -> PeerState]]
      /\ \A r \in Peer \ {p} : peer'[k][r] = peer[k][r]
      /\ peer'[k][p] = IF end THEN "ended" ELSE peer[k][p]
      /\ \A j \in Stream \ {k} : peer'[j] = peer[j]
  <2>1. CASE body \/ end
    <3>1. peer[k][p] = "open" /\ Advance(k, p, end)
      BY <2>1
    <3>2. peer'[k][p] = IF end THEN "ended" ELSE "open"
      BY <3>1, AdvanceFacts DEF IInv
    <3> QED
      BY <3>1, <3>2, AdvanceFacts DEF IInv
  <2>2. CASE ~ (body \/ end)
    BY <2>2 DEF IInv, TypeOK
  <2> QED
    BY <2>1, <2>2
<1>10. /\ carried' \subseteq Carried
       /\ Bodies' = IF body THEN Bodies \cup {Body(k, p)} ELSE Bodies
  BY <1>3 DEF Carry, IInv, TypeOK, Carried, Bodies, Body
<1>11. reset' \in [Stream -> BOOLEAN] /\ \A j \in Stream \ {k} : reset'[j] = reset[j]
  BY DEF IInv, TypeOK
<1>12. Moved(k)
  <2>1. reset[k] => reset'[k]
    BY DEF IInv, TypeOK
  <2> QED
    BY <1>9, <1>10, <1>11, <2>1 DEF Moved
<1>13. (body \/ end) /\ p = "client" => peer[k]["server"] = "idle" \/ k \notin HalfDuplex
  BY DEF IInv, WireTrue
<1>14. WireTrue'
  <2>1. \A c \in carried' : c.n \in 1 .. count'
    BY <1>3 DEF Carry, IInv, WireTrue
  <2>2. /\ peer'[k]["server"] # "idle" => peer'[k]["client"] # "idle"
        /\ k \in HalfDuplex /\ peer'[k]["server"] # "idle" => peer'[k]["client"] = "ended"
    BY <1>9, <1>13, PeerFacts DEF IInv, WireTrue
  <2>3. \A j \in Stream \ {k} :
          /\ peer'[j]["server"] # "idle" => peer'[j]["client"] # "idle"
          /\ j \in HalfDuplex /\ peer'[j]["server"] # "idle" => peer'[j]["client"] = "ended"
    BY <1>9 DEF IInv, WireTrue
  <2>4. \A c \in Bodies' : peer'[c.stream]["client"] # "idle"
    <3> SUFFICES ASSUME NEW c \in Bodies'
                 PROVE  peer'[c.stream]["client"] # "idle"
      OBVIOUS
    <3>1. peer'[k]["client"] # "idle"
      BY <1>9, PeerFacts
    <3>2. CASE c \in Bodies
      <4>1. c.stream \in Stream /\ peer[c.stream]["client"] # "idle"
        BY <3>2 DEF IInv, WireTrue, TypeOK, Bodies, Carried
      <4> QED
        BY <1>9, <3>1, <4>1
    <3>3. CASE c \notin Bodies
      BY <1>10, <3>1, <3>3 DEF Body
    <3> QED
      BY <3>2, <3>3
  <2> QED
    BY <2>1, <2>2, <2>3, <2>4 DEF WireTrue
<1>15. StateTrue(k, s)'
  <2>1. s.reqEnd \/ s.respEnd => \E r \in Peer : peer'[k][r] = "ended"
    BY <1>4, <1>6, <1>8, <1>9 DEF StateTrue
  <2>2. s.rst => reset'[k]
    BY <1>6, <1>8 DEF IInv, TypeOK
  <2>3. /\ s.reqSeg \subseteq 1 .. count' /\ s.respSeg \subseteq 1 .. count'
        /\ s.reqSeg \cap s.respSeg = {}
    BY <1>3, <1>5, <1>7, <1>8
  <2>4. s.reqHdr # {} => s.known /\ peer'[k]["client"] # "idle"
    BY <1>4, <1>6, <1>8, <1>9, PeerFacts DEF StateTrue
  <2>5. k \in HalfDuplex /\ s.respHdr # {} => peer'[k]["client"] = "ended"
    BY <1>4, <1>6, <1>8, <1>12, PeerFacts DEF StateTrue, Moved
  <2>6. ASSUME k \in HalfDuplex, s.reqHdr # {}
        PROVE  /\ peer'[k]["server"] # "idle" => s.respHdr # {}
               /\ peer'[k]["client"] = "ended" => s.reqEnd
               /\ peer'[k]["server"] = "ended" => s.respEnd
               /\ \A c \in Bodies' : c.stream = k =>
                    /\ c.n \in s.reqSeg => c.from = "client"
                    /\ c.n \in s.respSeg => c.from = "server"
    <3>1. /\ q.known /\ q.reqHdr # {}
          /\ q.respHdr # {} => peer[k]["client"] = "ended"
          /\ peer[k]["server"] # "idle" => q.respHdr # {}
          /\ peer[k]["client"] = "ended" => q.reqEnd
          /\ peer[k]["server"] = "ended" => q.respEnd
          /\ \A c \in Bodies : c.stream = k =>
               (c.n \in q.reqSeg => c.from = "client") /\ (c.n \in q.respSeg => c.from = "server")
      BY <1>4, <1>6, <1>8, <2>6 DEF StateTrue
    <3>2. (body \/ end) => (ToResponse(k, q, p) <=> p = "server")
      BY <3>1, PeerFacts DEF ToResponse
    <3>3. /\ peer'[k]["server"] # "idle" => s.respHdr # {}
          /\ peer'[k]["client"] = "ended" => s.reqEnd
          /\ peer'[k]["server"] = "ended" => s.respEnd
      BY <1>8, <1>9, <3>1, <3>2, PeerFacts, ZenonT(40)
    <3>4. \A c \in Bodies : c.n \in 1 .. count
      BY DEF IInv, WireTrue, Bodies
    <3>5. ASSUME NEW c \in Bodies', c.stream = k
          PROVE  /\ c.n \in s.reqSeg => c.from = "client"
                 /\ c.n \in s.respSeg => c.from = "server"
      <4>1. CASE c \in Bodies
        BY <1>3, <1>8, <3>1, <3>4, <3>5, <4>1
      <4>2. CASE c \notin Bodies
        <5>1. body /\ c.n = count + 1 /\ c.from = p
          BY <1>10, <4>2 DEF Body
        <5>2. c.n \notin q.reqSeg /\ c.n \notin q.respSeg
          BY <1>3, <1>5, <1>7, <5>1
        <5> QED
          BY <1>8, <3>2, <5>1, <5>2, PeerFacts
      <4> QED
        BY <4>1, <4>2
    <3> QED
      BY <3>3, <3>5
  <2> QED
    BY <2>1, <2>2, <2>3, <2>4, <2>5, <2>6 DEF StateTrue
<1>16. Extended(k, s)
  BY <1>7, <1>8, <1>10 DEF Extended
<1>17. StreamIsComplete(s) => s.rst \/ \A r \in Peer : peer'[k][r] = "ended"
  <2> SUFFICES ASSUME s.reqEnd, s.respEnd
               PROVE  \A r \in Peer : peer'[k][r] = "ended"
    BY DEF StreamIsComplete
  <2>1. end /\ (q.reqEnd \/ q.respEnd)
    BY <1>5, <1>7, <1>8 DEF StreamIsComplete
  <2>2. PICK r \in Peer : peer[k][r] = "ended"
    BY <1>4, <1>6, <2>1 DEF StateTrue
  <2>3. r # p
    BY <2>1, <2>2
  <2> QED
    BY <1>9, <2>1, <2>2, <2>3, PeerFacts
<1>18. reset' = reset \/ s.rst
  BY <1>6, <1>8
<1> QED
  BY <1>2, <1>8, <1>12, <1>14, <1>15, <1>16, <1>17, <1>18, StoreStep

LEMMA DataStep ==
  ASSUME IInv, NEW k \in Stream, NEW p \in Peer, Data(k, p)
  PROVE  IInv'
<1>1. PICK end \in BOOLEAN, body \in BOOLEAN :
        /\ Arrives(k)
        /\ ~ Closed(k) \/ k \in LateFrames
        /\ peer[k][p] = "open" /\ Advance(k, p, end)
        /\ IF body THEN Carry(k, p, "body") ELSE UNCHANGED carried
        /\ Store(k, OnBare(k, Lookup(k), p, body, end))
        /\ UNCHANGED reset
        /\ body \/ end
  BY DEF Data
<1>2. peer[k]["client"] # "idle"
  BY <1>1, PeerFacts DEF IInv, WireTrue
<1>3. PICK q : q = Lookup(k)
  OBVIOUS
<1>4. PICK rst \in BOOLEAN : rst = FALSE
  OBVIOUS
<1>5. IF body THEN Carry(k, p, "body") ELSE carried' = carried \/ Carry(k, p, "headers")
  BY <1>1
<1> QED
  BY <1>1, <1>2, <1>3, <1>4, <1>5, BareStep

LEMMA TrailersStep ==
  ASSUME IInv, NEW k \in Stream, NEW p \in Peer, Trailers(k, p)
  PROVE  IInv'
<1>1. /\ Arrives(k)
      /\ ~ Closed(k) \/ k \in LateFrames
      /\ peer[k][p] = "open" /\ Advance(k, p, TRUE) /\ Carry(k, p, "headers")
      /\ Store(k, OnBare(k, Lookup(k), p, FALSE, TRUE)) /\ UNCHANGED reset
  BY DEF Trailers
<1>2. peer[k]["client"] # "idle"
  BY <1>1, PeerFacts DEF IInv, WireTrue
<1>3. PICK q : q = Lookup(k)
  OBVIOUS
<1>4. PICK rst \in BOOLEAN, body \in BOOLEAN, end \in BOOLEAN :
        rst = FALSE /\ body = FALSE /\ end = TRUE
  OBVIOUS
<1> QED
  BY <1>1, <1>2, <1>3, <1>4, BareStep

LEMMA ControlStep ==
  ASSUME IInv, NEW k \in Stream, NEW p \in Peer, Control(k, p)
  PROVE  IInv'
<1>1. /\ Arrives(k)
      /\ ~ Closed(k) \/ k \in LateFrames
      /\ peer[k]["client"] # "idle" /\ UNCHANGED <<peer, carried, reset>>
      /\ Store(k, OnBare(k, Lookup(k), p, FALSE, FALSE))
  BY DEF Control
<1>2. PICK q : q = Lookup(k)
  OBVIOUS
<1>3. PICK rst \in BOOLEAN, body \in BOOLEAN, end \in BOOLEAN :
        rst = FALSE /\ body = FALSE /\ end = FALSE
  OBVIOUS
<1> QED
  BY <1>1, <1>2, <1>3, BareStep

LEMMA ResetStreamStep ==
  ASSUME IInv, NEW k \in Stream, NEW p \in Peer, ResetStream(k, p)
  PROVE  IInv'
<1>1. /\ Arrives(k)
      /\ ~ Closed(k) \/ k \in LateFrames
      /\ peer[k]["client"] # "idle" /\ UNCHANGED <<peer, carried>>
      /\ reset' = [reset EXCEPT ![k] = TRUE]
      /\ Store(k, OnBare(k, [Lookup(k) EXCEPT !.rst = TRUE], p, FALSE, FALSE))
  BY DEF ResetStream
<1>2. PICK q : q = [Lookup(k) EXCEPT !.rst = TRUE]
  OBVIOUS
<1>3. PICK rst \in BOOLEAN, body \in BOOLEAN, end \in BOOLEAN :
        rst = TRUE /\ body = FALSE /\ end = FALSE
  OBVIOUS
<1> QED
  BY <1>1, <1>2, <1>3, BareStep

-----------------------------------------------------------------------------
(* The end of the capture.                                                 *)

LEMMA FlushRemainingStep ==
  ASSUME IInv, NEW k \in Stream, FlushRemaining(k)
  PROVE  IInv'
<1>1. /\ phase = "flushing" /\ states[k] # NoState
      /\ WriteStream(k, states[k], TRUE)
      /\ states' = [states EXCEPT ![k] = NoState]
      /\ UNCHANGED <<wire, phase>>
  BY DEF FlushRemaining, Live
<1>2. PICK s : s = states[k]
  OBVIOUS
<1>3. /\ s \in StreamState /\ Held(k) = s /\ StateTrue(k, s) /\ ~ StreamIsComplete(s)
      /\ s.frames \subseteq 1 .. count
  BY <1>1, <1>2 DEF Held, IInv, TypeOK, LiveTrue
<1>4. Grown(k, s)
  <2>1. /\ count \in Nat /\ count \in count .. MaxFrames /\ count' = count
    BY <1>1, Http2Assumption DEF wire, IInv, TypeOK
  <2> QED
    BY <1>1, <1>3, <2>1 DEF Grown, wire, IInv, TypeOK, Bodies
<1>5. WireTrue' /\ StateTrue(k, s)'
  BY <1>1, <1>3 DEF wire, IInv, WireTrue, StateTrue, Bodies
<1>6. \A i \in Writes : flushed[i].stream = k => k \in LateFrames
  BY <1>1 DEF IInv, DocsTrue, DocTrue
<1> QED
  BY <1>1, <1>2, <1>3, <1>4, <1>5, <1>6, WriteStep

LEMMA PhaseStep ==
  ASSUME IInv, EndOfCapture \/ Finish
  PROVE  IInv'
<1>1. /\ UNCHANGED <<peer, reset, webPort, carried, count, states, disk, flushed>>
      /\ phase' \in {"flushing", "done"}
      /\ phase' = "done" => Live = {}
      /\ phase # "reading" => phase' # "reading"
  BY DEF EndOfCapture, Finish, wire
<1>2. TypeOK' /\ LiveTrue' /\ WireTrue'
  BY <1>1 DEF IInv, TypeOK, LiveTrue, WireTrue, StateTrue, Bodies, StreamIsComplete
<1>3. DocsTrue'
  BY <1>1 DEF IInv, DocsTrue, DocTrue, Bodies, Closed, Writes
<1>4. PlacedOnce' /\ FramesKept' /\ NothingLive'
  BY <1>1 DEF IInv, PlacedOnce, FramesKept, NothingLive, InState, InDoc, Once, Absent,
              Bodies, Writes, Live
<1> QED
  BY <1>2, <1>3, <1>4 DEF IInv

LEMMA StutterStep == ASSUME IInv, UNCHANGED vars PROVE IInv'
<1>1. UNCHANGED <<peer, reset, webPort, carried, count, phase, states, disk, flushed>>
  BY DEF vars, wire
<1>2. TypeOK' /\ LiveTrue' /\ WireTrue'
  BY <1>1 DEF IInv, TypeOK, LiveTrue, WireTrue, StateTrue, Bodies, StreamIsComplete
<1>3. DocsTrue'
  BY <1>1 DEF IInv, DocsTrue, DocTrue, Bodies, Closed, Writes
<1>4. PlacedOnce' /\ FramesKept' /\ NothingLive'
  BY <1>1 DEF IInv, PlacedOnce, FramesKept, NothingLive, InState, InDoc, Once, Absent,
              Bodies, Writes, Live
<1> QED
  BY <1>2, <1>3, <1>4 DEF IInv

LEMMA InvariantInit == Init => IInv
<1> SUFFICES ASSUME Init PROVE IInv
  OBVIOUS
<1>1. Writes = {} /\ flushed \in Seq(Write) /\ Bodies = {} /\ carried = {}
  BY DEF Init, Writes, Bodies
<1>2. \A k \in Stream : states[k] = NoState
  BY DEF Init
<1>3. count = 0 /\ count \in 0 .. MaxFrames /\ 1 .. count = {} /\ phase = "reading"
  BY Http2Assumption DEF Init
<1>4. TypeOK
  BY <1>1, <1>3 DEF Init, TypeOK
<1>5. WireTrue
  BY <1>1 DEF Init, WireTrue
<1>6. LiveTrue /\ DocsTrue /\ NothingLive
  BY <1>1, <1>2, <1>3 DEF LiveTrue, DocsTrue, NothingLive
<1>7. PlacedOnce /\ FramesKept
  BY <1>1, <1>3 DEF PlacedOnce, FramesKept
<1> QED
  BY <1>4, <1>5, <1>6, <1>7 DEF IInv

-----------------------------------------------------------------------------
(* The theorems.                                                           *)

\* In every reachable state, each live state and each document says the truth
\* about the peers, and each body segment is in one of them.
THEOREM InvariantHolds == Spec => []IInv
<1>1. ASSUME IInv, [Next]_vars
      PROVE  IInv'
  <2>1. CASE \E k \in Stream : RequestHeaders(k)
    BY <1>1, <2>1, RequestHeadersStep
  <2>2. CASE \E k \in Stream : ResponseHeaders(k)
    BY <1>1, <2>2, ResponseHeadersStep
  <2>3. CASE \E k \in Stream, p \in Peer : Data(k, p)
    BY <1>1, <2>3, DataStep
  <2>4. CASE \E k \in Stream, p \in Peer : Trailers(k, p)
    BY <1>1, <2>4, TrailersStep
  <2>5. CASE \E k \in Stream, p \in Peer : Control(k, p)
    BY <1>1, <2>5, ControlStep
  <2>6. CASE \E k \in Stream, p \in Peer : ResetStream(k, p)
    BY <1>1, <2>6, ResetStreamStep
  <2>7. CASE \E k \in Stream : FlushRemaining(k)
    BY <1>1, <2>7, FlushRemainingStep
  <2>8. CASE EndOfCapture \/ Finish
    BY <1>1, <2>8, PhaseStep
  <2>9. CASE UNCHANGED vars
    BY <1>1, <2>9, StutterStep
  <2> QED
    BY <1>1, <2>1, <2>2, <2>3, <2>4, <2>5, <2>6, <2>7, <2>8, <2>9 DEF Next
<1> QED
  BY <1>1, InvariantInit, PTL DEF Spec

\* Every variable has its type.
THEOREM TypeCorrect == Spec => []TypeOK
<1>1. IInv => TypeOK
  BY DEF IInv
<1> QED
  BY <1>1, InvariantHolds, PTL

\* A member of the collection is the document on disk, unless frames came after
\* its stream was closed.
THEOREM MembersAlwaysMatch == Spec => []MembersMatchDisk
<1>1. IInv => MembersMatchDisk
  BY DEF IInv, DocsTrue, DocTrue, MembersMatchDisk
<1> QED
  BY <1>1, InvariantHolds, PTL

\* What is written before the end is closed, and what was closed is forgotten.
THEOREM ClosedAlwaysWritten == Spec => []ClosedMeansWritten
<1>1. IInv => CompletionAgrees
  BY DEF IInv, DocsTrue, DocTrue, CompletionAgrees
<1>2. ASSUME IInv PROVE ActiveOnly
  <2> SUFFICES ASSUME NEW k \in Live, k \in HalfDuplex \ LateFrames,
                      states[k].reqHdr # {}, Closed(k)
               PROVE  FALSE
    BY DEF ActiveOnly
  <2>1. /\ StateTrue(k, states[k]) /\ ~ StreamIsComplete(states[k])
        /\ ~ reset[k] /\ k \in Stream
    BY <1>2 DEF IInv, LiveTrue, Live
  <2>2. peer[k]["client"] = "ended" /\ peer[k]["server"] = "ended"
    BY <2>1 DEF Closed, Peer
  <2> QED
    BY <2>1, <2>2 DEF StateTrue, StreamIsComplete
<1> QED
  BY <1>1, <1>2, InvariantHolds, PTL DEF ClosedMeansWritten

\* Body segments are filed under the peer that sent them, where the two sides
\* take turns.
THEOREM AttributionAlwaysExact == Spec => []AttributionExact
<1>1. IInv => AttributionExact
  BY DEF IInv, DocsTrue, DocTrue, AttributionExact
<1> QED
  BY <1>1, InvariantHolds, PTL

-----------------------------------------------------------------------------
(* What is on disk.                                                        *)

\* Write i is the last of its stream that succeeded.
LastOf(k, i) ==
  /\ flushed[i].stream = k /\ flushed[i].ok
  /\ \A j \in Writes : j > i /\ flushed[j].stream = k => ~ flushed[j].ok

\* The file of a stream is the last of its documents whose write succeeded.
DiskIsLast ==
  \A k \in Stream :
    \/ disk[k] = NoDoc /\ \A i \in Writes : flushed[i].stream = k => ~ flushed[i].ok
    \/ \E i \in Writes : LastOf(k, i) /\ disk[k] = flushed[i].doc

LEMMA DiskStep ==
  ASSUME IInv, DiskIsLast, NEW k \in Stream, NEW s \in StreamState, NEW atEOF \in BOOLEAN,
         WriteStream(k, s, atEOF)
  PROVE  DiskIsLast'
<1>1. PICK w \in Write :
        /\ w.stream = k /\ flushed' = Append(flushed, w)
        /\ disk'[k] = IF w.ok THEN w.doc ELSE disk[k]
        /\ \A j \in Stream \ {k} : disk'[j] = disk[j]
  BY WriteFacts DEF IInv
<1>2. flushed \in Seq(Write) /\ Writes = 1 .. Len(flushed) /\ Len(flushed) \in Nat
  BY DEF IInv, TypeOK, Writes
<1>3. PICK last \in Nat :
        /\ Writes' = Writes \cup {last} /\ \A i \in Writes : i < last
        /\ \A i \in Writes : flushed'[i] = flushed[i]
        /\ flushed'[last] = w
  <2>1. Len(flushed) + 1 \in Nat /\ \A i \in Writes : i < Len(flushed) + 1
    BY <1>2
  <2> QED
    BY <1>1, <1>2, <2>1, Appended DEF Writes
<1> SUFFICES ASSUME NEW j \in Stream
             PROVE  \/ /\ disk'[j] = NoDoc
                       /\ \A i \in Writes' : flushed'[i].stream = j => ~ flushed'[i].ok
                    \/ \E i \in Writes' : LastOf(j, i)' /\ disk'[j] = flushed'[i].doc
  BY DEF DiskIsLast
<1>4. Writes \subseteq Nat
  BY <1>2
<1>5. CASE j = k /\ w.ok
  <2>1. last \in Writes' /\ disk'[j] = flushed'[last].doc
    BY <1>1, <1>3, <1>5
  <2>2. \A i \in Writes' : ~ (i > last)
    BY <1>3, <1>4
  <2>3. LastOf(j, last)'
    BY <1>1, <1>3, <1>5, <2>2 DEF LastOf
  <2> QED
    BY <2>1, <2>3
<1>6. CASE ~ (j = k /\ w.ok)
  <2>1. disk'[j] = disk[j]
    BY <1>1, <1>6
  <2>2. flushed'[last].stream = j => ~ flushed'[last].ok
    BY <1>1, <1>3, <1>6
  <2>3. CASE disk[j] = NoDoc /\ \A i \in Writes : flushed[i].stream = j => ~ flushed[i].ok
    BY <1>3, <2>1, <2>2, <2>3
  <2>4. CASE \E i \in Writes : LastOf(j, i) /\ disk[j] = flushed[i].doc
    <3>1. PICK i \in Writes : LastOf(j, i) /\ disk[j] = flushed[i].doc
      BY <2>4
    <3>2. LastOf(j, i)'
      BY <1>3, <2>2, <3>1 DEF LastOf
    <3> QED
      BY <1>3, <2>1, <3>1, <3>2
  <2> QED
    BY <2>3, <2>4 DEF DiskIsLast
<1> QED
  BY <1>5, <1>6

\* A frame either leaves the documents alone or writes its stream's state.
LEMMA StoreWrites ==
  ASSUME NEW k \in Stream, NEW s \in StreamState, Store(k, s)
  PROVE  \/ UNCHANGED <<flushed, disk>>
         \/ WriteStream(k, s, FALSE)
  BY DEF Store

\* What a frame makes of the state of its stream is a state.
LEMMA UpdateTyped ==
  ASSUME IInv, NEW k \in Stream, Arrives(k), NEW end \in BOOLEAN, NEW body \in BOOLEAN,
         NEW p \in Peer
  PROVE  /\ OnRequest(Lookup(k), end) \in StreamState
         /\ OnResponse(Lookup(k), end) \in StreamState
         /\ OnBare(k, Lookup(k), p, body, end) \in StreamState
         /\ OnBare(k, [Lookup(k) EXCEPT !.rst = TRUE], p, body, end) \in StreamState
<1>1. count < MaxFrames /\ count + 1 \in Frame
  BY Http2Assumption DEF Arrives, IInv, TypeOK, Frame
<1>2. PICK s \in StreamState : s = Lookup(k)
  BY <1>1, LookupFacts
<1>3. OnRequest(s, end) \in StreamState /\ OnResponse(s, end) \in StreamState
  BY <1>1 DEF OnRequest, OnResponse, StreamState
<1>4. [s EXCEPT !.rst = TRUE] \in StreamState
  BY DEF StreamState
<1>5. ASSUME NEW r \in StreamState
      PROVE  OnBare(k, r, p, body, end) \in StreamState
  BY <1>1 DEF OnBare, StreamState
<1> QED
  BY <1>2, <1>3, <1>4, <1>5

LEMMA AnyWrite ==
  ASSUME IInv, [Next]_vars
  PROVE  \/ UNCHANGED <<flushed, disk>>
         \/ \E k \in Stream, s \in StreamState, atEOF \in BOOLEAN : WriteStream(k, s, atEOF)
<1>1. ASSUME NEW k \in Stream, NEW s \in StreamState, Store(k, s)
      PROVE  \/ UNCHANGED <<flushed, disk>>
             \/ \E j \in Stream, r \in StreamState, atEOF \in BOOLEAN : WriteStream(j, r, atEOF)
  BY <1>1, StoreWrites
<1>2. CASE \E k \in Stream : RequestHeaders(k)
  BY <1>1, <1>2, UpdateTyped, PeerFacts DEF RequestHeaders
<1>3. CASE \E k \in Stream : ResponseHeaders(k)
  BY <1>1, <1>3, UpdateTyped, PeerFacts DEF ResponseHeaders
<1>4. CASE \E k \in Stream, p \in Peer : Data(k, p)
  BY <1>1, <1>4, UpdateTyped DEF Data
<1>5. CASE \E k \in Stream, p \in Peer : Trailers(k, p)
  BY <1>1, <1>5, UpdateTyped DEF Trailers
<1>6. CASE \E k \in Stream, p \in Peer : Control(k, p)
  BY <1>1, <1>6, UpdateTyped DEF Control
<1>7. CASE \E k \in Stream, p \in Peer : ResetStream(k, p)
  BY <1>1, <1>7, UpdateTyped DEF ResetStream
<1>8. CASE \E k \in Stream : FlushRemaining(k)
  <2>1. PICK k \in Stream : WriteStream(k, states[k], TRUE) /\ states[k] # NoState
    BY <1>8 DEF FlushRemaining, Live
  <2>2. states[k] \in StreamState
    BY <2>1 DEF IInv, TypeOK
  <2> QED
    BY <2>1, <2>2
<1>9. CASE EndOfCapture \/ Finish \/ UNCHANGED vars
  BY <1>9 DEF EndOfCapture, Finish, vars
<1> QED
  BY <1>2, <1>3, <1>4, <1>5, <1>6, <1>7, <1>8, <1>9 DEF Next

LEMMA DiskHolds == Spec => []DiskIsLast
<1>1. Init => DiskIsLast
  BY DEF Init, DiskIsLast, Writes
<1>2. ASSUME IInv, DiskIsLast, [Next]_vars
      PROVE  DiskIsLast'
  <2>1. CASE UNCHANGED <<flushed, disk>>
    BY <1>2, <2>1 DEF DiskIsLast, LastOf, Writes
  <2>2. CASE \E k \in Stream, s \in StreamState, atEOF \in BOOLEAN : WriteStream(k, s, atEOF)
    BY <1>2, <2>2, DiskStep
  <2> QED
    BY <1>2, <2>1, <2>2, AnyWrite
<1> QED
  BY <1>1, <1>2, InvariantHolds, PTL DEF Spec

LEMMA SidesCounted ==
  ASSUME NEW s, NEW n
  PROVE  /\ Once(s, n) => Cardinality(Sides(s, n)) = 1 /\ Sides(s, n) # {}
         /\ Absent(s, n) => Cardinality(Sides(s, n)) = 0
<1>1. ASSUME Once(s, n)
      PROVE  Sides(s, n) = {"request"} \/ Sides(s, n) = {"response"}
  BY <1>1 DEF Once, Sides
<1>2. ASSUME Absent(s, n)
      PROVE  Sides(s, n) = {}
  BY <1>2 DEF Absent, Sides
<1> QED
  BY <1>1, <1>2, FS_Singleton, FS_EmptySet

\* A document that is not its stream's file is Gone.
LEMMA NotOnDisk ==
  ASSUME IInv, DiskIsLast, NEW i \in Writes, disk[flushed[i].stream] # flushed[i].doc
  PROVE  Gone(i)
<1>1. flushed[i].stream \in Stream
  BY WritesTyped DEF IInv
<1>2. CASE ~ flushed[i].ok
  BY <1>2 DEF Gone
<1>3. CASE flushed[i].ok
  <2>1. PICK l \in Writes :
          LastOf(flushed[i].stream, l) /\ disk[flushed[i].stream] = flushed[l].doc
    BY <1>1, <1>3 DEF DiskIsLast
  <2>2. l # i /\ ~ (i > l)
    BY <1>3, <2>1 DEF LastOf
  <2>3. l > i
    BY <2>2 DEF IInv, TypeOK, Writes
  <2>4. flushed[i].stream \in LateFrames
    BY <1>3 DEF IInv, DocsTrue, DocTrue
  <2> QED
    BY <2>1, <2>3, <2>4 DEF Gone, LastOf
<1> QED
  BY <1>2, <1>3

\* The file of a stream holds what one of its documents holds, or there is none.
LEMMA FileIsDocument ==
  ASSUME IInv, DiskIsLast, NEW k \in Stream, disk[k] # NoDoc
  PROVE  \E i \in Writes : flushed[i].stream = k /\ disk[k] = flushed[i].doc
  BY DEF DiskIsLast, LastOf

\* No body segment and no frame of the capture is missing from the files but
\* those of documents whose write failed or whose file a late frame had
\* replaced (http2_decoder.go:416), and no segment is kept twice.
THEOREM NothingElseEverLost == Spec => []NothingElseLost
<1>1. ASSUME IInv, DiskIsLast PROVE SegmentsKept
  <2> SUFFICES ASSUME NEW c \in Bodies
               PROVE  \/ Copies(c) = 1
                      \/ /\ Copies(c) = 0
                         /\ \E i \in Writes :
                              /\ Gone(i) /\ flushed[i].stream = c.stream
                              /\ Sides(flushed[i].doc.content, c.n) # {}
    BY DEF SegmentsKept
  <2> DEFINE k == c.stream
             live == IF states[k] = NoState THEN 0
                     ELSE Cardinality(Sides(states[k], c.n))
             file == IF disk[k] = NoDoc THEN 0
                     ELSE Cardinality(Sides(disk[k].content, c.n))
  <2>0. k \in Stream /\ Copies(c) = live + file
    BY <1>1 DEF IInv, TypeOK, Bodies, Carried, Copies
  <2>1. CASE InState(c)
    <3>1. Once(states[k], c.n) /\ states[k] # NoState
      BY <1>1, <2>1 DEF IInv, PlacedOnce, InState
    <3>2. live = 1
      BY <3>1, SidesCounted
    <3>3. file = 0
      <4>1. CASE disk[k] # NoDoc
        <5>1. PICK i \in Writes : flushed[i].stream = k /\ disk[k] = flushed[i].doc
          BY <1>1, <2>0, <4>1, FileIsDocument
        <5>2. Absent(disk[k].content, c.n)
          BY <1>1, <2>1, <5>1 DEF IInv, PlacedOnce, InDoc
        <5> QED
          BY <4>1, <5>2, SidesCounted
      <4> QED
        BY <4>1
    <3> QED
      BY <2>0, <3>2, <3>3
  <2>2. CASE ~ InState(c)
    <3>1. live = 0
      BY <2>2, SidesCounted DEF InState
    <3>2. PICK i \in Writes : /\ InDoc(c, i) /\ Once(flushed[i].doc.content, c.n)
                              /\ \A j \in Writes : InDoc(c, j) => j = i
      BY <1>1, <2>2 DEF IInv, PlacedOnce
    <3>3. flushed[i].stream = k /\ flushed[i].doc # NoDoc
      BY <1>1, <3>2, WritesTyped, Http2Assumption DEF InDoc, IInv, Write
    <3>4. CASE disk[k] = flushed[i].doc
      BY <2>0, <3>1, <3>2, <3>3, <3>4, SidesCounted
    <3>5. CASE disk[k] # flushed[i].doc
      <4>1. Gone(i) /\ Sides(flushed[i].doc.content, c.n) # {}
        BY <1>1, <3>2, <3>3, <3>5, NotOnDisk, SidesCounted
      <4>2. file = 0
        <5>1. CASE disk[k] # NoDoc
          <6>1. PICK l \in Writes : flushed[l].stream = k /\ disk[k] = flushed[l].doc
            BY <1>1, <2>0, <5>1, FileIsDocument
          <6>2. l # i
            BY <3>5, <6>1
          <6>3. Absent(disk[k].content, c.n)
            BY <3>2, <6>1, <6>2 DEF InDoc
          <6> QED
            BY <5>1, <6>3, SidesCounted
        <5> QED
          BY <5>1
      <4>3. Copies(c) = 0
        BY <2>0, <3>1, <4>2
      <4>4. flushed[i].stream = c.stream
        BY <3>3
      <4> QED
        BY <4>1, <4>3, <4>4
    <3> QED
      BY <3>4, <3>5
  <2> QED
    BY <2>1, <2>2
<1>2. ASSUME IInv, DiskIsLast PROVE AllAccounted
  <2> SUFFICES ASSUME phase = "done", NEW n \in 1 .. count
               PROVE  \/ \E k \in Stream : disk[k] # NoDoc /\ n \in disk[k].content.frames
                      \/ \E i \in Writes : Gone(i) /\ n \in flushed[i].doc.content.frames
    BY DEF AllAccounted
  <2>1. \A k \in Stream : states[k] = NoState
    BY <1>2 DEF IInv, NothingLive, Live
  <2>2. PICK i \in Writes : n \in flushed[i].doc.content.frames
    BY <1>2, <2>1 DEF IInv, FramesKept
  <2>3. flushed[i].stream \in Stream /\ flushed[i].doc # NoDoc
    BY <1>2, WritesTyped, Http2Assumption DEF IInv, Write
  <2>4. CASE disk[flushed[i].stream] = flushed[i].doc
    BY <2>2, <2>3, <2>4
  <2>5. CASE disk[flushed[i].stream] # flushed[i].doc
    BY <1>2, <2>2, <2>5, NotOnDisk
  <2> QED
    BY <2>4, <2>5
<1> QED
  BY <1>1, <1>2, InvariantHolds, DiskHolds, PTL DEF NothingElseLost
=============================================================================
