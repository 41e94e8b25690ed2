---------------------- MODULE AttemptDiagnostics_proofs ----------------------
(***************************************************************************)
(* A "success" of T02 hides the losses that are named and no other, for    *)
(* any records, any configuration and any length of the capture. An HTTP   *)
(* failure that T02 saw is reported by T06, because only one document of a *)
(* stream has an answer.                                                   *)
(*                                                                         *)
(* Of the tools behind T02: the attempt and its catalog hold primary       *)
(* events, a suspicion of T06 rests on a doubt of T02, T09 calls no stage  *)
(* missing behind one that already is and leaves no attempt that broke off *)
(* without a candidate, and the pages of a timeline are the timeline.      *)
(***************************************************************************)
EXTENDS AttemptDiagnostics, Lists_proofs

Sources == {"http", "ngap", "pfcp"}

\* Every member of a sequence counts; what it is does not matter.
Sequence(s) == s \in Seq(Range(s))

Found(i) == {e \in Range(events) : e.id[1] = i}

\* What has become of the i-th record: it was counted, or left out without a
\* word, or has the events that the code makes of it.
Accounted(i) ==
  LET r == log[i].rec
      s == log[i].source
  IN  \/ quarantined > 0
      \/ source = "failed"
      \/ Omitted(s, r) /\ Found(i) = {}
      \/ ~Omitted(s, r) /\ Found(i) = Range(EventsOf(s, i, r))

LossInv ==
  /\ Sequence(log) /\ Sequence(events)
  /\ quarantined \in Nat
  /\ \A i \in DOMAIN log : log[i].source \in Sources /\ log[i].rec \in Records[log[i].source]
  /\ \A e \in Range(events) : e.id[1] \in DOMAIN log
  /\ \A i \in DOMAIN log : Accounted(i)

-----------------------------------------------------------------------------
(* Sequences                                                               *)

LEMMA Joined ==
  ASSUME NEW s, NEW t, Sequence(s), Sequence(t)
  PROVE  /\ Sequence(s \o t) /\ Range(s \o t) = Range(s) \cup Range(t)
<1>1. PICK S : S = Range(s) \cup Range(t)
  OBVIOUS
<1>2. s \in Seq(S) /\ t \in Seq(S)
  BY <1>1 DEF Sequence
<1>3. /\ DOMAIN s = 1 .. Len(s) /\ DOMAIN t = 1 .. Len(t) /\ s \o t \in Seq(S)
      /\ DOMAIN (s \o t) = 1 .. (Len(s) + Len(t)) /\ Len(s) \in Nat /\ Len(t) \in Nat
      /\ \A i \in 1 .. Len(s) : (s \o t)[i] = s[i]
      /\ \A i \in 1 .. Len(t) : (s \o t)[Len(s) + i] = t[i]
  BY <1>2
<1>4. Range(s) \subseteq Range(s \o t)
  BY <1>3 DEF Range
<1>5. Range(t) \subseteq Range(s \o t)
  <2> SUFFICES ASSUME NEW i \in 1 .. Len(t) PROVE t[i] \in Range(s \o t)
    BY <1>3 DEF Range
  <2>1. Len(s) + i \in DOMAIN (s \o t)
    BY <1>3
  <2> QED
    BY <1>3, <2>1 DEF Range
<1>6. Range(s \o t) \subseteq S
  BY <1>3 DEF Range
<1> QED
  BY <1>1, <1>3, <1>4, <1>5, <1>6 DEF Sequence

LEMMA Single ==
  ASSUME NEW x PROVE Sequence(<<x>>) /\ Range(<<x>>) = {x}
  BY DEF Sequence, Range

LEMMA Extended ==
  ASSUME NEW s, NEW x, Sequence(s)
  PROVE  /\ Sequence(Append(s, x)) /\ Len(Append(s, x)) = Len(s) + 1 /\ Len(s) \in Nat
         /\ DOMAIN s = 1 .. Len(s) /\ DOMAIN Append(s, x) = 1 .. (Len(s) + 1)
         /\ \A i \in 1 .. Len(s) : Append(s, x)[i] = s[i]
         /\ Append(s, x)[Len(s) + 1] = x
<1>1. PICK S : S = Range(s) \cup {x}
  OBVIOUS
<1>2. s \in Seq(S) /\ x \in S
  BY <1>1 DEF Sequence
<1>3. /\ Append(s, x) \in Seq(S) /\ Len(Append(s, x)) = Len(s) + 1 /\ Len(s) \in Nat
      /\ DOMAIN s = 1 .. Len(s) /\ DOMAIN Append(s, x) = 1 .. (Len(s) + 1)
      /\ \A i \in 1 .. Len(s) : Append(s, x)[i] = s[i]
      /\ Append(s, x)[Len(s) + 1] = x
  BY <1>2
<1>4. S \subseteq Range(Append(s, x))
  BY <1>1, <1>3 DEF Range
<1>5. Range(Append(s, x)) \subseteq S
  BY <1>3 DEF Range
<1> QED
  BY <1>3, <1>4, <1>5 DEF Sequence

-----------------------------------------------------------------------------
(* What a record becomes.                                                  *)

Eventful(s, i, r) ==
  LET E == Range(EventsOf(s, i, r)) IN
  /\ Sequence(EventsOf(s, i, r))
  /\ \A e \in E : e.id[1] = i
  /\ \/ s = "ngap" /\ r.nas # None /\ \E e, f : e # f /\ E = {e, f}
     \/ ~ (s = "ngap" /\ r.nas # None) /\ \E e : E = {e}

LEMMA RecordBecomes ==
  ASSUME NEW s \in Sources, NEW i, NEW r
  PROVE  Eventful(s, i, r)
<1>1. CASE s = "http"
  <2> DEFINE e == [Event(i, 0, "HTTP2", "HTTP2", HttpOutcome(r), r)
                     EXCEPT !.partition = RouteEvent(InferSbiApi(r.path)),
                            !.partial = Ambiguous(InferSbiApi(r.path))]
  <2>1. EventsOf(s, i, r) = <<e>>
    BY <1>1 DEF EventsOf, HttpEvents
  <2>2. e.id = <<i, 0>>
    BY DEF Event
  <2> HIDE DEF e
  <2> QED
    BY <1>1, <2>1, <2>2, Single DEF Eventful
<1>2. CASE s = "pfcp"
  <2> DEFINE e == [Event(i, 0, "PFCP", MessageName(r.type, "PFCP_MESSAGE"), PfcpOutcome(r), r)
                     EXCEPT !.cause = r.cause]
  <2>1. EventsOf(s, i, r) = <<e>>
    BY <1>2 DEF EventsOf, PfcpEvents
  <2>2. e.id = <<i, 0>>
    BY DEF Event
  <2> HIDE DEF e
  <2> QED
    BY <1>2, <2>1, <2>2, Single DEF Eventful
<1>3. CASE s = "ngap"
  <2> DEFINE e == [Event(i, 0, "NGAP", MessageName(r.code, "NGAP_PDU"),
                         NgapOutcome(DetectNgapClass(r.class)), r) EXCEPT !.cause = r.cause]
             f == [Event(i, 1, "NAS", MessageName(r.nas.code, "NAS_PDU"), "unknown", r)
                     EXCEPT !.cause = r.nas.cause, !.partial = r.nas.code = None]
  <2>1. EventsOf(s, i, r) = <<e>> \o NasEvents(i, r)
    BY <1>3 DEF EventsOf, NgapEvents
  <2>2. e.id = <<i, 0>> /\ f.id = <<i, 1>>
    BY DEF Event
  <2>3. r.nas # None => NasEvents(i, r) = <<f>>
    BY DEF NasEvents
  <2>4. r.nas = None => NasEvents(i, r) = << >>
    BY DEF NasEvents
  <2> HIDE DEF e, f
  <2>5. CASE r.nas = None
    <3>1. EventsOf(s, i, r) = <<e>>
      BY <2>1, <2>4, <2>5
    <3>2. Range(EventsOf(s, i, r)) = {e} /\ Sequence(EventsOf(s, i, r))
      BY <3>1, Single
    <3> QED
      BY <1>3, <2>2, <2>5, <3>2 DEF Eventful
  <2>6. CASE r.nas # None
    <3>1. Range(EventsOf(s, i, r)) = {e, f} /\ Sequence(EventsOf(s, i, r))
      BY <2>1, <2>3, <2>6, Single, Joined
    <3>2. e # f
      BY <2>2
    <3>3. \E x, y : x # y /\ Range(EventsOf(s, i, r)) = {x, y}
      BY <3>1, <3>2
    <3>4. \A x \in Range(EventsOf(s, i, r)) : x.id[1] = i
      BY <2>2, <3>1
    <3> QED
      BY <1>3, <2>6, <3>1, <3>3, <3>4 DEF Eventful
  <2> QED
    BY <2>5, <2>6
<1> QED
  BY <1>1, <1>2, <1>3 DEF Sources

-----------------------------------------------------------------------------
(* The steps of T02, and the tools after it.                               *)

LEMMA NothingMoved ==
  ASSUME LossInv, UNCHANGED normalizeVars
  PROVE  LossInv'
<1>1. UNCHANGED <<config, source, log, events, quarantined>>
  BY DEF normalizeVars
<1> QED
  BY <1>1 DEF LossInv, Accounted, Found, Omitted

LEMMA NextSourceStep == ASSUME LossInv, NextSource PROVE LossInv'
<1>1. /\ UNCHANGED <<config, log, events, quarantined>> /\ source # "failed"
  BY DEF NextSource, Records
<1>2. \A i \in DOMAIN log : Accounted(i)'
  BY <1>1 DEF LossInv, Accounted, Found, Omitted
<1> QED
  BY <1>1, <1>2 DEF LossInv

\* A record is read: what holds of the records before it stays, if events are
\* only added for the new one.
LEMMA ReadStep ==
  ASSUME LossInv, NEW r, Read(r), NEW added, Sequence(added),
         events' = events \o added, \A e \in Range(added) : e.id[1] = Len(log'),
         quarantined' \in {quarantined, quarantined + 1},
         source' = source \/ source' = "failed",
         \/ quarantined' > 0
         \/ source' = "failed"
         \/ Omitted(source, r) /\ Range(added) = {}
         \/ ~Omitted(source, r) /\ Range(added) = Range(EventsOf(source, Len(log'), r))
  PROVE  LossInv'
<1>1. /\ source \in Sources /\ r \in Records[source] /\ config' = config
      /\ log' = Append(log, [source |-> source, rec |-> r])
  BY DEF Read, Records, Sources
<1>2. /\ Sequence(log') /\ Len(log') = Len(log) + 1 /\ Len(log) \in Nat
      /\ DOMAIN log = 1 .. Len(log) /\ DOMAIN log' = 1 .. Len(log')
      /\ \A i \in DOMAIN log : log'[i] = log[i]
      /\ log'[Len(log')] = [source |-> source, rec |-> r]
  BY <1>1, Extended DEF LossInv
<1>3. Sequence(events') /\ Range(events') = Range(events) \cup Range(added)
  BY Joined DEF LossInv
<1>4. PICK n : n = Len(log')
  OBVIOUS
<1>5. n \in DOMAIN log' /\ n \notin DOMAIN log /\ DOMAIN log' = DOMAIN log \cup {n}
  BY <1>2, <1>4
<1>6. quarantined \in Nat /\ quarantined' \in Nat /\ (quarantined > 0 => quarantined' > 0)
  BY DEF LossInv
<1>7. \A e \in Range(events') : e.id[1] \in DOMAIN log'
  BY <1>3, <1>4, <1>5 DEF LossInv
<1>8. ASSUME NEW i \in DOMAIN log
      PROVE  Accounted(i)'
  <2>1. Found(i)' = Found(i)
    BY <1>3, <1>4, <1>5 DEF Found
  <2>2. log'[i] = log[i]
    BY <1>2
  <2>3. Accounted(i) /\ source # "failed"
    BY <1>1 DEF LossInv, Sources
  <2> QED
    BY <1>1, <1>6, <2>1, <2>2, <2>3 DEF Accounted, Omitted
<1>9. Accounted(n)'
  <2>1. Found(n)' = Range(added)
    BY <1>3, <1>4, <1>5 DEF Found, LossInv
  <2>2. log'[n].source = source /\ log'[n].rec = r
    BY <1>2, <1>4
  <2> QED
    BY <1>1, <1>4, <2>1, <2>2 DEF Accounted, Omitted
<1>10. \A i \in DOMAIN log' :
         log'[i].source \in Sources /\ log'[i].rec \in Records[log'[i].source]
  BY <1>1, <1>2, <1>4, <1>5 DEF LossInv
<1>11. \A i \in DOMAIN log' : Accounted(i)'
  BY <1>5, <1>8, <1>9
<1> QED
  BY <1>2, <1>3, <1>6, <1>7, <1>10, <1>11 DEF LossInv

LEMMA NormalizePreserves == ASSUME LossInv, Normalize PROVE LossInv'
<1>1. PICK none : none = << >>
  OBVIOUS
<1>2. Sequence(none) /\ Range(none) = {} /\ events = events \o none
  BY <1>1 DEF LossInv, Sequence, Range
<1>3. quarantined \in Nat
  BY DEF LossInv
<1>4. ASSUME NEW r, RejectSchema(r) PROVE LossInv'
  BY <1>2, <1>4, ReadStep DEF RejectSchema
<1>5. ASSUME NEW r, QuarantineRecord(r) PROVE LossInv'
  <2>1. Read(r) /\ quarantined' = quarantined + 1 /\ source' = source /\ events' = events
    BY <1>5 DEF QuarantineRecord
  <2> QED
    BY <1>2, <1>3, <2>1, ReadStep
<1>6. ASSUME NEW r, OmitRecord(r) PROVE LossInv'
  <2>1. /\ Read(r) /\ Omitted(source, r)
        /\ quarantined' = quarantined /\ source' = source /\ events' = events
    BY <1>6 DEF OmitRecord
  <2> QED
    BY <1>2, <2>1, ReadStep
<1>7. ASSUME NEW r, NormalizeRecord(r) PROVE LossInv'
  <2>1. /\ Read(r) /\ ~Omitted(source, r) /\ events' = events \o EventsOf(source, Len(log'), r)
        /\ quarantined' = quarantined /\ source' = source
    BY <1>7 DEF NormalizeRecord
  <2>2. PICK n : n = Len(log')
    OBVIOUS
  <2>3. source \in Sources
    BY <2>1 DEF Read, Records, Sources
  <2>4. PICK added : added = EventsOf(source, n, r)
    OBVIOUS
  <2>5. Sequence(added) /\ \A e \in Range(added) : e.id[1] = n
    BY <2>3, <2>4, RecordBecomes DEF Eventful
  <2> QED
    BY <2>1, <2>2, <2>4, <2>5, ReadStep
<1> QED
  BY <1>4, <1>5, <1>6, <1>7, NextSourceStep DEF Normalize

LEMMA LossInit == Init => LossInv
<1> SUFFICES ASSUME Init PROVE LossInv
  OBVIOUS
<1>1. log = << >> /\ events = << >> /\ quarantined = 0
  BY DEF Init, NormalizeInit
<1>2. Range(log) = {} /\ Range(events) = {} /\ DOMAIN log = {}
  BY <1>1 DEF Range
<1> QED
  BY <1>1, <1>2 DEF LossInv, Sequence

-----------------------------------------------------------------------------
(* The theorems.                                                           *)

\* What became of every record that T02 has read.
THEOREM LossesKnown == Spec => []LossInv
<1>1. ASSUME LossInv, [Next]_vars
      PROVE  LossInv'
  <2>1. CASE NormalizeStep
    BY <1>1, <2>1, NormalizePreserves DEF NormalizeStep
  <2>2. CASE ~ NormalizeStep
    <3>1. UNCHANGED normalizeVars
      BY <1>1, <2>2 DEF Next, vars, BuildPfcpCatalog, Segment, GetUeRequest, FindHttpFailures,
                    FindNasNgapFailures, FindPfcpFailures, DetectMissingTransitions,
                    GetAttemptTimeline, RejectCursor
    <3> QED
      BY <1>1, <3>1, NothingMoved
  <2> QED
    BY <2>1, <2>2
<1> QED
  BY <1>1, LossInit, PTL DEF Spec

\* Status "success" of T02 means that of every record the events in the files
\* and the unreported losses (documents without a frame, routine heartbeats, NAS
\* PDUs inside the NGAP tree) are all that T02_normalize_events.md asks for.
THEOREM LossAlwaysAccounted == Spec => []LossAccounted
<1>1. ASSUME LossInv PROVE LossAccounted
  <2> SUFFICES ASSUME source = "closed", Status = "success", NEW i \in DOMAIN log
               PROVE  Cardinality(Found(i)) + Unreported(log[i].source, log[i].rec)
                        = Asked(log[i].source, log[i].rec)
    BY DEF LossAccounted, Found
  <2>1. ~ (quarantined > 0)
    BY DEF Status
  <2>2. PICK r, s : r = log[i].rec /\ s = log[i].source
    OBVIOUS
  <2>3. Accounted(i) /\ s \in Sources /\ r \in Records[s]
    BY <1>1, <2>2 DEF LossInv
  <2>4. s = "ngap" => r.nested \in Nat /\ ~Omitted(s, r)
    BY <2>3, FrameAssumption DEF Records, Omitted
  <2>5. CASE Omitted(s, r) /\ Found(i) = {}
    <3>1. Cardinality(Found(i)) = 0
      BY <2>5, FS_EmptySet
    <3>2. Unreported(s, r) = 1 /\ Asked(s, r) = 1
      BY <2>4, <2>5 DEF Unreported, Asked
    <3> QED
      BY <2>2, <3>1, <3>2
  <2>6. CASE ~Omitted(s, r) /\ Found(i) = Range(EventsOf(s, i, r))
    <3>1. Eventful(s, i, r)
      BY <2>3, RecordBecomes
    <3>2. CASE s = "ngap" /\ r.nas # None
      <4>1. PICK e, f : e # f /\ Found(i) = {e, f}
        BY <2>6, <3>1, <3>2 DEF Eventful
      <4>2. Cardinality({e, f}) = 2
        <5>1. {e, f} = {e} \cup {f}
          OBVIOUS
        <5>2. IsFiniteSet({e}) /\ Cardinality({e}) = 1 /\ f \notin {e}
          BY <4>1, FS_Singleton
        <5>3. Cardinality({e} \cup {f}) = 1 + 1
          BY <5>2, FS_AddElement
        <5> QED
          BY <5>1, <5>3
      <4>3. Unreported(s, r) = r.nested /\ Asked(s, r) = 1 + (r.nested + 1)
        BY <2>6, <3>2 DEF Unreported, Asked
      <4> QED
        BY <2>2, <2>4, <3>2, <4>1, <4>2, <4>3
    <3>3. CASE ~ (s = "ngap" /\ r.nas # None)
      <4>1. PICK e : Found(i) = {e}
        BY <2>6, <3>1, <3>3 DEF Eventful
      <4>2. Cardinality(Found(i)) = 1
        BY <4>1, FS_Singleton
      <4>3. Asked(s, r) = 1 + Unreported(s, r) /\ Unreported(s, r) \in Nat
        BY <2>4, <2>6, <3>3 DEF Unreported, Asked
      <4> QED
        BY <2>2, <4>2, <4>3
    <3> QED
      BY <3>2, <3>3
  <2> QED
    BY <2>1, <2>2, <2>3, <2>5, <2>6 DEF Accounted
<1> QED
  BY <1>1, LossesKnown, PTL

-----------------------------------------------------------------------------
(* Failures that T06 must report.                                          *)

\* An HTTP event is the only one of its document.
HttpTrue ==
  \A e \in Range(events) : e.protocol = "HTTP2" =>
    /\ log[e.id[1]].source = "http"
    /\ e \in Range(HttpEvents(e.id[1], log[e.id[1]].rec))

\* A stream has one document with an answer.
OneAnswer ==
  \A i, j \in DOMAIN log :
    log[i].source = "http" /\ log[j].source = "http" /\ log[i].rec.key = log[j].rec.key =>
      i = j \/ None \in {log[i].rec.status, log[j].rec.status}

Reported(e) == \E c \in http.candidates : c.explicit /\ e.id \in c.events

\* The attempt has events of T02; after T06 its failures are reported.
FailuresTaken ==
  /\ pc \in {"normalize", "segment", "request", "T06", "T07", "T08", "T09", "timeline"}
  /\ pc \notin {"normalize", "segment"} => attempt.events \subseteq Range(events)
  /\ pc \in {"T07", "T08", "T09", "timeline"} =>
       \A e \in Of({"HTTP2"}) : e.outcome = "failure" => Reported(e)

MaskInv == LossInv /\ HttpTrue /\ OneAnswer /\ FailuresTaken

LEMMA DocumentBecomes ==
  ASSUME NEW i, NEW r
  PROVE  \E e : /\ HttpEvents(i, r) = <<e>> /\ Range(HttpEvents(i, r)) = {e}
               /\ e.id = <<i, 0>> /\ e.protocol = "HTTP2" /\ e.rec = r
               /\ e.outcome = HttpOutcome(r)
<1> DEFINE e == [Event(i, 0, "HTTP2", "HTTP2", HttpOutcome(r), r)
                   EXCEPT !.partition = RouteEvent(InferSbiApi(r.path)),
                          !.partial = Ambiguous(InferSbiApi(r.path))]
<1>1. HttpEvents(i, r) = <<e>>
  BY DEF HttpEvents
<1>2. e.id = <<i, 0>> /\ e.protocol = "HTTP2" /\ e.rec = r /\ e.outcome = HttpOutcome(r)
  BY DEF Event
<1> HIDE DEF e
<1> QED
  BY <1>1, <1>2, Single

LEMMA OthersAreNotHttp ==
  ASSUME NEW i, NEW r, NEW s \in {"ngap", "pfcp"}
  PROVE  \A e \in Range(EventsOf(s, i, r)) : e.protocol # "HTTP2"
<1>1. CASE s = "pfcp"
  <2> DEFINE e == [Event(i, 0, "PFCP", MessageName(r.type, "PFCP_MESSAGE"), PfcpOutcome(r), r)
                     EXCEPT !.cause = r.cause]
  <2>1. EventsOf(s, i, r) = <<e>>
    BY <1>1 DEF EventsOf, PfcpEvents
  <2>2. e.protocol = "PFCP"
    BY DEF Event
  <2> HIDE DEF e
  <2> QED
    BY <2>1, <2>2, Single
<1>2. CASE s = "ngap"
  <2> DEFINE e == [Event(i, 0, "NGAP", MessageName(r.code, "NGAP_PDU"),
                         NgapOutcome(DetectNgapClass(r.class)), r) EXCEPT !.cause = r.cause]
             f == [Event(i, 1, "NAS", MessageName(r.nas.code, "NAS_PDU"), "unknown", r)
                     EXCEPT !.cause = r.nas.cause, !.partial = r.nas.code = None]
  <2>1. EventsOf(s, i, r) = <<e>> \o NasEvents(i, r)
    BY <1>2 DEF EventsOf, NgapEvents
  <2>2. e.protocol = "NGAP" /\ f.protocol = "NAS"
    BY DEF Event
  <2>3. r.nas # None => NasEvents(i, r) = <<f>>
    BY DEF NasEvents
  <2>4. r.nas = None => NasEvents(i, r) = << >>
    BY DEF NasEvents
  <2> HIDE DEF e, f
  <2>5. CASE r.nas = None
    <3>1. EventsOf(s, i, r) = <<e>>
      BY <2>1, <2>4, <2>5
    <3> QED
      BY <2>2, <3>1, Single
  <2>6. CASE r.nas # None
    <3>1. Range(EventsOf(s, i, r)) = {e, f}
      BY <2>1, <2>3, <2>6, Single, Joined
    <3> QED
      BY <2>2, <3>1
  <2> QED
    BY <2>5, <2>6
<1> QED
  BY <1>1, <1>2

\* T06 reports a failed transaction, because only one of its documents has an
\* answer, and that one decides its status.
LEMMA FailureReported ==
  ASSUME LossInv, HttpTrue, OneAnswer, attempt.events \subseteq Range(events),
         NEW e \in Of({"HTTP2"}), e.outcome = "failure"
  PROVE  \E c \in HttpResult.candidates : c.explicit /\ e.id \in c.events
<1> DEFINE S == Of({"HTTP2"})
           G == {f \in S : f.rec.key = e.rec.key}
<1>1. \A f \in S : f \in Range(events) /\ f.protocol = "HTTP2" /\ f.id[1] \in DOMAIN log
  BY DEF Of, LossInv
<1>2. ASSUME NEW f \in S
      PROVE  /\ log[f.id[1]].source = "http" /\ f.rec = log[f.id[1]].rec
             /\ f.outcome = HttpOutcome(f.rec)
             /\ Range(HttpEvents(f.id[1], log[f.id[1]].rec)) = {f}
  <2>1. /\ log[f.id[1]].source = "http"
        /\ f \in Range(HttpEvents(f.id[1], log[f.id[1]].rec))
    BY <1>1 DEF HttpTrue
  <2> QED
    BY <2>1, DocumentBecomes
<1>3. e.rec.status # None /\ e.rec.status \in 200 .. 599 /\ ~ (e.rec.status < 400)
  BY <1>2 DEF HttpOutcome
<1>4. Answered(G) = {e}
  <2>1. e \in Answered(G)
    BY <1>3 DEF Answered
  <2>2. ASSUME NEW f \in Answered(G) PROVE f = e
    <3>1. f \in S /\ f.rec.key = e.rec.key /\ f.rec.status # None
      BY DEF Answered
    <3>2. f.id[1] = e.id[1]
      BY <1>1, <1>2, <1>3, <3>1 DEF OneAnswer
    <3> QED
      BY <1>2, <3>1, <3>2
  <2> QED
    BY <2>1, <2>2
<1>5. Latest(Answered(G)) = e
  BY <1>4 DEF Latest
<1>6. Failed(G)
  BY <1>3, <1>4, <1>5 DEF Failed, HttpStatus
<1>7. G \in Transactions(S)
  BY DEF Transactions
<1>8. HttpCandidate(G) = Candidate("T06", "http_status_failure", Representative(G), G, TRUE, {})
  BY <1>6 DEF HttpCandidate
<1>9. HttpCandidate(G) \in HttpResult.candidates
  BY <1>6, <1>7 DEF HttpResult, FailedOrIncomplete
<1>10. HttpCandidate(G).explicit /\ e.id \in HttpCandidate(G).events
  BY <1>8 DEF Candidate
<1> QED
  BY <1>9, <1>10

LEMMA ReadKeepsHttp ==
  ASSUME LossInv, HttpTrue, OneAnswer, NEW r, Read(r), NEW added, Sequence(added),
         events' = events \o added,
         \/ Range(added) = {}
         \/ Range(added) = Range(EventsOf(source, Len(log'), r))
  PROVE  HttpTrue' /\ OneAnswer'
<1>1. /\ source \in Sources
      /\ log' = Append(log, [source |-> source, rec |-> r])
      /\ \A i \in {j \in DOMAIN log : log[j].source = source} :
           source = "http" => (r.key = log[i].rec.key => None \in {r.status, log[i].rec.status})
  BY DEF Read, Records, Sources
<1>2. /\ Len(log') = Len(log) + 1 /\ Len(log) \in Nat
      /\ DOMAIN log = 1 .. Len(log) /\ DOMAIN log' = 1 .. Len(log')
      /\ \A i \in DOMAIN log : log'[i] = log[i]
      /\ log'[Len(log')] = [source |-> source, rec |-> r]
  BY <1>1, Extended DEF LossInv
<1>3. Range(events') = Range(events) \cup Range(added)
  BY Joined DEF LossInv
<1>4. PICK n : n = Len(log')
  OBVIOUS
<1>5. /\ DOMAIN log' = DOMAIN log \cup {n} /\ n \notin DOMAIN log
      /\ log'[n].source = source /\ log'[n].rec = r
  BY <1>2, <1>4
<1>6. OneAnswer'
  <2> SUFFICES ASSUME NEW i \in DOMAIN log', NEW j \in DOMAIN log',
                      log'[i].source = "http", log'[j].source = "http",
                      log'[i].rec.key = log'[j].rec.key, i # j
               PROVE  None \in {log'[i].rec.status, log'[j].rec.status}
    BY DEF OneAnswer
  <2>1. CASE i \in DOMAIN log /\ j \in DOMAIN log
    BY <1>2, <2>1 DEF OneAnswer
  <2>2. CASE i = n /\ j \in DOMAIN log
    BY <1>1, <1>2, <1>5, <2>2
  <2>3. CASE j = n /\ i \in DOMAIN log
    BY <1>1, <1>2, <1>5, <2>3
  <2> QED
    BY <1>5, <2>1, <2>2, <2>3
<1>7. HttpTrue'
  <2> SUFFICES ASSUME NEW e \in Range(events'), e.protocol = "HTTP2"
               PROVE  /\ log'[e.id[1]].source = "http"
                      /\ e \in Range(HttpEvents(e.id[1], log'[e.id[1]].rec))
    BY DEF HttpTrue
  <2>1. CASE e \in Range(events)
    <3>1. e.id[1] \in DOMAIN log
      BY <2>1 DEF LossInv
    <3> QED
      BY <1>2, <2>1, <3>1 DEF HttpTrue
  <2>2. CASE e \in Range(added)
    <3>1. e \in Range(EventsOf(source, n, r))
      BY <1>4, <2>2
    <3>2. source = "http"
      BY <1>1, <3>1, OthersAreNotHttp DEF Sources
    <3>3. e \in Range(HttpEvents(n, r))
      BY <3>1, <3>2 DEF EventsOf
    <3>4. e.id[1] = n
      BY <3>3, DocumentBecomes
    <3> QED
      BY <1>5, <3>2, <3>3, <3>4
  <2> QED
    BY <1>3, <2>1, <2>2
<1> QED
  BY <1>6, <1>7

LEMMA NormalizeKeepsHttp ==
  ASSUME LossInv, HttpTrue, OneAnswer, Normalize
  PROVE  HttpTrue' /\ OneAnswer'
<1>1. PICK none : none = << >>
  OBVIOUS
<1>2. Sequence(none) /\ Range(none) = {} /\ events = events \o none
  BY <1>1 DEF LossInv, Sequence, Range
<1>3. ASSUME NEW r, RejectSchema(r) \/ QuarantineRecord(r) \/ OmitRecord(r)
      PROVE  HttpTrue' /\ OneAnswer'
  <2>1. Read(r) /\ events' = events
    BY <1>3 DEF RejectSchema, QuarantineRecord, OmitRecord
  <2> QED
    BY <1>2, <2>1, ReadKeepsHttp
<1>4. ASSUME NEW r, NormalizeRecord(r)
      PROVE  HttpTrue' /\ OneAnswer'
  <2>1. Read(r) /\ events' = events \o EventsOf(source, Len(log'), r)
    BY <1>4 DEF NormalizeRecord
  <2>2. source \in Sources
    BY <2>1 DEF Read, Records, Sources
  <2>3. PICK n, added : n = Len(log') /\ added = EventsOf(source, n, r)
    OBVIOUS
  <2>4. Sequence(added)
    BY <2>2, <2>3, RecordBecomes DEF Eventful
  <2> QED
    BY <2>1, <2>3, <2>4, ReadKeepsHttp
<1>5. ASSUME NextSource
      PROVE  HttpTrue' /\ OneAnswer'
  BY <1>5 DEF NextSource, HttpTrue, OneAnswer
<1> QED
  BY <1>3, <1>4, <1>5 DEF Normalize

LEMMA MaskInit == Init => MaskInv
<1> SUFFICES ASSUME Init PROVE MaskInv
  OBVIOUS
<1>1. log = << >> /\ events = << >> /\ pc = "normalize"
  BY DEF Init, NormalizeInit, DiagnosticsInit
<1>2. Range(events) = {} /\ DOMAIN log = {}
  BY <1>1 DEF Range
<1> QED
  BY <1>1, <1>2, LossInit DEF MaskInv, HttpTrue, OneAnswer, FailuresTaken

LEMMA Untouched ==
  ASSUME MaskInv, UNCHANGED normalizeVars
  PROVE  LossInv' /\ HttpTrue' /\ OneAnswer' /\ events' = events
<1>1. UNCHANGED <<log, events>>
  BY DEF normalizeVars
<1> QED
  BY <1>1, NothingMoved DEF MaskInv, HttpTrue, OneAnswer

LEMMA MaskStep == ASSUME MaskInv, [Next]_vars PROVE MaskInv'
<1>1. CASE NormalizeStep
  <2>1. LossInv' /\ HttpTrue' /\ OneAnswer'
    BY <1>1, NormalizePreserves, NormalizeKeepsHttp DEF MaskInv, NormalizeStep
  <2>2. FailuresTaken'
    BY <1>1 DEF NormalizeStep, diagnosticVars, FailuresTaken
  <2> QED
    BY <2>1, <2>2 DEF MaskInv
<1>2. CASE BuildPfcpCatalog
  <2>1. UNCHANGED normalizeVars /\ pc' = "segment"
    BY <1>2 DEF BuildPfcpCatalog
  <2> QED
    BY <2>1, Untouched DEF FailuresTaken, MaskInv
<1>3. CASE Segment
  <2>1. /\ UNCHANGED normalizeVars /\ pc' = "request"
        /\ attempt'.events \subseteq Range(events)
    BY <1>3 DEF Segment, Partition
  <2> QED
    BY <2>1, Untouched DEF FailuresTaken, MaskInv
<1>4. CASE GetUeRequest
  <2>1. /\ UNCHANGED <<normalizeVars, attempt>> /\ pc = "request" /\ pc' = "T06"
    BY <1>4 DEF GetUeRequest
  <2> QED
    BY <2>1, Untouched DEF FailuresTaken, MaskInv
<1>5. CASE FindHttpFailures
  <2>1. /\ UNCHANGED <<normalizeVars, attempt>> /\ http' = HttpResult
        /\ pc = "T06" /\ pc' = "T07"
    BY <1>5 DEF FindHttpFailures
  <2>2. attempt.events \subseteq Range(events)
    BY <2>1 DEF MaskInv, FailuresTaken
  <2>3. \A e \in Of({"HTTP2"})' : e.outcome = "failure" => Reported(e)'
    BY <2>1, <2>2, FailureReported DEF MaskInv, Reported, Of
  <2> QED
    BY <2>1, <2>2, <2>3, Untouched DEF FailuresTaken, MaskInv
<1>6. CASE \/ FindNasNgapFailures \/ FindPfcpFailures \/ DetectMissingTransitions
  <2>1. /\ UNCHANGED <<normalizeVars, attempt, http>>
        /\ pc \in {"T07", "T08", "T09"} /\ pc' \in {"T08", "T09", "timeline"}
    BY <1>6 DEF FindNasNgapFailures, FindPfcpFailures, DetectMissingTransitions
  <2> QED
    BY <2>1, Untouched DEF FailuresTaken, MaskInv, Reported, Of
<1>7. CASE \/ UNCHANGED vars
           \/ \E asked \in Limits : \/ \E c \in {None, cursor} : GetAttemptTimeline(c, asked)
                                    \/ RejectCursor(asked)
  <2>1. UNCHANGED <<normalizeVars, pc, attempt, http>>
    BY <1>7 DEF GetAttemptTimeline, RejectCursor, vars, diagnosticVars, results
  <2> QED
    BY <2>1, Untouched DEF FailuresTaken, MaskInv, Reported, Of
<1> QED
  BY <1>1, <1>2, <1>3, <1>4, <1>5, <1>6, <1>7 DEF Next

\* T06 has run only if a tool after it is next.
LEMMA T06Done ==
  ASSUME FailuresTaken, Done("T06")
  PROVE  pc \in {"T07", "T08", "T09", "timeline"}
<1> DEFINE tools == <<"normalize", "segment", "request", "T06", "T07", "T08", "T09", "timeline">>
           Place(t) == CHOOSE n \in 1 .. 8 : t = tools[n]
<1>1. \A m, n \in 1 .. 8 : tools[m] = tools[n] => m = n
  OBVIOUS
<1>2. Place("normalize") = 1 /\ Place("segment") = 2 /\ Place("request") = 3 /\ Place("T06") = 4
  OBVIOUS
<1>3. Place(pc) > Place("T06")
  BY DEF Done
<1> HIDE DEF Place
<1> QED
  BY <1>2, <1>3 DEF FailuresTaken

\* Each HTTP failure of the attempt is the only answer of its stream, and is
\* reported once T06 has run.
THEOREM FailuresKnown == Spec => []MaskInv
  BY MaskInit, MaskStep, PTL DEF Spec

\* An HTTP failure that T02 saw is an explicit candidate of T06 that cites it.
THEOREM FailureNeverMasked == Spec => []NoFailureMasked
<1>1. MaskInv => NoFailureMasked
  BY T06Done DEF MaskInv, FailuresTaken, Reported, NoFailureMasked
<1> QED
  BY <1>1, FailuresKnown, PTL

-----------------------------------------------------------------------------
(* The events that T02 writes.                                             *)

Sides == {"primary", "nrf", "udr"}

\* What an event has from the i-th record.
Shaped(e, i, r) ==
  /\ e.id \in {<<i, 0>>, <<i, 1>>} /\ e.frame = r.frame /\ e.rec = r
  /\ e.partition \in Sides
  /\ e.protocol = "HTTP2" => /\ e.partition = RouteEvent(InferSbiApi(r.path))
                             /\ e.partial = Ambiguous(InferSbiApi(r.path))

LEMMA EventsShaped ==
  ASSUME NEW s \in Sources, NEW i, NEW r, NEW x \in Range(EventsOf(s, i, r))
  PROVE  Shaped(x, i, r)
<1>1. CASE s = "http"
  <2> DEFINE e == [Event(i, 0, "HTTP2", "HTTP2", HttpOutcome(r), r)
                     EXCEPT !.partition = RouteEvent(InferSbiApi(r.path)),
                            !.partial = Ambiguous(InferSbiApi(r.path))]
  <2>1. EventsOf(s, i, r) = <<e>>
    BY <1>1 DEF EventsOf, HttpEvents
  <2>2. RouteEvent(InferSbiApi(r.path)) \in Sides
    BY DEF RouteEvent, Sides
  <2>3. Shaped(e, i, r)
    BY <2>2 DEF Event, Shaped
  <2> HIDE DEF e
  <2> QED
    BY <2>1, <2>3, Single
<1>2. CASE s = "pfcp"
  <2> DEFINE e == [Event(i, 0, "PFCP", MessageName(r.type, "PFCP_MESSAGE"), PfcpOutcome(r), r)
                     EXCEPT !.cause = r.cause]
  <2>1. EventsOf(s, i, r) = <<e>>
    BY <1>2 DEF EventsOf, PfcpEvents
  <2>2. Shaped(e, i, r)
    BY DEF Event, Shaped, Sides
  <2> HIDE DEF e
  <2> QED
    BY <2>1, <2>2, Single
<1>3. CASE s = "ngap"
  <2> DEFINE e == [Event(i, 0, "NGAP", MessageName(r.code, "NGAP_PDU"),
                         NgapOutcome(DetectNgapClass(r.class)), r) EXCEPT !.cause = r.cause]
             f == [Event(i, 1, "NAS", MessageName(r.nas.code, "NAS_PDU"), "unknown", r)
                     EXCEPT !.cause = r.nas.cause, !.partial = r.nas.code = None]
  <2>1. EventsOf(s, i, r) = <<e>> \o NasEvents(i, r)
    BY <1>3 DEF EventsOf, NgapEvents
  <2>2. Shaped(e, i, r) /\ Shaped(f, i, r)
    BY DEF Event, Shaped, Sides
  <2>3. NasEvents(i, r) = << >> \/ NasEvents(i, r) = <<f>>
    BY DEF NasEvents
  <2> HIDE DEF e, f
  <2>4. CASE NasEvents(i, r) = << >>
    <3>1. EventsOf(s, i, r) = <<e>>
      BY <2>1, <2>4
    <3> QED
      BY <2>2, <3>1, Single
  <2>5. CASE NasEvents(i, r) = <<f>>
    <3>1. /\ Sequence(<<e>>) /\ Range(<<e>>) = {e}
          /\ Sequence(<<f>>) /\ Range(<<f>>) = {f}
      BY Single
    <3>2. Range(<<e>> \o <<f>>) = {e} \cup {f}
      BY <3>1, Joined
    <3>3. Range(EventsOf(s, i, r)) = {e, f}
      BY <2>1, <2>5, <3>2
    <3> QED
      BY <2>2, <3>3
  <2> QED
    BY <2>3, <2>4, <2>5
<1> QED
  BY <1>1, <1>2, <1>3 DEF Sources

\* An event has a frame, and a document of a service was routed by its name.
Written(e) ==
  /\ e.id \in (DOMAIN log) \X {0, 1} /\ e.frame \in Nat /\ e.partition \in Sides
  /\ e.protocol = "HTTP2" => /\ e.partition = RouteEvent(InferSbiApi(e.rec.path))
                             /\ e.partial = Ambiguous(InferSbiApi(e.rec.path))

EventsInv ==
  /\ LossInv
  /\ config \in Configs
  /\ source \in Sources \cup {"closed", "failed"}
  /\ \A i \in DOMAIN log : log[i].rec \in Records[log[i].source]
  /\ \A e \in Range(events) : Written(e)
  /\ quarantined <= Len(log)

\* A record is read: its events are added, or nothing.
LEMMA ReadWrites ==
  ASSUME EventsInv, LossInv', NEW r, Read(r), NEW added, Sequence(added),
         events' = events \o added,
         \/ Range(added) = {}
         \/ /\ r.frame # None
            /\ Range(added) = Range(EventsOf(source, Len(log'), r)),
         quarantined' \in {quarantined, quarantined + 1},
         source' = source \/ source' = "failed"
  PROVE  EventsInv' /\ Range(events) \subseteq Range(events')
<1>1. /\ source \in Sources /\ r \in Records[source] /\ config' = config
      /\ log' = Append(log, [source |-> source, rec |-> r])
  BY DEF Read, Records, Sources
<1>2. /\ Len(log') = Len(log) + 1 /\ Len(log) \in Nat
      /\ DOMAIN log = 1 .. Len(log) /\ DOMAIN log' = 1 .. Len(log')
      /\ \A i \in DOMAIN log : log'[i] = log[i]
      /\ log'[Len(log')] = [source |-> source, rec |-> r]
  BY <1>1, Extended DEF EventsInv, LossInv
<1>3. Range(events') = Range(events) \cup Range(added)
  BY Joined DEF EventsInv, LossInv
<1>4. PICK n : n = Len(log')
  OBVIOUS
<1>5. /\ DOMAIN log' = DOMAIN log \cup {n} /\ n \in DOMAIN log'
      /\ log'[n].source = source /\ log'[n].rec = r
  BY <1>2, <1>4
<1>6. \A i \in DOMAIN log' : log'[i].rec \in Records[log'[i].source]
  BY <1>1, <1>2, <1>5 DEF EventsInv
<1>7. r.frame # None => r.frame \in Nat
  BY <1>1, FrameAssumption DEF Records, Sources
<1>8. ASSUME NEW e \in Range(events') PROVE Written(e)'
  <2>1. CASE e \in Range(events)
    BY <1>5, <2>1 DEF EventsInv, Written
  <2>2. CASE e \in Range(added)
    <3>1. Shaped(e, n, r) /\ r.frame \in Nat
      BY <1>1, <1>4, <1>7, <2>2, EventsShaped
    <3>2. e.id \in (DOMAIN log') \X {0, 1}
      BY <1>5, <3>1 DEF Shaped
    <3> QED
      BY <3>1, <3>2 DEF Shaped, Written
  <2> QED
    BY <1>3, <2>1, <2>2
<1>9. quarantined' <= Len(log')
  BY <1>2 DEF EventsInv, LossInv
<1>10. source' \in Sources \cup {"closed", "failed"}
  BY <1>1
<1> QED
  BY <1>1, <1>3, <1>6, <1>8, <1>9, <1>10 DEF EventsInv

LEMMA NormalizeWrites ==
  ASSUME EventsInv, Normalize
  PROVE  EventsInv' /\ Range(events) \subseteq Range(events')
<1>0. LossInv /\ LossInv'
  BY NormalizePreserves DEF EventsInv
<1>1. PICK none : none = << >>
  OBVIOUS
<1>2. Sequence(none) /\ Range(none) = {} /\ events = events \o none
  BY <1>0, <1>1 DEF LossInv, Sequence, Range
<1>3. ASSUME NEW r, RejectSchema(r) \/ QuarantineRecord(r) \/ OmitRecord(r)
      PROVE  EventsInv' /\ Range(events) \subseteq Range(events')
  <2>1. /\ Read(r) /\ events' = events /\ quarantined' \in {quarantined, quarantined + 1}
        /\ source' = source \/ source' = "failed"
    BY <1>3 DEF RejectSchema, QuarantineRecord, OmitRecord
  <2> QED
    BY <1>0, <1>2, <2>1, ReadWrites
<1>4. ASSUME NEW r, NormalizeRecord(r)
      PROVE  EventsInv' /\ Range(events) \subseteq Range(events')
  <2>1. /\ Read(r) /\ events' = events \o EventsOf(source, Len(log'), r)
        /\ quarantined' = quarantined /\ source' = source
        /\ Readable(r) /\ ~ Omitted(source, r)
    BY <1>4 DEF NormalizeRecord
  <2>2. source \in Sources
    BY <2>1 DEF Read, Records, Sources
  <2>3. r.frame # None
    BY <2>1, <2>2 DEF Readable, Omitted, Incomplete, Sources
  <2>4. PICK n, added : n = Len(log') /\ added = EventsOf(source, n, r)
    OBVIOUS
  <2>5. Sequence(added)
    BY <2>2, <2>4, RecordBecomes DEF Eventful
  <2> QED
    BY <1>0, <2>1, <2>3, <2>4, <2>5, ReadWrites
<1>5. ASSUME NextSource
      PROVE  EventsInv' /\ Range(events) \subseteq Range(events')
  <2>1. /\ UNCHANGED <<config, log, events, quarantined>>
        /\ source' \in Sources \cup {"closed", "failed"}
    BY <1>5 DEF NextSource, Records, Following, Sources
  <2>2. \A e \in Range(events) : Written(e)'
    BY <2>1 DEF EventsInv, Written
  <2> QED
    BY <1>0, <2>1, <2>2 DEF EventsInv
<1> QED
  BY <1>3, <1>4, <1>5 DEF Normalize

LEMMA EventsInit == Init => EventsInv
<1> SUFFICES ASSUME Init PROVE EventsInv
  OBVIOUS
<1>1. /\ config \in Configs /\ source = "http"
      /\ log = << >> /\ events = << >> /\ quarantined = 0
  BY DEF Init, NormalizeInit
<1>2. Range(events) = {} /\ DOMAIN log = {} /\ Len(log) = 0
  BY <1>1 DEF Range
<1> QED
  BY <1>1, <1>2, LossInit DEF EventsInv, Sources

LEMMA EventsStay ==
  ASSUME EventsInv, UNCHANGED normalizeVars
  PROVE  EventsInv' /\ events' = events
<1>1. UNCHANGED <<config, source, log, events, quarantined>> /\ LossInv'
  BY NothingMoved DEF normalizeVars, EventsInv
<1> QED
  BY <1>1 DEF EventsInv, Written

LEMMA EventsTyped == ASSUME EventsInv PROVE NormalizeTypeOK
<1>1. quarantined \in Nat /\ Len(log) \in Nat
  BY DEF EventsInv, LossInv, Sequence
<1>2. source \in DOMAIN Records \cup {"closed", "failed"}
  BY DEF EventsInv, Records, Sources
<1>3. quarantined \in 0 .. Len(log)
  BY <1>1 DEF EventsInv
<1> QED
  BY <1>2, <1>3 DEF EventsInv, Written, Sides, NormalizeTypeOK

-----------------------------------------------------------------------------
(* Finite sets                                                             *)

LEMMA EventsFinite == ASSUME EventsInv PROVE IsFiniteSet(Range(events))
<1>1. events \in Seq(Range(events))
  BY DEF EventsInv, LossInv, Sequence
<1>2. Range(events) = ToSet(events)
  BY DEF Range, ToSet
<1> QED
  BY <1>1, <1>2, ElementsFinite

LEMMA StagesFinite == IsFiniteSet(Range(Stage)) /\ DOMAIN Stage = 1 .. Len(Stage)
                      /\ Len(Stage) \in Nat /\ IsFiniteSet(DOMAIN Stage)
<1>1. Stage \in Seq(Range(Stage))
  BY StageAssumption
<1>2. Range(Stage) = ToSet(Stage)
  BY DEF Range, ToSet
<1>3. DOMAIN Stage = 1 .. Len(Stage) /\ Len(Stage) \in Nat
  BY <1>1
<1> QED
  BY <1>1, <1>2, <1>3, ElementsFinite, FS_Interval

LEMMA HttpFinite ==
  ASSUME IsFiniteSet(attempt.events)
  PROVE  IsFiniteSet(HttpResult.candidates)
<1> DEFINE S == Of({"HTTP2"})
           bad == {G \in Transactions(S) : FailedOrIncomplete(G)}
           f == [G \in bad |-> HttpCandidate(G)]
<1>1. IsFiniteSet(SUBSET S)
  BY FS_Subset, FS_SUBSET DEF Of
<1>2. bad \subseteq SUBSET S
  BY DEF Transactions
<1>3. IsFiniteSet(bad)
  BY <1>1, <1>2, FS_Subset
<1>4. IsFiniteSet(Range(f))
  BY <1>3, ImageFinite
<1>5. HttpResult.candidates = Range(f)
  BY DEF HttpResult, Range
<1> QED
  BY <1>4, <1>5

LEMMA NasFinite ==
  ASSUME IsFiniteSet(attempt.events)
  PROVE  IsFiniteSet(NasNgapResult.candidates)
<1> DEFINE failures == {e \in Of({"NAS", "NGAP"}) : CauseClass(e) = "failure"}
           f == [e \in failures |-> NasNgapCandidate(e)]
<1>1. IsFiniteSet(failures)
  BY FS_Subset DEF Of
<1>2. IsFiniteSet(Range(f))
  BY <1>1, ImageFinite
<1>3. NasNgapResult.candidates = Range(f)
  BY DEF NasNgapResult, Range
<1> QED
  BY <1>2, <1>3

LEMMA PfcpFinite ==
  ASSUME IsFiniteSet(attempt.events)
  PROVE  IsFiniteSet(PfcpResult.candidates)
<1> DEFINE S == Of({"PFCP"})
           groups == {{e \in S : PfcpKey(e) = k} : k \in {PfcpKey(e) : e \in S}}
           failed == {G \in groups : PfcpOutcomeOf(G) = "failure"}
           reports == {e \in S : Says(e, {"REPORT"}) /\ PfcpCauseClass(e) = "failure"}
           Named(category, e) == Candidate("T08", category, e, {e}, TRUE, {})
           f == [G \in failed |-> Named("pfcp_failure", PfcpFailureEvent(G))]
           g == [e \in reports |-> Named("pfcp_session_report_failure", e)]
<1>1. IsFiniteSet(S) /\ IsFiniteSet(SUBSET S)
  BY FS_Subset, FS_SUBSET DEF Of
<1>2. failed \subseteq SUBSET S
  OBVIOUS
<1>3. IsFiniteSet(failed) /\ IsFiniteSet(reports)
  BY <1>1, <1>2, FS_Subset
<1>4. IsFiniteSet(Range(f)) /\ IsFiniteSet(Range(g))
  BY <1>3, ImageFinite
<1>5. IsFiniteSet(Range(f) \cup Range(g))
  BY <1>4, FS_Union
<1>6. PfcpResult.candidates = {Named("pfcp_failure", PfcpFailureEvent(G)) : G \in failed}
                              \cup {Named("pfcp_session_report_failure", e) : e \in reports}
  BY DEF PfcpResult
<1>7. PfcpResult.candidates = Range(f) \cup Range(g)
  BY <1>6 DEF Range
<1> QED
  BY <1>5, <1>7

LEMMA MaxFound ==
  ASSUME NEW S, IsFiniteSet(S), S # {}, S \subseteq Nat
  PROVE  Max(S) \in S
<1> DEFINE f == [x \in S |-> x]
<1>1. f \in [S -> Int]
  OBVIOUS
<1> HIDE DEF f
<1>2. PICK x \in S : \A y \in S : f[y] <= f[x]
  BY <1>1, Maximum
<1>3. \A y \in S : x >= y
  BY <1>2 DEF f
<1> QED
  BY <1>3 DEF Max

-----------------------------------------------------------------------------
(* T09: the verdicts on the stages.                                        *)

\* The recursive definition defines a function.
LEMMA VerdictsDefined == Verdicts = [i \in DOMAIN Stage |-> Verdict(i, Verdicts)]
<1> DEFINE Solves(v, n) == v = [i \in 1 .. n |-> Verdict(i, v)]
           T == {n \in Nat : \E v : Solves(v, n)}
<1>1. 0 \in T
  <2>1. Solves([i \in 1 .. 0 |-> "missing"], 0)
    OBVIOUS
  <2> QED
    BY <2>1
<1>2. ASSUME NEW n \in T PROVE n + 1 \in T
  <2>1. PICK v : Solves(v, n)
    OBVIOUS
  <2> DEFINE w == [i \in 1 .. (n + 1) |-> Verdict(i, v)]
  <2>2. ASSUME NEW i \in 1 .. (n + 1) PROVE Verdict(i, v) = Verdict(i, w)
    <3>1. \A j \in 1 .. i - 1 : v[j] = w[j]
      BY <2>1
    <3>2. PredecessorMissed(i, v) = PredecessorMissed(i, w)
      BY <3>1 DEF PredecessorMissed
    <3> QED
      BY <3>2 DEF Verdict
  <2>3. Solves(w, n + 1)
    BY <2>2
  <2>4. \E x : Solves(x, n + 1)
    BY <2>3
  <2> QED
    BY <2>4
<1> HIDE DEF T
<1>3. Nat \subseteq T
  BY <1>1, <1>2, Induction
<1>4. \E v : Solves(v, Len(Stage))
  BY <1>3, StagesFinite DEF T
<1> DEFINE k == CHOOSE v : Solves(v, Len(Stage))
<1>5. Solves(k, Len(Stage))
  BY <1>4
<1>6. Verdicts = k
  BY StagesFinite DEF Verdicts
<1> QED
  BY <1>5, <1>6, StagesFinite

\* A stage is missing only if each predecessor has an earlier verdict, and that
\* is "completed"; no other stage has the predecessor's id.
LEMMA MissingAfterCompleted ==
  ASSUME NEW i \in MissingResult.absent, NEW j \in DOMAIN Stage, Stage[j].id \in Stage[i].after
  PROVE  MissingResult.stages[j] = "completed"
<1>1. /\ i \in DOMAIN Stage /\ Verdicts[i] = "missing"
      /\ MissingResult.stages = Verdicts
  BY DEF MissingResult
<1>2. Verdict(i, Verdicts) = "missing"
  BY <1>1, VerdictsDefined
<1>3. ~ PredecessorMissed(i, Verdicts)
  BY <1>2 DEF Verdict
<1>4. PICK k \in 1 .. i - 1 : Stage[k].id = Stage[j].id /\ ~ Blocks(Verdicts[k])
  BY <1>3 DEF PredecessorMissed
<1>5. k \in DOMAIN Stage
  BY <1>1, StagesFinite
<1>6. k = j
  BY <1>4, <1>5, StageAssumption
<1> QED
  BY <1>1, <1>4, <1>6 DEF Blocks

\* A stage of the course that was due has all its predecessors: if no detector
\* spoke, it is missing.
LEMMA SilenceBroken ==
  ASSUME ~ attempt.incomplete, Explicit = {}, NEW i \in DOMAIN Stage, BrokenOff(i)
  PROVE  MissingResult.candidates # {}
<1>1. PICK s : s = Stage[i]
  OBVIOUS
<1>2. /\ i \in 1 .. Len(Stage) /\ Len(Stage) \in Nat
      /\ Awaited(s) /\ ~ Observed(s) /\ Reached(i) /\ s.needs \subseteq attempt.visible
  BY <1>1, StagesFinite DEF BrokenOff
<1>3. ~ PredecessorMissed(i, Verdicts)
  <2> SUFFICES ASSUME NEW p \in Stage[i].after
               PROVE  \E j \in 1 .. i - 1 : Stage[j].id = p /\ ~ Blocks(Verdicts[j])
    BY DEF PredecessorMissed
  <2>1. PICK j \in 1 .. i - 1 : Stage[j].id = p /\ Observed(Stage[j])
    BY <1>2 DEF Reached
  <2>2. j \in DOMAIN Stage
    BY <1>2, <2>1, StagesFinite
  <2>3. Verdicts[j] = "completed"
    BY <2>1, <2>2, VerdictsDefined DEF Verdict
  <2> QED
    BY <2>1, <2>3 DEF Blocks
<1>4. Related(s) = {} /\ ~ Duplicate(s) /\ Applicability(s) = "yes"
  BY <1>2 DEF Related, Duplicate, Applicability, Awaited
<1>5. Verdicts[i] = "missing"
  <2>1. Verdict(i, Verdicts) = "missing"
    BY <1>1, <1>2, <1>3, <1>4 DEF Verdict, Awaited
  <2> QED
    BY <2>1, VerdictsDefined
<1>6. MissingCandidate(i) \in MissingResult.candidates
  BY <1>5 DEF MissingResult
<1> QED
  BY <1>6

\* Where an attempt broke off depends on the attempt alone.
LEMMA BrokenOffStays ==
  ASSUME attempt' = attempt, NEW i
  PROVE  BrokenOff(i)' <=> BrokenOff(i)
  BY DEF BrokenOff, Observed, Matching, Reached, Overdue, Anchor, Transition, StartFrame, EndFrame

-----------------------------------------------------------------------------
(* T06: what is suspected.                                                 *)

LEMMA SuspectsUnsure ==
  ASSUME EventsInv, attempt.events \subseteq Partition("primary"), NEW G \in HttpResult.suspicions
  PROVE  \E e \in G : e.partial
<1>1. G \subseteq Of({"HTTP2"}) /\ Suspected(G)
  BY DEF HttpResult, Transactions
<1>2. PICK e \in G : InferSbiApi(e.rec.path) \in {"nnrf-nfm", "nnrf-disc", "nudr-dr"}
  BY <1>1 DEF Suspected
<1>3. e \in Range(events) /\ e.partition = "primary" /\ e.protocol = "HTTP2"
  BY <1>1 DEF Of, Partition
<1>4. /\ e.partition = RouteEvent(InferSbiApi(e.rec.path))
      /\ e.partial = Ambiguous(InferSbiApi(e.rec.path))
  BY <1>3 DEF EventsInv, Written
<1>5. InferSbiApi(e.rec.path) \notin NrfApis \cup UdrApis
  BY <1>3, <1>4 DEF RouteEvent
<1>6. Ambiguous(InferSbiApi(e.rec.path))
  BY <1>2, <1>5, DependencyAssumption DEF Ambiguous
<1> QED
  BY <1>4, <1>6

-----------------------------------------------------------------------------
(* T10: the timeline and its pages.                                        *)

RowOf(shown, f, k) == {<<k, i>> : i \in {j \in shown[k] : j[1] = f}}

\* Every item of a kind at a frame is listed, then every kind, then every frame.
LEMMA OrderedItems ==
  ASSUME NEW shown, Len(shown) \in Nat, \A k \in 1 .. Len(shown) : IsFiniteSet(shown[k]),
         NEW last \in Nat
  PROVE  Sequence(InOrder(shown, last))
<1> DEFINE K == 1 .. Len(shown)
           A == K \X UNION {shown[k] : k \in K}
           frame(f) == FlattenSeq([k \in K |-> SetToSeq(RowOf(shown, f, k))])
           frames == [f \in 1 .. last |-> frame(f)]
<1>1. ASSUME NEW f, NEW k \in K PROVE SetToSeq(RowOf(shown, f, k)) \in Seq(A)
  <2> DEFINE X == {j \in shown[k] : j[1] = f}
             g == [i \in X |-> <<k, i>>]
  <2>1. IsFiniteSet(X)
    BY FS_Subset
  <2>2. IsFiniteSet(Range(g))
    BY <2>1, ImageFinite
  <2>3. RowOf(shown, f, k) = Range(g)
    BY DEF RowOf, Range
  <2>4. RowOf(shown, f, k) \subseteq A
    BY DEF RowOf
  <2>5. SetToSeq(RowOf(shown, f, k)) \in Seq(RowOf(shown, f, k))
    BY <2>2, <2>3, Enumerated
  <2> QED
    BY <2>4, <2>5
<1>2. ASSUME NEW f PROVE frame(f) \in Seq(A)
  <2> DEFINE rows == [k \in K |-> SetToSeq(RowOf(shown, f, k))]
  <2>1. rows \in [1 .. Len(shown) -> Seq(A)]
    BY <1>1
  <2> HIDE DEF A, rows
  <2>2. FlattenSeq(rows) \in Seq(A)
    BY <2>1, Flattened
  <2> QED
    BY <2>2 DEF rows
<1> HIDE DEF A, frame
<1>3. frames \in [1 .. last -> Seq(A)]
  BY <1>2
<1>4. InOrder(shown, last) = FlattenSeq(frames)
  BY DEF InOrder, frame, RowOf
<1> HIDE DEF frames
<1>5. FlattenSeq(frames) \in Seq(A)
  BY <1>3, Flattened
<1>6. ASSUME NEW s \in Seq(A) PROVE Sequence(s)
  BY DEF Sequence, Range
<1> QED
  BY <1>4, <1>5, <1>6

\* What a revision shows: its attempt and the results of the five tools.
TimelineOf(revision) ==
  LET a == revision[1]
      found == revision[2]
      frames == {e.frame : e \in a.events}
      Seen(s) == {e \in a.events : e.type \in s.messages}
      explicit == found[2].candidates \cup found[3].candidates \cup found[4].candidates
  IN InOrder(
       <<{<<e.frame, e.id>> : e \in a.events},
         {<<Min(frames), f>> : f \in found[1]},
         {<<Earliest(Seen(s)).frame, s.id>> : s \in {q \in Range(Stage) : Seen(q) # {}}},
         {<<c.frame, <<c.detector, c.category, c.events>> >> : c \in explicit},
         {<<Max(frames), Stage[i].id>> : i \in found[5].absent}>>,
       Max(frames))

LEMMA TimelineRevised == Timeline = TimelineOf(Revision)
  BY DEF Timeline, TimelineOf, Revision, results, Shown, StartFrame, EndFrame, Explicit,
         Transition, Observed, Matching

LEMMA TimelineListed ==
  ASSUME EventsInv, attempt.events \subseteq Range(events), attempt.events # {},
         IsFiniteSet(fields), IsFiniteSet(http.candidates), IsFiniteSet(nas.candidates),
         IsFiniteSet(pfcp.candidates), missing.absent \subseteq DOMAIN Stage
  PROVE  Sequence(Timeline)
<1>1. IsFiniteSet(attempt.events)
  BY EventsFinite, FS_Subset
<1> DEFINE F == {e.frame : e \in attempt.events}
           f1 == [e \in attempt.events |-> e.frame]
           g1 == [e \in attempt.events |-> <<e.frame, e.id>>]
           g2 == [x \in fields |-> <<StartFrame, x>>]
           S3 == {q \in Range(Stage) : Observed(q)}
           g3 == [s \in S3 |-> <<Transition(s).frame, s.id>>]
           g4 == [c \in Explicit |-> <<c.frame, <<c.detector, c.category, c.events>> >>]
           g5 == [i \in missing.absent |-> <<EndFrame, Stage[i].id>>]
<1>2. EndFrame \in Nat
  <2>1. IsFiniteSet(Range(f1))
    BY <1>1, ImageFinite
  <2>2. Range(f1) = F
    BY DEF Range
  <2>3. F # {} /\ F \subseteq Nat
    BY DEF EventsInv, Written
  <2> QED
    BY <2>1, <2>2, <2>3, MaxFound DEF EndFrame
<1>3. IsFiniteSet(Explicit)
  BY FS_Union DEF Explicit
<1>4. IsFiniteSet(S3) /\ IsFiniteSet(missing.absent)
  BY StagesFinite, FS_Subset
<1>5. /\ IsFiniteSet(Range(g1)) /\ IsFiniteSet(Range(g2)) /\ IsFiniteSet(Range(g3))
      /\ IsFiniteSet(Range(g4)) /\ IsFiniteSet(Range(g5))
  BY <1>1, <1>3, <1>4, ImageFinite
<1>6. Shown = <<Range(g1), Range(g2), Range(g3), Range(g4), Range(g5)>>
  BY DEF Shown, Range
<1> HIDE DEF g1, g2, g3, g4, g5
<1>7. Len(Shown) \in Nat /\ \A k \in 1 .. Len(Shown) : IsFiniteSet(Shown[k])
  <2>1. /\ Len(Shown) = 5 /\ Shown[1] = Range(g1) /\ Shown[2] = Range(g2)
        /\ Shown[3] = Range(g3) /\ Shown[4] = Range(g4) /\ Shown[5] = Range(g5)
    BY <1>6
  <2>2. 1 .. 5 = {1, 2, 3, 4, 5}
    OBVIOUS
  <2> QED
    BY <1>5, <2>1, <2>2
<1> QED
  <2>1. Sequence(InOrder(Shown, EndFrame))
    BY <1>2, <1>7, OrderedItems, Zenon
  <2> QED
    BY <2>1 DEF Timeline

\* One part of a list after another.
LEMMA PartsJoined ==
  ASSUME NEW S, NEW b \in Seq(S), NEW p \in Seq(S), NEW c \in Seq(S),
         Len(c) = Len(b) + Len(p), \A i \in 1 .. Len(b) : b[i] = c[i],
         \A i \in 1 .. Len(p) : p[i] = c[Len(b) + i]
  PROVE  b \o p = c
<1> DEFINE d == b \o p
<1>1. /\ d \in Seq(S) /\ Len(d) = Len(c) /\ DOMAIN d = 1 .. Len(c) /\ DOMAIN c = 1 .. Len(c)
      /\ Len(b) \in Nat /\ Len(p) \in Nat
      /\ \A i \in 1 .. Len(b) : d[i] = b[i]
      /\ \A i \in 1 .. Len(p) : d[Len(b) + i] = p[i]
  OBVIOUS
<1> HIDE DEF d
<1>2. ASSUME NEW i \in 1 .. Len(c), i \notin 1 .. Len(b) PROVE d[i] = c[i]
  <2>1. i - Len(b) \in 1 .. Len(p) /\ Len(b) + (i - Len(b)) = i
    BY <1>1, <1>2
  <2> QED
    BY <1>1, <2>1
<1>3. \A i \in 1 .. Len(c) : d[i] = c[i]
  BY <1>1, <1>2
<1>4. d = [i \in 1 .. Len(c) |-> d[i]] /\ c = [i \in 1 .. Len(c) |-> c[i]]
  BY <1>1
<1>5. d = c
  BY <1>3, <1>4
<1> QED
  BY <1>5 DEF d

LEMMA PartOf ==
  ASSUME NEW S, NEW s \in Seq(S), NEW o \in 0 .. Len(s), NEW m \in o .. Len(s)
  PROVE  /\ SubSeq(s, o + 1, m) \in Seq(S)
         /\ Len(SubSeq(s, o + 1, m)) = m - o
         /\ \A i \in 1 .. m - o : SubSeq(s, o + 1, m)[i] = s[o + i]
<1>1. \A i \in 1 .. m - o : (o + 1) + i - 1 = o + i /\ o + i \in 1 .. Len(s)
  OBVIOUS
<1> QED
  BY <1>1

\* The next page of a list continues what was read of it.
LEMMA PageContinues ==
  ASSUME NEW s, Sequence(s), NEW o \in 0 .. Len(s), NEW limit \in Nat
  PROVE  LET m == Smaller(o + limit, Len(s))
             page == SubSeq(s, o + 1, m)
         IN  /\ m \in o .. Len(s)
             /\ o + Len(page) = m
             /\ SubSeq(s, 1, o) \o page = SubSeq(s, 1, m)
             /\ o = 0 => page = SubSeq(s, 1, m)
             /\ SubSeq(s, 1, Len(s)) = s
<1> DEFINE m == Smaller(o + limit, Len(s))
           page == SubSeq(s, o + 1, m)
           b == SubSeq(s, 1, o)
           c == SubSeq(s, 1, m)
<1>1. PICK S : S = Range(s)
  OBVIOUS
<1>2. s \in Seq(S) /\ Len(s) \in Nat
  BY <1>1 DEF Sequence
<1>3. m \in o .. Len(s) /\ m \in Nat
  BY <1>2 DEF Smaller
<1> HIDE DEF m
<1>4. page \in Seq(S) /\ Len(page) = m - o /\ \A i \in 1 .. m - o : page[i] = s[o + i]
  BY <1>2, <1>3, PartOf
<1>5. /\ b \in Seq(S) /\ Len(b) = o /\ \A i \in 1 .. o : b[i] = s[i]
      /\ c \in Seq(S) /\ Len(c) = m /\ \A i \in 1 .. m : c[i] = s[i]
  BY <1>2, <1>3
<1>6. o = 0 => page = c
  OBVIOUS
<1> HIDE DEF b, c, page
<1>7. /\ Len(c) = Len(b) + Len(page) /\ \A i \in 1 .. Len(b) : b[i] = c[i]
      /\ \A i \in 1 .. Len(page) : page[i] = c[Len(b) + i]
  <2>1. Len(c) = Len(b) + Len(page) /\ \A i \in 1 .. Len(b) : b[i] = c[i]
    BY <1>3, <1>4, <1>5, SMTT(40)
  <2>2. ASSUME NEW i \in 1 .. m - o PROVE page[i] = c[o + i]
    <3>1. o + i \in 1 .. m
      BY <1>3
    <3> QED
      BY <1>4, <1>5, <3>1
  <2> QED
    BY <1>4, <1>5, <2>1, <2>2
<1>8. b \o page = c
  BY <1>4, <1>5, <1>7, PartsJoined
<1>9. SubSeq(s, 1, Len(s)) = s
  BY <1>2
<1>10. o + Len(page) = m
  BY <1>3, <1>4
<1> QED
  BY <1>3, <1>6, <1>8, <1>9, <1>10 DEF b, c, m, page

\* The reader's pages are the timeline of the cursor's revision up to the cursor,
\* or all of it.
Reads(c, p) ==
  /\ p = [timeline |-> p.timeline, items |-> p.items]
  /\ Sequence(p.timeline)
  /\ IF c = None THEN p.items = p.timeline
     ELSE /\ c.offset \in 0 .. Len(p.timeline) - 1
          /\ p.items = SubSeq(p.timeline, 1, c.offset)
          /\ p.timeline = TimelineOf(c.revision)

\* `None` stands for a cursor that is not there.
NoneIsNoCursor ==
  \A revision, limit, offset :
    [revision |-> revision, limit |-> limit, offset |-> offset] # None

LEMMA PageRead ==
  ASSUME NoneIsNoCursor, Reads(cursor, pages), Sequence(Timeline),
         NEW asked \in Limits, NEW c \in {None, cursor}, GetAttemptTimeline(c, asked)
  PROVE  Reads(cursor', pages')
<1> DEFINE items == Timeline
           limit == Smaller(asked, ModeCap)
           o == IF c = None THEN 0 ELSE c.offset
           m == Smaller(o + limit, Len(items))
           page == SubSeq(items, o + 1, m)
           next == o + Len(page)
<1>1. /\ AuthenticCursor(c, limit)
      /\ pages' = IF c = None THEN [timeline |-> items, items |-> page]
                  ELSE [pages EXCEPT !.items = @ \o page]
      /\ cursor' = NextCursor(next, limit, Len(items))
  BY DEF GetAttemptTimeline
<1>2. limit \in Nat
  BY LimitAssumption DEF Smaller
<1>3. items = TimelineOf(Revision) /\ Len(items) \in Nat
  BY TimelineRevised DEF Sequence
<1>4. c # None => /\ c = cursor /\ c.revision = Revision /\ pages.timeline = items
                  /\ o \in 0 .. Len(items) - 1 /\ pages.items = SubSeq(items, 1, o)
  BY <1>1, <1>3 DEF AuthenticCursor, Reads
<1>5. o \in 0 .. Len(items)
  BY <1>3, <1>4
<1> HIDE DEF items, limit
<1>6. /\ m \in o .. Len(items)
      /\ next = m
      /\ SubSeq(items, 1, o) \o page = SubSeq(items, 1, m)
      /\ o = 0 => page = SubSeq(items, 1, m)
      /\ SubSeq(items, 1, Len(items)) = items
  <2>1. Sequence(items)
    BY DEF items
  <2> QED
    BY <1>2, <1>5, <2>1, PageContinues
<1> HIDE DEF m, page
<1>7. pages'.timeline = items
  BY <1>1, <1>4
<1>8. /\ pages'.items = SubSeq(items, 1, m)
      /\ pages' = [timeline |-> pages'.timeline, items |-> pages'.items]
  <2>1. CASE c = None
    BY <1>1, <1>6, <2>1
  <2>2. CASE c # None
    <3>1. pages' = [timeline |-> pages.timeline, items |-> pages.items \o page]
      BY <1>1, <2>2 DEF Reads
    <3> QED
      BY <1>4, <1>6, <2>2, <3>1
  <2> QED
    BY <2>1, <2>2
<1>9. CASE m < Len(items)
  <2>1. cursor' = [revision |-> Revision, limit |-> limit, offset |-> m] /\ cursor' # None
    BY <1>1, <1>6, <1>9 DEF NextCursor, NoneIsNoCursor
  <2>2. m \in 0 .. Len(items) - 1
    BY <1>3, <1>5, <1>6, <1>9
  <2> QED
    BY <1>3, <1>7, <1>8, <2>1, <2>2 DEF Reads, items
<1>10. CASE ~ (m < Len(items))
  <2>1. cursor' = None /\ m = Len(items)
    BY <1>1, <1>3, <1>5, <1>6, <1>10 DEF NextCursor
  <2> QED
    BY <1>6, <1>7, <1>8, <2>1 DEF Reads, items
<1> QED
  BY <1>9, <1>10

-----------------------------------------------------------------------------
(* The tools together.                                                     *)

Tools == {"normalize", "segment", "request", "T06", "T07", "T08", "T09", "timeline"}

\* What T04 and the catalog took from T02 is still there.
TakenInv ==
  /\ pc \in Tools
  /\ runs \in 0 .. MaxRuns
  /\ {c.event : c \in catalog} \subseteq {e.id : e \in Partition("primary")}
  /\ attempt # None => attempt.events \subseteq Partition("primary")
  /\ pc \notin {"normalize", "segment"} =>
       attempt.events \subseteq Partition("primary") /\ attempt.events # {}

Unsure == \A G \in http.suspicions : \E e \in G : e.partial

BlameOnce ==
  \A i \in missing.absent, j \in DOMAIN Stage :
    Stage[j].id \in Stage[i].after => missing.stages[j] = "completed"

\* What the tools found for the attempt, as far as they have run.
FoundInv ==
  /\ pc \notin {"normalize", "segment", "request"} => IsFiniteSet(fields)
  /\ pc \in {"T07", "T08", "T09", "timeline"} => IsFiniteSet(http.candidates) /\ Unsure
  /\ pc \in {"T08", "T09", "timeline"} => IsFiniteSet(nas.candidates)
  /\ pc \in {"T09", "timeline"} => IsFiniteSet(pfcp.candidates)
  /\ pc = "timeline" => missing.absent \subseteq DOMAIN Stage /\ BlameOnce

ToolsInv == EventsInv /\ TakenInv /\ FoundInv

LEMMA ToolsInit == Init => ToolsInv /\ Reads(cursor, pages)
<1> SUFFICES ASSUME Init PROVE ToolsInv /\ Reads(cursor, pages)
  OBVIOUS
<1>1. /\ pc = "normalize" /\ runs = 0 /\ catalog = {} /\ attempt = None
      /\ cursor = None /\ pages = [timeline |-> << >>, items |-> << >>]
  BY DEF Init, DiagnosticsInit, NoPages
<1>2. TakenInv
  BY <1>1, LimitAssumption DEF TakenInv, Tools
<1>3. FoundInv
  BY <1>1 DEF FoundInv
<1>4. Reads(cursor, pages)
  BY <1>1 DEF Reads, Sequence, Range
<1> QED
  BY <1>2, <1>3, <1>4, EventsInit DEF ToolsInv

\* The primary events are only ever added to.
LEMMA TakenStays ==
  ASSUME TakenInv, Range(events) \subseteq Range(events'),
         UNCHANGED <<pc, runs, catalog, attempt>>
  PROVE  TakenInv'
<1>1. Partition("primary") \subseteq Partition("primary")'
  BY DEF Partition
<1> QED
  BY <1>1 DEF TakenInv

LEMMA FoundStays ==
  ASSUME FoundInv, UNCHANGED <<pc, fields, http, nas, pfcp, missing>>
  PROVE  FoundInv'
  BY DEF FoundInv, Unsure, BlameOnce

LEMMA ToolsStep ==
  ASSUME ToolsInv, [Next]_vars
  PROVE  ToolsInv'
<1>0. EventsInv /\ TakenInv /\ FoundInv
  BY DEF ToolsInv
<1>1. CASE NormalizeStep
  <2>1. /\ Normalize
        /\ UNCHANGED <<pc, runs, catalog, attempt, fields, http, nas, pfcp, missing>>
    BY <1>1 DEF NormalizeStep, diagnosticVars, results
  <2>2. EventsInv' /\ Range(events) \subseteq Range(events')
    BY <1>0, <2>1, NormalizeWrites
  <2> QED
    BY <1>0, <2>1, <2>2, TakenStays, FoundStays DEF ToolsInv
<1>2. CASE BuildPfcpCatalog
  <2>1. /\ pc = "normalize" /\ pc' = "segment"
        /\ UNCHANGED <<normalizeVars, runs, attempt, results>>
        /\ {c.event : c \in catalog'} \subseteq {e.id : e \in Partition("primary")}
    BY <1>2 DEF BuildPfcpCatalog
  <2>2. EventsInv' /\ events' = events
    BY <1>0, <2>1, EventsStay
  <2>3. TakenInv'
    BY <1>0, <2>1, <2>2 DEF TakenInv, Tools, Partition
  <2>4. FoundInv'
    BY <1>0, <2>1 DEF FoundInv
  <2> QED
    BY <2>2, <2>3, <2>4 DEF ToolsInv
<1>3. CASE Segment
  <2>1. /\ pc' = "request" /\ runs' = runs + 1 /\ runs < MaxRuns
        /\ UNCHANGED <<normalizeVars, catalog, results>>
    BY <1>3 DEF Segment
  <2>2. attempt'.events \subseteq Partition("primary") /\ attempt'.events # {}
    BY <1>3 DEF Segment
  <2>3. EventsInv' /\ events' = events
    BY <1>0, <2>1, EventsStay
  <2>4. runs' \in 0 .. MaxRuns
    BY <1>0, <2>1, LimitAssumption DEF TakenInv
  <2>5. TakenInv'
    BY <1>0, <2>1, <2>2, <2>3, <2>4 DEF TakenInv, Tools, Partition
  <2>6. FoundInv'
    BY <1>0, <2>1 DEF FoundInv
  <2> QED
    BY <2>3, <2>5, <2>6 DEF ToolsInv
<1>4. ASSUME UNCHANGED <<normalizeVars, runs, catalog, attempt>>,
             pc \in Tools \ {"normalize", "segment"}, pc' \in Tools, FoundInv'
      PROVE  ToolsInv'
  <2>1. EventsInv' /\ events' = events
    BY <1>0, <1>4, EventsStay
  <2>2. TakenInv'
    BY <1>0, <1>4, <2>1 DEF TakenInv, Partition
  <2> QED
    BY <1>4, <2>1, <2>2 DEF ToolsInv
<1>5. ASSUME pc \notin {"normalize", "segment"}
      PROVE  /\ attempt.events \subseteq Partition("primary") /\ attempt.events # {}
             /\ attempt.events \subseteq Range(events)
             /\ IsFiniteSet(attempt.events)
  <2>1. attempt.events \subseteq Partition("primary") /\ attempt.events # {}
    BY <1>0, <1>5 DEF TakenInv
  <2>2. attempt.events \subseteq Range(events)
    BY <2>1 DEF Partition
  <2> QED
    BY <1>0, <2>1, <2>2, EventsFinite, FS_Subset
<1>6. CASE GetUeRequest
  <2>1. /\ UNCHANGED <<normalizeVars, runs, catalog, attempt>>
        /\ pc = "request" /\ pc' = "T06"
        /\ fields' \subseteq {"access_type", "request_type", "release_origin", "registration_type"}
    BY <1>6 DEF GetUeRequest
  <2>2. IsFiniteSet({"access_type", "request_type", "release_origin", "registration_type"})
    <3>1. /\ IsFiniteSet({"access_type"}) /\ IsFiniteSet({"request_type"})
          /\ IsFiniteSet({"release_origin"}) /\ IsFiniteSet({"registration_type"})
      BY FS_Singleton
    <3>2. IsFiniteSet({"access_type"} \cup {"request_type"} \cup {"release_origin"}
                      \cup {"registration_type"})
      BY <3>1, FS_Union
    <3> QED
      BY <3>2
  <2>3. IsFiniteSet(fields')
    BY <2>1, <2>2, FS_Subset
  <2>4. FoundInv'
    BY <2>1, <2>3 DEF FoundInv
  <2> QED
    BY <1>4, <2>1, <2>4 DEF Tools
<1>7. CASE FindHttpFailures
  <2>1. /\ UNCHANGED <<normalizeVars, runs, catalog, attempt, fields>>
        /\ pc = "T06" /\ pc' = "T07" /\ http' = HttpResult
    BY <1>7 DEF FindHttpFailures
  <2>2. IsFiniteSet(http'.candidates)
    BY <1>5, <2>1, HttpFinite
  <2>3. Unsure'
    BY <1>0, <1>5, <2>1, SuspectsUnsure DEF Unsure
  <2>4. FoundInv'
    BY <1>0, <2>1, <2>2, <2>3 DEF FoundInv
  <2> QED
    BY <1>4, <2>1, <2>4 DEF Tools
<1>8. CASE FindNasNgapFailures
  <2>1. /\ UNCHANGED <<normalizeVars, runs, catalog, attempt, fields, http>>
        /\ pc = "T07" /\ pc' = "T08" /\ nas' = NasNgapResult
    BY <1>8 DEF FindNasNgapFailures
  <2>2. IsFiniteSet(nas'.candidates)
    BY <1>5, <2>1, NasFinite
  <2>3. FoundInv'
    BY <1>0, <2>1, <2>2 DEF FoundInv, Unsure
  <2> QED
    BY <1>4, <2>1, <2>3 DEF Tools
<1>9. CASE FindPfcpFailures
  <2>1. /\ UNCHANGED <<normalizeVars, runs, catalog, attempt, fields, http, nas>>
        /\ pc = "T08" /\ pc' = "T09" /\ pfcp' = PfcpResult
    BY <1>9 DEF FindPfcpFailures
  <2>2. IsFiniteSet(pfcp'.candidates)
    BY <1>5, <2>1, PfcpFinite
  <2>3. FoundInv'
    BY <1>0, <2>1, <2>2 DEF FoundInv, Unsure
  <2> QED
    BY <1>4, <2>1, <2>3 DEF Tools
<1>10. CASE DetectMissingTransitions
  <2>1. /\ UNCHANGED <<normalizeVars, runs, catalog, attempt, fields, http, nas, pfcp>>
        /\ pc = "T09" /\ pc' = "timeline" /\ missing' = MissingResult
    BY <1>10 DEF DetectMissingTransitions
  <2>2. missing'.absent \subseteq DOMAIN Stage
    BY <2>1 DEF MissingResult
  <2>3. BlameOnce'
    BY <2>1, MissingAfterCompleted DEF BlameOnce
  <2>4. FoundInv'
    BY <1>0, <2>1, <2>2, <2>3 DEF FoundInv, Unsure
  <2> QED
    BY <1>4, <2>1, <2>4 DEF Tools
<1>11. CASE \/ UNCHANGED vars
            \/ \E asked \in Limits : \/ \E c \in {None, cursor} : GetAttemptTimeline(c, asked)
                                     \/ RejectCursor(asked)
  <2>1. UNCHANGED <<normalizeVars, pc, runs, catalog, attempt, fields, http, nas, pfcp, missing>>
    BY <1>11 DEF GetAttemptTimeline, RejectCursor, results, vars, diagnosticVars
  <2>2. EventsInv' /\ events' = events
    BY <1>0, <2>1, EventsStay
  <2> QED
    BY <1>0, <2>1, <2>2, TakenStays, FoundStays DEF ToolsInv
<1> QED
  BY <1>1, <1>2, <1>3, <1>6, <1>7, <1>8, <1>9, <1>10, <1>11 DEF Next

LEMMA ReaderStep ==
  ASSUME NoneIsNoCursor, ToolsInv, Reads(cursor, pages), [Next]_vars
  PROVE  Reads(cursor', pages')
<1>1. CASE \E asked \in Limits, c \in {None, cursor} : GetAttemptTimeline(c, asked)
  <2>1. pc = "timeline" /\ attempt.events \subseteq Range(events) /\ attempt.events # {}
    BY <1>1 DEF GetAttemptTimeline, ToolsInv, TakenInv, Partition
  <2>2. Sequence(Timeline)
    BY <2>1, TimelineListed DEF ToolsInv, FoundInv
  <2> QED
    BY <1>1, <2>2, PageRead
<1>2. CASE \E asked \in Limits : RejectCursor(asked)
  <2>1. cursor' = None /\ pages' = [timeline |-> << >>, items |-> << >>]
    BY <1>2 DEF RejectCursor, NoPages
  <2> QED
    BY <2>1 DEF Reads, Sequence, Range
<1>3. CASE ~ \E asked \in Limits : \/ \E c \in {None, cursor} : GetAttemptTimeline(c, asked)
                                   \/ RejectCursor(asked)
  <2>1. UNCHANGED <<cursor, pages>>
    BY <1>3 DEF Next, vars, diagnosticVars, NormalizeStep, BuildPfcpCatalog, Segment, GetUeRequest,
                FindHttpFailures, FindNasNgapFailures, FindPfcpFailures, DetectMissingTransitions
  <2> QED
    BY <2>1
<1> QED
  BY <1>1, <1>2, <1>3

\* T02's events, the attempt and the tools' findings fit together, however often
\* the tools run again.
THEOREM ToolsFit == Spec => []ToolsInv
  BY ToolsInit, ToolsStep, PTL DEF Spec

\* A reader's pages are what its cursor says, whatever happens in between.
THEOREM ReaderFits ==
  ASSUME NoneIsNoCursor
  PROVE  Spec => []Reads(cursor, pages)
<1>1. ToolsInv /\ Reads(cursor, pages) /\ [Next]_vars => Reads(cursor, pages)'
  BY ReaderStep
<1> QED
  BY <1>1, ToolsInit, ToolsFit, PTL DEF Spec

\* Events, attempt and results have their types; the attempt and the catalog of
\* PFCP nodes hold primary events only, and a cursor points into its timeline.
THEOREM DiagnosticsTypes ==
  ASSUME NoneIsNoCursor
  PROVE  Spec => []TypeOK
<1>1. ASSUME ToolsInv, Reads(cursor, pages) PROVE TypeOK
  <2>1. NormalizeTypeOK
    BY <1>1, EventsTyped DEF ToolsInv
  <2> QED
    BY <1>1, <2>1 DEF ToolsInv, TakenInv, FoundInv, Reads, Tools, TypeOK
<1> QED
  BY <1>1, ToolsFit, ReaderFits, PTL

\* T06 suspects a dependency only where T02 was unsure where its service belongs,
\* whatever services the partition policy lists.
THEOREM SuspicionsEarned == Spec => []SuspicionsUnsure
<1>1. ASSUME ToolsInv, MaskInv PROVE SuspicionsUnsure
  BY <1>1, T06Done DEF ToolsInv, FoundInv, Unsure, MaskInv, SuspicionsUnsure
<1> QED
  BY <1>1, ToolsFit, FailuresKnown, PTL

\* No stage is called missing behind a predecessor that is missing, skipped or
\* explained by another candidate, for any profile with distinct stage ids.
THEOREM BlameGivenOnce == Spec => []NoDoubleBlame
<1>1. ToolsInv => NoDoubleBlame
  BY DEF ToolsInv, FoundInv, BlameOnce, NoDoubleBlame
<1> QED
  BY <1>1, ToolsFit, PTL

\* An attempt seen from its beginning that broke off at a visible, overdue stage
\* has a candidate, for any profile and whatever the detectors were shown.
THEOREM SilenceAlwaysExplained == Spec => []SilenceExplained
<1>1. Init => SilenceExplained
  BY DEF Init, DiagnosticsInit, SilenceExplained
<1>2. ASSUME SilenceExplained, [Next]_vars PROVE SilenceExplained'
  <2>1. CASE DetectMissingTransitions
    <3>1. UNCHANGED <<attempt, http, nas, pfcp>> /\ missing' = MissingResult
      BY <2>1 DEF DetectMissingTransitions
    <3>2. Explicit' = Explicit
      BY <3>1 DEF Explicit
    <3> SUFFICES ASSUME ~ attempt.incomplete, NEW i \in DOMAIN Stage, BrokenOff(i),
                        Explicit = {}
                 PROVE  missing'.candidates # {}
      BY <3>1, <3>2, BrokenOffStays DEF SilenceExplained
    <3> QED
      BY <3>1, SilenceBroken
  <2>2. CASE pc' # "timeline"
    BY <2>2 DEF SilenceExplained
  <2>3. CASE pc' = pc /\ UNCHANGED <<attempt, http, nas, pfcp, missing>>
    BY <1>2, <2>3, BrokenOffStays DEF SilenceExplained, Explicit
  <2>4. CASE NormalizeStep \/ BuildPfcpCatalog \/ Segment \/ GetUeRequest
    BY <2>2, <2>4 DEF NormalizeStep, diagnosticVars, BuildPfcpCatalog, Segment, GetUeRequest
  <2>5. CASE FindHttpFailures \/ FindNasNgapFailures \/ FindPfcpFailures
    BY <2>2, <2>5 DEF FindHttpFailures, FindNasNgapFailures, FindPfcpFailures
  <2>6. CASE \/ UNCHANGED vars
             \/ \E asked \in Limits : \/ \E c \in {None, cursor} : GetAttemptTimeline(c, asked)
                                      \/ RejectCursor(asked)
    BY <2>3, <2>6 DEF GetAttemptTimeline, RejectCursor, results, vars, diagnosticVars
  <2> QED
    BY <1>2, <2>1, <2>4, <2>5, <2>6 DEF Next
<1> QED
  BY <1>1, <1>2, PTL DEF Spec

\* The pages of one chain of cursors are a prefix of the timeline of their first
\* page, and all of it at the end, for any timeline and any page size, also if
\* the tools run again in between.
THEOREM PagesAreTheTimeline ==
  ASSUME NoneIsNoCursor
  PROVE  Spec => []PagesPartition
<1>1. ASSUME NEW c, NEW p, Reads(c, p)
      PROVE  p.items = SubSeq(p.timeline, 1, Len(p.items)) /\ (c = None => p.items = p.timeline)
  <2>1. PICK S : S = Range(p.timeline)
    OBVIOUS
  <2>2. p.timeline \in Seq(S) /\ Len(p.timeline) \in Nat
    BY <1>1, <2>1 DEF Reads, Sequence
  <2>3. CASE c = None
    BY <1>1, <2>2, <2>3 DEF Reads
  <2>4. CASE c # None
    <3>1. /\ c.offset \in 0 .. Len(p.timeline) - 1
          /\ p.items = SubSeq(p.timeline, 1, c.offset)
      BY <1>1, <2>4 DEF Reads
    <3>2. Len(p.items) = c.offset
      BY <2>2, <3>1
    <3> QED
      BY <2>4, <3>1, <3>2
  <2> QED
    BY <2>3, <2>4
<1>2. Reads(cursor, pages) => PagesPartition
  BY <1>1 DEF PagesPartition
<1> QED
  BY <1>2, ReaderFits, PTL
=============================================================================
