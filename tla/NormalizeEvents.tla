--------------------------- MODULE NormalizeEvents ---------------------------
(***************************************************************************)
(* T02 (harness/normalize.py): the records that T01 published become       *)
(* events, in the order in which the loop reads them: HTTP/2 documents,    *)
(* NGAP records with the NAS message inside them, PFCP records.  A record  *)
(* that cannot be read is counted and reported, never an error, unless the *)
(* configuration wants unknown schemas to fail.  An event keeps the record *)
(* it comes from: `rec` stands for the attributes that are copied.         *)
(*                                                                         *)
(* A record has a form: "record"; "malformed" (no JSON object); "schema"   *)
(* (another schema version); "bundle" (several PDUs in one frame, which    *)
(* T01 keeps as a list).  An NGAP record shows at most one NAS message as  *)
(* its `nas` (getNASLayer in tools/decoder/tshark_layers.go); `nested`     *)
(* counts the NAS PDUs that are only inside its NGAP tree.                 *)
(***************************************************************************)
EXTENDS Naturals, Sequences, FiniteSets, SequencesExt

CONSTANTS
  HttpDocument, NgapRecord, PfcpRecord, \* what T01 may have published
  Registered,        \* the message names of the codepoint registry
  NrfApis, UdrApis,  \* the partition policy
  DependencyApis,    \* the services whose name begins with nnrf or nudr
  Configs,           \* fail_on_unknown_schema_version, retain_routine_pfcp_heartbeats
  MaxRecords,        \* bound: records of a capture
  None

\* A record shows its frame or not, as a number.
ASSUME FrameAssumption ==
  /\ \A r \in HttpDocument \cup NgapRecord \cup PfcpRecord : r.frame = None \/ r.frame \in Nat
  /\ \A r \in NgapRecord : r.nested \in Nat

ASSUME DependencyAssumption == {"nnrf-nfm", "nnrf-disc", "nudr-dr"} \subseteq DependencyApis

VARIABLES
  config,      \* the NormalizationConfig
  source,      \* the artifact being read, or "closed", or "failed"
  log,         \* the records read so far
  events,      \* events.jsonl
  quarantined, \* quarantined_count
  warned       \* the codes of warning_counts

normalizeVars == <<config, source, log, events, quarantined, warned>>

Records == [http |-> HttpDocument, ngap |-> NgapRecord, pfcp |-> PfcpRecord]
Following == [http |-> "ngap", ngap |-> "pfcp", pfcp |-> "closed"]

InferSbiApi(path) == IF path = << >> THEN None ELSE Head(path)

\* Fault-injection variant: the UDR's services are forgotten.
RouteEventNrfOnly(api) == IF api \in NrfApis THEN "nrf" ELSE "primary"

\* Where an event goes; a dependency's service that the policy does not list
\* stays with the primary events.
RouteEvent(api) ==
  IF api \in NrfApis THEN "nrf" ELSE IF api \in UdrApis THEN "udr" ELSE "primary"

Ambiguous(api) == api \in DependencyApis \ (NrfApis \cup UdrApis)

HttpOutcome(d) ==
  IF d.state = "response_only" \/ d.status = None \/ d.status \notin 200 .. 599
    THEN "unknown"
    ELSE IF d.status < 400 THEN "success" ELSE "failure"

\* The test for "successfuloutcome" comes first and is a part of the other word.
DetectNgapClass(class) ==
  IF class = "unsuccessfulOutcome" THEN "successfulOutcome" ELSE class

NgapOutcome(class) ==
  CASE class = "initiatingMessage" -> "request"
    [] class = "successfulOutcome" -> "success"
    [] class = "unsuccessfulOutcome" -> "failure"

PfcpOutcome(r) ==
  IF r.response_to # None THEN IF r.sounds_bad THEN "failure" ELSE "success"
  ELSE IF r.response_in # None THEN "request" ELSE "unknown"

MessageName(code, unnamed) ==
  IF code = None THEN unnamed ELSE IF code \in Registered THEN code ELSE "UNKNOWN"

Event(i, ordinal, protocol, type, outcome, r) ==
  [id |-> <<i, ordinal>>, protocol |-> protocol, frame |-> r.frame, type |-> type,
   outcome |-> outcome, partition |-> "primary", partial |-> FALSE, cause |-> None,
   rec |-> r]

HttpEvents(i, d) ==
  LET api == InferSbiApi(d.path) IN
  <<[Event(i, 0, "HTTP2", "HTTP2", HttpOutcome(d), d)
       EXCEPT !.partition = RouteEvent(api), !.partial = Ambiguous(api)]>>

\* Fault-injection variant: NAS is looked for in the initial message only.
NasEventsInitialOnly(i, r) ==
  IF r.nas = None \/ r.code # "INITIAL_UE_MESSAGE" THEN << >> ELSE
    <<[Event(i, 1, "NAS", MessageName(r.nas.code, "NAS_PDU"), "unknown", r)
         EXCEPT !.cause = r.nas.cause, !.partial = r.nas.code = None]>>

NasEvents(i, r) ==
  IF r.nas = None THEN << >> ELSE
    <<[Event(i, 1, "NAS", MessageName(r.nas.code, "NAS_PDU"), "unknown", r)
         EXCEPT !.cause = r.nas.cause, !.partial = r.nas.code = None]>>

NgapEvents(i, r) ==
  <<[Event(i, 0, "NGAP", MessageName(r.code, "NGAP_PDU"),
           NgapOutcome(DetectNgapClass(r.class)), r) EXCEPT !.cause = r.cause]>>
  \o NasEvents(i, r)

PfcpEvents(i, r) ==
  <<[Event(i, 0, "PFCP", MessageName(r.type, "PFCP_MESSAGE"), PfcpOutcome(r), r)
       EXCEPT !.cause = r.cause]>>

EventsOf(s, i, r) ==
  CASE s = "http" -> HttpEvents(i, r)
    [] s = "ngap" -> NgapEvents(i, r)
    [] s = "pfcp" -> PfcpEvents(i, r)

\* Messages without a name in the registry, NAS without a visible type.
Warnings(s, r) ==
  LET codes == CASE s = "http" -> {}
                 [] s = "ngap" -> {r.code} \ {None}
                 [] s = "pfcp" -> {r.type} \ {None}
      nas == IF s = "ngap" /\ r.nas # None THEN {r.nas.code} ELSE {}
  IN {"T02_UNKNOWN_MESSAGE" : c \in (codes \cup nas) \ (Registered \cup {None})}
     \cup {"T02_NAS_VISIBILITY_LIMITED" : c \in nas \cap {None}}

NoObject(r) == r.form = "malformed"
Foreign(r) == r.form = "schema"
Incomplete(s, r) == s # "http" /\ (r.form = "bundle" \/ r.frame = None)

\* A document without a side has no frame; routine heartbeats are left out.
Omitted(s, r) ==
  \/ s = "http" /\ r.frame = None
  \/ s = "pfcp" /\ r.heartbeat /\ ~config.retain

-----------------------------------------------------------------------------
NormalizeInit ==
  /\ config \in Configs
  /\ source = "http" /\ log = << >>
  /\ events = << >> /\ quarantined = 0 /\ warned = {}

\* The next record of the artifact.  A stream is answered once, also if it has
\* left two documents; NGAP and PFCP have one record per frame, in order.
Read(r) ==
  /\ source \in DOMAIN Records /\ r \in Records[source] /\ Len(log) < MaxRecords
  /\ \A i \in {j \in DOMAIN log : log[j].source = source} :
       IF source = "http"
         THEN r.key = log[i].rec.key => None \in {r.status, log[i].rec.status}
         ELSE None \notin {r.frame, log[i].rec.frame} => log[i].rec.frame < r.frame
  /\ log' = Append(log, [source |-> source, rec |-> r])
  /\ UNCHANGED config

\* An unknown schema ends the stage before anything is published.
RejectSchema(r) ==
  /\ Read(r) /\ Foreign(r) /\ config.strict
  /\ source' = "failed"
  /\ UNCHANGED <<events, quarantined, warned>>

QuarantineRecord(r) ==
  /\ Read(r)
  /\ \/ NoObject(r) /\ warned' = warned \cup {"T02_MALFORMED"}
     \/ Foreign(r) /\ ~config.strict
        /\ warned' = warned \cup {"T02_UNSUPPORTED_SOURCE_SCHEMA"}
     \/ ~NoObject(r) /\ ~Foreign(r) /\ Incomplete(source, r)
        /\ warned' = warned \cup {"T02_INVALID_RECORD"}
  /\ quarantined' = quarantined + 1
  /\ UNCHANGED <<source, events>>

Readable(r) == ~NoObject(r) /\ ~Foreign(r) /\ ~Incomplete(source, r)

OmitRecord(r) ==
  /\ Read(r) /\ Readable(r) /\ Omitted(source, r)
  /\ warned' = IF source = "http" THEN warned ELSE warned \cup Warnings(source, r)
  /\ UNCHANGED <<source, events, quarantined>>

NormalizeRecord(r) ==
  /\ Read(r) /\ Readable(r) /\ ~Omitted(source, r)
  /\ events' = events \o EventsOf(source, Len(log'), r)
  /\ warned' = warned \cup Warnings(source, r)
  /\ UNCHANGED <<source, quarantined>>

NextSource ==
  /\ source \in DOMAIN Records
  /\ source' = Following[source]
  /\ UNCHANGED <<config, log, events, quarantined, warned>>

Normalize ==
  \/ NextSource
  \/ \E r \in UNION {Records[s] : s \in DOMAIN Records} :
       \/ RejectSchema(r)
       \/ QuarantineRecord(r)
       \/ OmitRecord(r)
       \/ NormalizeRecord(r)

\* What the published manifest says of the whole.
Status == IF warned # {} \/ quarantined > 0 THEN "partial" ELSE "success"

Partition(p) == {e \in Range(events) : e.partition = p}

-----------------------------------------------------------------------------
NormalizeTypeOK ==
  /\ config \in Configs
  /\ source \in DOMAIN Records \cup {"closed", "failed"}
  /\ \A i \in DOMAIN log : log[i].rec \in Records[log[i].source]
  /\ \A e \in Range(events) : /\ e.id \in (DOMAIN log) \X {0, 1}
                              /\ e.partition \in {"primary", "nrf", "udr"}
  /\ quarantined \in 0 .. Len(log)

\* The events that T02_normalize_events.md asks of a record: its own (:958) and
\* one for each NAS PDU of an NGAP record (:451, :486).
Asked(s, r) ==
  1 + (IF s # "ngap" THEN 0 ELSE r.nested + (IF r.nas = None THEN 0 ELSE 1))

\* Of these the code leaves out without a word: a document without a frame
\* (normalize.py:647, against :958), a routine heartbeat (the configuration's
\* choice), and NAS PDUs inside the NGAP tree, which nobody looks for
\* (normalize.py:785, against :909).
Unreported(s, r) ==
  IF Omitted(s, r) THEN 1 ELSE IF s = "ngap" THEN r.nested ELSE 0

\* What a status "success" is worth: of every record, the events in the files
\* and the unreported losses named above make up what the document asks, so any
\* other loss, a bad record or a bad schema, shows as "partial" (normalize.py:
\* the quarantine counters and the status of the manifest).
LossAccounted ==
  source = "closed" /\ Status = "success" =>
    \A i \in DOMAIN log :
      LET r == log[i].rec
          s == log[i].source
      IN Cardinality({e \in Range(events) : e.id[1] = i}) + Unreported(s, r) = Asked(s, r)
=============================================================================
