------------------------- MODULE MC_DiagnosisPasses -------------------------
(***************************************************************************)
(* Attempts as the detectors report them: a reject with a failed exchange  *)
(* behind it, failures of one protocol, silence, nothing, and packets at   *)
(* and above the budget.                                                   *)
(***************************************************************************)
EXTENDS DiagnosisPasses

Detected(id, protocol, category, frame, base, explicit, events, component) ==
  [id |-> id, protocol |-> protocol, category |-> category, frame |-> frame, base |-> base,
   explicit |-> explicit, events |-> events, component |-> component,
   relevance |-> "attempt_related", impact |-> "inconclusive", marks |-> {}]

Reject == Detected(1, "NAS", "nas_ngap_failure", 9, 80, TRUE, {"e9"}, None)
Status == Detected(2, "HTTP2", "http_status_failure", 6, 90, TRUE, {"e6"}, None)
Timeout == Detected(3, "HTTP2", "http_timeout", 5, 70, FALSE, {"e5"}, None)
Session == Detected(4, "PFCP", "pfcp_failure", 7, 78, TRUE, {"e7"}, None)
Silence == Detected(5, "MULTI", "missing_transition", 8, 65, FALSE, {}, "registration_accept")
Doubt == Detected(6, "MULTI", "missing_transition", 8, 60, FALSE, {}, "registration_accept")

Of(candidates, effects, divergence) ==
  [candidates |-> candidates, effects |-> effects, divergence |-> divergence,
   low |-> FALSE, incomplete |-> FALSE, begins |-> 3, timeline |-> 1, evidence |-> 1, need |-> 2]

Rejected == [event |-> "e9", words |-> {"registration_reject"}]

MCCases ==
  {Of({Reject, Status}, {Rejected}, None),
   [Of({Status, Timeout, Session}, {}, None) EXCEPT !.timeline = 4],
   Of({Silence, Timeout}, {}, "registration_accept"),
   [Of({Doubt}, {}, None) EXCEPT !.low = TRUE, !.incomplete = TRUE],
   [Of({Reject, Silence}, {Rejected}, "registration_accept") EXCEPT !.incomplete = TRUE],
   [Of({Session, Timeout, Silence}, {}, "registration_accept") EXCEPT !.low = TRUE, !.evidence = 3],
   [Of({Silence}, {}, None) EXCEPT !.need = 7],
   [Of({}, {}, None) EXCEPT !.need = 8]}

Ask(tool, a, from, to) == [tool |-> tool, attempt |-> a, from |-> from, to |-> to]
Nrf(a) == Ask("inspect_nrf_flow", a, 0, 9)
Udr(a) == Ask("inspect_udr_flow", a, 0, 9)

MCAnswers ==
  [names : {"nothing", "packet", "other"},
   requests : {<< >>, <<Udr(1), Nrf(2)>>, <<Nrf(1), Ask("inspect_udr_flow", 2, 5, 9)>>,
               <<Ask("inspect_nrf_flow", 1, 9, 0), Nrf(1), Udr(2), Udr(1), Nrf(1), Nrf(1)>>}]

Seen(id, partition, frame, status, state) ==
  [id |-> id, partition |-> partition, frame |-> frame, status |-> status, state |-> state]

\* Documents are written in the order their streams end.
MCStore ==
  <<Seen("s1", "udr", 4, 404, "complete"), Seen("s2", "nrf", 6, None, "request_only"),
    Seen("s3", "nrf", 2, 500, "complete"), Seen("s4", "udr", 6, 200, "complete")>>
=============================================================================
