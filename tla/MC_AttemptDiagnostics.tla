----------------------- MODULE MC_AttemptDiagnostics -----------------------
(***************************************************************************)
(* Registrations and the sessions behind them: captures of a few records   *)
(* that fail in every way the detectors know.                              *)
(***************************************************************************)
EXTENDS AttemptDiagnostics

CONSTANTS k1, k2, upf

Http(key, frame, method, path, status, state) ==
  [form |-> "record", frame |-> frame, key |-> key, method |-> method, path |-> path,
   status |-> status, state |-> state]

Ngap(form, frame, code, class, cause, inner, nested) ==
  [form |-> form, frame |-> frame, code |-> code, class |-> class, cause |-> cause, nas |-> inner,
   nested |-> nested]

Nas(code, cause) == [code |-> code, cause |-> cause]

Pfcp(frame, type, seid, to, cause, heartbeat) ==
  [form |-> "record", frame |-> frame, type |-> type, pair |-> upf, seq |-> 1, seid |-> seid,
   response_to |-> to, response_in |-> None, cause |-> cause, sounds_bad |-> FALSE,
   heartbeat |-> heartbeat]

Session == <<"nsmf", "contexts">>
Request == Nas("REGISTRATION_REQUEST", None)

MCHttp ==
  {Http(k1, 2, "POST", Session, 201, "complete"), Http(k1, 2, "POST", Session, 500, "complete"),
   Http(k1, 3, None, << >>, None, "reset"), Http(k2, 3, "POST", Session, None, "request_only"),
   Http(k2, 3, "GET", <<"nudr-dr">>, 404, "complete"),
   Http(k2, 3, "GET", <<"nnrf-disc">>, 404, "complete"),
   Http(k2, 3, None, << >>, 500, "response_only"), Http(k2, None, None, << >>, None, "reset")}

MCNgap ==
  {Ngap("record", 1, "INITIAL_UE_MESSAGE", "initiatingMessage", None, Request, 0),
   Ngap("record", 3, "DOWNLINK_NAS", "initiatingMessage", None, Nas("REGISTRATION_ACCEPT", None), 1),
   Ngap("record", 3, "DOWNLINK_NAS", "initiatingMessage", None, Nas("REGISTRATION_REJECT", "bad"), 0),
   Ngap("record", 4, "CONTEXT_SETUP", "unsuccessfulOutcome", "bad", Nas(None, None), 0),
   Ngap("record", 4, "CONTEXT_RELEASE", "initiatingMessage", "normal", None, 0),
   Ngap("record", 4, "CONTEXT_RELEASE", "initiatingMessage", "bad", None, 0),
   Ngap("record", 2, "CONTEXT_SETUP", "initiatingMessage", None, None, 2),
   Ngap("bundle", 2, None, "initiatingMessage", None, None, 0),
   Ngap("malformed", None, None, None, None, None, 0),
   Ngap("schema", 1, "INITIAL_UE_MESSAGE", "initiatingMessage", None, Request, 0)}

MCPfcp ==
  {Pfcp(2, "SESSION_ESTABLISHMENT_REQUEST", 0, None, None, FALSE),
   Pfcp(3, "SESSION_ESTABLISHMENT_RESPONSE", 1, 2, "accepted", FALSE),
   Pfcp(3, "SESSION_ESTABLISHMENT_RESPONSE", 0, None, "rejected", FALSE),
   Pfcp(4, "SESSION_REPORT_REQUEST", 1, None, "rejected", FALSE),
   Pfcp(2, "HEARTBEAT_REQUEST", None, None, None, TRUE)}

MCConfigs == {[strict |-> TRUE, retain |-> FALSE], [strict |-> FALSE, retain |-> TRUE]}

MCSights ==
  {[incomplete |-> FALSE, visible |-> {"N1"}], [incomplete |-> FALSE, visible |-> {}],
   [incomplete |-> TRUE, visible |-> {"N1"}]}

MCRegistered ==
  {"INITIAL_UE_MESSAGE", "DOWNLINK_NAS", "CONTEXT_SETUP", "CONTEXT_RELEASE",
   "REGISTRATION_REQUEST", "REGISTRATION_ACCEPT", "REGISTRATION_REJECT",
   "SESSION_ESTABLISHMENT_REQUEST", "SESSION_ESTABLISHMENT_RESPONSE", "SESSION_REPORT_REQUEST"}

MCWords ==
  [INITIAL_UE_MESSAGE |-> {"INITIAL", "UE", "MESSAGE"}, DOWNLINK_NAS |-> {"DOWNLINK", "NAS"},
   CONTEXT_SETUP |-> {"CONTEXT", "SETUP"}, CONTEXT_RELEASE |-> {"CONTEXT", "RELEASE"},
   REGISTRATION_REQUEST |-> {"REGISTRATION", "REQUEST"},
   REGISTRATION_ACCEPT |-> {"REGISTRATION", "ACCEPT"},
   REGISTRATION_REJECT |-> {"REGISTRATION", "REJECT"},
   SESSION_ESTABLISHMENT_REQUEST |-> {"SESSION", "ESTABLISHMENT", "REQUEST"},
   SESSION_ESTABLISHMENT_RESPONSE |-> {"SESSION", "ESTABLISHMENT", "RESPONSE"},
   SESSION_REPORT_REQUEST |-> {"SESSION", "REPORT", "REQUEST"},
   UNKNOWN |-> {"UNKNOWN"}, HTTP2 |-> {"HTTP2"}, NGAP_PDU |-> {"NGAP", "PDU"},
   NAS_PDU |-> {"NAS", "PDU"}, PFCP_MESSAGE |-> {"PFCP", "MESSAGE"}]

StageOf(id, words, messages, after, optional, success, failure, timeout) ==
  [id |-> id, words |-> words, messages |-> messages, after |-> after, optional |-> optional,
   success |-> success, failure |-> failure, timeout |-> timeout, needs |-> {"N1"},
   condition |-> None]

MCStage ==
  <<StageOf("request", {"REGISTRATION", "REQUEST"}, {"REGISTRATION_REQUEST"}, {}, FALSE, FALSE, FALSE, None),
    StageOf("context", {"CONTEXT"}, {"CONTEXT_SETUP"}, {"request"}, FALSE, FALSE, FALSE, 2),
    StageOf("accept", {"REGISTRATION", "ACCEPT"}, {"REGISTRATION_ACCEPT"}, {"context"}, FALSE, TRUE, FALSE, 1),
    StageOf("reject", {"REGISTRATION", "REJECT"}, {"REGISTRATION_REJECT"}, {"context"}, TRUE, FALSE, TRUE, None)>>
=============================================================================
