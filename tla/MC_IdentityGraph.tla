-------------------------- MODULE MC_IdentityGraph --------------------------
(***************************************************************************)
(* Two subscribers at one gNB, whose AMF identifier and GUTI are used      *)
(* again, an answer of the AMF, an HTTP/2 stream and the user plane of a   *)
(* session.                                                                *)
(***************************************************************************)
EXTENDS IdentityGraph

CONSTANTS gnb, amf, smf, a1, r1, r2, s1, s2, g1, p1, c1

Up(frame, ids) == [frame |-> frame, src |-> gnb, dst |-> amf, ids |-> ids]
Down(frame, ids) == [frame |-> frame, src |-> amf, dst |-> gnb, ids |-> ids]

InitialMessage(r, s) == [ran_ue_ngap_id |-> r, suci |-> s, guti |-> g1]
Uplink(r) == [amf_ue_ngap_id |-> a1, ran_ue_ngap_id |-> r]

\* A registration that shows SUCI and GUTI, the same GUTI at another subscriber,
\* a session and its answer, the user plane, an NGAP record whose NAS event
\* shows another subscriber.
MCEvent ==
  UNION {{Up(f, InitialMessage(r1, s1)), Up(f, InitialMessage(r2, s2)),
          Up(f, Uplink(r1)), Up(f, Uplink(r1) @@ [suci |-> s2]),
          Up(f, Uplink(r2) @@ [suci |-> s2]),
          Up(f, Uplink(r1) @@ [pdu_session_id |-> p1]),
          Down(f, Uplink(r1) @@ [pdu_session_id |-> p1])} : f \in 1 .. 2}
  \cup {[frame |-> 1, src |-> smf, dst |-> smf, ids |-> [http2_key |-> c1]],
        [frame |-> 2, src |-> smf, dst |-> smf,
         ids |-> [charging_id |-> c1, pdu_session_id |-> p1]]}

Names == (1 .. MaxEvents) \X Range(KindOrder)
Place(o) == o[1] * Len(KindOrder) + PositionIn(KindOrder, o[2])

\* By event, and against it by kind.
MCOrders ==
  {[o \in Names |-> Place(o)], [o \in Names |-> PositionIn(KindOrder, o[2]) * 10 - o[1]]}
=============================================================================
