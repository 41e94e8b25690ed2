------------------------- MODULE MC_SegmentAttempts -------------------------
(***************************************************************************)
(* A small capture for SegmentAttempts: registrations with a nested        *)
(* authentication, PDU session establishments, two subscribers, of which   *)
(* one is also seen on the access context and session of the other (T03    *)
(* keeps a SUPI and a SUCI apart), and a subscriber seen on two accesses.  *)
(***************************************************************************)
EXTENDS SegmentAttempts

CONSTANTS u1, u2, c1, c2, s1, id1, id2

Seen(kind, ue, ctx, session, pdu, ids) ==
  [kind |-> kind, ue |-> ue, ctx |-> ctx, session |-> session, pdu |-> pdu,
   amf |-> ids, ran |-> ids, nas |-> kind # "session_request"]

MCEvent ==
  {Seen("registration_request", u1, c1, None, None, id1),
   Seen("registration_accept", u1, c1, None, None, id1),
   Seen("registration_reject", u1, c1, None, None, id1),
   Seen("authentication_request", u1, c1, None, None, id1),
   Seen("authentication_request", u1, c2, None, None, id2),
   Seen("session_request", u1, c1, s1, id1, id1),
   Seen("session_request", u2, None, s1, id1, None),
   Seen("session_response", u2, c1, s1, id1, id1)}

\* In the same frame, or two frames and seconds later without a time stamp:
\* two such steps exceed every limit in frames, one exceeds the response
\* time-out of two seconds or less for the next event that has a stamp.
MCStep ==
  {[frames |-> 0, seconds |-> 0, stamped |-> TRUE],
   [frames |-> 2, seconds |-> 2, stamped |-> FALSE]}

Stage(on, success, failure) ==
  [on |-> on, repeatable |-> FALSE, success |-> success, failure |-> failure]

MCRegistry ==
  [registration |->
     [id |-> 1, type |-> "INITIAL_REGISTRATION", initial |-> TRUE, timeout |-> 5, window |-> None,
      triggers |-> {"registration_request"},
      stages |-> <<Stage({"registration_request"}, FALSE, FALSE),
                   Stage({"registration_accept"}, TRUE, FALSE)>>,
      success |-> {}, failure |-> {"registration_reject"}, abort |-> {},
      parents |-> {}, from |-> {}, closes |-> {"session"}],
   authentication |->
     [id |-> 2, type |-> "AUTHENTICATION", initial |-> FALSE, timeout |-> None, window |-> 1,
      triggers |-> {"authentication_request"}, stages |-> << >>,
      success |-> {"registration_accept"}, failure |-> {}, abort |-> {"registration_reject"},
      parents |-> {"registration"}, from |-> {"authentication"}, closes |-> {}],
   session |->
     [id |-> 3, type |-> "SESSION", initial |-> FALSE, timeout |-> None, window |-> None,
      triggers |-> {"session_request"}, stages |-> << >>,
      success |-> {"session_response"}, failure |-> {}, abort |-> {},
      parents |-> {}, from |-> {}, closes |-> {}]]

MCLimits ==
  [confidence |-> 70, perUE |-> 2, idleSeconds |-> 3, responseSeconds |-> 1,
   idleFrames |-> 4, responseFrames |-> 2]

MCRanks == {<<1, 2, 3, 4>>, <<4, 3, 2, 1>>}
=============================================================================
