---------------------------- MODULE MCMeetingRoom ----------------------------
(* One room, a client that posts and a client that also polls. *)
EXTENDS MeetingRoom

CONSTANTS c1, c2
=============================================================================
