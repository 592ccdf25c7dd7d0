---------------------------- MODULE MCHostBackups ----------------------------
(* Values for TLC: two sessions, the second a short one and the last of its *)
(* week, and a day the calendar does not cover.                             *)
EXTENDS HostBackups

TwoSessions == {[day |-> 0, open |-> 2, close |-> 4], [day |-> 1, open |-> 10, close |-> 11]}
=============================================================================
