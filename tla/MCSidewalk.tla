----------------------------- MODULE MCSidewalk ------------------------------
(* SidewalkViolation on small instances. *)
EXTENDS SidewalkViolation
=============================================================================
