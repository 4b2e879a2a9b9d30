------------------------------ MODULE MCSeason ------------------------------
(* Season for TLC: days on both sides of the rounding of a week.            *)
EXTENDS Season
=============================================================================
