----------------------------- MODULE MCLiveBroker -----------------------------
(* LiveBroker for TLC: the connections are model values.                     *)
EXTENDS LiveBroker
=============================================================================
