----------------------------- MODULE MCTransport -----------------------------
(* Transport for TLC: the calls are model values.                           *)
EXTENDS Transport
=============================================================================
