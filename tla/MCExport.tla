------------------------------ MODULE MCExport -------------------------------
(* Export for TLC: two sports, the formats of the default configuration     *)
(* reduced to the two that share the live view, or one that leaves out json.*)
EXTENDS Export

CONSTANTS football, volleyball

Rotation == <<football, volleyball>>
=============================================================================
