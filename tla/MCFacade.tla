------------------------------ MODULE MCFacade -------------------------------
(* Facade for TLC: two keys, and threads of which one may be late.          *)
EXTENDS Facade
=============================================================================
