------------------------------- MODULE HostGate -------------------------------
(***************************************************************************)
(* What the circuit breaker of http/breaker.py promises the host it         *)
(* protects, without saying how: while the host is trusted any call may be  *)
(* admitted; once it is tripped a call is admitted only against a budget of *)
(* one, which only the passing of a cooldown grants and which every new     *)
(* trip takes back.                                                         *)
(***************************************************************************)
CONSTANT Calls

VARIABLES
    mode,       \* "closed": the host is trusted; "tripped": it is not
    budget,     \* probes the passed cooldown still pays for: 0 or 1
    admitted    \* the calls past the gate whose answer is not in yet

vars == <<mode, budget, admitted>>

Init ==
    /\ mode = "closed"
    /\ budget = 0
    /\ admitted = {}

(* Any call is let through to a trusted host. *)
Admit(c) ==
    /\ mode = "closed"
    /\ c \notin admitted
    /\ admitted' = admitted \cup {c}
    /\ UNCHANGED <<mode, budget>>

(* The one probe of a tripped host spends the budget. *)
Probe(c) ==
    /\ mode = "tripped"
    /\ budget = 1
    /\ c \notin admitted
    /\ admitted' = admitted \cup {c}
    /\ budget' = 0
    /\ UNCHANGED mode

(* A cooldown has passed since the last trip. *)
CooldownOver ==
    /\ mode = "tripped"
    /\ budget = 0
    /\ budget' = 1
    /\ UNCHANGED <<mode, admitted>>

Succeed(c) ==
    /\ c \in admitted
    /\ admitted' = admitted \ {c}
    /\ mode' = "closed"
    /\ budget' = 0

(* A failure trips the gate, or is one the gate does not act upon. *)
Fail(c) ==
    /\ c \in admitted
    /\ admitted' = admitted \ {c}
    /\ \/ mode' = "tripped" /\ budget' = 0
       \/ UNCHANGED <<mode, budget>>

Next ==
    \/ CooldownOver
    \/ \E c \in Calls : Admit(c) \/ Probe(c) \/ Succeed(c) \/ Fail(c)

Spec == Init /\ [][Next]_vars
=============================================================================
