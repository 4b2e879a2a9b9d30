----------------------------- MODULE MCSwrCache -----------------------------
(* SwrCache for TLC: the processes are the service, a command line next to   *)
(* it, and a command line that runs offline.                                 *)
EXTENDS SwrCache, TLC

CONSTANTS serve, cli, venue, a, b, c, r, s

(* All tasks in one process. *)
HomeAlone == [t \in Tasks |-> serve]

(* Two processes that fetch, a caller and a revalidation each. *)
HomeShared == (a :> serve) @@ (b :> cli) @@ (r :> serve) @@ (s :> cli)

(* One process that fetches, one that runs offline. *)
HomeOffline == [t \in Tasks |-> IF t = c THEN venue ELSE serve]

TaskSymmetry == Permutations({a, b}) \cup Permutations({r, s})

NoRawErrors == AllOutcomes \ {"other_error"}
=============================================================================
