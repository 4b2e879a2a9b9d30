------------------------------ MODULE MCWatcher ------------------------------
(* Watcher with its keyframes for TLC: the scores are model values, one     *)
(* with no period and one with more digits.                                 *)
EXTENDS Keyframes, TLC

CONSTANTS x, y

MCStreams == <<"home_score_t", "period_t">>

Values ==
    x :> ("home_score_t" :> 7 @@ "period_t" :> None)
        @@ y :> ("home_score_t" :> 14 @@ "period_t" :> 4)
=============================================================================
