----------------------------- MODULE MCSelection ------------------------------
(***************************************************************************)
(* Selection for TLC: the program's own catalogue, a cap of two sports (so  *)
(* that a request of three is too long), and requests that hit each branch  *)
(* of the lookup: a key, a display name that is not one, the same sport     *)
(* twice, an unknown name, a list that is too long, the two genders of one  *)
(* sport.  The command line runs under MAXPREPS_PRIMARY_* or not.           *)
(***************************************************************************)
EXTENDS Selection, TLC

CONSTANTS c1, std, other, opp

AllRequests == {
    <<>>,
    <<"boys-basketball", "girls-basketball">>,
    <<"track-and-field", "track-field">>,
    <<"quidditch">>,
    <<"football", "baseball", "softball">> }

Station ==
    [Defaults EXCEPT !.school = "home", !.level = "jv", !.active = <<"football">>]

ByHand == {
    [Station EXCEPT !.level = "varsity", !.active = <<"track-and-field">>],
    [Station EXCEPT !.active = <<"quidditch">>] }

AtFirst == {Station}

Environments == (c1 :> "away") @@ (serve :> "none")
=============================================================================
