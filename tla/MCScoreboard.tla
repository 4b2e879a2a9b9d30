---------------------------- MODULE MCScoreboard ----------------------------
(* Scoreboard for TLC: two members of a league meet each other twice, at     *)
(* home and on neutral ground, and one of them an outsider.                  *)
EXTENDS Scoreboard, TLC

CONSTANTS a, b, outsider, derby, final, friendly

HomeTeams == [g \in Games |-> IF g = friendly THEN outsider ELSE a]
AwayTeams == [g \in Games |-> b]
Starts == [g \in Games |-> IF g = derby THEN 1 ELSE 2]
League == <<a, b>>
=============================================================================
