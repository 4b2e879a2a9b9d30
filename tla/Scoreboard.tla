------------------------------ MODULE Scoreboard ------------------------------
(***************************************************************************)
(* get_live_and_upcoming_games (client.py): the schedules of all teams of   *)
(* a scope are asked for at once, each answered out of the cache or by a    *)
(* fetch, and what they say of the games around now is merged into one      *)
(* list of score states (build_score_state, parsers/json_api.py) under one  *)
(* envelope.                                                                *)
(*                                                                          *)
(* Time is counted in hours, beside which a request takes none; a page is   *)
(* the schedule page of a team as the cache last stored it.                 *)
(***************************************************************************)
EXTENDS Integers, Sequences, FiniteSets, FiniteSetsExt

CONSTANTS
    Games,
    Teams,
    HomeTeam,       \* the home team of each game, or the first of a neutral one
    AwayTeam,       \* its opponent
    Neutral,        \* the games on neutral ground
    Start,          \* the hour each game starts at
    Primary,        \* the primary team
    Standings,      \* its league, in the order of the standings page
    MaxTeams,
    HasIds,         \* whether the pages carry contest ids
    WindowHours,
    FinalsWithin,
    PregameWindow,
    Ttl,            \* the ttl the pages are stored under
    MaxScore,       \* points are not counted beyond this
    MaxNews,        \* nor changes of the games
    MaxTime,        \* nor hours
    NoTeam

Plays(t) == {g \in Games : t \in {HomeTeam[g], AwayTeam[g]}}

ASSUME ScoreboardAssumption ==
    /\ HomeTeam \in [Games -> Teams] /\ AwayTeam \in [Games -> Teams]
    /\ \A g \in Games : HomeTeam[g] # AwayTeam[g]
    /\ Neutral \subseteq Games
    /\ Start \in [Games -> Nat]
    /\ Primary \in Teams
    /\ Standings \in Seq(Teams)
    /\ \A i, j \in DOMAIN Standings : Standings[i] = Standings[j] => i = j
    /\ MaxTeams \in Nat \ {0}
    /\ HasIds \in BOOLEAN
    /\ {WindowHours, FinalsWithin, PregameWindow, Ttl, MaxScore, MaxNews, MaxTime} \subseteq Nat
    /\ NoTeam \notin Teams

VARIABLES
    clock,
    game,       \* each game as the site has it now
    changed,    \* the hour it last changed
    news,       \* how many changes there were
    page,       \* the page of each team in the cache
    pc,         \* get_live_and_upcoming_games: "idle", "gathering" or "answered"
    refs,       \* the teams of its scope, in their order
    asked,      \* its now
    results,    \* what the gathered calls have returned
    board       \* its answer

truth == <<game, changed, news>>
vars == <<clock, truth, page, pc, refs, asked, results, board>>

(* The members of the league but the primary team, which is in it once. *)
OtherMembers ==
    LET at == CHOOSE i \in DOMAIN Standings : Standings[i] = Primary
    IN  IF \E i \in DOMAIN Standings : Standings[i] = Primary
        THEN SubSeq(Standings, 1, at - 1) \o SubSeq(Standings, at + 1, Len(Standings))
        ELSE Standings

(* _resolve_scope: the team, also when the standings are unavailable, or    *)
(* the league behind it.                                                    *)
Scopes ==
    LET wanted == <<Primary>> \o OtherMembers
    IN  {<<Primary>>, SubSeq(wanted, 1, IF Len(wanted) < MaxTeams THEN Len(wanted) ELSE MaxTeams)}

Followed == {Primary} \cup {Standings[i] : i \in DOMAIN Standings}

Scores == 0..MaxScore

(* off: called off, and said so in the details of the contest. *)
Stages == {"scheduled", "off", "live", "final"}
Truths == [stage : Stages, home : Scores, away : Scores]

(* A page shows the games of its team; the others are no part of it. *)
Pages == UNION {[at : 0..MaxTime, games : [Plays(t) -> Truths]] : t \in Followed}
NoPage == [at |-> 0, games |-> <<>>]

CacheStates == {"fresh", "cached", "stale", "last_known_good"}
NoResult == [state |-> "none", page |-> NoPage]
Fetching == [state |-> "fetching", page |-> NoPage]

-----------------------------------------------------------------------------
(* What one page says of one game: build_score_state.                       *)

Statuses == {"in_progress", "final", "postponed", "pregame", "scheduled"}
Entries == [game : Games, status : Statuses, home : Teams, away : Teams,
            home_score : Scores, away_score : Scores]

Status(g, row, now) ==
    CASE row.stage = "live" -> "in_progress"
      [] row.stage = "final" -> "final"
      [] row.stage = "off" -> "postponed"
      [] row.stage = "scheduled" /\ Start[g] - now \in 0..PregameWindow -> "pregame"
      [] row.stage = "scheduled" /\ Start[g] - now \notin 0..PregameWindow -> "scheduled"

(* The page tells a contest as its team sees it: subject and opponent.      *)
SubjectHome(t, g) == g \in Neutral \/ t = HomeTeam[g]
Opponent(t, g) == IF t = HomeTeam[g] THEN AwayTeam[g] ELSE HomeTeam[g]
ScorePair(t, g, row) == IF t = HomeTeam[g] THEN <<row.home, row.away>> ELSE <<row.away, row.home>>

ScoreState(t, g, row, now) ==
    LET pair == ScorePair(t, g, row)
        subjectHome == SubjectHome(t, g)
    IN  [game |-> g, status |-> Status(g, row, now),
         home |-> IF subjectHome THEN t ELSE Opponent(t, g),
         away |-> IF subjectHome THEN Opponent(t, g) ELSE t,
         home_score |-> IF subjectHome THEN pair[1] ELSE pair[2],
         away_score |-> IF subjectHome THEN pair[2] ELSE pair[1]]

(* _window_state *)
InWindow(g, row, now) ==
    LET delta == Start[g] - now
    IN  \/ row.stage = "live"
        \/ row.stage = "final" /\ delta >= -FinalsWithin
        \/ row.stage \in {"scheduled", "off"} /\ delta \in 0..WindowHours

-----------------------------------------------------------------------------
(* The merge.                                                               *)

(* contest_id, or the names of the sides and the start. *)
Key(state) == <<state.game, IF HasIds THEN NoTeam ELSE state.home>>

(* The calls that returned a schedule, by their places in the scope.        *)
Answered == {i \in DOMAIN refs : results[refs[i]].state \in CacheStates}

(* What the page of the team at this place says of a game. *)
RowAt(i, g) == results[refs[i]].page.games[g]

(* Every state the merge sees, with the place of the page it is from.       *)
Candidates ==
    {[place |-> p[1], state |-> ScoreState(refs[p[1]], p[2], RowAt(p[1], p[2]), asked)] :
        p \in {q \in Answered \X Games :
            q[2] \in Plays(refs[q[1]]) /\ InWindow(q[2], RowAt(q[1], q[2]), asked)}}

(* Those of one line of the board, and those of them in progress. *)
Of(key) == {c \in Candidates : Key(c.state) = key}
LiveOf(key) == {c \in Of(key) : c.state.status = "in_progress"}

(* Mutant: a later source of a game is never looked at.                     *)
MergeFirst ==
    {(CHOOSE c \in Candidates :
        Key(c.state) = key /\ \A d \in Candidates : Key(d.state) = key => c.place <= d.place).state :
        key \in {Key(c.state) : c \in Candidates}}

(* The first source of a game holds, but every later one in progress        *)
(* replaces it.                                                             *)
Chosen(key) ==
    IF LiveOf(key) # {}
    THEN CHOOSE c \in LiveOf(key) : \A d \in LiveOf(key) : d.place <= c.place
    ELSE CHOOSE c \in Of(key) : \A d \in Of(key) : c.place <= d.place

Merge == {Chosen(key).state : key \in {Key(c.state) : c \in Candidates}}

(* Mutant: the state of the last call, fresh or not.                        *)
CacheStateLast == IF Answered = {} THEN "fresh" ELSE results[refs[Max(Answered)]].state

(* The last state that is not fresh. *)
CacheState ==
    LET others == {i \in Answered : results[refs[i]].state # "fresh"}
    IN  IF others = {} THEN "fresh" ELSE results[refs[Max(others)]].state

(* Mutant: the time of the newest page.                                     *)
FetchedAtNewest == Max({0} \cup {results[refs[i]].page.at : i \in Answered})

FetchedAt == Min({asked} \cup {results[refs[i]].page.at : i \in Answered})

NoBoard == [states |-> {}, cache_state |-> "fresh", fetched_at |-> 0]

-----------------------------------------------------------------------------
Init ==
    /\ clock = 0
    /\ game = [g \in Games |-> [stage |-> "scheduled", home |-> 0, away |-> 0]]
    /\ changed = [g \in Games |-> 0]
    /\ news = 0
    /\ page = [t \in Followed |-> NoPage]
    /\ pc = "idle"
    /\ refs = <<>>
    /\ asked = 0
    /\ results = [t \in Followed |-> NoResult]
    /\ board = NoBoard

(* The site, which the client does not control. *)
Becomes(g, row) ==
    /\ news < MaxNews
    /\ news' = news + 1
    /\ game' = [game EXCEPT ![g] = row]
    /\ changed' = [changed EXCEPT ![g] = clock]
    /\ UNCHANGED <<clock, page, pc, refs, asked, results, board>>

Kickoff(g) ==
    /\ game[g].stage = "scheduled" /\ clock >= Start[g]
    /\ Becomes(g, [game[g] EXCEPT !.stage = "live"])

Point(g) ==
    /\ game[g].stage = "live"
    /\ \/ game[g].home < MaxScore /\ Becomes(g, [game[g] EXCEPT !.home = @ + 1])
       \/ game[g].away < MaxScore /\ Becomes(g, [game[g] EXCEPT !.away = @ + 1])

(* Some games are reported only when they are over. *)
Report(g) ==
    /\ game[g].stage \in {"scheduled", "live"} /\ clock >= Start[g]
    /\ \E home, away \in Scores :
        /\ game[g].stage = "live" => home = game[g].home /\ away = game[g].away
        /\ Becomes(g, [stage |-> "final", home |-> home, away |-> away])

CallOff(g) ==
    /\ game[g].stage = "scheduled"
    /\ Becomes(g, [game[g] EXCEPT !.stage = "off"])

Tick ==
    /\ clock < MaxTime
    /\ clock' = clock + 1
    /\ UNCHANGED <<truth, page, pc, refs, asked, results, board>>

PageNow(t) == [at |-> clock, games |-> [g \in Plays(t) |-> game[g]]]

(* A background refresh, or a fetch for another caller. *)
Refresh(t) ==
    /\ page[t] # PageNow(t)
    /\ page' = [page EXCEPT ![t] = PageNow(t)]
    /\ UNCHANGED <<clock, truth, pc, refs, asked, results, board>>

(* A page in the cache is returned at once, whatever its age. *)
Begun(t) ==
    CASE page[t] = NoPage -> Fetching
      [] page[t] # NoPage /\ clock - page[t].at <= Ttl -> [state |-> "cached", page |-> page[t]]
      [] page[t] # NoPage /\ clock - page[t].at > Ttl -> [state |-> "stale", page |-> page[t]]

(* The scope is resolved, now is read, and the calls of get_team_schedule   *)
(* are gathered, each of which runs to its first await.                     *)
Ask ==
    /\ pc = "idle"
    /\ pc' = "gathering"
    /\ refs' \in Scopes
    /\ asked' = clock
    /\ results' = [t \in Followed |->
                    IF \E i \in DOMAIN refs' : refs'[i] = t THEN Begun(t) ELSE NoResult]
    /\ UNCHANGED <<clock, truth, page, board>>

Returns(t, state, answer) ==
    /\ results[t] = Fetching
    /\ results' = [results EXCEPT ![t] = [state |-> state, page |-> answer]]
    /\ UNCHANGED <<clock, truth, pc, refs, asked, board>>

(* A fetch is answered and stored. *)
Fetched(t) ==
    /\ Returns(t, "fresh", PageNow(t))
    /\ page' = [page EXCEPT ![t] = PageNow(t)]

(* It fails, and finds what another one has stored meanwhile. *)
LastKnownGood(t) ==
    /\ page[t] # NoPage
    /\ Returns(t, "last_known_good", page[t])
    /\ UNCHANGED page

(* Or nothing, and raises, which gather returns as a result. *)
Raises(t) ==
    /\ page[t] = NoPage
    /\ Returns(t, "failed", NoPage)
    /\ UNCHANGED page

(* All are back: the merge, without an await. *)
Answer ==
    /\ pc = "gathering"
    /\ \A t \in Followed : results[t] # Fetching
    /\ pc' = "answered"
    /\ board' = [states |-> Merge, cache_state |-> CacheState, fetched_at |-> FetchedAt]
    /\ UNCHANGED <<clock, truth, page, refs, asked, results>>

Return ==
    /\ pc = "answered"
    /\ pc' = "idle"
    /\ refs' = <<>>
    /\ asked' = 0
    /\ results' = [t \in Followed |-> NoResult]
    /\ board' = NoBoard
    /\ UNCHANGED <<clock, truth, page>>

Next ==
    \/ \E g \in Games : Kickoff(g) \/ Point(g) \/ Report(g) \/ CallOff(g)
    \/ Tick
    \/ \E t \in Followed : Refresh(t) \/ Fetched(t) \/ LastKnownGood(t) \/ Raises(t)
    \/ Ask \/ Answer \/ Return

Spec == Init /\ [][Next]_vars

-----------------------------------------------------------------------------
(* Every variable holds a value of its type. *)
TypeOK ==
    /\ clock \in 0..MaxTime /\ asked \in 0..MaxTime
    /\ game \in [Games -> Truths]
    /\ changed \in [Games -> 0..MaxTime]
    /\ news \in 0..MaxNews
    /\ page \in [Followed -> Pages \cup {NoPage}]
    /\ pc \in {"idle", "gathering", "answered"}
    /\ refs \in Scopes \cup {<<>>}
    /\ results \in [Followed -> [state : CacheStates \cup {"none", "fetching", "failed"},
                              page : Pages \cup {NoPage}]]
    /\ board \in [states : SUBSET Entries, cache_state : CacheStates, fetched_at : 0..MaxTime]

(* The state tells a game as it is, from whichever page it was taken. *)
Tells(state, row) ==
    LET Scored(team) == IF team = HomeTeam[state.game] THEN row.home ELSE row.away
    IN  /\ state.status = Status(state.game, row, asked)
        /\ {state.home, state.away} = {HomeTeam[state.game], AwayTeam[state.game]}
        /\ state.game \notin Neutral => state.home = HomeTeam[state.game]
        /\ state.home_score = Scored(state.home) /\ state.away_score = Scored(state.away)

(***************************************************************************)
(* fetched_at is honest for every game of the board: one it tells otherwise *)
(* than the site does has changed since (envelope.py: "freshness impossible *)
(* to ignore"), and no page swaps the sides of a game or their scores.      *)
(***************************************************************************)
AgeIsHonest ==
    \A state \in board.states : Tells(state, game[state.game]) \/ board.fetched_at <= changed[state.game]

(***************************************************************************)
(* A board that is called fresh is the truth of all games of the schedules  *)
(* that came back, but for those that changed after it was asked for: none  *)
(* in the window is missing and none outside of it is there.                *)
(***************************************************************************)
FreshBoardIsTheTruth ==
    pc = "answered" /\ board.cache_state = "fresh" =>
        \A i \in Answered : \A g \in Plays(refs[i]) :
            changed[g] < asked =>
                IF InWindow(g, game[g], asked)
                THEN \E state \in board.states : state.game = g /\ Tells(state, game[g])
                ELSE \A state \in board.states : state.game # g

(***************************************************************************)
(* A game that any schedule has in progress is in progress on the board,    *)
(* whatever older pages say of it, and it is there once, though both teams' *)
(* schedules carry it (get_live_and_upcoming_games, keyed by contest_id).   *)
(***************************************************************************)
NothingLiveIsHidden ==
    pc = "answered" =>
        \A i \in Answered : \A g \in Plays(refs[i]) :
            RowAt(i, g).stage = "live" =>
                LET lines == {state \in board.states : state.game = g}
                IN  Cardinality(lines) = 1 /\ \A line \in lines : line.status = "in_progress"
=============================================================================
