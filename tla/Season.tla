------------------------------- MODULE Season -------------------------------
(***************************************************************************)
(* A season, from the rows of a team's schedule page to what the client     *)
(* hands out: parse_schedule with its derived pass and synthesize_byes      *)
(* (parsers/json_api.py) behind get_team_schedule, and the choice of the    *)
(* scorebug's contest by get_scoretracker (client.py, models/contest.py).   *)
(*                                                                          *)
(* Time is counted in days; the rows of one day are equally early.          *)
(***************************************************************************)
EXTENDS Integers, Sequences, FiniteSets

CONSTANTS
    Days,       \* the days games are played on, and the scorebug is asked for
    Marks,      \* what the rows say, of AllMarks
    MaxRows     \* rows of the page

NoDay == -1     \* the page has no date for the game
NoWeek == -1    \* week_index = None

(***************************************************************************)
(*   none     a game still to come      live    in progress                 *)
(*   scored   a score and no letter     W, L, T the letter of a result      *)
(*   void     malformed or soft-deleted, which the parser leaves out        *)
(***************************************************************************)
Results == {"W", "L", "T"}
AllMarks == {"none", "live", "scored", "void"} \cup Results

ASSUME SeasonAssumption ==
    /\ Days \subseteq Nat
    /\ Marks \subseteq AllMarks
    /\ MaxRows \in Nat

Rows == [day : Days \cup {NoDay}, mark : Marks]

Records == [won : 0..MaxRows, lost : 0..MaxRows, tied : 0..MaxRows]

NoRecord == [won |-> 0, lost |-> 0, tied |-> MaxRows + 1]

(* id is the row a contest comes from; a synthesized bye has none.          *)
Contests ==
    [id : 0..MaxRows, day : Nat \cup {NoDay}, mark : AllMarks \cup {"bye"},
     week : Nat \cup {NoWeek}, before : Records \cup {NoRecord}]

NoContest == [id |-> 0, day |-> NoDay, mark |-> "void", week |-> NoWeek, before |-> NoRecord]

VARIABLES
    table,      \* the rows of the schedule page
    weekly,     \* the sport the caller asked for is week_indexed
    call,       \* the call whose answer is below: "none", "schedule" or "scorebug"
    view,       \* the contests of the schedule it worked on
    shown,      \* its include_results
    tracked,    \* the contest get_scoretracker chose
    askedOn     \* the day it was asked

seasonVars == <<table, weekly, call, view, shown, tracked, askedOn>>

-----------------------------------------------------------------------------
(* The parse and its derived pass.                                          *)

(* The place that k - 1 others come before. *)
Nth(before, k) == CHOOSE i \in DOMAIN before : Cardinality(before[i]) = k - 1

(* Numbers come in their turn. *)
InTurn(places) == [i \in places |-> {j \in places : j < i}]

GamesOf(rows) == {i \in DOMAIN rows : rows[i].mark # "void"}

(* One contest per row that is one, in the order of the page. *)
Parsed(rows) ==
    LET Contest(i) == [id |-> i, day |-> rows[i].day, mark |-> rows[i].mark,
                       week |-> NoWeek, before |-> NoRecord]
    IN  [k \in 1..Cardinality(GamesOf(rows)) |-> Contest(Nth(InTurn(GamesOf(rows)), k))]

Dated(cs) == {i \in DOMAIN cs : cs[i].day # NoDay}

(* By starts_at_utc, the undated last. *)
Precedes(a, b) == a.day # NoDay /\ (b.day = NoDay \/ a.day < b.day)

(* contests.sort: equals stay in their order. *)
Earlier(cs) ==
    [i \in DOMAIN cs |->
        {j \in DOMAIN cs : Precedes(cs[j], cs[i]) \/ (~Precedes(cs[i], cs[j]) /\ j < i)}]

SortedByStart(cs) == [k \in DOMAIN cs |-> cs[Nth(Earlier(cs), k)]]

FirstDay(cs) == CHOOSE d \in {cs[i].day : i \in Dated(cs)} :
                    \A i \in Dated(cs) : d <= cs[i].day

(* round(delta_days / 7), which has no ties. *)
WeekOf(delta) == (delta + 3) \div 7

(* _assign_week_indexes *)
WithWeeks(cs) ==
    [i \in DOMAIN cs |->
        IF weekly /\ i \in Dated(cs)
        THEN [cs[i] EXCEPT !.week = WeekOf(cs[i].day - FirstDay(cs))]
        ELSE cs[i]]

(* How many of the contests at these places ended so. *)
Tally(cs, places) ==
    LET Count(result) == Cardinality({i \in places : cs[i].mark = result})
    IN  [won |-> Count("W"), lost |-> Count("L"), tied |-> Count("T")]

(* Schedule.record *)
Record(cs) == Tally(cs, DOMAIN cs)

(* _assign_records_before: nothing at all before the first result. *)
WithRecords(cs) ==
    IF \E i \in DOMAIN cs : cs[i].mark \in Results
    THEN [i \in DOMAIN cs |->
            IF cs[i].mark = "bye" THEN cs[i] ELSE [cs[i] EXCEPT !.before = Tally(cs, 1..(i - 1))]]
    ELSE cs

(* Mutant: the records are assigned in the order of the page.               *)
ScheduleUnsorted(rows) == WithWeeks(SortedByStart(WithRecords(Parsed(rows))))

(* parse_schedule *)
Schedule(rows) == WithRecords(WithWeeks(SortedByStart(Parsed(rows))))

WeeksPresent(cs) == {cs[i].week : i \in DOMAIN cs} \ {NoWeek}

(* Mutant: a bye is dated a week after the last game before it.             *)
ByeLate(cs, week) ==
    LET places == {j \in DOMAIN cs : cs[j].week # NoWeek /\ cs[j].week < week}
        last == CHOOSE i \in places : \A j \in places : j <= i
    IN  [NoContest EXCEPT !.day = cs[last].day + 7, !.mark = "bye", !.week = week]

(* The bye of a week without a game, counted from the first game. *)
Bye(cs, week) ==
    LET places == {j \in DOMAIN cs : cs[j].week # NoWeek}
        anchor == CHOOSE i \in places :
                      \A j \in places :
                          cs[i].week < cs[j].week \/ (cs[i].week = cs[j].week /\ i <= j)
    IN  [NoContest EXCEPT !.day = cs[anchor].day + 7 * week, !.mark = "bye", !.week = week]

(* synthesize_byes: a bye for every missing week, if two games have one. *)
WithByes(cs) ==
    LET last == CHOOSE w \in WeeksPresent(cs) : \A v \in WeeksPresent(cs) : v <= w
        missing == (0..last) \ WeeksPresent(cs)
        byes == [k \in 1..Cardinality(missing) |-> Bye(cs, Nth(InTurn(missing), k))]
    IN  IF Cardinality({i \in DOMAIN cs : cs[i].week # NoWeek}) < 2
        THEN cs
        ELSE SortedByStart(cs \o byes)

(* include_results=False: the letter and the score are wiped, a live flag   *)
(* and the records before are not.                                          *)
WithoutResults(cs) ==
    [i \in DOMAIN cs |->
        IF cs[i].mark \in Results \cup {"scored"} THEN [cs[i] EXCEPT !.mark = "none"] ELSE cs[i]]

-----------------------------------------------------------------------------
(* The choice of the scorebug's contest.                                    *)

FirstOf(cs, places) ==
    IF places = {} THEN NoContest ELSE cs[CHOOSE i \in places : \A j \in places : i <= j]

EarliestOf(cs, places) ==
    FirstOf(cs, {i \in places : \A j \in places : cs[i].day <= cs[j].day})

(* live_contest: the first in the list. *)
LiveContest(cs) == FirstOf(cs, {i \in DOMAIN cs : cs[i].mark = "live"})

(* Mutant: the first game of the season instead of the last.                *)
LastCompletedFirst(cs) ==
    EarliestOf(cs, {i \in Dated(cs) : cs[i].mark \in Results \cup {"scored"}})

(* last_completed: has_result and a date; of equals the first. *)
LastCompleted(cs) ==
    LET done == {i \in Dated(cs) : cs[i].mark \in Results \cup {"scored"}}
    IN  FirstOf(cs, {i \in done : \A j \in done : cs[j].day <= cs[i].day})

(* next_contest: dated, not a bye, not started, without a letter. *)
NextContest(cs, now) ==
    EarliestOf(cs, {i \in Dated(cs) : /\ cs[i].mark \notin Results \cup {"bye"}
                                      /\ cs[i].day >= now})

(* live_contest() or last_completed() or next_contest(now) *)
Choose(cs, now) ==
    IF LiveContest(cs) # NoContest THEN LiveContest(cs)
    ELSE IF LastCompleted(cs) # NoContest THEN LastCompleted(cs)
    ELSE NextContest(cs, now)

-----------------------------------------------------------------------------
SeasonInit ==
    /\ table \in UNION {[1..n -> Rows] : n \in 0..MaxRows}
    /\ weekly \in BOOLEAN
    /\ call = "none"
    /\ view = <<>>
    /\ shown = TRUE
    /\ tracked = NoContest
    /\ askedOn = 0

(* get_team_schedule, behind its fetch: no await from here on. *)
GetTeamSchedule(byes, results) ==
    LET schedule == IF byes THEN WithByes(Schedule(table)) ELSE Schedule(table)
    IN  /\ call = "none"
        /\ call' = "schedule"
        /\ view' = IF results THEN schedule ELSE WithoutResults(schedule)
        /\ shown' = results
        /\ UNCHANGED <<table, weekly, tracked, askedOn>>

(* get_scoretracker; NoContest stands for its ContestNotFoundError. *)
GetScoretracker(now) ==
    /\ call = "none"
    /\ call' = "scorebug"
    /\ view' = Schedule(table)
    /\ tracked' = Choose(Schedule(table), now)
    /\ askedOn' = now
    /\ UNCHANGED <<table, weekly, shown>>

(* The caller has its answer: the client keeps nothing of it. *)
CallEnds ==
    /\ call # "none"
    /\ call' = "none"
    /\ view' = <<>>
    /\ shown' = TRUE
    /\ tracked' = NoContest
    /\ askedOn' = 0
    /\ UNCHANGED <<table, weekly>>

SeasonNext ==
    \/ \E byes, results \in BOOLEAN : GetTeamSchedule(byes, results)
    \/ \E now \in Days : GetScoretracker(now)
    \/ CallEnds

SeasonSpec == SeasonInit /\ [][SeasonNext]_seasonVars

-----------------------------------------------------------------------------
(* Every variable holds a value of its type. *)
SeasonTypeOK ==
    /\ table \in Seq(Rows) /\ Len(table) <= MaxRows
    /\ weekly \in BOOLEAN
    /\ call \in {"none", "schedule", "scorebug"}
    /\ \A i \in DOMAIN view : view[i] \in Contests
    /\ shown \in BOOLEAN
    /\ tracked \in Contests
    /\ askedOn \in Days \cup {0}

(* The rows of the page that are games, and those that precede one of them  *)
(* in time: by day, the undated last, and on one day as on the page.        *)
GamesOnPage == GamesOf(table)

PlayedBefore(i) ==
    {j \in GamesOnPage \ {i} :
        LET a == table[j].day
            b == table[i].day
        IN  \/ a # NoDay /\ (b = NoDay \/ a < b)
            \/ a = b /\ j < i}

(***************************************************************************)
(* The record shown before a game is what the games played before it came   *)
(* to, byes or not, hidden results or not; and the record of the season is  *)
(* what all of them came to (_assign_records_before, Schedule.record).      *)
(***************************************************************************)
RecordsAddUp ==
    LET Played(places) == Tally(table, places)
    IN  /\ \A k \in DOMAIN view :
            view[k].before # NoRecord => view[k].before = Played(PlayedBefore(view[k].id))
        /\ shown /\ call # "none" => Record(view) = Played(GamesOnPage)

(***************************************************************************)
(* The list goes forward in time and in weeks, its byes included, and a bye *)
(* fills a week nobody plays in and only that one: a game on its day would  *)
(* have been given the very week it stands for (the rounding of             *)
(* _assign_week_indexes against the dates of synthesize_byes, which sorts   *)
(* again behind them).                                                      *)
(***************************************************************************)
InOrder(i, j) == view[i].day <= view[j].day /\ view[i].week <= view[j].week

FillsItsWeek(i) ==
    /\ WeekOf(view[i].day - FirstDay(view)) = view[i].week
    /\ \A j \in DOMAIN view \ {i} : view[j].week # view[i].week

WeeksInOrder ==
    /\ \A i, j \in Dated(view) : i < j => InOrder(i, j)
    /\ \A i \in DOMAIN view : view[i].mark = "bye" => FillsItsWeek(i)

(* A game with a result, or a score, and a date. *)
Over(i) == table[i].mark \in Results \cup {"scored"} /\ table[i].day # NoDay

(***************************************************************************)
(* The scorebug shows the game in progress; else, of the dated games that   *)
(* are over, none later; else no game that starts after another one to come *)
(* (client.py: "Live state if a game is in progress; otherwise the most     *)
(* recent final; otherwise the next upcoming game").                        *)
(***************************************************************************)
ScorebugShowsTheGame ==
    call = "scorebug" =>
        IF \E i \in GamesOnPage : table[i].mark = "live"
        THEN tracked.mark = "live"
        ELSE IF \E i \in GamesOnPage : Over(i)
        THEN Over(tracked.id) /\ \A i \in GamesOnPage : Over(i) => table[i].day <= tracked.day
        ELSE IF \E i \in GamesOnPage : table[i].day >= askedOn
        THEN /\ tracked.day >= askedOn
             /\ \A i \in GamesOnPage : table[i].day >= askedOn => table[i].day >= tracked.day
        ELSE tracked = NoContest
=============================================================================
