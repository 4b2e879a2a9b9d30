---------------------------- MODULE ContestProofs ----------------------------
(***************************************************************************)
(* Safety of the client's answers about contests, for any games, pages and  *)
(* times.                                                                   *)
(*                                                                          *)
(* Scoreboard: a page that tells a game otherwise than the site does is no  *)
(* younger than the last change of that game (PagesAreHonest), and what was *)
(* fetched for the board is no older than its question; the rest is what    *)
(* the merge makes of the pages, which nothing disturbs until the answer is *)
(* given.                                                                   *)
(*                                                                          *)
(* Season: nothing is kept between two calls, so that the invariant only    *)
(* says which schedule the answer is (TheAnswer); the rest is that the sort *)
(* is a bijection which keeps the order of starts, and what it carries over *)
(* from the page to the list (ShowsThePage, GoesForward).                   *)
(***************************************************************************)
EXTENDS Scoreboard, Season, PlaceProofs

-----------------------------------------------------------------------------
(* What one page says of one game *)

(* A team that plays is one of the sides, whichever the page is told from.  *)
LEMMA ScoreStateTells ==
    ASSUME NEW t, NEW g \in Plays(t), NEW row
    PROVE  /\ ScoreState(t, g, row, asked).game = g
           /\ Tells(ScoreState(t, g, row, asked), row)
<1>1. /\ g \in Games /\ t \in {HomeTeam[g], AwayTeam[g]} /\ HomeTeam[g] # AwayTeam[g]
  BY ScoreboardAssumption DEF Plays
<1>2. QED
  BY <1>1 DEF ScoreState, Tells, SubjectHome, Opponent, ScorePair

LEMMA ScoreStateIsEntry ==
    ASSUME NEW t \in Teams, NEW g \in Plays(t), NEW row \in Truths, NEW now
    PROVE  ScoreState(t, g, row, now) \in Entries
<1>1. /\ g \in Games /\ HomeTeam[g] \in Teams /\ AwayTeam[g] \in Teams
      /\ row.home \in Scores /\ row.away \in Scores /\ row.stage \in Stages
  BY ScoreboardAssumption DEF Plays, Truths
<1>2. Status(g, row, now) \in Statuses
  BY <1>1 DEF Status, Statuses, Stages
<1>3. QED
  BY <1>1, <1>2 DEF ScoreState, Entries, Opponent, ScorePair

LEMMA LiveIsInProgress ==
    ASSUME NEW g, NEW row, NEW now, row.stage = "live"
    PROVE  Status(g, row, now) = "in_progress" /\ InWindow(g, row, now)
  BY DEF Status, InWindow

(* The scopes are lists of the teams that are followed. *)
LEMMA OthersAreFollowed == OtherMembers \in Seq(Followed)
<1>1. Standings \in Seq(Followed)
  BY ScoreboardAssumption DEF Followed
<1>2. CASE ~\E i \in DOMAIN Standings : Standings[i] = Primary
  BY <1>1, <1>2 DEF OtherMembers
<1>3. CASE \E i \in DOMAIN Standings : Standings[i] = Primary
  <2>1. PICK at \in DOMAIN Standings :
            at = CHOOSE i \in DOMAIN Standings : Standings[i] = Primary
    BY <1>3
  <2>2. /\ SubSeq(Standings, 1, at - 1) \in Seq(Followed)
        /\ SubSeq(Standings, at + 1, Len(Standings)) \in Seq(Followed)
    <3>1. /\ Standings \in [1..Len(Standings) -> Followed] /\ Len(Standings) \in Nat
          /\ at \in 1..Len(Standings)
      BY <1>1, <2>1, LenProperties
    <3>2. QED
      BY <1>1, <3>1
  <2>3. OtherMembers = SubSeq(Standings, 1, at - 1) \o SubSeq(Standings, at + 1, Len(Standings))
    BY <1>3, <2>1 DEF OtherMembers
  <2>4. QED
    BY <2>2, <2>3
<1>4. QED
  BY <1>2, <1>3

LEMMA ScopesAreFollowed ==
    ASSUME NEW scope \in Scopes \cup {<<>>}
    PROVE  scope \in Seq(Followed)
<1> DEFINE wanted == <<Primary>> \o OtherMembers
           count == IF Len(wanted) < MaxTeams THEN Len(wanted) ELSE MaxTeams
<1>1. <<Primary>> \in Seq(Followed)
  BY DEF Followed
<1>2. wanted \in Seq(Followed)
  BY <1>1, OthersAreFollowed
<1>3. count \in Nat /\ count <= Len(wanted)
  BY <1>2, ScoreboardAssumption
<1>4. SubSeq(wanted, 1, count) \in Seq(Followed)
  BY <1>2, <1>3
<1>5. scope \in {<<Primary>>, SubSeq(wanted, 1, count), <<>>}
  BY DEF Scopes
<1>6. <<>> \in Seq(Followed)
  OBVIOUS
<1>7. QED
  BY <1>1, <1>4, <1>5, <1>6

LEMMA FollowedAreTeams == Followed \subseteq Teams
  BY ScoreboardAssumption DEF Followed

-----------------------------------------------------------------------------
(* The merge *)

(* Somewhere in the scope a page tells this of a game in the window. *)
Seen(state) ==
    \E i \in Answered : \E g \in Plays(refs[i]) :
        /\ InWindow(g, RowAt(i, g), asked)
        /\ state = ScoreState(refs[i], g, RowAt(i, g), asked)

LEMMA CandidatesAreSeen ==
    ASSUME NEW c \in Candidates
    PROVE  Seen(c.state) /\ c.place \in DOMAIN refs
  BY DEF Candidates, Seen, Answered

LEMMA SeenAreCandidates ==
    ASSUME NEW i \in Answered, NEW g \in Plays(refs[i]), InWindow(g, RowAt(i, g), asked)
    PROVE  \E c \in Candidates : c.state = ScoreState(refs[i], g, RowAt(i, g), asked)
<1>1. <<i, g>> \in {q \in Answered \X Games :
                      q[2] \in Plays(refs[q[1]]) /\ InWindow(q[2], RowAt(q[1], q[2]), asked)}
  BY DEF Plays
<1>2. [place |-> i, state |-> ScoreState(refs[i], g, RowAt(i, g), asked)] \in Candidates
  BY <1>1 DEF Candidates
<1>3. QED
  BY <1>2

(* There is a first source of every line, and a last one in progress. *)
LEMMA ChosenIsOfItsLine ==
    ASSUME refs \in Seq(Followed), NEW c \in Candidates, NEW key, key = Key(c.state)
    PROVE  /\ Chosen(key) \in Of(key)
           /\ LiveOf(key) # {} => Chosen(key) \in LiveOf(key)
<1>1. Of(key) # {} /\ LiveOf(key) \subseteq Of(key) /\ Of(key) \subseteq Candidates
  BY DEF Of, LiveOf
<1>2. Len(refs) \in Nat /\ \A d \in Candidates : d.place \in 1..Len(refs)
  BY CandidatesAreSeen
<1>3. CASE LiveOf(key) # {}
  <2> DEFINE places == {d.place : d \in LiveOf(key)}
  <2>1. places \subseteq Nat /\ places # {} /\ \A x \in places : x <= Len(refs)
    BY <1>1, <1>2, <1>3
  <2>2. PICK x \in places : \A y \in places : y <= x
    BY <1>2, <2>1, GreatestExists
  <2>3. \E d \in LiveOf(key) : \A e \in LiveOf(key) : e.place <= d.place
    BY <2>2
  <2>4. Chosen(key) \in LiveOf(key)
    BY <1>3, <2>3 DEF Chosen
  <2>5. QED
    BY <1>1, <2>4
<1>4. CASE LiveOf(key) = {}
  <2> DEFINE places == {d.place : d \in Of(key)}
  <2>1. places \subseteq Nat /\ places # {}
    BY <1>1, <1>2
  <2>2. PICK x \in places : \A y \in places : x <= y
    BY <2>1, LeastExists
  <2>3. \E d \in Of(key) : \A e \in Of(key) : d.place <= e.place
    BY <2>2
  <2>4. QED
    BY <1>4, <2>3 DEF Chosen
<1>5. QED
  BY <1>3, <1>4

(* What is on the board is what some page tells. *)
LEMMA MergedIsSeen ==
    ASSUME refs \in Seq(Followed), NEW state \in Merge
    PROVE  Seen(state)
<1>1. PICK c \in Candidates : state = Chosen(Key(c.state)).state
  BY DEF Merge
<1>2. Chosen(Key(c.state)) \in Candidates
  BY <1>1, ChosenIsOfItsLine DEF Of
<1>3. QED
  BY <1>1, <1>2, CandidatesAreSeen

LEMMA MergedIsTold ==
    ASSUME refs \in Seq(Followed), NEW state \in Merge
    PROVE  \E i \in Answered : \E g \in Plays(refs[i]) :
              /\ InWindow(g, RowAt(i, g), asked)
              /\ state.game = g /\ Tells(state, RowAt(i, g))
<1>1. PICK i \in Answered : \E g \in Plays(refs[i]) :
          /\ InWindow(g, RowAt(i, g), asked)
          /\ state = ScoreState(refs[i], g, RowAt(i, g), asked)
  BY MergedIsSeen DEF Seen
<1>2. PICK g \in Plays(refs[i]) :
          /\ InWindow(g, RowAt(i, g), asked)
          /\ state = ScoreState(refs[i], g, RowAt(i, g), asked)
  BY <1>1
<1>3. QED
  BY <1>2, ScoreStateTells

(* A line is on the board once. *)
LEMMA MergedOnce ==
    ASSUME refs \in Seq(Followed), NEW state \in Merge
    PROVE  state = Chosen(Key(state)).state
<1>1. PICK c \in Candidates : state = Chosen(Key(c.state)).state
  BY DEF Merge
<1>2. Key(state) = Key(c.state)
  BY <1>1, ChosenIsOfItsLine DEF Of
<1>3. QED
  BY <1>1, <1>2

(* Whatever a page tells of a game in the window, its line is there. *)
LEMMA SeenIsMerged ==
    ASSUME refs \in Seq(Followed), NEW i \in Answered, NEW g \in Plays(refs[i]),
           InWindow(g, RowAt(i, g), asked)
    PROVE  \E state \in Merge :
              /\ Key(state) = Key(ScoreState(refs[i], g, RowAt(i, g), asked))
              /\ RowAt(i, g).stage = "live" => state.status = "in_progress"
<1> DEFINE told == ScoreState(refs[i], g, RowAt(i, g), asked)
           line == Chosen(Key(told)).state
<1>1. PICK c \in Candidates : c.state = told
  BY SeenAreCandidates
<1>2. /\ Chosen(Key(told)) \in Of(Key(told))
      /\ LiveOf(Key(told)) # {} => Chosen(Key(told)) \in LiveOf(Key(told))
  BY <1>1, ChosenIsOfItsLine
<1>3. line \in Merge
  BY <1>1 DEF Merge
<1>4. Key(line) = Key(told)
  BY <1>2 DEF Of
<1>5. ASSUME RowAt(i, g).stage = "live"
      PROVE  line.status = "in_progress"
  <2>1. told.status = "in_progress"
    BY <1>5, LiveIsInProgress DEF ScoreState
  <2>2. c \in LiveOf(Key(told))
    BY <1>1, <2>1 DEF LiveOf, Of
  <2>3. QED
    BY <1>2, <2>2 DEF LiveOf
<1>6. QED
  BY <1>3, <1>4, <1>5

(* The envelope is as old as the oldest page, and fresh if all pages are. *)
LEMMA FetchedAtIsOldest ==
    ASSUME refs \in Seq(Followed), asked \in Nat,
           \A i \in Answered : results[refs[i]].page.at \in Nat
    PROVE  /\ FetchedAt \in {asked} \cup {results[refs[i]].page.at : i \in Answered}
           /\ \A i \in Answered : FetchedAt <= results[refs[i]].page.at
<1> DEFINE ats == {asked} \cup {results[refs[i]].page.at : i \in Answered}
<1>1. ats \subseteq Nat /\ ats # {}
  OBVIOUS
<1>2. \E x \in ats : \A y \in ats : x <= y
  BY <1>1, LeastExists
<1>3. FetchedAt \in ats /\ \A y \in ats : FetchedAt <= y
  BY <1>2 DEF FetchedAt, Min
<1>4. QED
  BY <1>3

LEMMA FreshIfAllAre ==
    ASSUME refs \in Seq(Followed)
    PROVE  /\ CacheState \in CacheStates
           /\ CacheState = "fresh" => \A i \in Answered : results[refs[i]].state = "fresh"
<1> DEFINE others == {i \in Answered : results[refs[i]].state # "fresh"}
<1>1. CASE others = {}
  BY <1>1 DEF CacheState, CacheStates
<1>2. CASE others # {}
  <2>1. others \subseteq Nat /\ Len(refs) \in Nat /\ \A x \in others : x <= Len(refs)
    BY DEF Answered
  <2>2. \E x \in others : \A y \in others : y <= x
    BY <1>2, <2>1, GreatestExists
  <2>3. Max(others) \in others
    BY <2>1, <2>2 DEF Max
  <2>4. CacheState = results[refs[Max(others)]].state
    BY <1>2 DEF CacheState
  <2>5. QED
    BY <2>3, <2>4 DEF Answered
<1>3. QED
  BY <1>1, <1>2

-----------------------------------------------------------------------------
(* The invariant *)

(* A page of a team: where it differs from the site, the site has changed.  *)
Honest(t, pg) ==
    /\ pg \in [at : 0..MaxTime, games : [Plays(t) -> Truths]]
    /\ pg.at <= clock
    /\ \A g \in Plays(t) : pg.games[g] = game[g] \/ pg.at <= changed[g]

SiteIsTyped ==
    /\ clock \in 0..MaxTime
    /\ game \in [Games -> Truths]
    /\ changed \in [Games -> 0..MaxTime] /\ \A g \in Games : changed[g] <= clock
    /\ news \in 0..MaxNews

PagesAreHonest ==
    /\ page \in [Followed -> Pages \cup {NoPage}]
    /\ \A t \in Followed : page[t] # NoPage => Honest(t, page[t])

(* What a call has returned is a page, and a fetched one was fetched since. *)
ResultIsHonest(t, result) ==
    /\ result \in [state : CacheStates \cup {"none", "fetching", "failed"},
                   page : Pages \cup {NoPage}]
    /\ result.state \in CacheStates => Honest(t, result.page)
    /\ result.state = "fresh" => asked <= result.page.at

ResultsAreHonest ==
    /\ asked \in 0..MaxTime /\ asked <= clock
    /\ refs \in Scopes \cup {<<>>}
    /\ DOMAIN results = Followed /\ results = [t \in Followed |-> results[t]]
    /\ \A t \in Followed : ResultIsHonest(t, results[t])

(* The board is the merge of the results, which do not change under it. *)
BoardIsMerged ==
    /\ pc \in {"idle", "gathering", "answered"}
    /\ pc # "answered" => board = NoBoard
    /\ pc = "answered" =>
          /\ board = [states |-> Merge, cache_state |-> CacheState, fetched_at |-> FetchedAt]
          /\ \A t \in Followed : results[t] # Fetching

IInv == SiteIsTyped /\ PagesAreHonest /\ ResultsAreHonest /\ BoardIsMerged

LEMMA Bounds ==
    /\ 0 \in 0..MaxTime /\ 0 \in 0..MaxNews /\ 0 \in Scores
    /\ MaxTime \in Nat /\ MaxNews \in Nat /\ Start \in [Games -> Nat]
  BY ScoreboardAssumption DEF Scores

LEMMA HonestIsPage ==
    ASSUME NEW t \in Followed, NEW pg, Honest(t, pg)
    PROVE  pg \in Pages
  BY DEF Honest, Pages

LEMMA PageNowIsHonest ==
    ASSUME SiteIsTyped, NEW t \in Followed
    PROVE  Honest(t, PageNow(t)) /\ PageNow(t).at = clock
  BY DEF SiteIsTyped, Honest, PageNow, Plays

LEMMA InitIInv == Init => IInv
<1> SUFFICES ASSUME Init
             PROVE  IInv
  OBVIOUS
<1>1. SiteIsTyped
  BY Bounds DEF Init, SiteIsTyped, Truths, Stages
<1>2. PagesAreHonest
  BY DEF Init, PagesAreHonest
<1>3. ResultsAreHonest
  BY Bounds DEF Init, ResultsAreHonest, ResultIsHonest, NoResult, CacheStates
<1>4. BoardIsMerged
  BY DEF Init, BoardIsMerged
<1>5. QED
  BY <1>1, <1>2, <1>3, <1>4 DEF IInv

(* A page stays honest: what it tells of a game can only become old. *)
LEMMA HonestForLonger ==
    ASSUME SiteIsTyped, NEW t, NEW pg, Honest(t, pg), clock' \in 0..MaxTime, clock <= clock',
           \A g \in Games : (game'[g] = game[g] /\ changed'[g] = changed[g]) \/ changed'[g] = clock
    PROVE  Honest(t, pg)'
<1>1. pg.at \in Nat /\ pg.at <= clock /\ clock \in Nat /\ clock' \in Nat
  BY Bounds DEF SiteIsTyped, Honest
<1>2. \A g \in Plays(t) : pg.games[g] = game'[g] \/ pg.at <= changed'[g]
  BY <1>1 DEF Honest, Plays
<1>3. QED
  BY <1>1, <1>2 DEF Honest

(* The merge is a matter of the results alone. *)
LEMMA MergeOfTheSame ==
    ASSUME UNCHANGED <<refs, asked, results>>
    PROVE  Merge' = Merge /\ CacheState' = CacheState /\ FetchedAt' = FetchedAt
  BY DEF Merge, Chosen, Of, LiveOf, Candidates, Answered, RowAt, CacheState, FetchedAt

(* Time and the site go on beside the pages, the calls and the board. *)
LEMMA SiteStep ==
    ASSUME IInv, SiteIsTyped', clock <= clock',
           \A g \in Games : (game'[g] = game[g] /\ changed'[g] = changed[g]) \/ changed'[g] = clock,
           UNCHANGED <<page, pc, refs, asked, results, board>>
    PROVE  IInv'
<1>1. clock' \in 0..MaxTime
  BY DEF SiteIsTyped
<1>2. \A t, pg : Honest(t, pg) => Honest(t, pg)'
  BY <1>1, HonestForLonger DEF IInv
<1>3. PagesAreHonest'
  BY <1>2 DEF IInv, PagesAreHonest
<1>4. ResultsAreHonest'
  <2>1. asked' <= clock'
    BY <1>1, Bounds DEF IInv, SiteIsTyped, ResultsAreHonest
  <2>2. QED
    BY <1>2, <2>1 DEF IInv, ResultsAreHonest, ResultIsHonest
<1>5. BoardIsMerged'
  <2>1. /\ Merge' = Merge /\ CacheState' = CacheState /\ FetchedAt' = FetchedAt
    BY MergeOfTheSame
  <2>2. QED
    BY <2>1 DEF IInv, BoardIsMerged
<1>6. QED
  BY <1>3, <1>4, <1>5 DEF IInv

LEMMA TickIInv ==
    ASSUME IInv, Tick
    PROVE  IInv'
<1>1. clock \in Nat /\ clock' = clock + 1 /\ clock' \in 0..MaxTime
  BY Bounds DEF Tick, IInv, SiteIsTyped
<1>2. SiteIsTyped' /\ clock <= clock'
  BY <1>1 DEF Tick, truth, IInv, SiteIsTyped
<1>3. QED
  BY <1>2, SiteStep DEF Tick, truth

LEMMA BecomesIInv ==
    ASSUME IInv, NEW g \in Games, NEW row \in Truths, Becomes(g, row)
    PROVE  IInv'
<1>1. /\ clock' = clock /\ clock \in Nat /\ news' \in 0..MaxNews
      /\ game' \in [Games -> Truths] /\ changed' \in [Games -> 0..MaxTime]
      /\ \A h \in Games : (game'[h] = game[h] /\ changed'[h] = changed[h]) \/ changed'[h] = clock
  BY Bounds DEF Becomes, IInv, SiteIsTyped
<1>2. SiteIsTyped'
  BY <1>1 DEF IInv, SiteIsTyped
<1>3. QED
  BY <1>1, <1>2, SiteStep DEF Becomes

LEMMA SiteIInv ==
    ASSUME IInv, NEW g \in Games, Kickoff(g) \/ Point(g) \/ Report(g) \/ CallOff(g)
    PROVE  IInv'
<1>1. game[g] \in Truths
  BY DEF IInv, SiteIsTyped
<1>2. CASE Kickoff(g) \/ CallOff(g)
  BY <1>1, <1>2, BecomesIInv DEF Kickoff, CallOff, Truths, Stages
<1>3. CASE Point(g)
  <2>1. \A n \in Scores : n < MaxScore => n + 1 \in Scores
    BY ScoreboardAssumption DEF Scores
  <2>2. game[g].home \in Scores /\ game[g].away \in Scores
    BY <1>1 DEF Truths
  <2>3. game[g].home < MaxScore => [game[g] EXCEPT !.home = @ + 1] \in Truths
    BY <1>1, <2>1, <2>2 DEF Truths
  <2>4. game[g].away < MaxScore => [game[g] EXCEPT !.away = @ + 1] \in Truths
    BY <1>1, <2>1, <2>2 DEF Truths
  <2>5. QED
    BY <1>3, <2>3, <2>4, BecomesIInv DEF Point
<1>4. CASE Report(g)
  BY <1>4, BecomesIInv DEF Report, Truths, Stages
<1>5. QED
  BY <1>2, <1>3, <1>4

(* While nothing is answered there is no board to disturb. *)
LEMMA RefreshIInv ==
    ASSUME IInv, NEW t \in Followed, Refresh(t)
    PROVE  IInv'
<1>1. Honest(t, PageNow(t)) /\ PageNow(t) \in Pages
  BY PageNowIsHonest, HonestIsPage DEF IInv
<1>2. SiteIsTyped' /\ \A u, pg : Honest(u, pg) => Honest(u, pg)'
  BY DEF Refresh, truth, IInv, SiteIsTyped, Honest
<1>3. PagesAreHonest'
  BY <1>1, <1>2 DEF Refresh, IInv, PagesAreHonest
<1>4. ResultsAreHonest'
  BY <1>2 DEF Refresh, truth, IInv, ResultsAreHonest, ResultIsHonest
<1>5. BoardIsMerged'
  <2>1. /\ Merge' = Merge /\ CacheState' = CacheState /\ FetchedAt' = FetchedAt
    BY MergeOfTheSame DEF Refresh
  <2>2. QED
    BY <2>1 DEF Refresh, IInv, BoardIsMerged
<1>6. QED
  BY <1>2, <1>3, <1>4, <1>5 DEF IInv

LEMMA NoResultIsHonest ==
    ASSUME NEW t, NEW result, result = NoResult
    PROVE  ResultIsHonest(t, result)'
  BY DEF ResultIsHonest, NoResult, CacheStates

(* A call begins with what the cache has, and asks for what it has not. *)
LEMMA BegunIsHonest ==
    ASSUME IInv, NEW t \in Followed, NEW result, result = Begun(t),
           \A pg : Honest(t, pg) => Honest(t, pg)'
    PROVE  ResultIsHonest(t, result)'
<1>1. CASE page[t] = NoPage
  BY <1>1 DEF Begun, ResultIsHonest, Fetching, CacheStates
<1>2. CASE page[t] # NoPage
  <2>1. Honest(t, page[t]) /\ page[t] \in Pages
    BY <1>2, HonestIsPage DEF IInv, PagesAreHonest
  <2>2. page[t].at \in Int /\ clock \in Int /\ Ttl \in Int
    BY <2>1, ScoreboardAssumption DEF IInv, Honest, SiteIsTyped
  <2>3. clock - page[t].at <= Ttl \/ clock - page[t].at > Ttl
    BY <2>2
  <2>4. \/ result = [state |-> "cached", page |-> page[t]]
        \/ result = [state |-> "stale", page |-> page[t]]
    BY <1>2, <2>3 DEF Begun
  <2>5. QED
    BY <2>1, <2>4 DEF ResultIsHonest, CacheStates
<1>3. QED
  BY <1>1, <1>2

LEMMA AskIInv ==
    ASSUME IInv, Ask
    PROVE  IInv'
<1>1. /\ pc = "idle" /\ pc' = "gathering" /\ refs' \in Scopes /\ asked' = clock
      /\ UNCHANGED <<clock, truth, page, board>>
  BY DEF Ask
<1>2. SiteIsTyped' /\ \A u, pg : Honest(u, pg) => Honest(u, pg)'
  BY <1>1 DEF truth, IInv, SiteIsTyped, Honest
<1>3. PagesAreHonest'
  BY <1>1, <1>2 DEF IInv, PagesAreHonest
<1>4. ASSUME NEW t \in Followed, NEW result, result = results'[t]
      PROVE  ResultIsHonest(t, result)'
  <2>1. result \in {Begun(t), NoResult}
    BY <1>4 DEF Ask
  <2>2. CASE result = Begun(t)
    BY <1>2, <2>2, BegunIsHonest
  <2>3. CASE result = NoResult
    BY <2>3, NoResultIsHonest
  <2>4. QED
    BY <2>1, <2>2, <2>3
<1>5. DOMAIN results' = Followed /\ results' = [t \in Followed |-> results'[t]]
  BY DEF Ask
<1>6. ResultsAreHonest'
  <2>1. \A t \in Followed : ResultIsHonest(t, results[t])'
    BY <1>4 DEF ResultIsHonest
  <2>2. QED
    BY <1>1, <1>2, <1>5, <2>1, Bounds DEF ResultsAreHonest, SiteIsTyped, IInv
<1>7. BoardIsMerged'
  BY <1>1 DEF IInv, BoardIsMerged
<1>8. QED
  BY <1>2, <1>3, <1>6, <1>7 DEF IInv

(* A call returns: while one is under way there is no answer yet. *)
LEMMA ReturnsIInv ==
    ASSUME IInv, NEW t \in Followed, NEW state, NEW answer, Returns(t, state, answer),
           page' = page \/ page' = [page EXCEPT ![t] = PageNow(t)],
           ResultIsHonest(t, [state |-> state, page |-> answer])
    PROVE  IInv'
<1>1. /\ results[t] = Fetching /\ UNCHANGED <<clock, truth, pc, refs, asked, board>>
      /\ results' = [results EXCEPT ![t] = [state |-> state, page |-> answer]]
  BY DEF Returns
<1>2. SiteIsTyped' /\ \A u, pg : Honest(u, pg) => Honest(u, pg)'
  BY <1>1 DEF truth, IInv, SiteIsTyped, Honest
<1>3. PagesAreHonest'
  <2>1. Honest(t, PageNow(t)) /\ PageNow(t) \in Pages
    BY PageNowIsHonest, HonestIsPage DEF IInv
  <2>2. QED
    BY <1>2, <2>1 DEF IInv, PagesAreHonest
<1>4. \A u, r : ResultIsHonest(u, r) => ResultIsHonest(u, r)'
  BY <1>1, <1>2 DEF ResultIsHonest
<1>5. ResultsAreHonest'
  BY <1>1, <1>4 DEF IInv, ResultsAreHonest, truth
<1>6. BoardIsMerged'
  BY <1>1 DEF IInv, BoardIsMerged
<1>7. QED
  BY <1>2, <1>3, <1>5, <1>6 DEF IInv

LEMMA CallIInv ==
    ASSUME IInv, NEW t \in Followed, Fetched(t) \/ LastKnownGood(t) \/ Raises(t)
    PROVE  IInv'
<1>1. CASE Fetched(t)
  <2>1. Honest(t, PageNow(t)) /\ PageNow(t).at = clock /\ PageNow(t) \in Pages
    BY PageNowIsHonest, HonestIsPage DEF IInv
  <2>2. ResultIsHonest(t, [state |-> "fresh", page |-> PageNow(t)])
    BY <2>1 DEF ResultIsHonest, CacheStates, IInv, ResultsAreHonest
  <2>3. QED
    BY <1>1, <2>2, ReturnsIInv DEF Fetched
<1>2. CASE LastKnownGood(t)
  <2>1. Honest(t, page[t]) /\ page[t] \in Pages
    BY <1>2, HonestIsPage DEF LastKnownGood, IInv, PagesAreHonest
  <2>2. ResultIsHonest(t, [state |-> "last_known_good", page |-> page[t]])
    BY <2>1 DEF ResultIsHonest, CacheStates
  <2>3. QED
    BY <1>2, <2>2, ReturnsIInv DEF LastKnownGood
<1>3. CASE Raises(t)
  <2>1. ResultIsHonest(t, [state |-> "failed", page |-> NoPage])
    BY DEF ResultIsHonest, CacheStates
  <2>2. QED
    BY <1>3, <2>1, ReturnsIInv DEF Raises
<1>4. QED
  BY <1>1, <1>2, <1>3

LEMMA AnswerIInv ==
    ASSUME IInv, Answer
    PROVE  IInv'
<1>1. SiteIsTyped' /\ \A u, pg : Honest(u, pg) => Honest(u, pg)'
  BY DEF Answer, truth, IInv, SiteIsTyped, Honest
<1>2. PagesAreHonest'
  BY <1>1 DEF Answer, IInv, PagesAreHonest
<1>3. ResultsAreHonest'
  BY <1>1 DEF Answer, truth, IInv, ResultsAreHonest, ResultIsHonest
<1>4. BoardIsMerged'
  <2>1. /\ Merge' = Merge /\ CacheState' = CacheState /\ FetchedAt' = FetchedAt
    BY MergeOfTheSame DEF Answer
  <2>2. QED
    BY <2>1 DEF Answer, IInv, BoardIsMerged
<1>5. QED
  BY <1>1, <1>2, <1>3, <1>4 DEF IInv

LEMMA ReturnIInv ==
    ASSUME IInv, Return
    PROVE  IInv'
<1>1. SiteIsTyped' /\ \A u, pg : Honest(u, pg) => Honest(u, pg)'
  BY DEF Return, truth, IInv, SiteIsTyped, Honest
<1>2. PagesAreHonest'
  BY <1>1 DEF Return, IInv, PagesAreHonest
<1>3. ResultsAreHonest'
  <2>1. 0 <= clock
    BY Bounds DEF IInv, SiteIsTyped
  <2>2. QED
    <3>1. /\ asked' = 0 /\ refs' = <<>> /\ clock' = clock
          /\ results' = [t \in Followed |-> NoResult]
      BY DEF Return
    <3>2. \A t \in Followed : ResultIsHonest(t, results[t])'
      BY <3>1, NoResultIsHonest DEF ResultIsHonest
    <3>3. QED
      BY <2>1, <3>1, <3>2, Bounds DEF ResultsAreHonest
<1>4. BoardIsMerged'
  BY DEF Return, BoardIsMerged
<1>5. QED
  BY <1>1, <1>2, <1>3, <1>4 DEF IInv

(* Every step keeps IInv. *)
LEMMA NextIInv == IInv /\ [Next]_vars => IInv'
<1> SUFFICES ASSUME IInv, [Next]_vars
             PROVE  IInv'
  OBVIOUS
<1>1. CASE UNCHANGED vars
  <2>1. SiteIsTyped' /\ \A u, pg : Honest(u, pg) => Honest(u, pg)'
    BY <1>1 DEF vars, truth, IInv, SiteIsTyped, Honest
  <2>2. PagesAreHonest' /\ ResultsAreHonest'
    BY <1>1, <2>1 DEF vars, IInv, PagesAreHonest, ResultsAreHonest, ResultIsHonest
  <2>3. /\ Merge' = Merge /\ CacheState' = CacheState /\ FetchedAt' = FetchedAt
    BY <1>1, MergeOfTheSame DEF vars
  <2>4. BoardIsMerged'
    BY <1>1, <2>3 DEF vars, IInv, BoardIsMerged
  <2>5. QED
    BY <2>1, <2>2, <2>4 DEF IInv
<1>2. QED
  BY <1>1, TickIInv, SiteIInv, RefreshIInv, AskIInv, CallIInv, AnswerIInv, ReturnIInv DEF Next

-----------------------------------------------------------------------------
(* The properties *)

(* An answered board, its pages and its scope. *)
LEMMA AnsweredParts ==
    ASSUME IInv, pc = "answered"
    PROVE  /\ board = [states |-> Merge, cache_state |-> CacheState, fetched_at |-> FetchedAt]
           /\ refs \in Seq(Followed) /\ asked \in Nat
           /\ \A i \in Answered :
                 /\ refs[i] \in Followed
                 /\ Honest(refs[i], results[refs[i]].page)
                 /\ results[refs[i]].page.at \in Nat
                 /\ results[refs[i]].state = "fresh" => asked <= results[refs[i]].page.at
           /\ \A g \in Games : changed[g] \in Nat
<1>1. refs \in Seq(Followed) /\ asked \in Nat
  BY ScopesAreFollowed, Bounds DEF IInv, ResultsAreHonest
<1>2. ASSUME NEW i \in Answered
      PROVE  /\ refs[i] \in Followed
             /\ Honest(refs[i], results[refs[i]].page)
             /\ results[refs[i]].page.at \in Nat
             /\ results[refs[i]].state = "fresh" => asked <= results[refs[i]].page.at
  <2>1. refs[i] \in Followed /\ results[refs[i]].state \in CacheStates
    BY <1>1 DEF Answered
  <2>2. ResultIsHonest(refs[i], results[refs[i]])
    BY <2>1 DEF IInv, ResultsAreHonest
  <2>3. QED
    BY <2>1, <2>2, Bounds DEF ResultIsHonest, Honest
<1>3. QED
  BY <1>1, <1>2, Bounds DEF IInv, BoardIsMerged, SiteIsTyped

(* A row that is told is the truth, or is of a game that has changed since. *)
LEMMA ToldOrOld ==
    ASSUME IInv, pc = "answered", NEW i \in Answered, NEW g \in Plays(refs[i])
    PROVE  RowAt(i, g) = game[g] \/ results[refs[i]].page.at <= changed[g]
  BY AnsweredParts DEF Honest, RowAt

(***************************************************************************)
(* Every variable of Scoreboard holds a value of its type.                  *)
(***************************************************************************)
THEOREM TypeCorrect == Spec => []TypeOK
<1>1. ASSUME IInv
      PROVE  TypeOK
  <2>1. board \in [states : SUBSET Entries, cache_state : CacheStates, fetched_at : 0..MaxTime]
    <3>1. CASE pc # "answered"
      BY <1>1, <3>1, Bounds DEF IInv, BoardIsMerged, NoBoard, CacheStates
    <3>2. CASE pc = "answered"
      <4>1. ASSUME NEW state \in Merge
            PROVE  state \in Entries
        <5>0. PICK i \in Answered :
                  \E g \in Plays(refs[i]) : state = ScoreState(refs[i], g, RowAt(i, g), asked)
          BY <1>1, <3>2, AnsweredParts, MergedIsSeen DEF Seen
        <5>1. PICK g \in Plays(refs[i]) : state = ScoreState(refs[i], g, RowAt(i, g), asked)
          BY <5>0
        <5>2. refs[i] \in Teams /\ RowAt(i, g) \in Truths
          BY <1>1, <3>2, AnsweredParts, FollowedAreTeams DEF Honest, RowAt
        <5>3. QED
          BY <5>1, <5>2, ScoreStateIsEntry
      <4>2. CacheState \in CacheStates
        BY <1>1, <3>2, AnsweredParts, FreshIfAllAre
      <4>3. FetchedAt \in 0..MaxTime
        <5>1. FetchedAt \in {asked} \cup {results[refs[i]].page.at : i \in Answered}
          BY <1>1, <3>2, AnsweredParts, FetchedAtIsOldest
        <5>2. \A i \in Answered : results[refs[i]].page.at \in 0..MaxTime
          BY <1>1, <3>2, AnsweredParts DEF Honest
        <5>3. QED
          BY <1>1, <5>1, <5>2 DEF IInv, ResultsAreHonest
      <4>4. QED
        BY <1>1, <3>2, <4>1, <4>2, <4>3, AnsweredParts
    <3>3. QED
      BY <3>1, <3>2
  <2>2. results \in [Followed -> [state : CacheStates \cup {"none", "fetching", "failed"},
                                  page : Pages \cup {NoPage}]]
    BY <1>1 DEF IInv, ResultsAreHonest, ResultIsHonest
  <2>3. QED
    BY <1>1, <2>1, <2>2
       DEF TypeOK, IInv, SiteIsTyped, PagesAreHonest, ResultsAreHonest, BoardIsMerged
<1>2. QED
  BY InitIInv, NextIInv, <1>1, PTL DEF Spec

(***************************************************************************)
(* fetched_at is honest for every game of the board, whatever the pages it  *)
(* is merged of: a game it tells otherwise than the site does has changed   *)
(* since (get_live_and_upcoming_games, build_score_state).                  *)
(***************************************************************************)
THEOREM TheAgeIsHonest == Spec => []AgeIsHonest
<1>1. ASSUME IInv, NEW state \in board.states
      PROVE  Tells(state, game[state.game]) \/ board.fetched_at <= changed[state.game]
  <2>1. pc = "answered"
    BY <1>1 DEF IInv, BoardIsMerged, NoBoard
  <2>2. PICK i \in Answered : \E g \in Plays(refs[i]) :
            state.game = g /\ Tells(state, RowAt(i, g))
    BY <1>1, <2>1, AnsweredParts, MergedIsTold
  <2>3. PICK g \in Plays(refs[i]) : state.game = g /\ Tells(state, RowAt(i, g))
    BY <2>2
  <2>4. board.fetched_at <= results[refs[i]].page.at /\ board.fetched_at \in Nat
    BY <1>1, <2>1, AnsweredParts, FetchedAtIsOldest
  <2>5. CASE RowAt(i, g) = game[g]
    BY <2>3, <2>5
  <2>6. CASE results[refs[i]].page.at <= changed[g]
    BY <1>1, <2>1, <2>3, <2>4, <2>6, AnsweredParts DEF Plays
  <2>7. QED
    BY <1>1, <2>1, <2>5, <2>6, ToldOrOld
<1>2. IInv => AgeIsHonest
  BY <1>1 DEF AgeIsHonest
<1>3. QED
  BY InitIInv, NextIInv, <1>2, PTL DEF Spec

(***************************************************************************)
(* A board that is called fresh is the truth of every game that did not     *)
(* change after it was asked for: in the window it is there as it is, and   *)
(* outside of it no page puts it there.                                     *)
(***************************************************************************)
THEOREM TheFreshBoardIsTheTruth == Spec => []FreshBoardIsTheTruth
<1>1. ASSUME IInv, pc = "answered", board.cache_state = "fresh",
             NEW i \in Answered, NEW g \in Plays(refs[i]), changed[g] < asked
      PROVE  IF InWindow(g, game[g], asked)
             THEN \E state \in board.states : state.game = g /\ Tells(state, game[g])
             ELSE \A state \in board.states : state.game # g
  <2>1. board.states = Merge /\ CacheState = "fresh" /\ refs \in Seq(Followed)
    BY <1>1, AnsweredParts
  <2>2. ASSUME NEW j \in Answered, g \in Plays(refs[j])
        PROVE  RowAt(j, g) = game[g]
    <3>1. results[refs[j]].state = "fresh"
      BY <2>1, FreshIfAllAre
    <3>2. asked <= results[refs[j]].page.at
      BY <1>1, <3>1, AnsweredParts
    <3>3. ~(results[refs[j]].page.at <= changed[g])
      <4>1. asked \in Nat /\ results[refs[j]].page.at \in Nat /\ changed[g] \in Nat
        BY <1>1, AnsweredParts DEF Plays
      <4>2. QED
        BY <1>1, <3>2, <4>1
    <3>4. QED
      BY <1>1, <2>2, <3>3, ToldOrOld
  <2>3. ASSUME NEW state \in Merge, state.game = g
        PROVE  InWindow(g, game[g], asked) /\ Tells(state, game[g])
    <3>1. PICK j \in Answered : \E h \in Plays(refs[j]) :
              /\ InWindow(h, RowAt(j, h), asked)
              /\ state.game = h /\ Tells(state, RowAt(j, h))
      BY <2>1, MergedIsTold
    <3>2. /\ g \in Plays(refs[j]) /\ InWindow(g, RowAt(j, g), asked)
          /\ Tells(state, RowAt(j, g))
      BY <2>3, <3>1
    <3>3. QED
      BY <2>2, <3>2
  <2>4. CASE InWindow(g, game[g], asked)
    <3>1. InWindow(g, RowAt(i, g), asked)
      BY <2>2, <2>4
    <3>2. PICK state \in Merge : Key(state) = Key(ScoreState(refs[i], g, RowAt(i, g), asked))
      BY <2>1, <3>1, SeenIsMerged
    <3>3. state.game = g
      BY <3>2, ScoreStateTells DEF Key
    <3>4. QED
      BY <2>1, <2>3, <2>4, <3>3
  <2>5. CASE ~InWindow(g, game[g], asked)
    BY <2>1, <2>3, <2>5
  <2>6. QED
    BY <2>4, <2>5
<1>2. IInv => FreshBoardIsTheTruth
  BY <1>1 DEF FreshBoardIsTheTruth
<1>3. QED
  BY InitIInv, NextIInv, <1>2, PTL DEF Spec

(***************************************************************************)
(* A game that any schedule has in progress is on the board once, and in    *)
(* progress.  Without contest ids the sides and the start are the key, and  *)
(* two schedules name the sides of a neutral game in different orders: the  *)
(* theorem is for ids, or for no game on neutral ground.                    *)
(***************************************************************************)
THEOREM ALiveGameIsOneLine ==
    ASSUME HasIds \/ Neutral = {}
    PROVE  Spec => []NothingLiveIsHidden
<1>1. ASSUME IInv, pc = "answered",
             NEW i \in Answered, NEW g \in Plays(refs[i]), RowAt(i, g).stage = "live",
             NEW lines, lines = {state \in board.states : state.game = g}
      PROVE  Cardinality(lines) = 1 /\ \A line \in lines : line.status = "in_progress"
  <2>1. board.states = Merge /\ refs \in Seq(Followed)
    BY <1>1, AnsweredParts
  <2>2. InWindow(g, RowAt(i, g), asked)
    BY <1>1, LiveIsInProgress
  <2>3. PICK state \in Merge :
            /\ Key(state) = Key(ScoreState(refs[i], g, RowAt(i, g), asked))
            /\ state.status = "in_progress"
    BY <1>1, <2>1, <2>2, SeenIsMerged
  <2>4. state.game = g
    BY <2>3, ScoreStateTells DEF Key
  <2>5. ASSUME NEW other \in Merge, other.game = g
        PROVE  Key(other) = <<g, IF HasIds THEN NoTeam ELSE HomeTeam[g]>>
    <3>1. \E row : Tells(other, row)
      BY <2>1, MergedIsTold
    <3>2. g \notin Neutral => other.home = HomeTeam[g]
      BY <2>5, <3>1 DEF Tells
    <3>3. QED
      BY <2>5, <3>2 DEF Key
  <2>6. lines = {state}
    <3>1. \A other \in Merge : other.game = g => Key(other) = Key(state)
      BY <2>4, <2>5
    <3>2. \A other \in Merge : other.game = g => other = state
      BY <2>1, <3>1, MergedOnce
    <3>3. QED
      BY <1>1, <2>1, <2>4, <3>2
  <2>7. QED
    BY <2>3, <2>6, FS_Singleton
<1>2. IInv => NothingLiveIsHidden
  BY <1>1 DEF NothingLiveIsHidden
<1>3. QED
  BY InitIInv, NextIInv, <1>2, PTL DEF Spec

-----------------------------------------------------------------------------
(* A finite order, as what comes before each of its members. *)

IsOrder(before, D) ==
    /\ before \in [D -> SUBSET D]
    /\ \A i \in D : i \notin before[i]
    /\ \A i, j \in D : j \in before[i] => before[j] \subseteq before[i]
    /\ \A i, j \in D : i # j => i \in before[j] \/ j \in before[i]

(* It arranges them in a row: Nth is a bijection that keeps the order. *)
LEMMA NthArranges ==
    ASSUME NEW D, IsFiniteSet(D), NEW before, IsOrder(before, D)
    PROVE  \E q \in Bijection(1..Cardinality(D), D) :
              /\ \A k \in 1..Cardinality(D) : q[k] = Nth(before, k)
              /\ \A k, l \in 1..Cardinality(D) : k < l <=> q[k] \in before[q[l]]
<1> DEFINE N == Cardinality(D)
           rank == [i \in D |-> Cardinality(before[i]) + 1]
           q == [k \in 1..N |-> Nth(before, k)]
<1>1. N \in Nat
  BY FS_CardinalityType
<1>2. ASSUME NEW i \in D
      PROVE  /\ before[i] \in SUBSET D /\ IsFiniteSet(before[i])
             /\ Cardinality(before[i]) \in 0..(N - 1)
  <2>1. before[i] \in SUBSET D /\ before[i] # D
    BY DEF IsOrder
  <2>2. IsFiniteSet(before[i]) /\ Cardinality(before[i]) <= N /\ Cardinality(before[i]) # N
    BY <2>1, FS_Subset
  <2>3. Cardinality(before[i]) \in Nat
    BY <2>2, FS_CardinalityType
  <2>4. QED
    BY <1>1, <2>1, <2>2, <2>3
<1>3. ASSUME NEW i \in D, NEW j \in D, j \in before[i]
      PROVE  rank[j] < rank[i]
  <2>1. before[j] \in SUBSET before[i] /\ before[j] # before[i]
    BY <1>3 DEF IsOrder
  <2>2. Cardinality(before[j]) <= Cardinality(before[i])
        /\ Cardinality(before[j]) # Cardinality(before[i])
    BY <1>2, <2>1, FS_Subset
  <2>3. QED
    BY <1>2, <2>2
<1>4. rank \in [D -> 1..N]
  BY <1>1, <1>2
<1>5. \A i, j \in D : rank[i] = rank[j] => i = j
  <2>1. SUFFICES ASSUME NEW i \in D, NEW j \in D, i # j
                 PROVE  rank[i] # rank[j]
    OBVIOUS
  <2>2. i \in before[j] \/ j \in before[i]
    BY <2>1 DEF IsOrder
  <2>3. rank[i] < rank[j] \/ rank[j] < rank[i]
    BY <1>3, <2>2
  <2>4. rank[i] \in Int /\ rank[j] \in Int
    BY <1>4
  <2>5. QED
    BY <2>3, <2>4
<1>6. rank \in Surjection(D, 1..N)
  <2>1. rank \in Injection(D, 1..N)
    BY <1>4, <1>5 DEF Injection, IsInjective
  <2>2. IsFiniteSet(1..N) /\ Cardinality(1..N) = N
    BY <1>1, FS_Interval
  <2>3. QED
    BY <2>1, <2>2, FS_Injection
<1>7. \A k \in 1..N : q[k] \in D /\ rank[q[k]] = k
  <2>1. SUFFICES ASSUME NEW k \in 1..N
                 PROVE  Nth(before, k) \in D /\ rank[Nth(before, k)] = k
    OBVIOUS
  <2>2. DOMAIN before = D
    BY DEF IsOrder
  <2>3. PICK i \in D : rank[i] = k
    BY <1>6 DEF Surjection
  <2>4. Cardinality(before[i]) = k - 1
    BY <1>2, <2>3
  <2>5. Nth(before, k) \in D /\ Cardinality(before[Nth(before, k)]) = k - 1
    BY <2>2, <2>4 DEF Nth
  <2>6. QED
    BY <2>5
<1> HIDE DEF q, rank
<1>8. q \in [1..N -> D]
  BY <1>7 DEF q
<1>9. \A k, l \in 1..N : q[k] = q[l] => k = l
  BY <1>7
<1>10. \A i \in D : \E k \in 1..N : q[k] = i
  BY <1>4, <1>5, <1>7
<1>11. q \in Bijection(1..N, D)
  BY <1>8, <1>9, <1>10 DEF Bijection, Injection, IsInjective, Surjection
<1>12. ASSUME NEW k \in 1..N, NEW l \in 1..N
       PROVE  k < l <=> q[k] \in before[q[l]]
  <2>1. q[k] \in D /\ q[l] \in D /\ rank[q[k]] = k /\ rank[q[l]] = l
    BY <1>7
  <2>2. q[k] \in before[q[l]] => k < l
    BY <1>3, <2>1
  <2>3. q[l] \in before[q[k]] => l < k
    BY <1>3, <2>1
  <2>4. k < l => q[k] # q[l] /\ q[l] \notin before[q[k]]
    BY <2>1, <2>3
  <2>5. QED
    BY <2>1, <2>2, <2>4 DEF IsOrder
<1>13. \A k \in 1..N : q[k] = Nth(before, k)
  BY DEF q
<1>14. QED
  BY <1>11, <1>12, <1>13

(* Numbers in their turn are in order. *)
LEMMA InTurnIsOrder ==
    ASSUME NEW places \in SUBSET Int
    PROVE  IsOrder(InTurn(places), places)
<1>1. InTurn(places) \in [places -> SUBSET places]
  BY DEF InTurn
<1>2. \A i \in places : i \in Int /\ InTurn(places)[i] = {j \in places : j < i}
  BY DEF InTurn
<1>3. ASSUME NEW i \in places, NEW j \in places, j < i
      PROVE  InTurn(places)[j] \subseteq InTurn(places)[i]
  <2>1. SUFFICES ASSUME NEW h \in places, h < j
                 PROVE  h < i
    BY <1>2
  <2>2. h \in Int /\ i \in Int /\ j \in Int
    BY <1>2
  <2>3. QED
    BY <1>3, <2>1, <2>2
<1>4. \A i, j \in places : i # j => i \in InTurn(places)[j] \/ j \in InTurn(places)[i]
  BY <1>2
<1>5. \A i \in places : i \notin InTurn(places)[i]
  BY <1>2
<1>6. \A i, j \in places : j \in InTurn(places)[i] => j < i
  BY <1>2
<1>7. QED
  BY <1>1, <1>3, <1>4, <1>5, <1>6 DEF IsOrder

-----------------------------------------------------------------------------
(* The parse and the sort *)

(* A schedule page. *)
IsPage(rows) == rows \in Seq(Rows) /\ Len(rows) <= MaxRows

LEMMA GamesAreFinite ==
    ASSUME NEW rows, IsPage(rows)
    PROVE  /\ GamesOf(rows) \in SUBSET (1..MaxRows) /\ IsFiniteSet(GamesOf(rows))
           /\ \A i \in GamesOf(rows) : i \in DOMAIN rows /\ rows[i] \in Rows
           /\ Cardinality(GamesOf(rows)) \in 0..MaxRows
<1>1. GamesOf(rows) \in SUBSET (1..MaxRows)
      /\ \A i \in GamesOf(rows) : i \in DOMAIN rows /\ rows[i] \in Rows
  BY SeasonAssumption DEF GamesOf, IsPage
<1>2. IsFiniteSet(1..MaxRows) /\ Cardinality(1..MaxRows) = MaxRows
  BY SeasonAssumption, FS_Interval
<1>3. IsFiniteSet(GamesOf(rows)) /\ Cardinality(GamesOf(rows)) <= MaxRows
  BY <1>1, <1>2, FS_Subset
<1>4. QED
  BY <1>1, <1>3, FS_CardinalityType, SeasonAssumption

(* A contest as it is parsed. *)
Read(rows, i) ==
    [id |-> i, day |-> rows[i].day, mark |-> rows[i].mark, week |-> NoWeek, before |-> NoRecord]

LEMMA ParsedItems ==
    ASSUME NEW rows, IsPage(rows)
    PROVE  LET N == Cardinality(GamesOf(rows))
           IN  /\ Parsed(rows) \in Seq(Contests) /\ Len(Parsed(rows)) = N
               /\ \E p \in Bijection(1..N, GamesOf(rows)) :
                     /\ \A k \in 1..N : Parsed(rows)[k] = Read(rows, p[k])
                     /\ \A k, l \in 1..N : k < l <=> p[k] < p[l]
<1> DEFINE D == GamesOf(rows)
           N == Cardinality(D)
<1>1. /\ D \in SUBSET (1..MaxRows) /\ IsFiniteSet(D) /\ N \in 0..MaxRows
      /\ \A i \in D : rows[i] \in Rows
  BY GamesAreFinite
<1>2. PICK p \in Bijection(1..N, D) :
          /\ \A k \in 1..N : p[k] = Nth(InTurn(D), k)
          /\ \A k, l \in 1..N : k < l <=> p[k] \in InTurn(D)[p[l]]
  <2>1. D \in SUBSET Int
    BY <1>1
  <2>2. IsOrder(InTurn(D), D)
    BY <2>1, InTurnIsOrder
  <2>3. QED
    BY <1>1, <2>2, NthArranges
<1>3. \A k \in 1..N : p[k] \in D
  BY DEF Bijection, Injection
<1>4. Parsed(rows) = [k \in 1..N |-> Read(rows, p[k])]
  <2>1. Parsed(rows) = [k \in 1..N |-> Read(rows, Nth(InTurn(D), k))]
    BY DEF Parsed, Read
  <2>2. QED
    BY <1>2, <2>1
<1>5. \A k, l \in 1..N : k < l <=> p[k] < p[l]
  BY <1>2, <1>3 DEF InTurn
<1>6. \A i \in D : Read(rows, i) \in Contests
  <2>1. SUFFICES ASSUME NEW i \in D
                 PROVE  Read(rows, i) \in Contests
    OBVIOUS
  <2>2. rows[i].day \in Days \cup {NoDay} /\ rows[i].mark \in Marks /\ i \in 0..MaxRows
    BY <1>1 DEF Rows
  <2>3. rows[i].day \in Nat \cup {NoDay} /\ rows[i].mark \in AllMarks
    BY <2>2, SeasonAssumption
  <2>4. QED
    BY <2>2, <2>3 DEF Read, Contests
<1>7. Parsed(rows) \in Seq(Contests) /\ Len(Parsed(rows)) = N
  BY <1>1, <1>3, <1>4, <1>6
<1>8. \A k \in 1..N : Parsed(rows)[k] = Read(rows, p[k])
  BY <1>4
<1>9. QED
  BY <1>5, <1>7, <1>8

LEMMA EarlierIsOrder ==
    ASSUME NEW cs \in Seq(Contests)
    PROVE  IsOrder(Earlier(cs), DOMAIN cs)
<1> DEFINE D == DOMAIN cs
           before(j, i) == Precedes(cs[j], cs[i]) \/ (~Precedes(cs[i], cs[j]) /\ j < i)
<1>1. \A i \in D : i \in Int /\ cs[i].day \in Nat \cup {NoDay}
  <2>1. \A i \in D : i \in Int /\ cs[i] \in Contests
    OBVIOUS
  <2>2. QED
    BY <2>1 DEF Contests
<1>2. \A i \in D : ~before(i, i)
  BY <1>1 DEF Precedes, NoDay
<1>3. \A i, j, h \in D : before(h, j) /\ before(j, i) => before(h, i)
  BY <1>1 DEF Precedes, NoDay
<1>4. \A i, j \in D : i # j => before(i, j) \/ before(j, i)
  BY <1>1 DEF Precedes, NoDay
<1>5. Earlier(cs) = [i \in D |-> {j \in D : before(j, i)}]
  BY DEF Earlier
<1> HIDE DEF before, D
<1>6. IsOrder(Earlier(cs), D)
  BY <1>2, <1>3, <1>4, <1>5 DEF IsOrder
<1>7. QED
  BY <1>6 DEF D

(* The sort is a bijection of the places. *)
LEMMA SortedItems ==
    ASSUME NEW cs \in Seq(Contests)
    PROVE  /\ SortedByStart(cs) \in Seq(Contests) /\ Len(SortedByStart(cs)) = Len(cs)
           /\ \E q \in Bijection(1..Len(cs), 1..Len(cs)) :
                 /\ \A k \in 1..Len(cs) : SortedByStart(cs)[k] = cs[q[k]]
                 /\ \A k, l \in 1..Len(cs) :
                       k < l <=> \/ Precedes(cs[q[k]], cs[q[l]])
                                 \/ ~Precedes(cs[q[l]], cs[q[k]]) /\ q[k] < q[l]
<1> DEFINE N == Len(cs)
<1>1. N \in Nat /\ DOMAIN cs = 1..N /\ IsFiniteSet(1..N) /\ Cardinality(1..N) = N
  <2>1. N \in Nat /\ DOMAIN cs = 1..N
    OBVIOUS
  <2>2. QED
    BY <2>1, FS_Interval
<1>2. PICK q \in Bijection(1..N, 1..N) :
          /\ \A k \in 1..N : q[k] = Nth(Earlier(cs), k)
          /\ \A k, l \in 1..N : k < l <=> q[k] \in Earlier(cs)[q[l]]
  <2>1. IsOrder(Earlier(cs), 1..N)
    BY <1>1, EarlierIsOrder
  <2>2. QED
    BY <1>1, <2>1, NthArranges
<1>3. \A k \in 1..N : q[k] \in 1..N
  BY DEF Bijection, Injection
<1>4. SortedByStart(cs) = [k \in 1..N |-> cs[q[k]]]
  BY <1>1, <1>2 DEF SortedByStart
<1>5. ASSUME NEW k \in 1..N, NEW l \in 1..N
      PROVE  k < l <=> \/ Precedes(cs[q[k]], cs[q[l]])
                       \/ ~Precedes(cs[q[l]], cs[q[k]]) /\ q[k] < q[l]
  <2>1. q[k] \in DOMAIN cs /\ q[l] \in DOMAIN cs
    BY <1>1, <1>3
  <2>2. k < l <=> q[k] \in Earlier(cs)[q[l]]
    BY <1>2
  <2>3. QED
    BY <2>1, <2>2 DEF Earlier
<1>6. \A k \in 1..N : cs[q[k]] \in Contests
  BY <1>1, <1>3
<1>7. SortedByStart(cs) \in Seq(Contests) /\ Len(SortedByStart(cs)) = N
  BY <1>1, <1>4, <1>6
<1>8. \A k \in 1..N : SortedByStart(cs)[k] = cs[q[k]]
  BY <1>4
<1>9. QED
  BY <1>2, <1>5, <1>7, <1>8

(* Composed, they take the games of the page in the order they are played. *)
LEMMA SortedTable ==
    ASSUME IsPage(table)
    PROVE  LET N == Cardinality(GamesOnPage)
               sorted == SortedByStart(Parsed(table))
           IN  /\ sorted \in Seq(Contests) /\ Len(sorted) = N
               /\ \E q \in Bijection(1..N, GamesOnPage) :
                     /\ \A k \in 1..N : sorted[k] = Read(table, q[k])
                     /\ \A k, l \in 1..N : k < l <=> q[k] \in PlayedBefore(q[l])
<1> DEFINE D == GamesOnPage
           N == Cardinality(D)
           parsed == Parsed(table)
           sorted == SortedByStart(parsed)
<1>0. D = GamesOf(table)
  BY DEF GamesOnPage
<1>1. parsed \in Seq(Contests) /\ Len(parsed) = N
  BY <1>0, ParsedItems
<1>2. PICK p \in Bijection(1..N, D) :
          /\ \A k \in 1..N : parsed[k] = Read(table, p[k])
          /\ \A k, l \in 1..N : k < l <=> p[k] < p[l]
  BY <1>0, ParsedItems
<1>3. sorted \in Seq(Contests) /\ Len(sorted) = N
  BY <1>1, SortedItems
<1>4. PICK r \in Bijection(1..N, 1..N) :
          /\ \A k \in 1..N : sorted[k] = parsed[r[k]]
          /\ \A k, l \in 1..N :
                k < l <=> \/ Precedes(parsed[r[k]], parsed[r[l]])
                          \/ ~Precedes(parsed[r[l]], parsed[r[k]]) /\ r[k] < r[l]
  BY <1>1, SortedItems
<1> DEFINE q == [k \in 1..N |-> p[r[k]]]
<1>5. /\ r \in [1..N -> 1..N] /\ p \in [1..N -> D]
      /\ \A k, l \in 1..N : r[k] = r[l] => k = l
      /\ \A k, l \in 1..N : p[k] = p[l] => k = l
      /\ \A k \in 1..N : \E l \in 1..N : r[l] = k
      /\ \A i \in D : \E l \in 1..N : p[l] = i
  BY DEF Bijection, Injection, IsInjective, Surjection
<1>6. q \in Bijection(1..N, D)
  <2>1. q \in [1..N -> D]
    BY <1>5
  <2>2. \A k, l \in 1..N : q[k] = q[l] => k = l
    BY <1>5
  <2>3. \A i \in D : \E k \in 1..N : q[k] = i
    BY <1>5
  <2>4. QED
    BY <2>1, <2>2, <2>3 DEF Bijection, Injection, IsInjective, Surjection
<1>7. \A k \in 1..N : sorted[k] = Read(table, q[k])
  BY <1>2, <1>4, <1>5
<1>8. ASSUME NEW k \in 1..N, NEW l \in 1..N
      PROVE  k < l <=> q[k] \in PlayedBefore(q[l])
  <2> DEFINE a == table[q[k]].day
             b == table[q[l]].day
  <2>1. q[k] \in D /\ q[l] \in D /\ q[k] \in Int /\ q[l] \in Int
        /\ a \in Nat \cup {NoDay} /\ b \in Nat \cup {NoDay}
    <3>1. q[k] \in D /\ q[l] \in D
      BY <1>5
    <3>2. table[q[k]] \in Rows /\ table[q[l]] \in Rows /\ q[k] \in Int /\ q[l] \in Int
      BY <1>0, <3>1, GamesAreFinite
    <3>3. QED
      BY <3>1, <3>2, SeasonAssumption DEF Rows
  <2>2. r[k] < r[l] <=> q[k] < q[l]
    BY <1>2, <1>5
  <2>3. parsed[r[k]].day = a /\ parsed[r[l]].day = b
    <3>1. parsed[r[k]] = Read(table, q[k]) /\ parsed[r[l]] = Read(table, q[l])
      BY <1>2, <1>5
    <3>2. QED
      BY <3>1 DEF Read
  <2>4. k < l <=> \/ a # NoDay /\ (b = NoDay \/ a < b)
                  \/ ~(b # NoDay /\ (a = NoDay \/ b < a)) /\ q[k] < q[l]
    BY <1>4, <2>2, <2>3 DEF Precedes
  <2>5. q[k] \in PlayedBefore(q[l]) <=>
            /\ q[k] # q[l]
            /\ \/ a # NoDay /\ (b = NoDay \/ a < b)
               \/ a = b /\ q[k] < q[l]
    BY <2>1 DEF PlayedBefore
  <2> HIDE DEF q, a, b
  <2>6. q[k] = q[l] => a = b
    BY DEF a, b
  <2>7. QED
    BY <2>1, <2>4, <2>5, <2>6 DEF NoDay
<1>9. QED
  BY <1>3, <1>6, <1>7, <1>8

-----------------------------------------------------------------------------
(* Records *)

(* Those that have ended correspond one for one, and have ended alike. *)
Correspond(cs, A, ds, B, f) ==
    /\ \A i \in A : cs[i].mark \in Results => f[i] \in B /\ ds[f[i]].mark = cs[i].mark
    /\ \A i, j \in A :
          cs[i].mark \in Results /\ cs[j].mark \in Results /\ f[i] = f[j] => i = j
    /\ \A j \in B : ds[j].mark \in Results => \E i \in A : cs[i].mark = ds[j].mark /\ f[i] = j

(* Then they come to the same record; those to come do not matter. *)
LEMMA TallyOfTheSame ==
    ASSUME NEW A, IsFiniteSet(A), NEW B, NEW cs, NEW ds, NEW f, Correspond(cs, A, ds, B, f)
    PROVE  Tally(cs, A) = Tally(ds, B)
<1>1. ASSUME NEW result \in Results
      PROVE  Cardinality({i \in A : cs[i].mark = result})
                 = Cardinality({j \in B : ds[j].mark = result})
  <2> DEFINE X == {i \in A : cs[i].mark = result}
             Y == {j \in B : ds[j].mark = result}
             g == [i \in X |-> f[i]]
  <2>1. IsFiniteSet(X)
    BY FS_Subset
  <2>2. g \in [X -> Y]
    BY DEF Correspond
  <2>3. \A i, j \in X : g[i] = g[j] => i = j
    BY DEF Correspond
  <2>4. \A j \in Y : \E i \in X : g[i] = j
    BY DEF Correspond
  <2>5. g \in Bijection(X, Y)
    BY <2>2, <2>3, <2>4 DEF Bijection, Injection, IsInjective, Surjection
  <2>6. ExistsBijection(X, Y)
    BY <2>5 DEF ExistsBijection
  <2>7. QED
    BY <2>1, <2>6, FS_Bijection
<1>2. "W" \in Results /\ "L" \in Results /\ "T" \in Results
  BY DEF Results
<1>3. QED
  BY <1>1, <1>2 DEF Tally

LEMMA TallyIsRecord ==
    ASSUME NEW places, IsFiniteSet(places), Cardinality(places) <= MaxRows, NEW cs
    PROVE  Tally(cs, places) \in Records
<1>1. ASSUME NEW result
      PROVE  Cardinality({i \in places : cs[i].mark = result}) \in 0..MaxRows
  <2>1. IsFiniteSet({i \in places : cs[i].mark = result})
        /\ Cardinality({i \in places : cs[i].mark = result}) <= Cardinality(places)
    BY FS_Subset
  <2>2. Cardinality({i \in places : cs[i].mark = result}) \in Nat /\ Cardinality(places) \in Nat
    BY <2>1, FS_CardinalityType
  <2>3. QED
    BY <2>1, <2>2, SeasonAssumption
<1>2. QED
  BY <1>1 DEF Tally, Records

-----------------------------------------------------------------------------
(* Weeks *)

LEMMA WeekOfGrows ==
    ASSUME NEW a \in Nat, NEW b \in Nat, a <= b
    PROVE  WeekOf(a) \in Nat /\ WeekOf(a) <= WeekOf(b)
  BY DEF WeekOf

LEMMA WeekOfDays ==
    ASSUME NEW w \in Nat
    PROVE  WeekOf(7 * w) = w
  BY DEF WeekOf

(* The first day is one of the days, and none is earlier. *)
LEMMA FirstDayIsFirst ==
    ASSUME NEW cs \in Seq(Contests), Dated(cs) # {}
    PROVE  /\ FirstDay(cs) \in Nat
           /\ \E i \in Dated(cs) : cs[i].day = FirstDay(cs)
           /\ \A i \in Dated(cs) : FirstDay(cs) <= cs[i].day
<1> DEFINE T == {cs[i].day : i \in Dated(cs)}
<1>1. \A i \in Dated(cs) : cs[i].day \in Nat
  <2>1. \A i \in Dated(cs) : cs[i] \in Contests
    BY DEF Dated
  <2>2. QED
    BY <2>1 DEF Contests, Dated
<1>2. PICK d \in T : \A e \in T : d <= e
  BY <1>1, LeastExists
<1>3. FirstDay(cs) \in T /\ \A i \in Dated(cs) : FirstDay(cs) <= cs[i].day
  BY <1>2 DEF FirstDay
<1>4. QED
  BY <1>1, <1>3

(* It depends on nothing else. *)
LEMMA FirstDayOf ==
    ASSUME NEW cs \in Seq(Contests), NEW i \in Dated(cs),
           \A j \in Dated(cs) : cs[i].day <= cs[j].day
    PROVE  FirstDay(cs) = cs[i].day
<1>1. /\ FirstDay(cs) \in Nat /\ FirstDay(cs) <= cs[i].day
      /\ \E j \in Dated(cs) : cs[j].day = FirstDay(cs)
  BY FirstDayIsFirst
<1>2. cs[i].day \in Nat
  <2>1. cs[i] \in Contests
    BY DEF Dated
  <2>2. QED
    BY <2>1 DEF Contests, Dated
<1>3. cs[i].day <= FirstDay(cs)
  BY <1>1
<1>4. QED
  BY <1>1, <1>2, <1>3

-----------------------------------------------------------------------------
(* The schedule, with or without byes, against the page *)

(* It lists every game of the page once, as the page has it, and before it  *)
(* the record of the games played before; a bye has none.                   *)
ShowsThePage(cs) ==
    /\ cs \in Seq(Contests)
    /\ \A k \in DOMAIN cs : cs[k].mark # "bye" =>
          /\ cs[k].id \in GamesOnPage
          /\ cs[k].day = table[cs[k].id].day
          /\ cs[k].mark = table[cs[k].id].mark
          /\ cs[k].before \in {NoRecord, Tally(table, PlayedBefore(cs[k].id))}
    /\ \A k \in DOMAIN cs : cs[k].mark = "bye" => cs[k].before = NoRecord
    /\ \A k, l \in DOMAIN cs : cs[k].mark # "bye" /\ cs[l].mark # "bye" /\ cs[k].id = cs[l].id
          => k = l
    /\ \A i \in GamesOnPage : \E k \in DOMAIN cs : cs[k].mark # "bye" /\ cs[k].id = i

(* It goes forward in time, each week is that of its day, and a bye is      *)
(* alone in its own.                                                        *)
GoesForward(cs) ==
    /\ \A i, j \in Dated(cs) : i < j => cs[i].day <= cs[j].day
    /\ \A i \in DOMAIN cs :
          cs[i].week = IF weekly /\ i \in Dated(cs) THEN WeekOf(cs[i].day - FirstDay(cs))
                                                    ELSE NoWeek
    /\ \A i \in DOMAIN cs : cs[i].mark = "bye" =>
          /\ weekly /\ i \in Dated(cs)
          /\ \A j \in DOMAIN cs \ {i} : cs[j].week # cs[i].week

(* A game is a row of the page, and no bye. *)
LEMMA GamesAreRows ==
    ASSUME IsPage(table), NEW i \in GamesOnPage
    PROVE  /\ i \in 1..MaxRows /\ i \in DOMAIN table
           /\ table[i].day \in Nat \cup {NoDay}
           /\ table[i].mark \in AllMarks \ {"void"}
<1>1. i \in 1..MaxRows /\ i \in DOMAIN table /\ table[i] \in Rows /\ table[i].mark # "void"
  BY GamesAreFinite DEF GamesOnPage, GamesOf
<1>2. QED
  BY <1>1, SeasonAssumption DEF Rows

LEMMA MarksAreNoBye == "bye" \notin AllMarks /\ "bye" \notin Results
  BY DEF AllMarks, Results

(* The games in the order they are played. *)
Arranges(q, N) ==
    /\ q \in Bijection(1..N, GamesOnPage)
    /\ \A k, l \in 1..N : k < l <=> q[k] \in PlayedBefore(q[l])

EndAlike(cs, q, N) == \A k \in 1..N : cs[k].mark = table[q[k]].mark

(* The record before the k-th game is of those played before it. *)
LEMMA TallyOfThoseBefore ==
    ASSUME NEW N \in Nat, NEW q, Arranges(q, N), NEW cs, EndAlike(cs, q, N), NEW k \in 1..N
    PROVE  Tally(cs, 1..(k - 1)) = Tally(table, PlayedBefore(q[k]))
<1>0. /\ q \in Bijection(1..N, GamesOnPage)
      /\ \A h, l \in 1..N : h < l <=> q[h] \in PlayedBefore(q[l])
      /\ \A h \in 1..N : cs[h].mark = table[q[h]].mark
  BY DEF Arranges, EndAlike
<1>1. /\ \A l \in 1..N : q[l] \in GamesOnPage
      /\ \A l, h \in 1..N : q[l] = q[h] => l = h
      /\ \A i \in GamesOnPage : \E l \in 1..N : q[l] = i
  BY <1>0 DEF Bijection, Injection, IsInjective, Surjection
<1>2. IsFiniteSet(1..(k - 1)) /\ \A l \in 1..(k - 1) : l \in 1..N /\ l < k
  <2>1. k - 1 \in Int /\ \A l \in 1..(k - 1) : l \in 1..N /\ l < k
    OBVIOUS
  <2>2. QED
    BY <2>1, FS_Interval
<1>3. \A l \in 1..(k - 1) : q[l] \in PlayedBefore(q[k]) /\ table[q[l]].mark = cs[l].mark
  BY <1>0, <1>2
<1>4. \A i \in PlayedBefore(q[k]) : \E l \in 1..(k - 1) : q[l] = i
  <2>1. SUFFICES ASSUME NEW i \in PlayedBefore(q[k])
                 PROVE  \E l \in 1..(k - 1) : q[l] = i
    OBVIOUS
  <2>2. i \in GamesOnPage
    BY DEF PlayedBefore
  <2>3. PICK l \in 1..N : q[l] = i
    BY <1>1, <2>2
  <2>4. l < k
    BY <1>0, <2>3
  <2>5. QED
    BY <2>3, <2>4
<1>5. \A l, h \in 1..(k - 1) : q[l] = q[h] => l = h
  BY <1>1, <1>2
<1>6. \A i \in PlayedBefore(q[k]) : \E l \in 1..(k - 1) : cs[l].mark = table[i].mark /\ q[l] = i
  BY <1>3, <1>4
<1> DEFINE A == 1..(k - 1)
           B == PlayedBefore(q[k])
<1>7. Correspond(cs, A, table, B, q)
  BY <1>3, <1>5, <1>6 DEF Correspond
<1>8. IsFiniteSet(A)
  BY <1>2
<1> HIDE DEF A, B
<1>9. Tally(cs, A) = Tally(table, B)
  BY <1>7, <1>8, TallyOfTheSame
<1>10. QED
  BY <1>9 DEF A, B

WeekGiven(day, first) == IF weekly /\ day # NoDay THEN WeekOf(day - first) ELSE NoWeek

(* Days alike start alike. *)
LEMMA FirstDayOfTheSame ==
    ASSUME NEW cs \in Seq(Contests), NEW ds \in Seq(Contests), Len(cs) = Len(ds),
           \A k \in 1..Len(cs) : cs[k].day = ds[k].day
    PROVE  FirstDay(cs) = FirstDay(ds)
<1>1. DOMAIN cs = 1..Len(cs) /\ DOMAIN ds = 1..Len(cs)
  OBVIOUS
<1>2. Dated(cs) = Dated(ds) /\ \A i \in Dated(cs) : cs[i].day = ds[i].day
  BY <1>1 DEF Dated
<1>3. {cs[i].day : i \in Dated(cs)} = {ds[i].day : i \in Dated(ds)}
  BY <1>2
<1>4. \A d : (\A i \in Dated(cs) : d <= cs[i].day) <=> (\A i \in Dated(ds) : d <= ds[i].day)
  BY <1>2
<1>5. QED
  BY <1>3, <1>4, Zenon DEF FirstDay

LEMMA WithWeeksItems ==
    ASSUME NEW cs \in Seq(Contests), \A k \in DOMAIN cs : cs[k].week = NoWeek
    PROVE  /\ WithWeeks(cs) \in Seq(Contests) /\ Len(WithWeeks(cs)) = Len(cs)
           /\ \A k \in 1..Len(cs) :
                 WithWeeks(cs)[k] = [cs[k] EXCEPT !.week = WeekGiven(cs[k].day, FirstDay(cs))]
<1>1. DOMAIN cs = 1..Len(cs) /\ Len(cs) \in Nat
  OBVIOUS
<1>2. ASSUME NEW k \in 1..Len(cs)
      PROVE  /\ cs[k] \in Contests /\ cs[k].day \in Nat \cup {NoDay}
             /\ WeekGiven(cs[k].day, FirstDay(cs)) \in Nat \cup {NoWeek}
  <2>1. cs[k] \in Contests /\ cs[k].day \in Nat \cup {NoDay}
    <3>1. cs[k] \in Contests
      BY <1>1
    <3>2. QED
      BY <3>1 DEF Contests
  <2>2. CASE cs[k].day = NoDay
    BY <2>1, <2>2 DEF WeekGiven
  <2>3. CASE cs[k].day # NoDay
    <3>1. k \in Dated(cs) /\ cs[k].day \in Nat
      BY <1>1, <2>1, <2>3 DEF Dated
    <3>2. FirstDay(cs) \in Nat /\ FirstDay(cs) <= cs[k].day
      BY <3>1, FirstDayIsFirst
    <3>3. cs[k].day - FirstDay(cs) \in Nat
      BY <3>1, <3>2
    <3>4. WeekOf(cs[k].day - FirstDay(cs)) \in Nat
      BY <3>3, WeekOfGrows
    <3>5. QED
      BY <2>1, <3>4 DEF WeekGiven
  <2>4. QED
    BY <2>1, <2>2, <2>3
<1>3. ASSUME NEW k \in 1..Len(cs)
      PROVE  /\ [cs[k] EXCEPT !.week = WeekGiven(cs[k].day, FirstDay(cs))] \in Contests
             /\ WithWeeks(cs)[k] = [cs[k] EXCEPT !.week = WeekGiven(cs[k].day, FirstDay(cs))]
  <2> DEFINE week == WeekGiven(cs[k].day, FirstDay(cs))
  <2>1. cs[k] \in Contests /\ week \in Nat \cup {NoWeek} /\ k \in DOMAIN cs
    BY <1>1, <1>2
  <2>2. weekly /\ k \in Dated(cs) => week = WeekOf(cs[k].day - FirstDay(cs))
    BY DEF WeekGiven, Dated
  <2>3. ~(weekly /\ k \in Dated(cs)) => week = cs[k].week
    BY <2>1 DEF WeekGiven, Dated
  <2> HIDE DEF week
  <2>4. [cs[k] EXCEPT !.week = week] \in Contests
    BY <2>1 DEF Contests
  <2>5. week = cs[k].week => [cs[k] EXCEPT !.week = week] = cs[k]
    BY <2>1 DEF Contests
  <2>6. WithWeeks(cs)[k] = [cs[k] EXCEPT !.week = week]
    BY <2>1, <2>2, <2>3, <2>5 DEF WithWeeks
  <2>7. QED
    BY <2>4, <2>6 DEF week
<1>4. WithWeeks(cs) \in [1..Len(cs) -> Contests]
  <2>1. WithWeeks(cs) = [k \in 1..Len(cs) |-> WithWeeks(cs)[k]]
    BY <1>1 DEF WithWeeks
  <2>2. \A k \in 1..Len(cs) : WithWeeks(cs)[k] \in Contests
    BY <1>3
  <2>3. QED
    BY <2>1, <2>2
<1>5. WithWeeks(cs) \in Seq(Contests) /\ Len(WithWeeks(cs)) = Len(cs)
  <2> HIDE DEF Contests
  <2>1. QED
    BY <1>1, <1>4
<1>6. QED
  BY <1>3, <1>5

(* The item of a schedule that stands for a row. *)
Listed(c, i, first) ==
    /\ c.id = i
    /\ c.day = table[i].day
    /\ c.mark = table[i].mark
    /\ c.week = WeekGiven(c.day, first)
    /\ c.before \in {NoRecord, Tally(table, PlayedBefore(i))}

LEMMA ScheduleItems ==
    ASSUME IsPage(table)
    PROVE  LET N == Cardinality(GamesOnPage)
               schedule == Schedule(table)
           IN  /\ schedule \in Seq(Contests) /\ Len(schedule) = N
               /\ \E q : /\ Arranges(q, N)
                         /\ \A k \in 1..N : Listed(schedule[k], q[k], FirstDay(schedule))
<1> DEFINE N == Cardinality(GamesOnPage)
           sorted == SortedByStart(Parsed(table))
           first == FirstDay(sorted)
           weeks == WithWeeks(sorted)
<1>1. N \in Nat /\ N <= MaxRows
  BY GamesAreFinite, SeasonAssumption DEF GamesOnPage
<1>2. sorted \in Seq(Contests) /\ Len(sorted) = N
  BY SortedTable
<1>3. PICK q \in Bijection(1..N, GamesOnPage) :
          /\ \A k \in 1..N : sorted[k] = Read(table, q[k])
          /\ \A k, l \in 1..N : k < l <=> q[k] \in PlayedBefore(q[l])
  BY SortedTable
<1>4. \A k \in 1..N : q[k] \in GamesOnPage
  BY DEF Bijection, Injection
<1> HIDE DEF sorted, N
<1>5. /\ weeks \in Seq(Contests) /\ Len(weeks) = N
      /\ \A k \in 1..N : weeks[k] = [Read(table, q[k]) EXCEPT
                                        !.week = WeekGiven(table[q[k]].day, first)]
  <2>1. \A k \in 1..N : /\ Read(table, q[k]).week = NoWeek
                        /\ Read(table, q[k]).day = table[q[k]].day
    BY DEF Read
  <2>2. \A k \in DOMAIN sorted : sorted[k].week = NoWeek
    BY <1>2, <1>3, <2>1
  <2>3. /\ weeks \in Seq(Contests) /\ Len(weeks) = N
        /\ \A k \in 1..N : weeks[k] = [sorted[k] EXCEPT !.week = WeekGiven(sorted[k].day, first)]
    BY <1>2, <2>2, WithWeeksItems
  <2>4. QED
    BY <1>3, <2>1, <2>3
<1>6. ASSUME NEW k \in 1..N
      PROVE  /\ weeks[k] \in Contests
             /\ weeks[k].id = q[k] /\ weeks[k].day = table[q[k]].day
             /\ weeks[k].mark = table[q[k]].mark /\ weeks[k].mark # "bye"
             /\ weeks[k].week = WeekGiven(weeks[k].day, first)
             /\ weeks[k].before = NoRecord
  <2>1. weeks[k] \in Contests
    BY <1>5
  <2>2. /\ weeks[k].id = q[k] /\ weeks[k].day = table[q[k]].day
        /\ weeks[k].mark = table[q[k]].mark
        /\ weeks[k].week = WeekGiven(table[q[k]].day, first)
        /\ weeks[k].before = NoRecord
    BY <1>5 DEF Read
  <2>3. table[q[k]].mark \in AllMarks
    BY <1>4, GamesAreRows
  <2>4. QED
    BY <2>1, <2>2, <2>3, MarksAreNoBye
<1> HIDE DEF weeks
<1>7. ASSUME NEW k \in 1..N
      PROVE  Tally(weeks, 1..(k - 1)) = Tally(table, PlayedBefore(q[k]))
             /\ Tally(weeks, 1..(k - 1)) \in Records
  <2>1. \A l \in 1..N : weeks[l].mark = table[q[l]].mark
    BY <1>6
  <2>2. Tally(weeks, 1..(k - 1)) = Tally(table, PlayedBefore(q[k]))
    <3>1. Arranges(q, N) /\ EndAlike(weeks, q, N)
      BY <1>3, <2>1 DEF Arranges, EndAlike
    <3>2. QED
      BY <1>1, <3>1, TallyOfThoseBefore
  <2>3. IsFiniteSet(1..(k - 1)) /\ Cardinality(1..(k - 1)) <= MaxRows
    <3>1. k - 1 \in Nat /\ k - 1 <= MaxRows
      BY <1>1, SeasonAssumption
    <3>2. IsFiniteSet(1..(k - 1)) /\ Cardinality(1..(k - 1)) = k - 1
      BY <3>1, FS_Interval
    <3>3. QED
      BY <3>1, <3>2
  <2>4. QED
    BY <2>2, <2>3, TallyIsRecord
<1>8. Schedule(table) = WithRecords(weeks)
  BY DEF Schedule, weeks, sorted
<1>9. ASSUME ~\E i \in DOMAIN weeks : weeks[i].mark \in Results
      PROVE  /\ Schedule(table) \in Seq(Contests) /\ Len(Schedule(table)) = N
             /\ \A k \in 1..N : Listed(Schedule(table)[k], q[k], first)
  <2>1. Schedule(table) = weeks
    BY <1>8, <1>9 DEF WithRecords
  <2>2. \A k \in 1..N : Listed(weeks[k], q[k], first)
    BY <1>6 DEF Listed
  <2>3. QED
    BY <1>5, <2>1, <2>2
<1>10. ASSUME \E i \in DOMAIN weeks : weeks[i].mark \in Results
       PROVE  /\ Schedule(table) \in Seq(Contests) /\ Len(Schedule(table)) = N
              /\ \A k \in 1..N : Listed(Schedule(table)[k], q[k], first)
  <2> DEFINE played(k) == [weeks[k] EXCEPT !.before = Tally(weeks, 1..(k - 1))]
  <2>1. DOMAIN weeks = 1..N
    BY <1>5
  <2>2. Schedule(table) = [k \in 1..N |-> played(k)]
    BY <1>6, <1>8, <1>10, <2>1 DEF WithRecords
  <2>3. ASSUME NEW k \in 1..N
        PROVE  played(k) \in Contests /\ Listed(played(k), q[k], first)
    <3> DEFINE record == Tally(weeks, 1..(k - 1))
    <3>1. record \in Records /\ record = Tally(table, PlayedBefore(q[k]))
      BY <1>7
    <3> HIDE DEF record
    <3>2. [weeks[k] EXCEPT !.before = record] \in Contests
      BY <1>6, <3>1 DEF Contests
    <3>3. Listed([weeks[k] EXCEPT !.before = record], q[k], first)
      <4> DEFINE c == [weeks[k] EXCEPT !.before = record]
      <4>1. /\ c.id = weeks[k].id /\ c.day = weeks[k].day /\ c.mark = weeks[k].mark
            /\ c.week = weeks[k].week /\ c.before = record
        BY <1>6 DEF Contests
      <4> HIDE DEF c
      <4>2. Listed(c, q[k], first)
        BY <1>6, <3>1, <4>1 DEF Listed
      <4>3. QED
        BY <4>2 DEF c
    <3>4. QED
      BY <3>2, <3>3 DEF record
  <2> HIDE DEF played
  <2>4. Schedule(table) \in Seq(Contests) /\ Len(Schedule(table)) = N
    BY <1>1, <2>2, <2>3
  <2>5. \A k \in 1..N : Listed(Schedule(table)[k], q[k], first)
    BY <2>2, <2>3
  <2>6. QED
    BY <2>4, <2>5
<1>11. /\ Schedule(table) \in Seq(Contests) /\ Len(Schedule(table)) = N
       /\ \A k \in 1..N : Listed(Schedule(table)[k], q[k], first)
  BY <1>9, <1>10
<1>12. FirstDay(Schedule(table)) = first
  <2>1. \A k \in 1..N : Schedule(table)[k].day = sorted[k].day
    <3>1. ASSUME NEW k \in 1..N
          PROVE  Schedule(table)[k].day = sorted[k].day
      <4>1. sorted[k] = Read(table, q[k]) /\ Listed(Schedule(table)[k], q[k], first)
        BY <1>3, <1>11
      <4>2. QED
        BY <4>1 DEF Listed, Read
    <3>2. QED
      BY <3>1
  <2>2. QED
    BY <1>2, <1>11, <2>1, FirstDayOfTheSame
<1>13. Arranges(q, N)
  BY <1>3 DEF Arranges
<1>14. QED
  BY <1>11, <1>12, <1>13 DEF N
(* The schedule as it is parsed has no byes, and is in order. *)
LEMMA ScheduleIsSound ==
    ASSUME IsPage(table)
    PROVE  /\ ShowsThePage(Schedule(table)) /\ GoesForward(Schedule(table))
           /\ \A k \in DOMAIN Schedule(table) : Schedule(table)[k].mark # "bye"
<1> DEFINE N == Cardinality(GamesOnPage)
           cs == Schedule(table)
           first == FirstDay(cs)
<1>1. cs \in Seq(Contests) /\ DOMAIN cs = 1..N /\ N \in Nat
  BY ScheduleItems
<1>2. PICK q : /\ Arranges(q, N)
               /\ \A k \in 1..N : Listed(cs[k], q[k], first)
  BY ScheduleItems
<1>3. /\ \A k \in 1..N : q[k] \in GamesOnPage
      /\ \A k, l \in 1..N : q[k] = q[l] => k = l
      /\ \A i \in GamesOnPage : \E k \in 1..N : q[k] = i
  BY <1>2 DEF Arranges, Bijection, Injection, IsInjective, Surjection
<1> HIDE DEF cs, N
<1>4. ASSUME NEW k \in 1..N
      PROVE  /\ cs[k].id = q[k] /\ q[k] \in GamesOnPage
             /\ cs[k].day = table[q[k]].day /\ cs[k].mark = table[q[k]].mark
             /\ cs[k].mark # "bye" /\ cs[k].day \in Nat \cup {NoDay}
             /\ cs[k].week = WeekGiven(cs[k].day, first)
             /\ cs[k].before \in {NoRecord, Tally(table, PlayedBefore(q[k]))}
  <2>1. q[k] \in GamesOnPage /\ Listed(cs[k], q[k], first)
    BY <1>2, <1>3
  <2>2. table[q[k]].mark \in AllMarks /\ table[q[k]].day \in Nat \cup {NoDay}
    BY <2>1, GamesAreRows
  <2>3. QED
    BY <2>1, <2>2, MarksAreNoBye DEF Listed
<1>5. ShowsThePage(cs)
  BY <1>1, <1>3, <1>4 DEF ShowsThePage
<1>6. ASSUME NEW i \in Dated(cs), NEW j \in Dated(cs), i < j
      PROVE  cs[i].day <= cs[j].day
  <2>1. i \in 1..N /\ j \in 1..N /\ cs[i].day # NoDay /\ cs[j].day # NoDay
    BY <1>1 DEF Dated
  <2>2. q[i] \in PlayedBefore(q[j])
    BY <1>2, <1>6, <2>1 DEF Arranges
  <2>3. cs[i].day \in Nat /\ cs[j].day \in Nat
    BY <1>4, <2>1
  <2>4. cs[i].day < cs[j].day \/ cs[i].day = cs[j].day
    BY <1>4, <2>1, <2>2 DEF PlayedBefore
  <2>5. QED
    BY <2>3, <2>4
<1>7. ASSUME NEW i \in DOMAIN cs
      PROVE  cs[i].week = IF weekly /\ i \in Dated(cs) THEN WeekOf(cs[i].day - FirstDay(cs))
                                                      ELSE NoWeek
  BY <1>1, <1>4 DEF WeekGiven, Dated
<1>8. GoesForward(cs)
  BY <1>1, <1>4, <1>6, <1>7 DEF GoesForward
<1>9. QED
  BY <1>1, <1>4, <1>5, <1>8 DEF cs

-----------------------------------------------------------------------------
(* Byes *)

WithWeek(cs) == {i \in DOMAIN cs : cs[i].week # NoWeek}

(* In a week-indexed season the dated contests have a week, none negative. *)
LEMMA DatedHaveWeeks ==
    ASSUME NEW cs \in Seq(Contests), GoesForward(cs), WithWeek(cs) # {}
    PROVE  /\ weekly /\ WithWeek(cs) = Dated(cs) /\ FirstDay(cs) \in Nat
           /\ \A i \in Dated(cs) : /\ cs[i].day - FirstDay(cs) \in Nat
                                   /\ cs[i].week = WeekOf(cs[i].day - FirstDay(cs))
                                   /\ cs[i].week \in Nat
<1>1. \A i \in DOMAIN cs : cs[i].week = IF weekly /\ i \in Dated(cs)
                                        THEN WeekOf(cs[i].day - FirstDay(cs)) ELSE NoWeek
  BY DEF GoesForward
<1>2. weekly /\ Dated(cs) # {}
  BY <1>1 DEF WithWeek
<1>3. FirstDay(cs) \in Nat /\ \A i \in Dated(cs) : FirstDay(cs) <= cs[i].day
  BY <1>2, FirstDayIsFirst
<1>4. ASSUME NEW i \in Dated(cs)
      PROVE  /\ cs[i].day - FirstDay(cs) \in Nat
             /\ cs[i].week = WeekOf(cs[i].day - FirstDay(cs))
             /\ cs[i].week \in Nat
  <2>1. i \in DOMAIN cs /\ cs[i].day # NoDay /\ cs[i] \in Contests
    BY DEF Dated
  <2>2. cs[i].day \in Nat
    BY <2>1 DEF Contests
  <2>3. cs[i].day - FirstDay(cs) \in Nat
    BY <1>3, <2>2
  <2>4. cs[i].week = WeekOf(cs[i].day - FirstDay(cs))
    BY <1>1, <1>2, <2>1
  <2>5. WeekOf(cs[i].day - FirstDay(cs)) \in Nat
    BY <2>3, WeekOfGrows
  <2>6. QED
    BY <2>3, <2>4, <2>5
<1>5. WithWeek(cs) = Dated(cs)
  <2>1. \A i \in Dated(cs) : i \in DOMAIN cs /\ cs[i].week # NoWeek
    BY <1>4 DEF Dated, NoWeek
  <2>2. \A i \in DOMAIN cs : i \notin Dated(cs) => cs[i].week = NoWeek
    BY <1>1
  <2>3. QED
    BY <2>1, <2>2 DEF WithWeek
<1>6. QED
  BY <1>2, <1>3, <1>4, <1>5

LEMMA LaterIsNoEarlierWeek ==
    ASSUME NEW cs \in Seq(Contests), GoesForward(cs), WithWeek(cs) # {},
           NEW i \in Dated(cs), NEW j \in Dated(cs), i <= j
    PROVE  cs[i].day <= cs[j].day /\ cs[i].week <= cs[j].week
<1>1. /\ cs[i].day - FirstDay(cs) \in Nat /\ cs[j].day - FirstDay(cs) \in Nat
      /\ cs[i].week = WeekOf(cs[i].day - FirstDay(cs))
      /\ cs[j].week = WeekOf(cs[j].day - FirstDay(cs))
      /\ FirstDay(cs) \in Nat
  BY DatedHaveWeeks
<1>2. i \in Nat /\ j \in Nat /\ cs[i].day \in Int /\ cs[j].day \in Int
  <2>1. i \in DOMAIN cs /\ j \in DOMAIN cs /\ cs[i] \in Contests /\ cs[j] \in Contests
    BY DEF Dated
  <2>2. QED
    BY <2>1 DEF Contests, NoDay
<1>3. cs[i].day <= cs[j].day
  BY <1>2 DEF GoesForward
<1>4. cs[i].day - FirstDay(cs) <= cs[j].day - FirstDay(cs)
  BY <1>1, <1>2, <1>3
<1>5. QED
  BY <1>1, <1>3, <1>4, WeekOfGrows

(* The weeks that are there have a last one. *)
LEMMA LastWeekExists ==
    ASSUME NEW cs \in Seq(Contests), GoesForward(cs), WithWeek(cs) # {}
    PROVE  /\ WeeksPresent(cs) \subseteq Nat
           /\ \E w \in WeeksPresent(cs) : \A v \in WeeksPresent(cs) : v <= w
<1>1. Dated(cs) # {} /\ WithWeek(cs) = Dated(cs) /\ \A i \in Dated(cs) : cs[i].week \in Nat
  BY DatedHaveWeeks
<1>2. WeeksPresent(cs) = {cs[i].week : i \in Dated(cs)}
  <2>1. \A i \in DOMAIN cs : cs[i].week # NoWeek <=> i \in Dated(cs)
    BY <1>1 DEF WithWeek, Dated
  <2>2. Dated(cs) \subseteq DOMAIN cs
    BY DEF Dated
  <2>3. QED
    BY <2>1, <2>2 DEF WeeksPresent
<1>3. /\ Len(cs) \in Nat /\ Dated(cs) \subseteq Nat /\ \A i \in Dated(cs) : i <= Len(cs)
  BY DEF Dated
<1>4. PICK m \in Dated(cs) : \A i \in Dated(cs) : i <= m
  BY <1>1, <1>3, GreatestExists
<1>5. \A i \in Dated(cs) : cs[i].week <= cs[m].week
  BY <1>4, LaterIsNoEarlierWeek
<1>6. QED
  BY <1>1, <1>2, <1>5

(* A bye is a whole number of weeks after the first day. *)
ByeOf(first, week) ==
    [id |-> 0, day |-> first + 7 * week, mark |-> "bye", week |-> week, before |-> NoRecord]

LEMMA ByesAreWeeksApart ==
    ASSUME NEW cs \in Seq(Contests), GoesForward(cs), WithWeek(cs) # {}, NEW week
    PROVE  Bye(cs, week) = ByeOf(FirstDay(cs), week)
<1> DEFINE places == {j \in DOMAIN cs : cs[j].week # NoWeek}
           Anchors(i) == \A j \in places : \/ cs[i].week < cs[j].week
                                           \/ cs[i].week = cs[j].week /\ i <= j
           anchor == CHOOSE i \in places : Anchors(i)
<1>1. /\ places = Dated(cs) /\ Dated(cs) # {} /\ Dated(cs) \subseteq Nat
      /\ \A i \in Dated(cs) : cs[i].week \in Nat
  <2>1. places = WithWeek(cs)
    BY DEF WithWeek
  <2>2. Dated(cs) \subseteq Nat
    BY DEF Dated
  <2>3. QED
    BY <2>1, <2>2, DatedHaveWeeks
<1>2. PICK m \in Dated(cs) : \A i \in Dated(cs) : m <= i
  BY <1>1, LeastExists
<1>3. \A i \in Dated(cs) : cs[m].day <= cs[i].day /\ cs[m].week <= cs[i].week
  BY <1>2, LaterIsNoEarlierWeek
<1>4. Anchors(m)
  BY <1>1, <1>2, <1>3
<1>5. anchor \in places /\ Anchors(anchor)
  BY <1>1, <1>4
<1> HIDE DEF anchor
<1>6. cs[anchor].week = cs[m].week /\ anchor <= m
  <2>1. cs[anchor].week < cs[m].week \/ (cs[anchor].week = cs[m].week /\ anchor <= m)
    BY <1>1, <1>5
  <2>2. cs[m].week <= cs[anchor].week /\ cs[m].week \in Nat /\ cs[anchor].week \in Nat
    BY <1>1, <1>3, <1>5
  <2>3. QED
    BY <2>1, <2>2
<1>7. anchor = m
  BY <1>1, <1>2, <1>5, <1>6
<1>8. cs[anchor].day = FirstDay(cs)
  BY <1>3, <1>7, FirstDayOf
<1>9. Bye(cs, week) = [NoContest EXCEPT !.day = cs[anchor].day + 7 * week, !.mark = "bye",
                                        !.week = week]
  BY DEF Bye, anchor
<1>10. QED
  BY <1>8, <1>9 DEF NoContest, ByeOf

(* Behind a schedule without byes, a bye for every missing week. *)
Filled(cs, places, byes, b) ==
    /\ byes \in Seq(Contests)
    /\ b \in Bijection(1..Len(byes), places)
    /\ \A k \in 1..Len(byes) : byes[k] = ByeOf(FirstDay(cs), b[k])

LEMMA WithByesFills ==
    ASSUME NEW cs \in Seq(Contests), GoesForward(cs)
    PROVE  \/ WithByes(cs) = cs
           \/ /\ WithWeek(cs) # {}
              /\ \E places, byes, b :
                    /\ places \subseteq Nat /\ places \cap WeeksPresent(cs) = {}
                    /\ Filled(cs, places, byes, b)
                    /\ WithByes(cs) = SortedByStart(cs \o byes)
<1> DEFINE last == CHOOSE w \in WeeksPresent(cs) : \A v \in WeeksPresent(cs) : v <= w
           missing == (0..last) \ WeeksPresent(cs)
           M == Cardinality(missing)
           byes == [k \in 1..M |-> Bye(cs, Nth(InTurn(missing), k))]
<1>1. SUFFICES ASSUME ~(Cardinality(WithWeek(cs)) < 2)
               PROVE  /\ WithWeek(cs) # {}
                      /\ \E places, bs, b :
                            /\ places \subseteq Nat /\ places \cap WeeksPresent(cs) = {}
                            /\ Filled(cs, places, bs, b)
                            /\ WithByes(cs) = SortedByStart(cs \o bs)
  BY DEF WithByes, WithWeek
<1>2. WithWeek(cs) # {}
  BY <1>1, FS_EmptySet
<1>3. WithByes(cs) = SortedByStart(cs \o byes)
  BY <1>1 DEF WithByes, WithWeek
<1>4. last \in Nat
  BY <1>2, LastWeekExists
<1> HIDE DEF last
<1>5. missing \in SUBSET Int /\ missing \subseteq Nat /\ IsFiniteSet(missing) /\ M \in Nat
  <2>1. missing \in SUBSET (0..last) /\ IsFiniteSet(0..last)
    BY <1>4, FS_Interval
  <2>2. IsFiniteSet(missing)
    BY <2>1, FS_Subset
  <2>3. QED
    BY <1>4, <2>1, <2>2, FS_CardinalityType
<1>6. missing \cap WeeksPresent(cs) = {}
  OBVIOUS
<1> HIDE DEF missing
<1>7. PICK b \in Bijection(1..M, missing) : \A k \in 1..M : b[k] = Nth(InTurn(missing), k)
  <2>1. IsOrder(InTurn(missing), missing)
    BY <1>5, InTurnIsOrder
  <2>2. QED
    BY <1>5, <2>1, NthArranges
<1>8. \A k \in 1..M : b[k] \in missing /\ b[k] \in Nat
  BY <1>5, <1>7 DEF Bijection, Injection
<1>9. FirstDay(cs) \in Nat
  BY <1>2, DatedHaveWeeks
<1>10. ASSUME NEW k \in 1..M
       PROVE  Bye(cs, Nth(InTurn(missing), k)) = ByeOf(FirstDay(cs), b[k])
              /\ ByeOf(FirstDay(cs), b[k]) \in Contests
  <2>1. Bye(cs, Nth(InTurn(missing), k)) = ByeOf(FirstDay(cs), b[k])
    BY <1>2, <1>7, ByesAreWeeksApart
  <2>2. FirstDay(cs) + 7 * b[k] \in Nat /\ b[k] \in Nat /\ 0 \in 0..MaxRows
    BY <1>8, <1>9, SeasonAssumption
  <2>3. QED
    BY <2>1, <2>2 DEF ByeOf, Contests
<1>11. /\ byes \in Seq(Contests) /\ Len(byes) = M
       /\ \A k \in 1..M : byes[k] = ByeOf(FirstDay(cs), b[k])
  <2>1. byes = [k \in 1..M |-> ByeOf(FirstDay(cs), b[k])]
    BY <1>10
  <2>2. \A k \in 1..M : ByeOf(FirstDay(cs), b[k]) \in Contests
    BY <1>10
  <2> HIDE DEF byes
  <2>3. QED
    BY <1>5, <2>1, <2>2
<1> HIDE DEF byes
<1>12. Filled(cs, missing, byes, b)
  BY <1>7, <1>11 DEF Filled
<1>13. QED
  BY <1>2, <1>3, <1>5, <1>6, <1>12

LEMMA FilledIsSound ==
    ASSUME IsPage(table), NEW cs, ShowsThePage(cs), GoesForward(cs), WithWeek(cs) # {},
           \A k \in DOMAIN cs : cs[k].mark # "bye",
           NEW places, places \subseteq Nat, places \cap WeeksPresent(cs) = {},
           NEW byes, NEW b, Filled(cs, places, byes, b)
    PROVE  /\ ShowsThePage(SortedByStart(cs \o byes))
           /\ GoesForward(SortedByStart(cs \o byes))
<1> DEFINE n == Len(cs)
           M == Len(byes)
           both == cs \o byes
           v == SortedByStart(both)
           F == FirstDay(cs)
<1>1. /\ cs \in Seq(Contests) /\ n \in Nat /\ DOMAIN cs = 1..n
      /\ byes \in Seq(Contests) /\ M \in Nat
  BY DEF ShowsThePage, Filled
<1>2. /\ both \in Seq(Contests) /\ Len(both) = n + M
      /\ \A h \in 1..n : both[h] = cs[h]
      /\ \A h \in (n + 1)..(n + M) : both[h] = byes[h - n]
  BY <1>1
<1> HIDE DEF both, n, M
<1>3. v \in Seq(Contests) /\ Len(v) = n + M /\ DOMAIN v = 1..(n + M)
  <2>1. v \in Seq(Contests) /\ Len(v) = Len(both)
    BY <1>2, SortedItems
  <2>2. QED
    BY <1>2, <2>1
<1>4. PICK r \in Bijection(1..(n + M), 1..(n + M)) :
          /\ \A k \in 1..(n + M) : v[k] = both[r[k]]
          /\ \A k, l \in 1..(n + M) :
                k < l <=> \/ Precedes(both[r[k]], both[r[l]])
                          \/ ~Precedes(both[r[l]], both[r[k]]) /\ r[k] < r[l]
  BY <1>2, SortedItems
<1>5. /\ \A k \in 1..(n + M) : r[k] \in 1..(n + M)
      /\ \A k, l \in 1..(n + M) : r[k] = r[l] => k = l
      /\ \A h \in 1..(n + M) : \E k \in 1..(n + M) : r[k] = h
  BY DEF Bijection, Injection, IsInjective, Surjection
<1>6. /\ \A h \in 1..M : b[h] \in places /\ b[h] \in Nat /\ byes[h] = ByeOf(F, b[h])
      /\ \A h, g \in 1..M : b[h] = b[g] => h = g
  BY DEF Filled, Bijection, Injection, IsInjective, M
<1> HIDE DEF v
<1> DEFINE IsGame(k) == r[k] \in 1..n
<1>7. ASSUME NEW k \in 1..(n + M)
      PROVE  IsGame(k) \/ r[k] - n \in 1..M
  <2>1. r[k] \in 1..(n + M)
    BY <1>5
  <2>2. QED
    BY <1>1, <2>1 DEF n, M
<1>8. ASSUME NEW k \in 1..(n + M), IsGame(k)
      PROVE  v[k] = cs[r[k]] /\ r[k] \in DOMAIN cs /\ v[k].mark # "bye"
  <2>1. r[k] \in 1..n
    BY <1>8
  <2>2. v[k] = both[r[k]]
    BY <1>4
  <2>3. both[r[k]] = cs[r[k]]
    BY <1>2, <2>1
  <2>4. r[k] \in DOMAIN cs /\ cs[r[k]].mark # "bye"
    BY <1>1, <2>1
  <2>5. QED
    BY <2>2, <2>3, <2>4
<1>9. ASSUME NEW k \in 1..(n + M), ~IsGame(k)
      PROVE  /\ v[k] = ByeOf(F, b[r[k] - n]) /\ b[r[k] - n] \in places
             /\ b[r[k] - n] \in Nat /\ r[k] - n \in 1..M
             /\ v[k].mark = "bye" /\ v[k].before = NoRecord
             /\ v[k].day = F + 7 * b[r[k] - n] /\ v[k].week = b[r[k] - n]
  <2>1. r[k] - n \in 1..M
    BY <1>7, <1>9
  <2>2. r[k] \in (n + 1)..(n + M)
    <3>1. n \in Int /\ M \in Int /\ r[k] \in 1..(n + M) /\ r[k] \notin 1..n
      BY <1>1, <1>5, <1>9
    <3> HIDE DEF n, M
    <3>2. QED
      BY <3>1
  <2>3. v[k] = byes[r[k] - n]
    BY <1>2, <1>4, <2>2
  <2>4. v[k] = ByeOf(F, b[r[k] - n]) /\ b[r[k] - n] \in places /\ b[r[k] - n] \in Nat
    BY <1>6, <2>1, <2>3
  <2>5. QED
    BY <2>1, <2>4 DEF ByeOf
<1>10. ASSUME NEW k \in 1..(n + M)
       PROVE  v[k].mark = "bye" <=> ~IsGame(k)
  BY <1>8, <1>9
<1>11. ShowsThePage(v)
  <2>1. ASSUME NEW k \in DOMAIN v, v[k].mark # "bye"
        PROVE  /\ v[k].id \in GamesOnPage
               /\ v[k].day = table[v[k].id].day
               /\ v[k].mark = table[v[k].id].mark
               /\ v[k].before \in {NoRecord, Tally(table, PlayedBefore(v[k].id))}
    <3>1. v[k] = cs[r[k]] /\ r[k] \in DOMAIN cs
      BY <1>3, <1>8, <1>10, <2>1
    <3>2. QED
      BY <2>1, <3>1 DEF ShowsThePage
  <2>2. ASSUME NEW k \in DOMAIN v, v[k].mark = "bye"
        PROVE  v[k].before = NoRecord
    BY <1>3, <1>9, <1>10, <2>2 DEF ByeOf
  <2>3. ASSUME NEW k \in DOMAIN v, NEW l \in DOMAIN v, v[k].mark # "bye", v[l].mark # "bye",
               v[k].id = v[l].id
        PROVE  k = l
    <3>1. /\ v[k] = cs[r[k]] /\ r[k] \in DOMAIN cs
          /\ v[l] = cs[r[l]] /\ r[l] \in DOMAIN cs
      BY <1>3, <1>8, <1>10, <2>3
    <3>2. r[k] = r[l]
      BY <2>3, <3>1 DEF ShowsThePage
    <3>3. QED
      BY <1>3, <1>5, <3>2
  <2>4. ASSUME NEW i \in GamesOnPage
        PROVE  \E k \in DOMAIN v : v[k].mark # "bye" /\ v[k].id = i
    <3>1. PICK h \in DOMAIN cs : cs[h].id = i
      BY DEF ShowsThePage
    <3>2. h \in 1..n /\ h \in 1..(n + M)
      BY <1>1 DEF n, M
    <3>3. PICK k \in 1..(n + M) : r[k] = h
      BY <1>5, <3>2
    <3>4. v[k].mark # "bye" /\ v[k].id = i
      BY <1>8, <3>1, <3>2, <3>3
    <3>5. QED
      BY <1>3, <3>3, <3>4
  <2>5. QED
    BY <1>3, <2>1, <2>2, <2>3, <2>4 DEF ShowsThePage
<1>12. /\ weekly /\ WithWeek(cs) = Dated(cs) /\ F \in Nat /\ Dated(cs) # {}
       /\ \A h \in Dated(cs) : cs[h].day - F \in Nat /\ cs[h].week = WeekOf(cs[h].day - F)
                             /\ cs[h].day \in Nat
  <2>1. \A h \in Dated(cs) : cs[h] \in Contests /\ cs[h].day # NoDay
    BY <1>1 DEF Dated
  <2>2. \A h \in Dated(cs) : cs[h].day \in Nat
    BY <2>1 DEF Contests
  <2>3. QED
    BY <1>1, <2>2, DatedHaveWeeks
<1>13. ASSUME NEW k \in Dated(v)
       PROVE  v[k].day \in Nat /\ F <= v[k].day /\ v[k].week = WeekOf(v[k].day - F)
  <2>1. k \in 1..(n + M) /\ v[k].day # NoDay
    BY <1>3 DEF Dated
  <2>2. CASE IsGame(k)
    <3>1. v[k] = cs[r[k]] /\ r[k] \in Dated(cs)
      BY <1>8, <2>1, <2>2 DEF Dated
    <3>2. QED
      BY <1>12, <3>1
  <2>3. CASE ~IsGame(k)
    <3>1. v[k] = ByeOf(F, b[r[k] - n]) /\ b[r[k] - n] \in Nat
      BY <1>9, <2>1, <2>3
    <3>2. v[k].day = F + 7 * b[r[k] - n] /\ v[k].week = b[r[k] - n]
      BY <3>1 DEF ByeOf
    <3>3. WeekOf(7 * b[r[k] - n]) = b[r[k] - n]
      BY <3>1, WeekOfDays
    <3>4. (F + 7 * b[r[k] - n]) - F = 7 * b[r[k] - n] /\ F <= F + 7 * b[r[k] - n]
          /\ F + 7 * b[r[k] - n] \in Nat
      BY <1>12, <3>1
    <3>5. QED
      BY <3>2, <3>3, <3>4
  <2>4. QED
    BY <2>2, <2>3
<1>14. FirstDay(v) = F
  <2>1. PICK h \in Dated(cs) : cs[h].day = F
    BY <1>1, <1>12, FirstDayIsFirst
  <2>2. h \in 1..n /\ h \in 1..(n + M)
    BY <1>1 DEF n, M, Dated
  <2>3. PICK k \in 1..(n + M) : r[k] = h
    BY <1>5, <2>2
  <2>4. v[k] = cs[h]
    BY <1>8, <2>2, <2>3
  <2>5. k \in Dated(v) /\ v[k].day = F
    BY <1>3, <2>1, <2>4 DEF Dated
  <2>6. QED
    BY <1>3, <1>13, <2>5, FirstDayOf
<1>15. ASSUME NEW i \in Dated(v), NEW j \in Dated(v), i < j
       PROVE  v[i].day <= v[j].day
  <2>1. i \in 1..(n + M) /\ j \in 1..(n + M) /\ v[i].day # NoDay /\ v[j].day # NoDay
    BY <1>3 DEF Dated
  <2>2. Precedes(v[i], v[j]) \/ ~Precedes(v[j], v[i])
    BY <1>4, <1>15, <2>1
  <2>3. v[i].day \in Nat /\ v[j].day \in Nat
    BY <1>13
  <2>4. QED
    BY <2>1, <2>2, <2>3 DEF Precedes
<1>16. ASSUME NEW i \in DOMAIN v
       PROVE  v[i].week = IF weekly /\ i \in Dated(v) THEN WeekOf(v[i].day - FirstDay(v))
                                                     ELSE NoWeek
  <2>1. CASE i \in Dated(v)
    BY <1>12, <1>13, <1>14, <2>1
  <2>2. CASE i \notin Dated(v)
    <3>1. i \in 1..(n + M) /\ v[i].day = NoDay
      BY <1>3, <2>2 DEF Dated
    <3>2. IsGame(i)
      <4>1. SUFFICES ASSUME ~IsGame(i)
                     PROVE  FALSE
        OBVIOUS
      <4>2. v[i].day = F + 7 * b[r[i] - n] /\ b[r[i] - n] \in Nat
        BY <1>9, <3>1, <4>1
      <4>3. QED
        BY <1>12, <3>1, <4>2 DEF NoDay
    <3>3. v[i] = cs[r[i]] /\ r[i] \in DOMAIN cs /\ r[i] \notin Dated(cs)
      BY <1>8, <3>1, <3>2 DEF Dated
    <3>4. cs[r[i]].week = NoWeek
      BY <3>3 DEF GoesForward
    <3>5. QED
      BY <2>2, <3>3, <3>4
  <2>3. QED
    BY <2>1, <2>2
<1>17. ASSUME NEW i \in DOMAIN v, v[i].mark = "bye"
       PROVE  /\ weekly /\ i \in Dated(v)
              /\ \A j \in DOMAIN v \ {i} : v[j].week # v[i].week
  <2>1. i \in 1..(n + M) /\ ~IsGame(i)
    BY <1>3, <1>10, <1>17
  <2>2. /\ v[i] = ByeOf(F, b[r[i] - n]) /\ b[r[i] - n] \in places
        /\ b[r[i] - n] \in Nat /\ r[i] - n \in 1..M
    BY <1>9, <2>1
  <2>3. v[i].week = b[r[i] - n] /\ v[i].day = F + 7 * b[r[i] - n]
    BY <2>2 DEF ByeOf
  <2>4. i \in Dated(v)
    BY <1>3, <1>12, <2>1, <2>2, <2>3 DEF Dated, NoDay
  <2>5. ASSUME NEW j \in DOMAIN v \ {i}
        PROVE  v[j].week # v[i].week
    <3>1. j \in 1..(n + M)
      BY <1>3
    <3>2. CASE IsGame(j)
      <4>1. v[j] = cs[r[j]] /\ r[j] \in DOMAIN cs
        BY <1>8, <3>1, <3>2
      <4>2. v[j].week \in WeeksPresent(cs) \cup {NoWeek}
        BY <4>1 DEF WeeksPresent
      <4>3. QED
        BY <2>2, <2>3, <4>2 DEF NoWeek
    <3>3. CASE ~IsGame(j)
      <4>1. v[j].week = b[r[j] - n] /\ r[j] - n \in 1..M
        BY <1>9, <3>1, <3>3
      <4>2. r[j] # r[i] /\ r[j] \in Int /\ r[i] \in Int /\ n \in Int
        <5>1. n \in Int /\ n + M \in Int /\ i # j
          BY <1>1 DEF n, M
        <5>2. r[i] \in 1..(n + M) /\ r[j] \in 1..(n + M) /\ r[i] # r[j]
          BY <1>5, <2>1, <3>1, <5>1
        <5>3. QED
          BY <5>1, <5>2
      <4>3. r[j] - n # r[i] - n
        BY <4>2
      <4>4. QED
        BY <1>6, <2>2, <2>3, <4>1, <4>3
    <3>4. QED
      BY <3>2, <3>3
  <2>6. QED
    BY <1>12, <2>4, <2>5
<1>18. GoesForward(v)
  BY <1>15, <1>16, <1>17 DEF GoesForward
<1>19. QED
  BY <1>11, <1>18 DEF v, both

LEMMA WithByesIsSound ==
    ASSUME IsPage(table)
    PROVE  ShowsThePage(WithByes(Schedule(table))) /\ GoesForward(WithByes(Schedule(table)))
<1> DEFINE cs == Schedule(table)
<1>1. /\ ShowsThePage(cs) /\ GoesForward(cs) /\ cs \in Seq(Contests)
      /\ \A k \in DOMAIN cs : cs[k].mark # "bye"
  BY ScheduleIsSound DEF ShowsThePage
<1> HIDE DEF cs
<1>2. CASE WithByes(cs) = cs
  BY <1>1, <1>2 DEF cs
<1>3. CASE WithByes(cs) # cs
  <2>1. /\ WithWeek(cs) # {}
        /\ \E places, byes, b :
              /\ places \subseteq Nat /\ places \cap WeeksPresent(cs) = {}
              /\ Filled(cs, places, byes, b)
              /\ WithByes(cs) = SortedByStart(cs \o byes)
    BY <1>1, <1>3, WithByesFills
  <2>2. PICK places, byes, b :
              /\ places \subseteq Nat /\ places \cap WeeksPresent(cs) = {}
              /\ Filled(cs, places, byes, b)
              /\ WithByes(cs) = SortedByStart(cs \o byes)
    BY <2>1
  <2>3. QED
    BY <1>1, <2>1, <2>2, FilledIsSound DEF cs
<1>4. QED
  BY <1>2, <1>3

-----------------------------------------------------------------------------
(* The scorebug *)

LEMMA NoContestIsTyped == NoContest \in Contests
<1>1. 0 \in 0..MaxRows /\ "void" \in AllMarks
  BY SeasonAssumption DEF AllMarks
<1>2. QED
  BY <1>1 DEF NoContest, Contests

LEMMA FirstOfPlaces ==
    ASSUME NEW cs, ShowsThePage(cs), NEW places, places \subseteq DOMAIN cs
    PROVE  /\ places = {} => FirstOf(cs, places) = NoContest
           /\ places # {} => \E i \in places : FirstOf(cs, places) = cs[i]
           /\ FirstOf(cs, places) \in Contests
<1>1. /\ cs \in Seq(Contests) /\ places \subseteq Nat
      /\ \A i \in places : cs[i] \in Contests
  BY DEF ShowsThePage
<1>2. CASE places = {}
  BY <1>2, NoContestIsTyped DEF FirstOf
<1>3. CASE places # {}
  <2>1. PICK m \in places : \A j \in places : m <= j
    BY <1>1, <1>3, LeastExists
  <2>2. \E i \in places : FirstOf(cs, places) = cs[i]
    BY <1>3, <2>1 DEF FirstOf
  <2>3. QED
    BY <1>1, <1>3, <2>2
<1>4. QED
  BY <1>2, <1>3

LEMMA NoGameIsNoContest ==
    ASSUME IsPage(table), NEW cs, ShowsThePage(cs), NEW i \in DOMAIN cs, cs[i].mark # "bye"
    PROVE  cs[i] # NoContest
<1>1. cs[i].id \in GamesOnPage /\ cs[i].mark = table[cs[i].id].mark
  BY DEF ShowsThePage
<1>2. cs[i].mark # "void"
  BY <1>1, GamesAreRows
<1>3. QED
  BY <1>2 DEF NoContest

(* Of a list in order, some of its places and the days there.               *)
LEMMA DaysOfPlaces ==
    ASSUME NEW cs, ShowsThePage(cs), GoesForward(cs),
           NEW places, places \subseteq Dated(cs), places # {}
    PROVE  /\ \A i \in places : cs[i].day \in Nat
           /\ \E m \in places : \A j \in places : cs[j].day <= cs[m].day
           /\ \E m \in places : \A j \in places : cs[m].day <= cs[j].day
<1>1. /\ cs \in Seq(Contests) /\ Len(cs) \in Nat /\ places \subseteq Nat
      /\ \A i \in places : cs[i] \in Contests /\ i <= Len(cs)
  BY DEF ShowsThePage, Dated
<1>2. \A i \in places : cs[i].day \in Nat
  BY <1>1 DEF Contests, Dated
<1>3. \A i, j \in places : i <= j => cs[i].day <= cs[j].day
  <2>1. SUFFICES ASSUME NEW i \in places, NEW j \in places, i <= j
                 PROVE  cs[i].day <= cs[j].day
    OBVIOUS
  <2>2. CASE i = j
    BY <1>2, <2>2
  <2>3. CASE i # j
    <3>1. i < j /\ i \in Dated(cs) /\ j \in Dated(cs)
      BY <1>1, <2>1, <2>3
    <3>2. QED
      BY <3>1 DEF GoesForward
  <2>4. QED
    BY <2>2, <2>3
<1>4. PICK last \in places : \A j \in places : j <= last
  BY <1>1, GreatestExists
<1>5. PICK first \in places : \A j \in places : first <= j
  BY <1>1, LeastExists
<1>6. QED
  BY <1>2, <1>3, <1>4, <1>5

LEMMA TheGameIsChosen ==
    ASSUME IsPage(table), NEW now \in Nat
    PROVE  LET chosen == Choose(Schedule(table), now)
           IN  /\ chosen \in Contests
               /\ IF \E i \in GamesOnPage : table[i].mark = "live"
                  THEN chosen.mark = "live"
                  ELSE IF \E i \in GamesOnPage : Over(i)
                  THEN /\ Over(chosen.id)
                       /\ \A i \in GamesOnPage : Over(i) => table[i].day <= chosen.day
                  ELSE IF \E i \in GamesOnPage : table[i].day >= now
                  THEN /\ chosen.day >= now
                       /\ \A i \in GamesOnPage : table[i].day >= now => table[i].day >= chosen.day
                  ELSE chosen = NoContest
<1> DEFINE cs == Schedule(table)
           chosen == Choose(cs, now)
           live == {i \in DOMAIN cs : cs[i].mark = "live"}
           done == {i \in Dated(cs) : cs[i].mark \in Results \cup {"scored"}}
           latest == {i \in done : \A j \in done : cs[j].day <= cs[i].day}
           coming == {i \in Dated(cs) : /\ cs[i].mark \notin Results \cup {"bye"}
                                        /\ cs[i].day >= now}
           soonest == {i \in coming : \A j \in coming : cs[i].day <= cs[j].day}
<1>1. ShowsThePage(cs) /\ GoesForward(cs) /\ \A k \in DOMAIN cs : cs[k].mark # "bye"
  BY ScheduleIsSound
<1> HIDE DEF cs
<1>2. /\ \A k \in DOMAIN cs : /\ cs[k].id \in GamesOnPage
                              /\ cs[k].day = table[cs[k].id].day
                              /\ cs[k].mark = table[cs[k].id].mark
      /\ \A i \in GamesOnPage : \E k \in DOMAIN cs : cs[k].id = i
  BY <1>1 DEF ShowsThePage
<1>3. /\ live \subseteq DOMAIN cs /\ done \subseteq Dated(cs) /\ latest \subseteq DOMAIN cs
      /\ coming \subseteq Dated(cs) /\ soonest \subseteq DOMAIN cs
      /\ \A i \in DOMAIN cs : cs[i] # NoContest
  BY <1>1, NoGameIsNoContest DEF Dated
<1>4. /\ LiveContest(cs) = FirstOf(cs, live)
      /\ LastCompleted(cs) = FirstOf(cs, latest)
      /\ NextContest(cs, now) = FirstOf(cs, soonest)
  BY DEF LiveContest, LastCompleted, NextContest, EarliestOf
<1>5. /\ done # {} => latest # {}
      /\ coming # {} => soonest # {}
  BY <1>1, <1>3, DaysOfPlaces
<1> HIDE DEF live, latest, soonest
<1>6. chosen \in Contests
  BY <1>1, <1>3, <1>4, FirstOfPlaces DEF Choose
<1>7. CASE live # {}
  <2>1. PICK i \in live : LiveContest(cs) = cs[i]
    BY <1>1, <1>3, <1>4, <1>7, FirstOfPlaces
  <2>2. chosen = cs[i] /\ i \in DOMAIN cs
    BY <1>3, <2>1 DEF Choose
  <2>3. cs[i].mark = "live" /\ \E g \in GamesOnPage : table[g].mark = "live"
    BY <1>2, <2>2 DEF live
  <2>4. QED
    BY <1>6, <2>2, <2>3 DEF cs
<1>8. CASE live = {} /\ done # {}
  <2>1. PICK i \in latest : LastCompleted(cs) = cs[i]
    BY <1>1, <1>3, <1>4, <1>5, <1>8, FirstOfPlaces
  <2>2. chosen = cs[i] /\ i \in DOMAIN cs /\ i \in done
    <3>1. LiveContest(cs) = NoContest
      BY <1>1, <1>3, <1>4, <1>8, FirstOfPlaces
    <3>2. QED
      BY <1>3, <2>1, <3>1 DEF Choose, latest
  <2>3. ~\E g \in GamesOnPage : table[g].mark = "live"
    BY <1>2, <1>8 DEF live
  <2>4. Over(cs[i].id) /\ cs[i].id \in GamesOnPage
    BY <1>2, <2>2 DEF Over, Dated
  <2>5. ASSUME NEW g \in GamesOnPage, Over(g)
        PROVE  table[g].day <= cs[i].day
    <3>1. PICK k \in DOMAIN cs : cs[k].id = g
      BY <1>2
    <3>2. k \in done /\ cs[k].day = table[g].day
      BY <1>2, <2>5, <3>1 DEF Over, Dated
    <3>3. QED
      BY <2>1, <3>2 DEF latest
  <2>6. QED
    BY <1>6, <2>2, <2>3, <2>4, <2>5 DEF cs
<1>9. CASE live = {} /\ done = {}
  <2>1. LiveContest(cs) = NoContest /\ LastCompleted(cs) = NoContest
    BY <1>1, <1>3, <1>4, <1>9, FirstOfPlaces DEF latest
  <2>2. chosen = NextContest(cs, now)
    BY <2>1 DEF Choose
  <2>3. ~\E g \in GamesOnPage : table[g].mark = "live"
    BY <1>2, <1>9 DEF live
  <2>4. ~\E g \in GamesOnPage : Over(g)
    BY <1>2, <1>9 DEF Over, Dated
  <2>5. ASSUME NEW g \in GamesOnPage, table[g].day >= now
        PROVE  \E k \in coming : cs[k].day = table[g].day
    <3>1. PICK k \in DOMAIN cs : cs[k].id = g
      BY <1>2
    <3>2. cs[k].day = table[g].day /\ cs[k].mark = table[g].mark /\ cs[k].mark # "bye"
      BY <1>1, <1>2, <3>1
    <3>3. table[g].day # NoDay
      BY <2>5 DEF NoDay
    <3>4. cs[k].mark \notin Results
      BY <2>4, <3>2, <3>3 DEF Over
    <3>5. QED
      BY <2>5, <3>2, <3>3, <3>4 DEF Dated
  <2>6. \A k \in coming : cs[k].id \in GamesOnPage /\ table[cs[k].id].day >= now
    BY <1>2 DEF Dated
  <2>7. CASE coming # {}
    <3>1. PICK i \in soonest : chosen = cs[i]
      BY <1>1, <1>3, <1>4, <1>5, <2>2, <2>7, FirstOfPlaces
    <3>2. cs[i].day >= now /\ \A j \in coming : cs[i].day <= cs[j].day
      BY <3>1 DEF soonest
    <3>3. \A g \in GamesOnPage : table[g].day >= now => cs[i].day <= table[g].day
      BY <2>5, <3>2
    <3>4. \A g \in GamesOnPage : table[g].day >= now => table[g].day >= cs[i].day
      BY <3>3
    <3>5. \E g \in GamesOnPage : table[g].day >= now
      BY <2>6, <2>7
    <3> HIDE DEF chosen
    <3>6. QED
      BY <1>6, <2>3, <2>4, <3>1, <3>2, <3>4, <3>5 DEF chosen, cs
  <2>8. CASE coming = {}
    <3>1. soonest = {}
      BY <2>8 DEF soonest
    <3>2. chosen = NoContest
      BY <1>1, <1>3, <1>4, <2>2, <3>1, FirstOfPlaces
    <3>3. ~\E g \in GamesOnPage : table[g].day >= now
      BY <2>5, <2>8
    <3> HIDE DEF chosen
    <3>4. QED
      BY <1>6, <2>3, <2>4, <3>2, <3>3 DEF chosen, cs
  <2>9. QED
    BY <2>7, <2>8
<1>10. QED
  BY <1>7, <1>8, <1>9

-----------------------------------------------------------------------------
(* The theorems.  A call keeps nothing and the page does not change: what   *)
(* is held between the steps is which of the schedules the answer is.       *)

TheAnswer ==
    /\ call = "none" => view = <<>> /\ shown /\ tracked = NoContest
    /\ call = "schedule" =>
          /\ tracked = NoContest
          /\ \E cs \in {Schedule(table), WithByes(Schedule(table))} :
                view = IF shown THEN cs ELSE WithoutResults(cs)
    /\ call = "scorebug" =>
          /\ view = Schedule(table) /\ shown
          /\ tracked = Choose(Schedule(table), askedOn)

SeasonIInv ==
    /\ IsPage(table) /\ weekly \in BOOLEAN /\ shown \in BOOLEAN
    /\ call \in {"none", "schedule", "scorebug"}
    /\ askedOn \in Days \cup {0}
    /\ TheAnswer

LEMMA SeasonInitIInv == SeasonInit => SeasonIInv
<1>1. SUFFICES ASSUME SeasonInit
               PROVE  SeasonIInv
  OBVIOUS
<1>2. PICK n \in 0..MaxRows : table \in [1..n -> Rows]
  BY <1>1 DEF SeasonInit
<1>3. IsPage(table)
  BY <1>2, SeasonAssumption DEF IsPage
<1>4. QED
  BY <1>1, <1>3 DEF SeasonInit, SeasonIInv, TheAnswer

LEMMA PageIsParsedAlike ==
    ASSUME UNCHANGED <<table, weekly>>
    PROVE  UNCHANGED <<IsPage(table), Schedule(table)>>
  BY DEF IsPage, Schedule, WithWeeks

LEMMA SeasonNextIInv == SeasonIInv /\ [SeasonNext]_seasonVars => SeasonIInv'
<1>1. SUFFICES ASSUME SeasonIInv, [SeasonNext]_seasonVars
               PROVE  SeasonIInv'
  OBVIOUS
<1>2. UNCHANGED <<table, weekly>>
  BY <1>1 DEF SeasonNext, GetTeamSchedule, GetScoretracker, CallEnds, seasonVars
<1>3. UNCHANGED <<IsPage(table), Schedule(table)>>
  BY <1>2, PageIsParsedAlike
<1>4. ASSUME NEW byes \in BOOLEAN, NEW letters \in BOOLEAN, GetTeamSchedule(byes, letters)
      PROVE  SeasonIInv'
  BY <1>1, <1>2, <1>3, <1>4 DEF GetTeamSchedule, SeasonIInv, TheAnswer
<1>5. ASSUME NEW now \in Days, GetScoretracker(now)
      PROVE  SeasonIInv'
  BY <1>1, <1>2, <1>3, <1>5 DEF GetScoretracker, SeasonIInv, TheAnswer
<1>6. CASE CallEnds
  BY <1>1, <1>2, <1>3, <1>6 DEF CallEnds, SeasonIInv, TheAnswer
<1>7. CASE UNCHANGED seasonVars
  BY <1>1, <1>3, <1>7 DEF seasonVars, SeasonIInv, TheAnswer
<1>8. QED
  BY <1>1, <1>4, <1>5, <1>6, <1>7 DEF SeasonNext

LEMMA SeasonInvariant == SeasonSpec => []SeasonIInv
  BY SeasonInitIInv, SeasonNextIInv, PTL DEF SeasonSpec

(* Hidden results change neither the days nor the weeks nor the records.    *)
LEMMA WithoutResultsKeeps ==
    ASSUME NEW cs \in Seq(Contests)
    PROVE  /\ DOMAIN WithoutResults(cs) = DOMAIN cs
           /\ \A i \in DOMAIN cs :
                 /\ WithoutResults(cs)[i] \in Contests
                 /\ WithoutResults(cs)[i].id = cs[i].id
                 /\ WithoutResults(cs)[i].day = cs[i].day
                 /\ WithoutResults(cs)[i].week = cs[i].week
                 /\ WithoutResults(cs)[i].before = cs[i].before
                 /\ WithoutResults(cs)[i].mark = "bye" <=> cs[i].mark = "bye"
<1>1. DOMAIN WithoutResults(cs) = DOMAIN cs
  BY DEF WithoutResults
<1>2. ASSUME NEW i \in DOMAIN cs
      PROVE  /\ WithoutResults(cs)[i] \in Contests
             /\ WithoutResults(cs)[i].id = cs[i].id
             /\ WithoutResults(cs)[i].day = cs[i].day
             /\ WithoutResults(cs)[i].week = cs[i].week
             /\ WithoutResults(cs)[i].before = cs[i].before
             /\ WithoutResults(cs)[i].mark = "bye" <=> cs[i].mark = "bye"
  <2>1. cs[i] \in Contests
    OBVIOUS
  <2>2. "none" \in AllMarks /\ "bye" \notin Results \cup {"scored"}
    BY DEF AllMarks, Results
  <2>3. CASE cs[i].mark \in Results \cup {"scored"}
    <3>1. WithoutResults(cs)[i] = [cs[i] EXCEPT !.mark = "none"]
      BY <2>3 DEF WithoutResults
    <3>2. QED
      BY <2>1, <2>2, <2>3, <3>1 DEF Contests
  <2>4. CASE cs[i].mark \notin Results \cup {"scored"}
    <3>1. WithoutResults(cs)[i] = cs[i]
      BY <2>4 DEF WithoutResults
    <3>2. QED
      BY <2>1, <3>1
  <2>5. QED
    BY <2>3, <2>4
<1>3. QED
  BY <1>1, <1>2

(* What is shown is one of the sound schedules, or nothing.                 *)
LEMMA TheViewIsSound ==
    ASSUME SeasonIInv, view # <<>> \/ call # "none"
    PROVE  \E cs : /\ ShowsThePage(cs) /\ GoesForward(cs)
                   /\ view = cs \/ (view = WithoutResults(cs) /\ call = "schedule" /\ ~shown)
<1>1. IsPage(table) /\ call \in {"schedule", "scorebug"}
  BY DEF SeasonIInv, TheAnswer
<1>2. /\ ShowsThePage(Schedule(table)) /\ GoesForward(Schedule(table))
      /\ ShowsThePage(WithByes(Schedule(table))) /\ GoesForward(WithByes(Schedule(table)))
  BY <1>1, ScheduleIsSound, WithByesIsSound
<1>3. CASE call = "scorebug"
  BY <1>2, <1>3 DEF SeasonIInv, TheAnswer
<1>4. CASE call = "schedule"
  <2>1. PICK cs \in {Schedule(table), WithByes(Schedule(table))} :
            view = IF shown THEN cs ELSE WithoutResults(cs)
    BY <1>4 DEF SeasonIInv, TheAnswer
  <2>2. ShowsThePage(cs) /\ GoesForward(cs)
    BY <1>2
  <2>3. shown \in BOOLEAN
    BY DEF SeasonIInv
  <2>4. QED
    BY <1>4, <2>1, <2>2, <2>3
<1>5. QED
  BY <1>1, <1>3, <1>4

(* Every variable of Season keeps its type, whatever the page and the days. *)
THEOREM SeasonTypeCorrect == SeasonSpec => []SeasonTypeOK
<1>1. SeasonIInv => SeasonTypeOK
  <2>1. SUFFICES ASSUME SeasonIInv
                 PROVE  SeasonTypeOK
    OBVIOUS
  <2>2. IsPage(table) /\ askedOn \in Days \cup {0} /\ askedOn \in Nat
    BY <2>1, SeasonAssumption DEF SeasonIInv
  <2>3. \A i \in DOMAIN view : view[i] \in Contests
    <3>1. CASE view = <<>>
      BY <3>1
    <3>2. CASE view # <<>>
      <4>1. PICK cs : /\ ShowsThePage(cs)
                      /\ view = cs \/ view = WithoutResults(cs)
        BY <2>1, <3>2, TheViewIsSound
      <4>2. cs \in Seq(Contests)
        BY <4>1 DEF ShowsThePage
      <4>3. QED
        BY <4>1, <4>2, WithoutResultsKeeps
    <3>3. QED
      BY <3>1, <3>2
  <2>4. tracked \in Contests
    <3>1. tracked = NoContest \/ tracked = Choose(Schedule(table), askedOn)
      BY <2>1 DEF SeasonIInv, TheAnswer
    <3>2. QED
      BY <2>2, <3>1, NoContestIsTyped, TheGameIsChosen
  <2>5. QED
    BY <2>1, <2>2, <2>3, <2>4 DEF SeasonTypeOK, SeasonIInv, IsPage
<1>2. QED
  BY <1>1, SeasonInvariant, PTL

(* The record before each game, and of the season, is what the games on the *)
(* page played so far came to: _assign_records_before behind the sort, and  *)
(* Schedule.record, with and without byes and results.                      *)
THEOREM TheRecordsAddUp == SeasonSpec => []RecordsAddUp
<1>1. SeasonIInv => RecordsAddUp
  <2>1. SUFFICES ASSUME SeasonIInv
                 PROVE  RecordsAddUp
    OBVIOUS
  <2>2. CASE view = <<>> /\ call = "none"
    BY <2>2 DEF RecordsAddUp
  <2>3. CASE view # <<>> \/ call # "none"
    <3>1. PICK cs : /\ ShowsThePage(cs)
                    /\ view = cs \/ (view = WithoutResults(cs) /\ ~shown)
      BY <2>1, <2>3, TheViewIsSound
    <3>2. cs \in Seq(Contests)
      BY <3>1 DEF ShowsThePage
    <3>3. /\ DOMAIN view = DOMAIN cs
          /\ \A k \in DOMAIN cs : view[k].id = cs[k].id /\ view[k].before = cs[k].before
      BY <3>1, <3>2, WithoutResultsKeeps
    <3>4. ASSUME NEW k \in DOMAIN cs, cs[k].before # NoRecord
          PROVE  cs[k].before = Tally(table, PlayedBefore(cs[k].id))
      BY <3>1, <3>4 DEF ShowsThePage
    <3>5. ASSUME view = cs
          PROVE  Record(view) = Tally(table, GamesOnPage)
      <4> DEFINE f == [k \in DOMAIN cs |-> cs[k].id]
      <4>1. IsFiniteSet(DOMAIN cs)
        <5>1. DOMAIN cs = 1..Len(cs) /\ Len(cs) \in Nat
          BY <3>2
        <5>2. QED
          BY <5>1, FS_Interval
      <4>2. ASSUME NEW k \in DOMAIN cs, cs[k].mark \in Results
            PROVE  /\ cs[k].mark # "bye" /\ f[k] \in GamesOnPage
                   /\ table[f[k]].mark = cs[k].mark
        <5>1. cs[k].mark # "bye"
          BY <4>2, MarksAreNoBye
        <5>2. QED
          BY <3>1, <5>1 DEF ShowsThePage
      <4>3. ASSUME NEW k \in DOMAIN cs, NEW l \in DOMAIN cs,
                   cs[k].mark \in Results, cs[l].mark \in Results, f[k] = f[l]
            PROVE  k = l
        BY <3>1, <4>2, <4>3 DEF ShowsThePage
      <4>4. ASSUME NEW i \in GamesOnPage
            PROVE  \E k \in DOMAIN cs : cs[k].mark = table[i].mark /\ f[k] = i
        BY <3>1 DEF ShowsThePage
      <4> HIDE DEF f
      <4>5. Correspond(cs, DOMAIN cs, table, GamesOnPage, f)
        BY <4>2, <4>3, <4>4 DEF Correspond
      <4>6. QED
        BY <3>5, <4>1, <4>5, TallyOfTheSame DEF Record
    <3>6. shown /\ call # "none" => Record(view) = Tally(table, GamesOnPage)
      BY <3>1, <3>5
    <3>7. QED
      BY <3>3, <3>4, <3>6 DEF RecordsAddUp
  <2>4. QED
    BY <2>2, <2>3
<1>2. QED
  BY <1>1, SeasonInvariant, PTL

(* The list goes forward in days and in weeks, and a bye fills a week of    *)
(* its own: the rounding of _assign_week_indexes gives the date             *)
(* synthesize_byes chose the very week it was chosen for.                   *)
THEOREM TheWeeksAreInOrder == SeasonSpec => []WeeksInOrder
<1>1. SeasonIInv => WeeksInOrder
  <2>1. SUFFICES ASSUME SeasonIInv
                 PROVE  WeeksInOrder
    OBVIOUS
  <2>2. CASE view = <<>>
    BY <2>2 DEF WeeksInOrder, Dated
  <2>3. CASE view # <<>>
    <3>1. PICK cs : /\ ShowsThePage(cs) /\ GoesForward(cs)
                    /\ view = cs \/ view = WithoutResults(cs)
      BY <2>1, <2>3, TheViewIsSound
    <3>2. cs \in Seq(Contests)
      BY <3>1 DEF ShowsThePage
    <3>3. /\ DOMAIN view = DOMAIN cs
          /\ \A k \in DOMAIN cs : /\ view[k].day = cs[k].day /\ view[k].week = cs[k].week
                                  /\ view[k].mark = "bye" <=> cs[k].mark = "bye"
                                  /\ view[k] \in Contests
      BY <3>1, <3>2, WithoutResultsKeeps
    <3>4. Dated(view) = Dated(cs)
      BY <3>3 DEF Dated
    <3>5. FirstDay(view) = FirstDay(cs)
      <4>1. view \in Seq(Contests) /\ Len(view) = Len(cs)
        <5>1. DOMAIN cs = 1..Len(cs) /\ Len(cs) \in Nat
          BY <3>2
        <5>2. view = [i \in 1..Len(cs) |-> view[i]]
          BY <3>1, <3>2, <5>1 DEF WithoutResults
        <5>3. \A i \in 1..Len(cs) : view[i] \in Contests
          BY <3>3, <5>1
        <5>4. QED
          BY <5>1, <5>2, <5>3
      <4>2. QED
        BY <3>2, <3>3, <4>1, FirstDayOfTheSame
    <3>6. ASSUME NEW i \in Dated(view), NEW j \in Dated(view), i < j
          PROVE  InOrder(i, j)
      <4>1. i \in DOMAIN cs /\ j \in DOMAIN cs /\ i \in Nat /\ j \in Nat
        BY <3>2, <3>4 DEF Dated
      <4>2. cs[i].day <= cs[j].day
        BY <3>1, <3>4, <3>6 DEF GoesForward
      <4>3. cs[i].week <= cs[j].week
        <5>1. CASE WithWeek(cs) = {}
          BY <4>1, <5>1 DEF WithWeek, NoWeek
        <5>2. CASE WithWeek(cs) # {}
          BY <3>1, <3>2, <3>4, <3>6, <4>1, <5>2, LaterIsNoEarlierWeek
        <5>3. QED
          BY <5>1, <5>2
      <4>4. QED
        BY <3>3, <4>1, <4>2, <4>3 DEF InOrder
    <3>7. ASSUME NEW i \in DOMAIN view, view[i].mark = "bye"
          PROVE  FillsItsWeek(i)
      <4>1. /\ i \in DOMAIN cs /\ cs[i].mark = "bye" /\ weekly /\ i \in Dated(cs)
            /\ cs[i].week = WeekOf(cs[i].day - FirstDay(cs))
            /\ \A j \in DOMAIN cs \ {i} : cs[j].week # cs[i].week
        BY <3>1, <3>3, <3>7 DEF GoesForward
      <4>2. QED
        BY <3>3, <3>5, <4>1 DEF FillsItsWeek
    <3>8. QED
      BY <3>6, <3>7 DEF WeeksInOrder
  <2>4. QED
    BY <2>2, <2>3
<1>2. QED
  BY <1>1, SeasonInvariant, PTL

(* get_scoretracker tracks the game in progress, else none that is over     *)
(* later, else none to come sooner.                                         *)
THEOREM TheScorebugShowsTheGame == SeasonSpec => []ScorebugShowsTheGame
<1>1. SeasonIInv => ScorebugShowsTheGame
  <2>1. SUFFICES ASSUME SeasonIInv, call = "scorebug"
                 PROVE  ScorebugShowsTheGame
    BY DEF ScorebugShowsTheGame
  <2>2. IsPage(table) /\ askedOn \in Nat /\ tracked = Choose(Schedule(table), askedOn)
    BY <2>1, SeasonAssumption DEF SeasonIInv, TheAnswer
  <2>3. QED
    BY <2>1, <2>2, TheGameIsChosen DEF ScorebugShowsTheGame
<1>2. QED
  BY <1>1, SeasonInvariant, PTL
=============================================================================
