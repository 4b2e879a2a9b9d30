------------------------------- MODULE Watcher -------------------------------
(***************************************************************************)
(* Watch mode (service/app.py, Watcher) over the broker of service/sse.py:  *)
(* one task that polls the scoretracker, diffs, rewrites live.json and      *)
(* publishes, and that refreshes schedule.json and roster.json now and      *)
(* then, while clients of /stream come, read and go.                        *)
(*                                                                          *)
(* A state of the game is the contest it belongs to and what                *)
(* diff_score_states compares of it.  A step is the code between two        *)
(* awaits.  The contents of schedule.json and roster.json are left out, and *)
(* live.mgjson is in Keyframes; that writing them may fail is not.          *)
(***************************************************************************)
EXTENDS Naturals

CONSTANTS
    Contests,       \* the contests get_scoretracker may choose
    Scores,         \* score, period, possession, status and clock
    NoState,        \* nothing polled, written or published yet
    Subs, Nobody,   \* the connections to /stream, and the holder of a free lock
    MaxTicks        \* the model stops polling here

GameStates == [contest: Contests, score: Scores]

ASSUME WatcherAssumption ==
    /\ NoState \notin GameStates
    /\ Nobody \notin Subs
    /\ MaxTicks \in Nat

VARIABLES
    place,      \* where the task is
    ticks,      \* Watcher.ticks
    ended,      \* how the last tick ended: "ok" or "failed"
    previous,   \* Watcher.previous
    live,       \* what live.json shows; after the export, also the local state
    latest,     \* the state published last, in LiveBroker._latest
    slowDue,    \* slow_refresh seconds have passed since last_slow
    slipped,    \* history: since the last publish the game has changed, or a
                \* slow refresh has failed before the state was remembered
    lock, sequence, publisher, conn, seen   \* the broker

watch == <<place, ticks, ended, previous, live, latest, slowDue, slipped>>
stream == <<lock, sequence, publisher, conn, seen>>
vars == <<watch, stream>>

Broker == INSTANCE LiveBroker WITH pc <- conn, MaxPublished <- MaxTicks

(***************************************************************************)
(*   sleeping    in the asyncio.sleep of _run                               *)
(*   polling     awaiting get_scoretracker                                  *)
(*   publishing  awaiting publish                                           *)
(*   schedule    awaiting get_team_schedule                                 *)
(*   roster      awaiting get_team_roster                                   *)
(*   stopped     cancelled by stop                                          *)
(***************************************************************************)
Awaits == {"sleeping", "polling", "publishing", "schedule", "roster"}

Init ==
    /\ place = "sleeping"
    /\ ticks = 0
    /\ ended = "ok"
    /\ previous = NoState
    /\ live \in GameStates \cup {NoState}
    /\ latest = NoState
    /\ slowDue \in BOOLEAN
    /\ slipped = FALSE
    /\ Broker!Init

(* diff_score_states finds a change: never between two contests. *)
Differs(prev, cur) ==
    prev # NoState /\ prev.contest = cur.contest /\ prev.score # cur.score

(* The stream is told of a change, and of the first tick. *)
Tells(cur) == previous = NoState \/ Differs(previous, cur)

-----------------------------------------------------------------------------
(* Mutant: an exception ends the task.                                      *)
FailsUncaught ==
    /\ place' = "dead"
    /\ ended' = "failed"

(* An exception leaves tick and is caught in _run. *)
Fails ==
    /\ place' = "sleeping"
    /\ ended' = "failed"

(* Mutant: a tick that has nothing to refresh forgets to remember.          *)
GoOnForgetful(state) ==
    IF slowDue
    THEN /\ place' = "schedule"
         /\ slowDue' = FALSE
         /\ UNCHANGED <<previous, ended>>
    ELSE /\ place' = "sleeping"
         /\ ended' = "ok"
         /\ UNCHANGED <<previous, slowDue>>

(* Behind the publish: the slow refresh if it is due, else the end of tick. *)
GoOn(state) ==
    IF slowDue
    THEN /\ place' = "schedule"
         /\ slowDue' = FALSE
         /\ UNCHANGED <<previous, ended>>
    ELSE /\ place' = "sleeping"
         /\ ended' = "ok"
         /\ previous' = state
         /\ UNCHANGED slowDue

StartTick ==
    /\ place = "sleeping"
    /\ ticks < MaxTicks
    /\ ticks' = ticks + 1
    /\ place' = "polling"
    /\ UNCHANGED <<ended, previous, live, latest, slowDue, slipped, stream>>

(* get_scoretracker raises. *)
PollFails ==
    /\ place = "polling"
    /\ Fails
    /\ UNCHANGED <<ticks, previous, live, latest, slowDue, slipped, stream>>

(* live_view or the atomic write of live.json raises: the old file stays. *)
ExportFails ==
    /\ place = "polling"
    /\ Fails
    /\ UNCHANGED <<ticks, previous, live, latest, slowDue, slipped, stream>>

(* Mutant: the state is remembered before it is told.                       *)
MgjsonFailsRemembering(state) ==
    /\ place = "polling"
    /\ live' = state
    /\ previous' = state
    /\ Fails
    /\ UNCHANGED <<ticks, latest, slowDue, slipped, stream>>

(* live.json is written, and write_mgjson raises. *)
MgjsonFails(state) ==
    /\ place = "polling"
    /\ live' = state
    /\ Fails
    /\ UNCHANGED <<ticks, previous, latest, slowDue, slipped, stream>>

(* Both files are written; the stream is told if there is news. *)
Exports(state) ==
    /\ place = "polling"
    /\ live' = state
    /\ IF Tells(state)
       THEN /\ place' = "publishing"
            /\ Broker!CallPublish
            /\ UNCHANGED <<ended, previous, slowDue, slipped>>
       ELSE /\ GoOn(state)
            /\ slipped' = (slipped \/ previous.contest # state.contest)
            /\ UNCHANGED stream
    /\ UNCHANGED <<ticks, latest>>

(* Mutant: publish wakes nobody.                                            *)
PublishedSilently ==
    /\ place = "publishing"
    /\ lock = Nobody
    /\ sequence' = sequence + 1
    /\ publisher' = "idle"
    /\ latest' = live
    /\ slipped' = FALSE
    /\ GoOn(live)
    /\ UNCHANGED <<ticks, live, lock, conn, seen>>

(* publish returns. *)
Published ==
    /\ place = "publishing"
    /\ Broker!Publish
    /\ latest' = live
    /\ slipped' = FALSE
    /\ GoOn(live)
    /\ UNCHANGED <<ticks, live>>

ScheduleArrives ==
    /\ place = "schedule"
    /\ place' = "roster"
    /\ UNCHANGED <<ticks, ended, previous, live, latest, slowDue, slipped, stream>>

(* The roster arrives and write_views writes both files. *)
SlowRefreshEnds ==
    /\ place = "roster"
    /\ place' = "sleeping"
    /\ ended' = "ok"
    /\ previous' = live
    /\ UNCHANGED <<ticks, live, latest, slowDue, slipped, stream>>

(* One of the two fetches, or write_views, raises; last_slow stays set, and *)
(* previous is not.                                                         *)
SlowRefreshFails ==
    /\ place \in {"schedule", "roster"}
    /\ Fails
    /\ slipped' = (slipped \/ previous # live)
    /\ UNCHANGED <<ticks, previous, live, latest, slowDue, stream>>

SlowBecomesDue ==
    /\ ~slowDue
    /\ slowDue' = TRUE
    /\ UNCHANGED <<place, ticks, ended, previous, live, latest, slipped, stream>>

(* stop, at shutdown: the task is cancelled where it waits. *)
Stop ==
    /\ place \in Awaits
    /\ place' = "stopped"
    /\ IF place = "publishing" THEN Broker!AbandonPublish ELSE UNCHANGED stream
    /\ UNCHANGED <<ticks, ended, previous, live, latest, slowDue, slipped>>

Tick ==
    \/ StartTick \/ PollFails \/ ExportFails
    \/ \E state \in GameStates : MgjsonFails(state) \/ Exports(state)
    \/ Published
    \/ ScheduleArrives \/ SlowRefreshEnds \/ SlowRefreshFails

Next ==
    \/ Tick
    \/ SlowBecomesDue
    \/ Stop
    \/ \E s \in Subs : Broker!Connection(s) /\ UNCHANGED watch

Spec == Init /\ [][Next]_vars

(***************************************************************************)
(* The poll, the two fetches and the sleep end; the broker's lock is first  *)
(* come, first served; clients read what they are sent.                     *)
(***************************************************************************)
WatchFairness == WF_vars(Tick /\ place # "publishing") /\ SF_vars(Published)

FairSpec == Spec /\ WatchFairness /\ Broker!LockFairness /\ Broker!ClientsRead

-----------------------------------------------------------------------------
(* Every variable holds a value of its type. *)
TypeOK ==
    /\ place \in Awaits \cup {"stopped"}
    /\ ticks \in 0..MaxTicks
    /\ ended \in {"ok", "failed"}
    /\ {previous, live, latest} \subseteq GameStates \cup {NoState}
    /\ slowDue \in BOOLEAN
    /\ slipped \in BOOLEAN
    /\ publisher = "publishing" <=> place = "publishing"

AfterGoodTick == place = "sleeping" /\ ended = "ok" /\ ticks > 0

(***************************************************************************)
(* After a tick that went well the stream's latest message, which every new *)
(* subscriber is sent, is what live.json shows, unless the game changed or  *)
(* a slow refresh failed since it was published: no other failure, of a     *)
(* poll, of an export or of live.mgjson, makes the two part (tick).         *)
(***************************************************************************)
StreamPartsOnlyIfSlipped == AfterGoodTick /\ ~slipped => latest = live

(***************************************************************************)
(* An event is an event: apart from those slips, what is published differs  *)
(* from what was published before (score.py: "so the template can fire an   *)
(* animation on a real event rather than on every poll").                   *)
(***************************************************************************)
EventsAreReal ==
    [][sequence' # sequence /\ sequence > 0 /\ ~slipped => latest' # latest]_vars

(***************************************************************************)
(* Every tick ends, whatever fails and whatever the clients of /stream do   *)
(* as long as they read (app.py: "Never crashes the loop").                 *)
(***************************************************************************)
EveryTickEnds == place # "sleeping" ~> place \in {"sleeping", "stopped"}

(***************************************************************************)
(* Once the last tick has gone well with no slip, every connected client    *)
(* comes to have been sent what live.json shows.                            *)
(***************************************************************************)
ClientsSeeLive ==
    \A s \in Subs :
        (ticks = MaxTicks /\ AfterGoodTick /\ ~slipped) ~>
            (place = "stopped" \/ conn[s] = "gone" \/ (seen[s] = sequence /\ latest = live))

(***************************************************************************)
(* However the Watcher publishes, fails and is stopped, no client of its    *)
(* stream sleeps on news it has not been sent (subscribe, wait_for(newer)). *)
(***************************************************************************)
NobodySleepsOnNews == Broker!NoLostWakeup

(***************************************************************************)
(* Nor is any client sent a message twice, or an older one behind a newer:  *)
(* what it is sent is the state published last (subscribe, last_seen).      *)
(***************************************************************************)
NothingIsSentTwice == Broker!SkipsToNewest
=============================================================================
