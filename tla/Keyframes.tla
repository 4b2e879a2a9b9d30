------------------------------ MODULE Keyframes -------------------------------
(***************************************************************************)
(* Watch mode with live.mgjson (service/app.py, Watcher.tick): each poll    *)
(* adds a point to a history of bounded length, before anything can fail,   *)
(* and each document is built of the view and that history.  The steps are  *)
(* those of Watcher.                                                        *)
(***************************************************************************)
EXTENDS Watcher, Mgjson

CONSTANTS
    None,           \* no score, no period
    Streams,        \* the fields of the score that are plotted, by their names
    Shown,          \* score -> stream -> its value there, or None
    MaxHistory,     \* the points kept: 4000 in the code
    NoDocument      \* there is no live.mgjson yet

Plots == {Streams[i] : i \in DOMAIN Streams}

ASSUME KeyframesAssumption ==
    /\ Streams \in Seq(Plots) /\ Streams # <<>>
    /\ \A i, j \in DOMAIN Streams : Streams[i] = Streams[j] => i = j
    /\ Shown \in [Scores -> [Plots -> Int \cup {None}]]
    /\ None \notin Int
    /\ MaxHistory \in Nat \ {0}

VARIABLES
    history,    \* Watcher.history: the states polled, the oldest first
    mgjson      \* live.mgjson

files == <<history, mgjson>>
keyVars == <<vars, files>>

KeyInit == Init /\ history = <<>> /\ mgjson = NoDocument

(* Mutant: the newest point goes.                                           *)
KeptOldest(state) ==
    LET all == Append(history, state)
    IN  IF Len(all) > MaxHistory THEN SubSeq(all, 1, MaxHistory) ELSE all

(* One more point; beyond the cap the oldest goes. *)
Kept(state) ==
    LET all == Append(history, state)
    IN  IF Len(all) > MaxHistory THEN Tail(all) ELSE all

(* The samples of a stream: the points that have a value. *)
Samples(plot, points) ==
    LET values == [i \in DOMAIN points |-> Shown[points[i].score][plot]]
    IN  Picked(values, {i \in DOMAIN values : values[i] # None})

(* The characters of a value as a text: nothing for None. *)
Characters(value) ==
    IF value = None THEN 0 ELSE Digits(Abs(value)) + (IF value < 0 THEN 1 ELSE 0)

(* The flat fields of live.json the document repeats, all texts but one. *)
Fields == <<"contest_id", "home_score", "is_live", "warning_count">>

View(state) ==
    [contest_id    |-> [kind |-> "text", value |-> 36],
     home_score    |-> [kind |-> "text", value |-> Characters(Shown[state.score][Streams[1]])],
     is_live       |-> [kind |-> "boolean", value |-> TRUE],
     warning_count |-> [kind |-> "number", value |-> 0]]

(* mgjson_for_live, with the history. *)
Document(state, points) ==
    Build(Fields, View(state),
          [i \in DOMAIN Streams |->
              [name |-> Streams[i], samples |-> Samples(Streams[i], points)]])

(* live_view or live.json fails, behind the new point. *)
PolledInVain(state) ==
    /\ ExportFails
    /\ history' = Kept(state)
    /\ UNCHANGED mgjson

(* The document is refused, or cannot be written. *)
MgjsonLost(state) ==
    /\ MgjsonFails(state)
    /\ history' = Kept(state)
    /\ UNCHANGED mgjson

(* write_mgjson validates what it writes. *)
ExportsBoth(state) ==
    /\ Problems(Document(state, Kept(state))) = {}
    /\ Exports(state)
    /\ history' = Kept(state)
    /\ mgjson' = Document(state, Kept(state))

Elsewhere ==
    \/ StartTick \/ PollFails \/ Published
    \/ ScheduleArrives \/ SlowRefreshEnds \/ SlowRefreshFails
    \/ SlowBecomesDue \/ Stop
    \/ \E s \in Subs : Broker!Connection(s) /\ UNCHANGED watch

KeyNext ==
    \/ Elsewhere /\ UNCHANGED files
    \/ \E state \in GameStates :
          PolledInVain(state) \/ MgjsonLost(state) \/ ExportsBoth(state)

KeySpec == KeyInit /\ [][KeyNext]_keyVars

(* The fairness of Watcher: no document stands in the way of a tick. *)
KeyFairSpec == KeySpec /\ WatchFairness /\ Broker!LockFairness /\ Broker!ClientsRead

-----------------------------------------------------------------------------
(* The samples of a stream in the document, none if it is not there. *)
Plotted(plot) ==
    LET hits == {i \in DOMAIN mgjson.sets : mgjson.sets[i].id = plot}
    IN  IF hits = {} THEN <<>> ELSE mgjson.sets[Min(hits)].samples

(* A value has no more digits, and is in the range, its stream declares. *)
Fits(value, entry) ==
    /\ Digits(Abs(value)) <= entry.props.digits
    /\ value \in entry.props.min..entry.props.max
    /\ value < 0 => entry.props.signed

(***************************************************************************)
(* Before a state is told to the stream or remembered, its document is      *)
(* there: valid, its keyframes end with what live.json shows, every one     *)
(* fits what its stream declares, and there are no more than the cap; and   *)
(* no state that may be polled next is refused (tick, write_mgjson:         *)
(* "structural round-trip validation before anything reaches an AE import").*)
(***************************************************************************)
KeyframesFollowLive ==
    /\ place \in {"publishing", "schedule", "roster"} \/ AfterGoodTick =>
          /\ Problems(mgjson) = {}
          /\ \A i \in DOMAIN Streams :
                LET value == Shown[live.score][Streams[i]]
                    samples == Plotted(Streams[i])
                IN  /\ value # None => samples # <<>> /\ samples[Len(samples)] = value
                    /\ Len(samples) <= MaxHistory
          /\ \A i \in Declared(mgjson) :
                LET entry == mgjson.outline[i]
                    samples == Plotted(entry.name)
                IN  \A j \in DOMAIN samples : Fits(samples[j], entry)
    /\ place = "polling" =>
          \A state \in GameStates : Problems(Document(state, Kept(state))) = {}
=============================================================================
