---------------------------- MODULE WatcherProofs ----------------------------
(***************************************************************************)
(* Safety of Watcher for any contests, scores and connections.  That the    *)
(* stream parts from live.json only by a slip rests on previous: before a   *)
(* publish the stream shows what the task remembers, behind it what is in   *)
(* the file, and a tick that goes well remembers the file.  That events are *)
(* real needs that only news is published, and that nothing is numbered 0.  *)
(***************************************************************************)
EXTENDS Keyframes, PlaceProofs

StreamShowsPrevious ==
    ~slipped => IF place \in {"schedule", "roster"} THEN latest = live
                ELSE place = "stopped" \/ latest = previous

RemembersTheFile == AfterGoodTick => previous = live

Exported == place \in {"publishing", "schedule", "roster"} => live \in GameStates

TellsNews == place = "publishing" => previous = NoState \/ previous # live

Numbered == sequence \in Nat /\ (latest = NoState <=> sequence = 0)

IInv ==
    TypeOK /\ StreamShowsPrevious /\ RemembersTheFile /\ Exported /\ TellsNews /\ Numbered

(* Two states of one game that do not differ are the same. *)
LEMMA SilenceMeansSame ==
    ASSUME NEW cur \in GameStates, previous \in GameStates \cup {NoState}, ~Tells(cur),
           previous.contest = cur.contest
    PROVE  previous = cur
  BY DEF Tells, Differs, GameStates

LEMMA InitIInv == Init => IInv
  <1> SUFFICES ASSUME Init
               PROVE  IInv
    OBVIOUS
  <1>1. /\ place = "sleeping" /\ ticks = 0 /\ ended = "ok" /\ publisher = "idle"
        /\ previous = NoState /\ latest = NoState /\ live \in GameStates \cup {NoState}
        /\ slowDue \in BOOLEAN /\ slipped = FALSE /\ sequence = 0
    BY DEF Init, Broker!Init
  <1>2. 0 \in 0..MaxTicks
    BY WatcherAssumption
  <1>3. TypeOK
    BY <1>1, <1>2 DEF TypeOK, Awaits
  <1> QED
    BY <1>1, <1>3
       DEF IInv, StreamShowsPrevious, RemembersTheFile, AfterGoodTick, Exported, TellsNews,
           Numbered

(* The end of a tick, or its slow refresh, behind an export or a publish. *)
LEMMA GoOnParts ==
    ASSUME NEW state, GoOn(state)
    PROVE  \/ /\ place' = "schedule" /\ slowDue' = FALSE
              /\ previous' = previous /\ ended' = ended
           \/ /\ place' = "sleeping" /\ ended' = "ok"
              /\ previous' = state /\ slowDue' = slowDue
  BY DEF GoOn

LEMMA TickIInv ==
    ASSUME IInv, Tick
    PROVE  IInv'
  <1> USE DEF IInv, TypeOK, StreamShowsPrevious, RemembersTheFile, AfterGoodTick, Exported,
              TellsNews, Numbered, Awaits, stream
  <1>1. CASE StartTick
    BY <1>1, WatcherAssumption DEF StartTick
  <1>2. CASE PollFails \/ ExportFails
    BY <1>2 DEF PollFails, ExportFails, Fails
  <1>3. ASSUME NEW state \in GameStates, MgjsonFails(state)
        PROVE  IInv'
    BY <1>3 DEF MgjsonFails, Fails
  <1>4. ASSUME NEW state \in GameStates, Exports(state)
        PROVE  IInv'
    <2>1. CASE Tells(state)
      BY <1>4, <2>1 DEF Exports, Broker!CallPublish, Tells, Differs
    <2>2. CASE ~Tells(state)
      <3>1. /\ GoOn(state) /\ UNCHANGED <<stream, ticks, latest>> /\ live' = state
            /\ slipped' = (slipped \/ previous.contest # state.contest)
            /\ place = "polling"
        BY <1>4, <2>2 DEF Exports
      <3>2. ~slipped' => ~slipped /\ previous = state
        BY <2>2, <3>1, SilenceMeansSame
      <3> QED
        BY <3>1, <3>2, GoOnParts
    <2> QED
      BY <2>1, <2>2
  <1>5. CASE Published
    <2>1. /\ GoOn(live) /\ latest' = live /\ live' = live /\ slipped' = FALSE
          /\ ticks' = ticks /\ publisher' = "idle" /\ place = "publishing"
          /\ sequence' = sequence + 1
      BY <1>5 DEF Published, Broker!Publish
    <2>2. Numbered'
      BY <2>1, WatcherAssumption
    <2> QED
      BY <2>1, <2>2, GoOnParts
  <1>6. CASE ScheduleArrives
    BY <1>6 DEF ScheduleArrives
  <1>7. CASE SlowRefreshEnds
    BY <1>7 DEF SlowRefreshEnds
  <1>8. CASE SlowRefreshFails
    BY <1>8 DEF SlowRefreshFails, Fails
  <1> QED
    BY <1>1, <1>2, <1>3, <1>4, <1>5, <1>6, <1>7, <1>8 DEF Tick

(* The connections leave the publisher alone. *)
LEMMA ConnectionsDoNotPublish ==
    ASSUME NEW s \in Subs, Broker!Connection(s)
    PROVE  publisher' = publisher /\ sequence' = sequence
  BY DEF Broker!Connection, Broker!Connect, Broker!Generator, Broker!ReadInitial,
         Broker!CheckNews, Broker!Heartbeat, Broker!Client, Broker!Resume, Broker!ResumeBeat,
         Broker!TimeOut, Broker!Disconnect, Broker!Goto, Broker!SendLatest

(* Every step keeps IInv. *)
LEMMA NextIInv == IInv /\ [Next]_vars => IInv'
  <1> SUFFICES ASSUME IInv, [Next]_vars
               PROVE  IInv'
    OBVIOUS
  <1> USE DEF IInv, TypeOK, StreamShowsPrevious, RemembersTheFile, AfterGoodTick, Exported,
              TellsNews, Numbered, Awaits, stream, watch
  <1>1. CASE SlowBecomesDue
    BY <1>1 DEF SlowBecomesDue
  <1>2. CASE Stop
    BY <1>2 DEF Stop, Broker!AbandonPublish
  <1>3. ASSUME NEW s \in Subs, Broker!Connection(s) /\ UNCHANGED watch
        PROVE  IInv'
    BY <1>3, ConnectionsDoNotPublish
  <1>4. CASE UNCHANGED vars
    BY <1>4 DEF vars
  <1> QED
    BY <1>1, <1>2, <1>3, <1>4, TickIInv DEF Next

(* Every variable of the Watcher keeps a value of its type. *)
THEOREM TypeCorrect == Spec => []TypeOK
  <1>1. IInv => TypeOK
    BY DEF IInv
  <1> QED
    BY InitIInv, NextIInv, <1>1, PTL DEF Spec

(***************************************************************************)
(* After a good tick the stream and live.json differ only by a change of    *)
(* game or a failed slow refresh (Watcher.tick).                            *)
(***************************************************************************)
THEOREM OnlySlipsPart == Spec => []StreamPartsOnlyIfSlipped
  <1>1. IInv => StreamPartsOnlyIfSlipped
    BY DEF IInv, StreamShowsPrevious, RemembersTheFile, AfterGoodTick,
           StreamPartsOnlyIfSlipped
  <1> QED
    BY InitIInv, NextIInv, <1>1, PTL DEF Spec

(***************************************************************************)
(* Apart from those slips no event repeats the one before it, so a template *)
(* animates on real events only (Watcher.tick, diff_score_states).          *)
(***************************************************************************)
THEOREM OnlyRealEvents == Spec => EventsAreReal
  <1> DEFINE Real == sequence' # sequence /\ sequence > 0 /\ ~slipped => latest' # latest
  <1>1. ASSUME IInv, [Next]_vars
        PROVE  [Real]_vars
    <2> SUFFICES ASSUME Next, sequence' # sequence, sequence > 0, ~slipped
                 PROVE  latest' # latest
      BY <1>1
    <2>1. Published
      BY ConnectionsDoNotPublish
         DEF Next, Tick, StartTick, PollFails, ExportFails, MgjsonFails, Exports, ScheduleArrives,
             SlowRefreshEnds, SlowRefreshFails, SlowBecomesDue, Stop, stream,
             Broker!CallPublish, Broker!AbandonPublish
    <2>2. latest' = live /\ place = "publishing"
      BY <2>1 DEF Published
    <2>3. latest = previous /\ latest # NoState
      BY <1>1, <2>2 DEF IInv, StreamShowsPrevious, Numbered
    <2> QED
      BY <1>1, <2>2, <2>3 DEF IInv, TellsNews
  <1> QED
    BY InitIInv, NextIInv, <1>1, PTL DEF Spec, EventsAreReal

(***************************************************************************)
(* The Watcher, its shutdown and its clients drive the broker as LiveBroker *)
(* says: every step is a step of the broker or leaves it alone.             *)
(***************************************************************************)
LEMMA WatcherDrivesTheBroker == Spec => Broker!Spec
  <1>1. Init => Broker!Init
    BY DEF Init
  <1>2. [Next]_vars => [Broker!Next]_Broker!vars
    <2> SUFFICES ASSUME [Next]_vars
                 PROVE  Broker!Next \/ UNCHANGED Broker!vars
      OBVIOUS
    <2>1. CASE Tick
      BY <2>1 DEF Tick, StartTick, PollFails, ExportFails, MgjsonFails, Exports, Published,
                  ScheduleArrives, SlowRefreshEnds, SlowRefreshFails, stream, Broker!vars,
                  Broker!Next
    <2>2. CASE SlowBecomesDue \/ Stop
      BY <2>2 DEF SlowBecomesDue, Stop, stream, Broker!vars, Broker!Next
    <2>3. CASE \E s \in Subs : Broker!Connection(s) /\ UNCHANGED watch
      BY <2>3 DEF Broker!Next
    <2>4. CASE UNCHANGED vars
      BY <2>4 DEF vars, stream, Broker!vars
    <2> QED
      BY <2>1, <2>2, <2>3, <2>4 DEF Next
  <1> QED
    BY <1>1, <1>2, PTL DEF Spec, Broker!Spec

-----------------------------------------------------------------------------
(***************************************************************************)
(* Watch mode with its keyframes is watch mode, so what is shown above of   *)
(* the stream holds with live.mgjson beside it; and the history that every  *)
(* document is built of is bounded and ends with what live.json shows when  *)
(* that is told to the stream, for any scores, streams and cap.             *)
(***************************************************************************)

(* Every step with keyframes is a step of Watcher, or none. *)
LEMMA KeyStepIsStep ==
    ASSUME [KeyNext]_keyVars
    PROVE  [Next]_vars
<1>1. CASE UNCHANGED keyVars
  BY <1>1 DEF keyVars
<1>2. CASE Elsewhere
  BY <1>2 DEF Elsewhere, Next, Tick
<1>3. ASSUME NEW state \in GameStates,
             PolledInVain(state) \/ MgjsonLost(state) \/ ExportsBoth(state)
      PROVE  Next
  BY <1>3 DEF PolledInVain, MgjsonLost, ExportsBoth, Next, Tick
<1>4. QED
  BY <1>1, <1>2, <1>3 DEF KeyNext

(***************************************************************************)
(* The keyframes stand in the way of nothing: whatever is written to        *)
(* live.mgjson, the task does what Watcher says (tick).                     *)
(***************************************************************************)
THEOREM KeyframesImplementWatcher == KeySpec => Spec
<1>1. KeyInit => Init
  BY DEF KeyInit
<1>2. [KeyNext]_keyVars => [Next]_vars
  BY KeyStepIsStep
<1>3. QED
  BY <1>1, <1>2, PTL DEF KeySpec, Spec

-----------------------------------------------------------------------------
(* The history *)

HistoryBounded == history \in Seq(GameStates) /\ Len(history) <= MaxHistory

(* From an export to the end of its tick, and behind one that went well. *)
Settled == place \in {"publishing", "schedule", "roster"} \/ AfterGoodTick

HistoryEndsWithLive ==
    Settled => history # <<>> /\ history[Len(history)] = live

(* One more point, and the newest is the last. *)
LEMMA KeptIsBounded ==
    ASSUME NEW state \in GameStates, HistoryBounded
    PROVE  /\ Kept(state) \in Seq(GameStates)
           /\ Len(Kept(state)) \in 1..MaxHistory
           /\ Kept(state)[Len(Kept(state))] = state
<1> DEFINE all == Append(history, state)
<1>1. /\ all \in Seq(GameStates) /\ Len(all) = Len(history) + 1
      /\ all[Len(all)] = state /\ Len(history) \in Nat
  BY DEF HistoryBounded
<1>2. MaxHistory \in Nat \ {0}
  BY KeyframesAssumption
<1>3. CASE Len(all) > MaxHistory
  <2>1. Kept(state) = Tail(all)
    BY <1>3 DEF Kept
  <2>2. Tail(all) \in Seq(GameStates) /\ Len(Tail(all)) = Len(all) - 1
    BY <1>1, <1>2, <1>3
  <2>3. Len(Tail(all)) = MaxHistory
    BY <1>1, <1>2, <1>3, <2>2 DEF HistoryBounded
  <2>4. Tail(all)[Len(Tail(all))] = all[Len(all)]
    BY <1>1, <1>2, <1>3, <2>2, <2>3
  <2>5. QED
    BY <1>1, <1>2, <2>1, <2>2, <2>3, <2>4
<1>4. CASE Len(all) <= MaxHistory
  BY <1>1, <1>2, <1>4 DEF Kept
<1>5. QED
  BY <1>1, <1>2, <1>3, <1>4

-----------------------------------------------------------------------------
(* Numbers and their digits *)

(* Digits takes the greatest of these. *)
DigitPlaces(n) == {1} \cup {d \in 2..(n \div 10 + 2) : 10^(d - 1) \in 1..n}

LEMMA DigitPlacesAre ==
    ASSUME NEW n \in Nat
    PROVE  /\ DigitPlaces(n) \in SUBSET Int /\ DigitPlaces(n) \in SUBSET Nat
           /\ IsFiniteSet(DigitPlaces(n)) /\ 1 \in DigitPlaces(n)
<1>1. n \div 10 + 2 \in Nat
  OBVIOUS
<1>2. DigitPlaces(n) \subseteq 1..(n \div 10 + 2)
  BY <1>1 DEF DigitPlaces
<1>3. IsFiniteSet(1..(n \div 10 + 2))
  BY <1>1, FS_Interval
<1>4. QED
  BY <1>1, <1>2, <1>3, FS_Subset DEF DigitPlaces

LEMMA DigitsAre ==
    ASSUME NEW n \in Nat
    PROVE  Digits(n) \in Nat \ {0} /\ Digits(n) \in DigitPlaces(n)
<1>1. Digits(n) = Max(DigitPlaces(n))
  BY DEF Digits, DigitPlaces
<1>2. Digits(n) \in DigitPlaces(n) /\ 1 <= Digits(n)
  BY <1>1, DigitPlacesAre, MaxOfFinite
<1>3. QED
  BY <1>2, DigitPlacesAre

(* A larger number has no fewer digits. *)
LEMMA DigitsGrow ==
    ASSUME NEW m \in Nat, NEW n \in Nat, m <= n
    PROVE  Digits(m) <= Digits(n)
<1>1. Digits(n) = Max(DigitPlaces(n))
  BY DEF Digits, DigitPlaces
<1>2. \A d \in 2..(m \div 10 + 2) : d \in 2..(n \div 10 + 2)
  OBVIOUS
<1>3. \A p : p \in 1..m => p \in 1..n
  OBVIOUS
<1>4. DigitPlaces(m) \subseteq DigitPlaces(n)
  BY <1>2, <1>3 DEF DigitPlaces
<1>5. Digits(m) \in DigitPlaces(n)
  BY <1>4, DigitsAre
<1>6. QED
  BY <1>1, <1>5, DigitPlacesAre, MaxOfFinite

LEMMA AbsIs ==
    ASSUME NEW v \in Int
    PROVE  Abs(v) \in Nat /\ Abs(v) = (IF v < 0 THEN -v ELSE v)
  BY DEF Abs

ItemsOf(values) == {values[i] : i \in DOMAIN values}

LEMMA ItemsAreFinite ==
    ASSUME NEW values \in Seq(Int), values # <<>>
    PROVE  /\ ItemsOf(values) \in SUBSET Int /\ ItemsOf(values) # {}
           /\ IsFiniteSet(ItemsOf(values))
<1>1. Len(values) \in Nat \ {0} /\ DOMAIN values = 1..Len(values)
      /\ \A i \in 1..Len(values) : values[i] \in Int
  OBVIOUS
<1>2. IsFiniteSet(1..Len(values))
  BY <1>1, FS_Interval
<1>3. values \in Surjection(1..Len(values), ItemsOf(values))
  BY <1>1 DEF ItemsOf, Surjection
<1>4. IsFiniteSet(ItemsOf(values))
  BY <1>2, <1>3, FS_Surjection
<1>5. 1 \in DOMAIN values
  BY <1>1
<1>6. QED
  BY <1>1, <1>4, <1>5 DEF ItemsOf

(* What is declared of a stream holds of each of its values. *)
LEMMA ValuesFit ==
    ASSUME NEW values \in Seq(Int), NEW j \in DOMAIN values,
           NEW entry, entry.props = NumberProps(values)
    PROVE  Fits(values[j], entry)
<1> DEFINE all == ItemsOf(values)
           v == values[j]
           ends == {Digits(Abs(x)) : x \in {Min(all), Max(all), 0}}
<1>1. values # <<>> /\ v \in Int /\ v \in all
  BY DEF ItemsOf
<1>2. all \in SUBSET Int /\ all # {} /\ IsFiniteSet(all)
  BY <1>1, ItemsAreFinite
<1>3. Min(all) \in Int /\ Max(all) \in Int /\ Min(all) <= v /\ v <= Max(all)
  BY <1>1, <1>2, MaxOfFinite, MinOfFinite
<1>4. /\ entry.props.digits = Max(ends)
      /\ entry.props.signed = (Min(all) < 0)
      /\ entry.props.min = Min(all) /\ entry.props.max = Max(all)
  BY <1>1 DEF NumberProps, ItemsOf
<1> HIDE DEF all, v
<1>5. v \in entry.props.min..entry.props.max /\ (v < 0 => entry.props.signed)
  <2>1. v \in Min(all)..Max(all) /\ (v < 0 => Min(all) < 0)
    BY <1>1, <1>3
  <2>2. QED
    BY <1>4, <2>1
<1>6. /\ ends = {Digits(Abs(Min(all))), Digits(Abs(Max(all))), Digits(Abs(0))}
      /\ Abs(Min(all)) \in Nat /\ Abs(Max(all)) \in Nat /\ Abs(0) \in Nat /\ Abs(v) \in Nat
  BY <1>1, <1>3, AbsIs
<1>7. /\ Digits(Abs(Min(all))) \in Nat /\ Digits(Abs(Max(all))) \in Nat
      /\ Digits(Abs(0)) \in Nat /\ Digits(Abs(v)) \in Nat
  BY <1>6, DigitsAre
<1>8. ends \in SUBSET Int /\ ends # {} /\ IsFiniteSet(ends)
  <2>1. IsFiniteSet({Digits(Abs(Min(all)))})
    BY FS_Singleton
  <2>2. IsFiniteSet({Digits(Abs(Max(all))), Digits(Abs(Min(all)))})
    <3>1. {Digits(Abs(Max(all))), Digits(Abs(Min(all)))}
              = {Digits(Abs(Min(all)))} \cup {Digits(Abs(Max(all)))}
      OBVIOUS
    <3>2. QED
      BY <2>1, <3>1, FS_AddElement
  <2>3. ends = {Digits(Abs(Max(all))), Digits(Abs(Min(all)))} \cup {Digits(Abs(0))}
    BY <1>6
  <2>4. IsFiniteSet(ends)
    BY <2>2, <2>3, FS_AddElement
  <2>5. QED
    BY <1>6, <1>7, <2>4
<1> HIDE DEF ends
<1>9. /\ Digits(Abs(Min(all))) <= Max(ends) /\ Digits(Abs(Max(all))) <= Max(ends)
      /\ Max(ends) \in Int
  BY <1>6, <1>8, MaxOfFinite
<1>10. Abs(v) <= Abs(Min(all)) \/ Abs(v) <= Abs(Max(all))
  BY <1>1, <1>3, AbsIs
<1>11. Digits(Abs(v)) <= Max(ends)
  BY <1>6, <1>7, <1>9, <1>10, DigitsGrow
<1>12. QED
  BY <1>4, <1>5, <1>11 DEF Fits, v

-----------------------------------------------------------------------------
(* The samples of a stream *)

ValueOf(plot, point) == Shown[point.score][plot]

(* A stream has a sample of each point that has a value, the newest last. *)
LEMMA SamplesAre ==
    ASSUME NEW points \in Seq(GameStates), NEW plot \in Plots
    PROVE  /\ Samples(plot, points) \in Seq(Int)
           /\ Len(Samples(plot, points)) <= Len(points)
           /\ points # <<>> /\ ValueOf(plot, points[Len(points)]) # None =>
                 /\ Samples(plot, points) # <<>>
                 /\ Samples(plot, points)[Len(Samples(plot, points))]
                        = ValueOf(plot, points[Len(points)])
<1> DEFINE values == [i \in DOMAIN points |-> Shown[points[i].score][plot]]
           there == {i \in DOMAIN values : values[i] # None}
<1>1. Samples(plot, points) = Picked(values, there)
  BY DEF Samples
<1>2. /\ Len(points) \in Nat /\ DOMAIN points = 1..Len(points)
      /\ \A i \in DOMAIN points : points[i] \in GameStates
  OBVIOUS
<1>3. \A i \in DOMAIN points : Shown[points[i].score][plot] \in Int \cup {None}
  BY <1>2, KeyframesAssumption DEF GameStates
<1>4. values \in Seq(Int \cup {None}) /\ DOMAIN values = 1..Len(points) /\ Len(values) = Len(points)
  BY <1>2, <1>3
<1> HIDE DEF values
<1>5. there \in SUBSET (DOMAIN values)
  BY DEF there
<1>7. \A i \in there : values[i] \in Int
  BY <1>4 DEF there
<1> HIDE DEF there
<1>6. /\ IsFiniteSet(there) /\ Len(Picked(values, there)) = Cardinality(there)
      /\ Picked(values, there) \in Seq(Int \cup {None})
      /\ \A n \in 1..Cardinality(there) : \E i \in there : Picked(values, there)[n] = values[i]
  BY <1>4, <1>5, PickedItems
<1>8. Cardinality(there) \in Nat /\ Cardinality(there) <= Len(points)
  <2>1. IsFiniteSet(1..Len(points)) /\ Cardinality(1..Len(points)) = Len(points)
    BY <1>2, FS_Interval
  <2>2. QED
    BY <1>4, <1>5, <2>1, FS_Subset, FS_CardinalityType
<1>9. Picked(values, there) \in Seq(Int)
  <2>1. \A n \in 1..Cardinality(there) : Picked(values, there)[n] \in Int
    BY <1>6, <1>7
  <2>2. QED
    BY <1>6, <1>8, <2>1
<1>10. ASSUME points # <<>>, ValueOf(plot, points[Len(points)]) # None
       PROVE  /\ Picked(values, there) # <<>>
              /\ Picked(values, there)[Len(Picked(values, there))]
                     = ValueOf(plot, points[Len(points)])
  <2>1. Len(points) \in DOMAIN values /\ \A j \in DOMAIN values : j <= Len(points)
    BY <1>2, <1>4, <1>10
  <2>2. values[Len(points)] = ValueOf(plot, points[Len(points)])
    BY <1>4, <2>1 DEF ValueOf, values
  <2>3. Len(points) \in there /\ \A j \in there : j <= Len(points)
    BY <1>5, <1>10, <2>1, <2>2 DEF there
  <2>4. /\ Len(Picked(values, there)) \in Nat \ {0}
        /\ Picked(values, there)[Len(Picked(values, there))] = values[Len(points)]
    BY <1>4, <1>5, <2>3, PickedLast
  <2>5. QED
    BY <1>9, <2>2, <2>4
<1>11. QED
  BY <1>1, <1>6, <1>8, <1>9, <1>10

-----------------------------------------------------------------------------
(* What the builder builds, the validator accepts *)

Series(S) == [name : S, samples : Seq(Int)]

OneOfAName(streams) ==
    \A i, j \in DOMAIN streams : streams[i].name = streams[j].name => i = j

(* The streams that are declared are those with samples, in their order. *)
LEMMA AddedAre ==
    ASSUME NEW S, NEW streams \in Seq(Series(S)), OneOfAName(streams)
    PROVE  /\ Added(streams) \in Seq(Series(S)) /\ OneOfAName(Added(streams))
           /\ \A m \in DOMAIN Added(streams) :
                 /\ Added(streams)[m].samples # <<>>
                 /\ \E i \in DOMAIN streams : Added(streams)[m] = streams[i]
           /\ \A i \in DOMAIN streams :
                 streams[i].samples # <<>> =>
                     \E m \in DOMAIN Added(streams) : Added(streams)[m] = streams[i]
<1> DEFINE there == {i \in DOMAIN streams : streams[i].samples # <<>>}
           added == Added(streams)
<1>1. added = Picked(streams, there)
  BY DEF Added
<1>2. there \in SUBSET (DOMAIN streams)
  OBVIOUS
<1>3. \A i \in there : streams[i].samples # <<>>
  OBVIOUS
<1>4. \A i \in DOMAIN streams : streams[i].samples # <<>> => i \in there
  OBVIOUS
<1> HIDE DEF there
<1>5. /\ IsFiniteSet(there) /\ Len(added) = Cardinality(there) /\ added \in Seq(Series(S))
      /\ \A n \in 1..Cardinality(there) :
            \E i \in there : Rank(there, i) = n /\ added[n] = streams[i]
  BY <1>1, <1>2, PickedItems
<1>6. \A i \in there : \E n \in 1..Cardinality(there) : added[n] = streams[i]
  BY <1>1, <1>2, PickedAll
<1> HIDE DEF added
<1>7. DOMAIN added = 1..Cardinality(there)
  BY <1>5
<1>8. OneOfAName(added)
  <2>1. ASSUME NEW m \in DOMAIN added, NEW n \in DOMAIN added, added[m].name = added[n].name
        PROVE  m = n
    <3>1. PICK i \in there : Rank(there, i) = m /\ added[m] = streams[i]
      BY <1>5, <1>7
    <3>2. PICK k \in there : Rank(there, k) = n /\ added[n] = streams[k]
      BY <1>5, <1>7
    <3>3. i = k
      BY <1>2, <2>1, <3>1, <3>2 DEF OneOfAName
    <3>4. QED
      BY <3>1, <3>2, <3>3
  <2>2. QED
    BY <2>1 DEF OneOfAName
<1>9. QED
  BY <1>2, <1>3, <1>4, <1>5, <1>6, <1>7, <1>8 DEF added

(* A field of a view, and what a static of it is. *)
IsField(field) ==
    /\ field.kind \in {"text", "boolean", "number"}
    /\ field.kind = "text" => field.value \in Nat

Holds(entry) ==
    /\ entry.object = "dataStatic"
    /\ ~(entry.type = "paddedString" /\ entry.length > entry.maxLen)

LEMMA StaticHolds ==
    ASSUME NEW name, NEW field, IsField(field)
    PROVE  Holds(Static(name, field))
<1>1. CASE field.kind = "number"
  BY <1>1 DEF Static, Holds
<1>2. CASE field.kind # "number"
  <2> DEFINE length == IF field.kind = "boolean" THEN IF field.value THEN 4 ELSE 5
                                                 ELSE field.value
  <2>1. length \in Nat
    BY <1>2 DEF IsField
  <2>2. Static(name, field) = [object |-> "dataStatic", type |-> "paddedString", name |-> name,
                               length |-> length, maxLen |-> Max({1, length})]
    BY <1>2 DEF Static
  <2> HIDE DEF length
  <2>3. IsFiniteSet({1, length})
    <3>1. {1, length} = {1} \cup {length}
      OBVIOUS
    <3>2. IsFiniteSet({1})
      BY FS_Singleton
    <3>3. QED
      BY <3>1, <3>2, FS_AddElement
  <2>4. ~(length > Max({1, length}))
    <3>1. {1, length} \in SUBSET Int /\ {1, length} # {}
      BY <2>1
    <3>2. Max({1, length}) \in Int /\ length <= Max({1, length})
      BY <2>3, <3>1, MaxOfFinite
    <3>3. QED
      BY <2>1, <3>2
  <2>5. QED
    BY <2>2, <2>4 DEF Holds
<1>3. QED
  BY <1>1, <1>2

(* The outline lists the fields, then the streams. *)
Outlined(doc, names, view, dynamics) ==
    /\ DOMAIN doc.outline = 1..(Len(names) + Len(dynamics))
    /\ \A k \in 1..Len(names) : doc.outline[k] = Static(names[k], view[names[k]])
    /\ \A m \in 1..Len(dynamics) : doc.outline[Len(names) + m] = Dynamic(dynamics[m])
    /\ DOMAIN doc.sets = 1..Len(dynamics)
    /\ \A m \in 1..Len(dynamics) :
          doc.sets[m].id = dynamics[m].name /\ doc.sets[m].samples = dynamics[m].samples
    /\ doc.present = (dynamics # <<>>)

LEMMA BuildOutlines ==
    ASSUME NEW S, NEW streams, Added(streams) \in Seq(Series(S)),
           NEW N, NEW names \in Seq(N), NEW view
    PROVE  Outlined(Build(names, view, streams), names, view, Added(streams))
<1> DEFINE dynamics == Added(streams)
           first == [i \in DOMAIN names |-> Static(names[i], view[names[i]])]
           then == [i \in DOMAIN dynamics |-> Dynamic(dynamics[i])]
           listed == [i \in DOMAIN dynamics |->
                         [id |-> dynamics[i].name, samples |-> dynamics[i].samples]]
           Entries == {first[i] : i \in DOMAIN names} \cup {then[i] : i \in DOMAIN dynamics}
<1>1. Build(names, view, streams)
          = [outline |-> first \o then, sets |-> listed, present |-> dynamics # <<>>]
  BY DEF Build
<1>2. /\ DOMAIN names = 1..Len(names) /\ Len(names) \in Nat
      /\ DOMAIN dynamics = 1..Len(dynamics) /\ Len(dynamics) \in Nat
  OBVIOUS
<1> HIDE DEF dynamics
<1>3. /\ first \in Seq(Entries) /\ Len(first) = Len(names)
      /\ then \in Seq(Entries) /\ Len(then) = Len(dynamics)
  BY <1>2
<1>4. /\ \A k \in 1..Len(names) : first[k] = Static(names[k], view[names[k]])
      /\ \A m \in 1..Len(dynamics) : then[m] = Dynamic(dynamics[m])
  BY <1>2
<1>5. /\ DOMAIN listed = 1..Len(dynamics)
      /\ \A m \in 1..Len(dynamics) :
            listed[m].id = dynamics[m].name /\ listed[m].samples = dynamics[m].samples
  BY <1>2
<1> HIDE DEF first, then, listed, Entries
<1>6. /\ DOMAIN (first \o then) = 1..(Len(names) + Len(dynamics))
      /\ \A k \in 1..Len(names) : (first \o then)[k] = first[k]
      /\ \A m \in 1..Len(dynamics) : (first \o then)[Len(names) + m] = then[m]
  <2>1. Follows(first \o then, first, Len(names), then, Len(dynamics))
    BY <1>3, ConcatFollows
  <2>2. first \o then \in Seq(Entries)
    BY <1>3
  <2>3. QED
    BY <2>1, <2>2 DEF Follows
<1>7. QED
  BY <1>1, <1>4, <1>5, <1>6 DEF Outlined, dynamics

(* What a dynamic entry says of its stream. *)
Declares(entry, series) ==
    /\ entry.object = "dataDynamic" /\ entry.type = "numberString"
    /\ entry.interpolation = "hold"
    /\ entry.name = series.name
    /\ entry.count = Len(series.samples)
    /\ entry.props = NumberProps(series.samples)

LEMMA DynamicDeclares ==
    ASSUME NEW series
    PROVE  Declares(Dynamic(series), series)
  BY DEF Dynamic, Declares

(* The entries of the outline: fields that hold, and streams behind them. *)
Lists(outline, n, dynamics) ==
    /\ \A i \in DOMAIN outline :
          \/ Holds(outline[i])
          \/ \E m \in 1..Len(dynamics) : i = n + m /\ Declares(outline[i], dynamics[m])
    /\ \A m \in 1..Len(dynamics) :
          n + m \in DOMAIN outline /\ Declares(outline[n + m], dynamics[m])

LEMMA EntriesAre ==
    ASSUME NEW doc, NEW N, NEW names \in Seq(N), NEW view,
           \A k \in 1..Len(names) : IsField(view[names[k]]),
           NEW S, NEW dynamics \in Seq(Series(S)), Outlined(doc, names, view, dynamics)
    PROVE  Lists(doc.outline, Len(names), dynamics)
<1>1. Len(names) \in Nat /\ Len(dynamics) \in Nat
  OBVIOUS
<1>2. \A k \in 1..Len(names) : Holds(doc.outline[k])
  BY StaticHolds DEF Outlined
<1>3. \A m \in 1..Len(dynamics) :
          /\ Len(names) + m \in DOMAIN doc.outline
          /\ Declares(doc.outline[Len(names) + m], dynamics[m])
  <2>1. \A m \in 1..Len(dynamics) : Len(names) + m \in 1..(Len(names) + Len(dynamics))
    BY <1>1
  <2>2. \A m \in 1..Len(dynamics) : Declares(Dynamic(dynamics[m]), dynamics[m])
    BY DynamicDeclares
  <2>3. QED
    BY <2>1, <2>2 DEF Outlined
<1>4. ASSUME NEW i \in DOMAIN doc.outline
      PROVE  \/ i \in 1..Len(names)
             \/ \E m \in 1..Len(dynamics) : i = Len(names) + m
  <2>1. i \in 1..(Len(names) + Len(dynamics))
    BY DEF Outlined
  <2>2. i \in 1..Len(names) \/ i - Len(names) \in 1..Len(dynamics)
    BY <1>1, <2>1
  <2>3. i = Len(names) + (i - Len(names))
    BY <1>1, <2>1
  <2>4. QED
    BY <2>2, <2>3
<1>5. QED
  BY <1>2, <1>3, <1>4 DEF Lists

(* Where the streams stand in the outline. *)
Stand(doc, n, dynamics) ==
    /\ \A i \in Declared(doc) :
          \E m \in 1..Len(dynamics) : i = n + m /\ Declares(doc.outline[i], dynamics[m])
    /\ \A m \in 1..Len(dynamics) : n + m \in Declared(doc)

LEMMA DeclaredAre ==
    ASSUME NEW doc, NEW N, NEW names \in Seq(N), NEW view,
           \A k \in 1..Len(names) : IsField(view[names[k]]),
           NEW S, NEW dynamics \in Seq(Series(S)), Outlined(doc, names, view, dynamics)
    PROVE  Stand(doc, Len(names), dynamics)
<1>1. \A entry : Holds(entry) => entry.object # "dataDynamic"
  BY DEF Holds
<1>2. \A entry, series : Declares(entry, series) => entry.object = "dataDynamic"
  BY DEF Declares
<1>3. Lists(doc.outline, Len(names), dynamics)
  BY EntriesAre
<1>4. QED
  BY <1>1, <1>2, <1>3 DEF Declared, Lists, Stand

(* The last entry of a name is the only one, and has the count. *)
LEMMA CountsAreRight ==
    ASSUME NEW doc, NEW N, NEW names \in Seq(N), NEW view,
           \A k \in 1..Len(names) : IsField(view[names[k]]),
           NEW S, NEW dynamics \in Seq(Series(S)), OneOfAName(dynamics),
           Outlined(doc, names, view, dynamics), NEW m \in 1..Len(dynamics)
    PROVE  CountOf(doc, dynamics[m].name) = Len(dynamics[m].samples)
<1> DEFINE hits == {i \in Declared(doc) : doc.outline[i].name = dynamics[m].name}
<1>1. /\ \A i \in Declared(doc) :
            \E n \in 1..Len(dynamics) :
                i = Len(names) + n /\ Declares(doc.outline[i], dynamics[n])
      /\ Len(names) + m \in Declared(doc)
  <2>1. Stand(doc, Len(names), dynamics)
    BY DeclaredAre
  <2>2. QED
    BY <2>1 DEF Stand
<1>2. Declares(doc.outline[Len(names) + m], dynamics[m])
  <2>1. Lists(doc.outline, Len(names), dynamics)
    BY EntriesAre
  <2>2. QED
    BY <2>1 DEF Lists
<1>3. Len(names) + m \in hits
  BY <1>1, <1>2 DEF Declares
<1>4. ASSUME NEW i \in hits
      PROVE  i = Len(names) + m
  <2>1. PICK n \in 1..Len(dynamics) :
            i = Len(names) + n /\ Declares(doc.outline[i], dynamics[n])
    BY <1>1
  <2>2. dynamics[n].name = dynamics[m].name
    BY <2>1 DEF Declares
  <2>3. n = m
    BY <2>2 DEF OneOfAName
  <2>4. QED
    BY <2>1, <2>3
<1> HIDE DEF hits
<1>5. hits = {Len(names) + m}
  BY <1>3, <1>4
<1>6. Len(names) + m \in Int
  OBVIOUS
<1>7. Max(hits) = Len(names) + m
  <2>1. hits \in SUBSET Int /\ hits # {} /\ IsFiniteSet(hits)
    BY <1>5, <1>6, FS_Singleton
  <2>2. QED
    BY <1>5, <2>1, MaxOfFinite
<1>8. CountOf(doc, dynamics[m].name) = doc.outline[Len(names) + m].count
  BY <1>7 DEF CountOf, hits
<1>9. QED
  BY <1>2, <1>8 DEF Declares

(***************************************************************************)
(* validate_mgjson finds nothing wrong with what the builder makes of the   *)
(* fields of a view and of streams with different names, so write_mgjson    *)
(* refuses none (export/mgjson.py, "structural round-trip validation").     *)
(***************************************************************************)
THEOREM BuiltIsValid ==
    ASSUME NEW N, NEW names \in Seq(N), NEW view,
           \A k \in 1..Len(names) : IsField(view[names[k]]),
           NEW S, NEW streams \in Seq(Series(S)), OneOfAName(streams)
    PROVE  Problems(Build(names, view, streams)) = {}
<1> DEFINE doc == Build(names, view, streams)
           dynamics == Added(streams)
<1>1. dynamics \in Seq(Series(S)) /\ OneOfAName(dynamics)
  BY AddedAre
<1>2. Outlined(doc, names, view, dynamics)
  BY <1>1, BuildOutlines
<1> HIDE DEF doc, dynamics
<1>3. /\ Len(names) \in Nat /\ Len(dynamics) \in Nat
      /\ dynamics # <<>> => 1 \in 1..Len(dynamics)
      /\ dynamics = <<>> => 1..Len(dynamics) = {}
  BY <1>1
<1> DEFINE entries == {doc.outline[i] : i \in DOMAIN doc.outline}
           sets == {doc.sets[i] : i \in DOMAIN doc.sets}
           declared == {doc.outline[i].name : i \in Declared(doc)}
           sampled == {s.id : s \in sets}
           called == {dynamics[m].name : m \in 1..Len(dynamics)}
<1>4. Lists(doc.outline, Len(names), dynamics)
  BY <1>1, <1>2, EntriesAre
<1>5. \A e \in entries : Holds(e) \/ \E series : Declares(e, series)
  BY <1>4 DEF Lists
<1>6. \A e \in entries : ~(e.type = "paddedString" /\ e.length > e.maxLen)
  <2>1. \A e : Holds(e) => ~(e.type = "paddedString" /\ e.length > e.maxLen)
    BY DEF Holds
  <2>2. \A e, series : Declares(e, series) => e.type # "paddedString"
    BY DEF Declares
  <2>3. QED
    BY <1>5, <2>1, <2>2
<1>7. \A e \in entries : e.object = "dataDynamic" => e.interpolation \in {"linear", "hold"}
  <2>1. \A e : Holds(e) => e.object # "dataDynamic"
    BY DEF Holds
  <2>2. \A e, series : Declares(e, series) => e.interpolation = "hold"
    BY DEF Declares
  <2>3. QED
    BY <1>5, <2>1, <2>2
<1>8. /\ \A i \in Declared(doc) :
            \E m \in 1..Len(dynamics) : doc.outline[i].name = dynamics[m].name
      /\ \A m \in 1..Len(dynamics) :
            \E i \in Declared(doc) : doc.outline[i].name = dynamics[m].name
  <2>1. \A e, series : Declares(e, series) => e.name = series.name
    BY DEF Declares
  <2>2. Stand(doc, Len(names), dynamics)
    BY <1>1, <1>2, DeclaredAre
  <2>3. \A m \in 1..Len(dynamics) :
            \E i \in Declared(doc) : Declares(doc.outline[i], dynamics[m])
    BY <1>4, <2>2 DEF Lists, Stand
  <2>4. QED
    BY <2>1, <2>2, <2>3 DEF Stand
<1>9. declared = called
  <2>1. \A d \in declared : d \in called
    BY <1>8
  <2>2. ASSUME NEW d \in called
        PROVE  d \in declared
    <3>1. PICK m \in 1..Len(dynamics) : d = dynamics[m].name
      OBVIOUS
    <3>2. PICK i \in Declared(doc) : doc.outline[i].name = dynamics[m].name
      BY <1>8
    <3>3. QED
      BY <3>1, <3>2
  <2>3. QED
    BY <2>1, <2>2
<1>10. /\ DOMAIN doc.sets = 1..Len(dynamics)
       /\ \A m \in 1..Len(dynamics) :
             doc.sets[m].id = dynamics[m].name /\ doc.sets[m].samples = dynamics[m].samples
  BY <1>2 DEF Outlined
<1>11. \A s \in sets : \E m \in 1..Len(dynamics) :
           s.id = dynamics[m].name /\ s.samples = dynamics[m].samples
  BY <1>10
<1>12. sampled = called
  BY <1>10
<1>13. (sets = {} <=> dynamics = <<>>) /\ (called = {} <=> dynamics = <<>>)
  <2>1. CASE dynamics = <<>>
    BY <1>3, <1>10, <2>1
  <2>2. CASE dynamics # <<>>
    BY <1>3, <1>10, <2>2
  <2>3. QED
    BY <2>1, <2>2
<1>14. \A s \in sets : CountOf(doc, s.id) = Len(s.samples)
  <2>1. \A m \in 1..Len(dynamics) : CountOf(doc, dynamics[m].name) = Len(dynamics[m].samples)
    BY <1>1, <1>2, CountsAreRight
  <2>2. QED
    BY <1>11, <2>1
<1>15. doc.present = (sets # {})
  BY <1>2, <1>13 DEF Outlined
<1> HIDE DEF entries, sets, declared, sampled, called
<1>16. /\ ~(\E e \in entries : e.type = "paddedString" /\ e.length > e.maxLen)
       /\ ~(\E e \in entries : e.object = "dataDynamic"
                /\ e.interpolation \notin {"linear", "hold"})
       /\ ~(declared # {} /\ sets = {})
       /\ ~(sampled \ declared # {})
       /\ ~(\E s \in sets : s.id \in declared /\ CountOf(doc, s.id) # Len(s.samples))
       /\ ~(declared \ sampled # {})
       /\ ~(doc.present # (sets # {}))
  BY <1>6, <1>7, <1>9, <1>12, <1>13, <1>14, <1>15
<1>17. Problems(doc) = {}
  BY <1>16 DEF Problems, entries, sets, declared, sampled
<1>18. QED
  BY <1>17 DEF doc

-----------------------------------------------------------------------------
(* The document of watch mode *)

(* What the view has is of the kinds the builder knows. *)
LEMMA FieldsAre ==
    ASSUME NEW state \in GameStates
    PROVE  /\ Fields \in Seq({"contest_id", "home_score", "is_live", "warning_count"})
           /\ \A k \in 1..Len(Fields) : IsField(View(state)[Fields[k]])
<1>1. /\ Fields \in Seq({"contest_id", "home_score", "is_live", "warning_count"})
      /\ 1..Len(Fields) = {1, 2, 3, 4}
      /\ Fields[1] = "contest_id" /\ Fields[2] = "home_score"
      /\ Fields[3] = "is_live" /\ Fields[4] = "warning_count"
  BY DEF Fields
<1>2. Characters(Shown[state.score][Streams[1]]) \in Nat
  <2> DEFINE value == Shown[state.score][Streams[1]]
  <2>1. Streams[1] \in Plots
    BY KeyframesAssumption DEF Plots
  <2>2. value \in Int \cup {None} /\ None \notin Int
    BY <2>1, KeyframesAssumption DEF GameStates
  <2> HIDE DEF value
  <2>3. value = None => Characters(value) \in Nat
    BY DEF Characters
  <2>4. ASSUME value # None
        PROVE  Characters(value) \in Nat
    <3>1. Abs(value) \in Nat
      BY <2>2, <2>4, AbsIs
    <3>2. Digits(Abs(value)) \in Nat
      BY <3>1, DigitsAre
    <3>3. QED
      BY <2>2, <2>4, <3>2 DEF Characters
  <2>5. QED
    BY <2>3, <2>4 DEF value
<1>3. /\ IsField(View(state).contest_id) /\ IsField(View(state).home_score)
      /\ IsField(View(state).is_live) /\ IsField(View(state).warning_count)
  BY <1>2 DEF View, IsField
<1>4. QED
  BY <1>1, <1>3

(* The streams the document is built of. *)
Plotting(points) ==
    [i \in DOMAIN Streams |-> [name |-> Streams[i], samples |-> Samples(Streams[i], points)]]

LEMMA PlottingIs ==
    ASSUME NEW points \in Seq(GameStates)
    PROVE  /\ Plotting(points) \in Seq(Series(Plots)) /\ OneOfAName(Plotting(points))
           /\ DOMAIN Plotting(points) = DOMAIN Streams
           /\ \A i \in DOMAIN Streams :
                 /\ Plotting(points)[i].name = Streams[i]
                 /\ Plotting(points)[i].samples = Samples(Streams[i], points)
<1>1. /\ DOMAIN Streams = 1..Len(Streams) /\ Len(Streams) \in Nat
      /\ \A i \in DOMAIN Streams : Streams[i] \in Plots
      /\ \A i, j \in DOMAIN Streams : Streams[i] = Streams[j] => i = j
  BY KeyframesAssumption
<1>2. \A i \in DOMAIN Streams : Samples(Streams[i], points) \in Seq(Int)
  BY <1>1, SamplesAre
<1>3. \A i \in DOMAIN Streams :
          [name |-> Streams[i], samples |-> Samples(Streams[i], points)] \in Series(Plots)
  BY <1>1, <1>2 DEF Series
<1>4. /\ Plotting(points) \in Seq(Series(Plots)) /\ DOMAIN Plotting(points) = DOMAIN Streams
      /\ \A i \in DOMAIN Streams :
            /\ Plotting(points)[i].name = Streams[i]
            /\ Plotting(points)[i].samples = Samples(Streams[i], points)
  BY <1>1, <1>3 DEF Plotting
<1>5. QED
  BY <1>1, <1>4 DEF OneOfAName

(* No document of watch mode is refused. *)
LEMMA DocumentIsValid ==
    ASSUME NEW state \in GameStates, NEW points \in Seq(GameStates)
    PROVE  Problems(Document(state, points)) = {}
<1>1. Document(state, points) = Build(Fields, View(state), Plotting(points))
  BY DEF Document, Plotting
<1>2. QED
  BY <1>1, FieldsAre, PlottingIs, BuiltIsValid

(* The document plots of each stream the samples it has. *)
LEMMA DocumentPlots ==
    ASSUME NEW state \in GameStates, NEW points \in Seq(GameStates),
           mgjson = Document(state, points)
    PROVE  /\ \A i \in DOMAIN Streams : Plotted(Streams[i]) = Samples(Streams[i], points)
           /\ \A k \in Declared(mgjson) :
                 \E i \in DOMAIN Streams :
                    /\ mgjson.outline[k].name = Streams[i]
                    /\ mgjson.outline[k].props = NumberProps(Samples(Streams[i], points))
<1> DEFINE dynamics == Added(Plotting(points))
<1>1. mgjson = Build(Fields, View(state), Plotting(points))
  BY DEF Document, Plotting
<1>2. /\ dynamics \in Seq(Series(Plots)) /\ OneOfAName(dynamics)
      /\ \A m \in DOMAIN dynamics :
            /\ dynamics[m].samples # <<>>
            /\ \E i \in DOMAIN Plotting(points) : dynamics[m] = Plotting(points)[i]
      /\ \A i \in DOMAIN Plotting(points) :
            Plotting(points)[i].samples # <<>> =>
                \E m \in DOMAIN dynamics : dynamics[m] = Plotting(points)[i]
  BY PlottingIs, AddedAre
<1>3. Outlined(mgjson, Fields, View(state), dynamics)
  BY <1>1, <1>2, FieldsAre, BuildOutlines
<1> HIDE DEF dynamics
<1>4. /\ DOMAIN dynamics = 1..Len(dynamics) /\ DOMAIN mgjson.sets = 1..Len(dynamics)
      /\ \A m \in DOMAIN dynamics :
            /\ mgjson.sets[m].id = dynamics[m].name
            /\ mgjson.sets[m].samples = dynamics[m].samples
  BY <1>2, <1>3 DEF Outlined
<1>5. \A m \in DOMAIN dynamics :
          \E i \in DOMAIN Streams :
             /\ dynamics[m].name = Streams[i]
             /\ dynamics[m].samples = Samples(Streams[i], points)
  BY <1>2, PlottingIs
<1>6. ASSUME NEW i \in DOMAIN Streams
      PROVE  Plotted(Streams[i]) = Samples(Streams[i], points)
  <2> DEFINE hits == {m \in DOMAIN mgjson.sets : mgjson.sets[m].id = Streams[i]}
  <2>1. Plotted(Streams[i]) = IF hits = {} THEN <<>> ELSE mgjson.sets[Min(hits)].samples
    BY DEF Plotted
  <2>2. \A m \in hits : mgjson.sets[m].samples = Samples(Streams[i], points)
    <3>1. ASSUME NEW m \in hits
          PROVE  mgjson.sets[m].samples = Samples(Streams[i], points)
      <4>1. PICK k \in DOMAIN Streams :
                /\ dynamics[m].name = Streams[k]
                /\ dynamics[m].samples = Samples(Streams[k], points)
        BY <1>4, <1>5
      <4>2. k = i
        BY <1>4, <4>1, KeyframesAssumption
      <4>3. QED
        BY <1>4, <4>1, <4>2
    <3>2. QED
      BY <3>1
  <2>3. CASE Samples(Streams[i], points) = <<>>
    <3>1. \A m \in DOMAIN dynamics : dynamics[m].samples # <<>>
      BY <1>2
    <3>2. hits = {}
      BY <1>4, <2>2, <2>3, <3>1
    <3>3. QED
      BY <2>1, <2>3, <3>2
  <2>4. CASE Samples(Streams[i], points) # <<>>
    <3>1. Plotting(points)[i].samples # <<>> /\ i \in DOMAIN Plotting(points)
      BY <2>4, PlottingIs
    <3>2. PICK m \in DOMAIN dynamics : dynamics[m] = Plotting(points)[i]
      BY <1>2, <3>1
    <3>3. dynamics[m].name = Streams[i]
      BY <3>2, PlottingIs
    <3>4. m \in hits
      BY <1>4, <3>3
    <3>5. hits \in SUBSET Int /\ IsFiniteSet(hits)
      <4>1. IsFiniteSet(1..Len(dynamics)) /\ hits \in SUBSET (1..Len(dynamics))
        BY <1>2, <1>4, FS_Interval
      <4>2. QED
        BY <4>1, FS_Subset
    <3> HIDE DEF hits
    <3>6. Min(hits) \in hits
      BY <3>4, <3>5, MinOfFinite
    <3>7. QED
      BY <2>1, <2>2, <3>4, <3>6
  <2>5. QED
    BY <2>3, <2>4
<1>7. ASSUME NEW k \in Declared(mgjson)
      PROVE  \E i \in DOMAIN Streams :
                /\ mgjson.outline[k].name = Streams[i]
                /\ mgjson.outline[k].props = NumberProps(Samples(Streams[i], points))
  <2>0. Stand(mgjson, Len(Fields), dynamics)
    BY <1>2, <1>3, FieldsAre, DeclaredAre
  <2>1. PICK m \in 1..Len(dynamics) : Declares(mgjson.outline[k], dynamics[m])
    BY <2>0 DEF Stand
  <2>2. /\ mgjson.outline[k].name = dynamics[m].name
        /\ mgjson.outline[k].props = NumberProps(dynamics[m].samples)
    BY <2>1 DEF Declares
  <2>3. QED
    BY <1>4, <1>5, <2>1, <2>2
<1>8. QED
  BY <1>6, <1>7

-----------------------------------------------------------------------------
(* The document follows live.json *)

(* The document on the disk is the one of what live.json shows. *)
DocumentFollowsLive ==
    Settled => live \in GameStates /\ mgjson = Document(live, history)

DInv == HistoryBounded /\ HistoryEndsWithLive /\ DocumentFollowsLive

LEMMA InitDInv ==
    ASSUME KeyInit
    PROVE  DInv
<1>1. MaxHistory \in Nat \ {0}
  BY KeyframesAssumption
<1>2. QED
  BY <1>1
     DEF KeyInit, Init, DInv, HistoryBounded, HistoryEndsWithLive, DocumentFollowsLive, Settled,
         AfterGoodTick

LEMMA ElsewhereSettlesNothing ==
    ASSUME Elsewhere
    PROVE  live' = live /\ (Settled' => Settled)
  BY DEF Elsewhere, StartTick, PollFails, Published, ScheduleArrives, SlowRefreshEnds,
         SlowRefreshFails, SlowBecomesDue, Stop, Fails, GoOn, Settled, AfterGoodTick,
         watch

LEMMA NextDInv ==
    ASSUME DInv, [KeyNext]_keyVars
    PROVE  DInv'
<1>1. CASE Elsewhere /\ UNCHANGED files
  <2>1. live' = live /\ (Settled' => Settled) /\ history' = history /\ mgjson' = mgjson
    BY <1>1, ElsewhereSettlesNothing DEF files
  <2>2. Document(live, history)' = Document(live', history')
    OBVIOUS
  <2>3. QED
    BY <2>1 DEF DInv, HistoryBounded, HistoryEndsWithLive, DocumentFollowsLive
<1>2. ASSUME NEW state \in GameStates, PolledInVain(state) \/ MgjsonLost(state)
      PROVE  DInv'
  <2>1. ~Settled'
    BY <1>2 DEF PolledInVain, MgjsonLost, ExportFails, MgjsonFails, Fails, Settled,
                AfterGoodTick
  <2>2. history' = Kept(state)
    BY <1>2 DEF PolledInVain, MgjsonLost
  <2>3. QED
    BY <2>1, <2>2, KeptIsBounded
       DEF DInv, HistoryBounded, HistoryEndsWithLive, DocumentFollowsLive
<1>3. ASSUME NEW state \in GameStates, ExportsBoth(state)
      PROVE  DInv'
  <2>1. live' = state
    BY <1>3 DEF ExportsBoth, Exports
  <2>2. history' = Kept(state) /\ mgjson' = Document(state, Kept(state))
    BY <1>3 DEF ExportsBoth
  <2>3. mgjson' = Document(live', history')
    BY <2>1, <2>2
  <2>4. /\ history' \in Seq(GameStates) /\ Len(history') \in 1..MaxHistory
        /\ history'[Len(history')] = live'
    BY <2>1, <2>2, KeptIsBounded DEF DInv
  <2>5. Len(history') <= MaxHistory /\ history' # <<>>
    BY <2>4, KeyframesAssumption
  <2>6. QED
    BY <2>1, <2>3, <2>4, <2>5
       DEF DInv, HistoryBounded, HistoryEndsWithLive, DocumentFollowsLive
<1>4. CASE UNCHANGED keyVars
  BY <1>4
     DEF keyVars, files, vars, watch, DInv, HistoryBounded, HistoryEndsWithLive,
         DocumentFollowsLive, Settled, AfterGoodTick
<1>5. QED
  BY <1>1, <1>2, <1>3, <1>4 DEF KeyNext

LEMMA DInvSuffices ==
    ASSUME DInv
    PROVE  KeyframesFollowLive
<1>1. ASSUME Settled
      PROVE  /\ Problems(mgjson) = {}
             /\ \A i \in DOMAIN Streams :
                   LET value == Shown[live.score][Streams[i]]
                       samples == Plotted(Streams[i])
                   IN  /\ value # None => samples # <<>> /\ samples[Len(samples)] = value
                       /\ Len(samples) <= MaxHistory
             /\ \A i \in Declared(mgjson) :
                   LET entry == mgjson.outline[i]
                       samples == Plotted(entry.name)
                   IN  \A j \in DOMAIN samples : Fits(samples[j], entry)
  <2>1. /\ live \in GameStates /\ history \in Seq(GameStates) /\ Len(history) <= MaxHistory
        /\ history # <<>> /\ history[Len(history)] = live /\ mgjson = Document(live, history)
    BY <1>1 DEF DInv, HistoryBounded, HistoryEndsWithLive, DocumentFollowsLive
  <2>2. Problems(mgjson) = {}
    BY <2>1, DocumentIsValid
  <2>3. \A i \in DOMAIN Streams : Plotted(Streams[i]) = Samples(Streams[i], history)
    BY <2>1, DocumentPlots
  <2>4. ASSUME NEW i \in DOMAIN Streams
        PROVE  /\ Shown[live.score][Streams[i]] # None =>
                      /\ Plotted(Streams[i]) # <<>>
                      /\ Plotted(Streams[i])[Len(Plotted(Streams[i]))]
                             = Shown[live.score][Streams[i]]
               /\ Len(Plotted(Streams[i])) <= MaxHistory
    <3>1. Streams[i] \in Plots
      BY DEF Plots
    <3>2. ValueOf(Streams[i], history[Len(history)]) = Shown[live.score][Streams[i]]
      BY <2>1 DEF ValueOf
    <3>3. /\ Samples(Streams[i], history) \in Seq(Int)
          /\ Len(Samples(Streams[i], history)) <= Len(history)
          /\ ValueOf(Streams[i], history[Len(history)]) # None =>
                /\ Samples(Streams[i], history) # <<>>
                /\ Samples(Streams[i], history)[Len(Samples(Streams[i], history))]
                       = ValueOf(Streams[i], history[Len(history)])
      BY <2>1, <3>1, SamplesAre
    <3>4. Len(Samples(Streams[i], history)) <= MaxHistory
      BY <2>1, <3>3, KeyframesAssumption
    <3>5. QED
      BY <2>3, <3>2, <3>3, <3>4
  <2>5. ASSUME NEW k \in Declared(mgjson), NEW j \in DOMAIN Plotted(mgjson.outline[k].name)
        PROVE  Fits(Plotted(mgjson.outline[k].name)[j], mgjson.outline[k])
    <3>1. PICK i \in DOMAIN Streams :
              /\ mgjson.outline[k].name = Streams[i]
              /\ mgjson.outline[k].props = NumberProps(Samples(Streams[i], history))
      BY <2>1, DocumentPlots
    <3>2. Plotted(mgjson.outline[k].name) = Samples(Streams[i], history)
      BY <2>3, <3>1
    <3>3. Samples(Streams[i], history) \in Seq(Int)
      BY <2>1, SamplesAre DEF Plots
    <3>4. QED
      BY <3>1, <3>2, <3>3, ValuesFit
  <2>6. QED
    BY <2>2, <2>4, <2>5
<1>2. ASSUME NEW state \in GameStates
      PROVE  Problems(Document(state, Kept(state))) = {}
  BY KeptIsBounded, DocumentIsValid DEF DInv
<1>3. QED
  BY <1>1, <1>2 DEF KeyframesFollowLive, Settled

(***************************************************************************)
(* However long a game goes on there are never more than MaxHistory points, *)
(* and what is told to the stream is the newest of them (tick,              *)
(* "if len(self.history) > 4000").                                          *)
(***************************************************************************)
THEOREM HistoryFollowsLive == KeySpec => [](HistoryBounded /\ HistoryEndsWithLive)
<1>1. DInv => HistoryBounded /\ HistoryEndsWithLive
  BY DEF DInv
<1>2. QED
  BY InitDInv, NextDInv, <1>1, PTL DEF KeySpec

(***************************************************************************)
(* Whatever scores a game goes through and however the export fails, what   *)
(* is told to the stream or remembered has its document on the disk: valid, *)
(* ending with what live.json shows, its values within what it declares and *)
(* no more of them than the cap (tick, write_mgjson).                       *)
(***************************************************************************)
THEOREM TheKeyframesFollow == KeySpec => []KeyframesFollowLive
<1>1. DInv => KeyframesFollowLive
  BY DInvSuffices
<1>2. QED
  BY InitDInv, NextDInv, <1>1, PTL DEF KeySpec

-----------------------------------------------------------------------------
(***************************************************************************)
(* The broker, whoever drives it: nothing here is assumed of the Watcher,   *)
(* whose MaxTicks is any bound on what is published.  NoLostWakeup needs to *)
(* know that nobody has seen more than was published, and SkipsToNewest     *)
(* that a generator that opens has seen nothing; the bound needs that one   *)
(* publish is under way at a time.                                          *)
(***************************************************************************)
BInv ==
    /\ Broker!TypeOK
    /\ Broker!NoLostWakeup
    /\ \A s \in Subs : seen[s] <= sequence
    /\ \A s \in Subs : conn[s] = "opening" => seen[s] = 0
    /\ publisher = "publishing" => sequence < MaxTicks

LEMMA InitBInv == Broker!Init => BInv
  BY WatcherAssumption DEF Broker!Init, BInv, Broker!TypeOK, Broker!NoLostWakeup, Broker!Places

(* A publish leaves nobody asleep. *)
LEMMA PublishBInv ==
    ASSUME BInv, Broker!CallPublish \/ Broker!Publish \/ Broker!AbandonPublish
    PROVE  BInv'
  <1>1. CASE Broker!CallPublish
    BY <1>1 DEF Broker!CallPublish, BInv, Broker!TypeOK, Broker!NoLostWakeup
  <1>2. CASE Broker!Publish
    <2>1. sequence \in 0..MaxTicks /\ sequence < MaxTicks
      BY <1>2 DEF Broker!Publish, BInv, Broker!TypeOK
    <2>2. sequence' \in 0..MaxTicks /\ sequence' > sequence
      BY <1>2, <2>1, WatcherAssumption DEF Broker!Publish
    <2>3. Broker!TypeOK'
      BY <1>2, <2>2 DEF Broker!Publish, BInv, Broker!TypeOK, Broker!Places
    <2>4. Broker!NoLostWakeup'
      BY <1>2 DEF Broker!Publish, BInv, Broker!TypeOK, Broker!NoLostWakeup
    <2>5. \A s \in Subs : seen'[s] <= sequence'
      BY <1>2, <2>1, <2>2, WatcherAssumption DEF Broker!Publish, BInv, Broker!TypeOK
    <2>6. \A s \in Subs : conn'[s] = "opening" => seen'[s] = 0
      BY <1>2 DEF Broker!Publish, BInv, Broker!TypeOK
    <2> QED
      BY <1>2, <2>3, <2>4, <2>5, <2>6 DEF Broker!Publish, BInv
  <1>3. CASE Broker!AbandonPublish
    BY <1>3 DEF Broker!AbandonPublish, BInv, Broker!TypeOK, Broker!NoLostWakeup
  <1> QED
    BY <1>1, <1>2, <1>3

(* Nor does a connection go to sleep on news. *)
LEMMA ConnectionBInv ==
    ASSUME BInv, NEW s \in Subs, Broker!Connection(s)
    PROVE  BInv'
  <1>1. seen[s] \in 0..MaxTicks /\ sequence \in 0..MaxTicks /\ 0 \in 0..MaxTicks
    BY WatcherAssumption DEF BInv, Broker!TypeOK
  <1>2. CASE Broker!Connect(s)
    BY <1>1, <1>2, WatcherAssumption
       DEF Broker!Connect, Broker!Goto, BInv, Broker!TypeOK, Broker!NoLostWakeup, Broker!Places
  <1>3. CASE Broker!ReadInitial(s) \/ Broker!CheckNews(s)
    <2>1. \/ sequence > seen[s] /\ Broker!SendLatest(s)
          \/ seen[s] = sequence /\ Broker!Goto(s, "waiting") /\ UNCHANGED seen
          \/ Broker!Goto(s, "acquiring") /\ UNCHANGED seen
      BY <1>1, <1>3, WatcherAssumption DEF Broker!ReadInitial, Broker!CheckNews, Broker!Newer, BInv
    <2>2. UNCHANGED <<lock, sequence, publisher>>
      BY <1>3 DEF Broker!ReadInitial, Broker!CheckNews
    <2> QED
      BY <1>1, <2>1, <2>2, WatcherAssumption
         DEF Broker!SendLatest, Broker!Goto, BInv, Broker!TypeOK, Broker!NoLostWakeup, Broker!Places
  <1>4. CASE Broker!Heartbeat(s) \/ Broker!Client(s) \/ Broker!TimeOut(s) \/ Broker!Disconnect(s)
    <2>1. /\ \E at \in Broker!Places \ {"waiting", "opening"} : conn' = [conn EXCEPT ![s] = at]
          /\ UNCHANGED <<sequence, publisher, seen>>
      BY <1>4
         DEF Broker!Heartbeat, Broker!Client, Broker!Resume, Broker!ResumeBeat, Broker!TimeOut,
             Broker!Disconnect, Broker!Goto, Broker!Places
    <2>2. lock' \in {lock, s, Nobody}
      BY <1>4
         DEF Broker!Heartbeat, Broker!Client, Broker!Resume, Broker!ResumeBeat, Broker!TimeOut,
             Broker!Disconnect
    <2> QED
      BY <2>1, <2>2 DEF BInv, Broker!TypeOK, Broker!NoLostWakeup
  <1> QED
    BY <1>2, <1>3, <1>4 DEF Broker!Connection, Broker!Generator

(* Every step keeps BInv. *)
LEMMA NextBInv == BInv /\ [Broker!Next]_Broker!vars => BInv'
  <1> SUFFICES ASSUME BInv, [Broker!Next]_Broker!vars
               PROVE  BInv'
    OBVIOUS
  <1>1. CASE UNCHANGED Broker!vars
    BY <1>1 DEF Broker!vars, BInv, Broker!TypeOK, Broker!NoLostWakeup
  <1> QED
    BY <1>1, PublishBInv, ConnectionBInv DEF Broker!Next

(* Every variable of the broker keeps a value of its type. *)
THEOREM BrokerTypeCorrect == Broker!Spec => []Broker!TypeOK
  <1>1. BInv => Broker!TypeOK
    BY DEF BInv
  <1> QED
    BY InitBInv, NextBInv, <1>1, PTL DEF Broker!Spec

(***************************************************************************)
(* However many connections come, time out and go, none sleeps while there  *)
(* is a message it has not been sent (subscribe, wait_for(newer)).          *)
(***************************************************************************)
THEOREM WakeupsAreNotLost == Broker!Spec => []Broker!NoLostWakeup
  <1>1. BInv => Broker!NoLostWakeup
    BY DEF BInv
  <1> QED
    BY InitBInv, NextBInv, <1>1, PTL DEF Broker!Spec

(***************************************************************************)
(* A connection is sent strictly newer messages, and each time the newest   *)
(* (subscribe, last_seen).                                                  *)
(***************************************************************************)
THEOREM LaggardsSkipToNewest == Broker!Spec => Broker!SkipsToNewest
  <1> DEFINE Skips == \A s \in Subs : conn'[s] = "sending" /\ conn[s] # "sending" =>
                          seen'[s] > seen[s] /\ seen'[s] = sequence
  <1>1. ASSUME BInv, [Broker!Next]_Broker!vars
        PROVE  [Skips]_Broker!vars
    <2> SUFFICES ASSUME NEW s \in Subs, Broker!Next,
                        conn'[s] = "sending", conn[s] # "sending"
                 PROVE  seen'[s] > seen[s] /\ seen'[s] = sequence
      BY <1>1
    <2>1. conn \in [Subs -> Broker!Places] /\ seen \in [Subs -> 0..MaxTicks]
      BY <1>1 DEF BInv, Broker!TypeOK
    <2>2. Broker!ReadInitial(s) \/ Broker!CheckNews(s)
      BY <2>1
         DEF Broker!Next, Broker!CallPublish, Broker!Publish, Broker!AbandonPublish,
             Broker!Connection, Broker!Connect, Broker!Generator, Broker!ReadInitial,
             Broker!CheckNews, Broker!SendLatest, Broker!Heartbeat, Broker!Client, Broker!Resume,
             Broker!ResumeBeat, Broker!TimeOut, Broker!Disconnect, Broker!Goto
    <2>3. Broker!SendLatest(s) /\ sequence > seen[s]
      BY <1>1, <2>1, <2>2 DEF Broker!ReadInitial, Broker!CheckNews, Broker!Newer, Broker!Goto, BInv
    <2> QED
      BY <2>1, <2>3 DEF Broker!SendLatest
  <1> QED
    BY InitBInv, NextBInv, <1>1, PTL DEF Broker!Spec, Broker!SkipsToNewest

(***************************************************************************)
(* Together: watch mode, with its failures, its shutdown and its history,   *)
(* leaves no client of the stream asleep on news.                           *)
(***************************************************************************)
THEOREM NobodySleeps == KeySpec => []NobodySleepsOnNews
  <1> QED
    BY KeyframesImplementWatcher, WatcherDrivesTheBroker, WakeupsAreNotLost, PTL
       DEF NobodySleepsOnNews

(***************************************************************************)
(* Nor does it send any of them a message twice or an older one behind.     *)
(***************************************************************************)
THEOREM NothingTwice == KeySpec => NothingIsSentTwice
  <1> QED
    BY KeyframesImplementWatcher, WatcherDrivesTheBroker, LaggardsSkipToNewest, PTL
       DEF NothingIsSentTwice
=============================================================================
