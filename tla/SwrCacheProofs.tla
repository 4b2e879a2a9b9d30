---------------------------- MODULE SwrCacheProofs ----------------------------
(***************************************************************************)
(* Safety of SwrCache for any processes, tasks, ttls and versions.  The     *)
(* inductive invariant IInv is the type invariant, what a fetch knows at    *)
(* each place (FetchKnows), and the three properties it carries.            *)
(***************************************************************************)
EXTENDS SwrCache, TLAPS

(* What a task has in its locals: the origin was at asked when its get      *)
(* began, and what it is about to return was not older then.                *)
FetchKnows ==
    \A t \in Tasks :
        /\ asked[t] <= origin
        /\ pc[t] \in {"answered", "saving"} => answer[t] >= 1 /\ answer[t] >= asked[t]
        /\ pc[t] = "confirmed" => prior[t].ver >= asked[t]
        /\ pc[t] = "saving" => Holds(disk)

IInv ==
    /\ TypeOK
    /\ FetchKnows
    /\ OneRevalidation
    /\ SnapshotHasRow
    /\ FreshIsCurrent

-----------------------------------------------------------------------------
(* The rows and replies the actions write are of their types. *)
LEMMA StoredIsRow ==
    ASSUME NEW ver \in Versions, NEW ttl \in Ages
    PROVE  /\ Stored(ver, ttl) \in Rows
           /\ Stored(ver, ttl).ver = ver
           /\ Stored(ver, ttl).age = 0
  BY SwrAssumption DEF Stored, Rows, Ages

LEMMA NoRowIsRow == NoRow \in Rows /\ ~Holds(NoRow)
  BY SwrAssumption DEF NoRow, Rows, Ages, Versions, Holds

LEMMA ReplyIsReply ==
    ASSUME NEW state \in States, NEW row \in Rows, NEW ttl \in Ages, NEW since \in Versions
    PROVE  /\ Reply(state, row, ttl, since) \in Replies
           /\ Reply(state, row, ttl, since).state = state
           /\ Reply(state, row, ttl, since).ver = row.ver
           /\ Reply(state, row, ttl, since).asked = since
  BY DEF Reply, Replies, Rows

LEMMA SilenceIsReply == Silence \in Replies /\ Silence.state = "nothing"
  <1>1. "nothing" \in States /\ 0 \in Ages /\ 0 \in Versions
    BY SwrAssumption DEF States, Ages, Versions
  <1> QED
    BY <1>1, NoRowIsRow, ReplyIsReply DEF Silence

LEMMA TtlIsAge == Ttls \subseteq Ages /\ MaxAge \in Ages /\ 0 \in Ages
  BY SwrAssumption DEF Ages

LEMMA OlderIsRow ==
    ASSUME NEW row \in Rows
    PROVE  /\ Older(row) \in Rows
           /\ Older(row).ver = row.ver
           /\ Older(row).age = IF Holds(row) /\ row.age < MaxAge THEN row.age + 1 ELSE row.age
  <1>1. CASE Holds(row) /\ row.age < MaxAge
    <2>1. row.age + 1 \in Ages
      BY <1>1, SwrAssumption DEF Rows, Ages
    <2>2. Older(row) = [row EXCEPT !.age = row.age + 1]
      BY <1>1 DEF Older
    <2> QED
      BY <1>1, <2>1, <2>2 DEF Rows
  <1>2. CASE ~(Holds(row) /\ row.age < MaxAge)
    BY <1>2 DEF Older
  <1> QED
    BY <1>1, <1>2

-----------------------------------------------------------------------------
LEMMA InitIInv == Init => IInv
  <1> SUFFICES ASSUME Init
               PROVE  IInv
    OBVIOUS
  <1>1. 1 \in Versions /\ 0 \in Versions /\ origin \in 1..MaxVersion
    BY SwrAssumption DEF Init, Versions
  <1>2. disk \in Rows /\ lkg \in Rows /\ SnapshotHasRow
    <2>1. CASE ~WarmStart
      BY <2>1, NoRowIsRow DEF Init, SnapshotHasRow
    <2>2. CASE WarmStart
      <3>1. PICK age \in Ages, ttl \in Ttls : disk = [ver |-> 1, age |-> age, ttl |-> ttl]
        BY <2>2 DEF Init
      <3>2. lkg = [ver |-> 1, age |-> disk.age, ttl |-> MaxAge]
        BY <2>2 DEF Init
      <3> QED
        BY <1>1, <3>1, <3>2, TtlIsAge DEF Rows, SnapshotHasRow, Holds
    <2> QED
      BY <2>1, <2>2, SwrAssumption
  <1>3. TypeOK
    BY <1>1, <1>2, NoRowIsRow, SilenceIsReply, TtlIsAge DEF Init, TypeOK
  <1>4. FetchKnows /\ OneRevalidation /\ FreshIsCurrent
    BY <1>1, SilenceIsReply, SwrAssumption
       DEF Init, FetchKnows, OneRevalidation, FreshIsCurrent, Tasks
  <1> QED
    BY <1>2, <1>3, <1>4 DEF IInv

-----------------------------------------------------------------------------
(* The types of what a task owns, apart from those of the tiers.            *)
TasksOK ==
    /\ inflight \in [Procs -> Revals \cup {NoTask}]
    /\ loop \in [Procs -> Tasks \cup {NoTask}]
    /\ pc \in [Tasks -> {"idle", "begin", "fetching", "answered", "confirmed", "saving"}]
    /\ want \in [Tasks -> Ages]
    /\ asked \in [Tasks -> Versions]
    /\ prior \in [Tasks -> Rows]
    /\ answer \in [Tasks -> Versions]

TiersOK ==
    /\ origin \in 1..MaxVersion
    /\ disk \in Rows /\ lkg \in Rows
    /\ memory \in [Procs -> Rows]

LEMMA TypeParts == TypeOK <=> TiersOK /\ TasksOK /\ reply \in Replies
  BY DEF TypeOK, TiersOK, TasksOK

LEMMA TypePartsNext == TypeOK' <=> TiersOK' /\ TasksOK' /\ reply' \in Replies
  BY DEF TypeOK, TiersOK, TasksOK

(* The end of a task: what the other tasks know is untouched. *)
LEMMA EndedKeeps ==
    ASSUME IInv, NEW t \in Tasks, Ended(t), UNCHANGED origin, Holds(disk) => Holds(disk)',
           inflight' \in [Procs -> Revals \cup {NoTask}]
    PROVE  TasksOK' /\ FetchKnows' /\ pc' = [pc EXCEPT ![t] = "idle"]
  <1>1. 0 \in Versions /\ 0 \in Ages /\ NoRow \in Rows
    BY SwrAssumption, NoRowIsRow DEF Versions, Ages
  <1>2. Home[t] \in Procs
    BY SwrAssumption
  <1>3. TasksOK'
    BY <1>1, <1>2 DEF IInv, TypeOK, TasksOK, Ended, Goto, Locals, Yield
  <1>4. FetchKnows'
    BY <1>1, SwrAssumption DEF IInv, TypeOK, FetchKnows, Ended, Goto, Locals, Versions
  <1> QED
    BY <1>3, <1>4 DEF Ended, Goto

(* A caller is none of the tasks _inflight names. *)
LEMMA CallersAreNotRevals == Callers \subseteq Tasks /\ Revals \subseteq Tasks /\ Callers \cap Revals = {}
  BY SwrAssumption DEF Tasks

(* A revalidation that ends is popped; the others are as they were. *)
LEMMA PoppedKeepsOne ==
    ASSUME IInv, NEW r \in Revals, pc[r] # "idle", pc' = [pc EXCEPT ![r] = "idle"],
           inflight' = [inflight EXCEPT ![Home[r]] = NoTask]
    PROVE  OneRevalidation' /\ inflight' \in [Procs -> Revals \cup {NoTask}]
  <1>1. r \in Tasks /\ Home \in [Tasks -> Procs] /\ Revals \subseteq Tasks /\ NoTask \notin Tasks
    BY SwrAssumption DEF Tasks
  <1> QED
    BY <1>1 DEF IInv, TypeOK, OneRevalidation

(* Steps of callers do not touch what OneRevalidation speaks of. *)
LEMMA CallerKeepsOne ==
    ASSUME IInv, NEW c \in Callers, NEW place, pc' = [pc EXCEPT ![c] = place],
           UNCHANGED inflight
    PROVE  OneRevalidation'
  BY CallersAreNotRevals DEF IInv, TypeOK, OneRevalidation

(* _spawn_revalidate starts a task only for a key that has none. *)
LEMMA SpawnKeeps ==
    ASSUME IInv, NEW p \in Procs, NEW ttl \in Ages, Spawn(p, ttl),
           UNCHANGED <<origin, disk, loop>>
    PROVE  TasksOK' /\ FetchKnows' /\ OneRevalidation'
  <1>1. CASE inflight[p] # NoTask /\ pc[inflight[p]] # "idle"
    BY <1>1 DEF Spawn, locals, IInv, TypeOK, TasksOK, FetchKnows, OneRevalidation, Holds
  <1>2. CASE ~(inflight[p] # NoTask /\ pc[inflight[p]] # "idle")
    <2>1. PICK r \in Revals :
            /\ Home[r] = p /\ pc[r] = "idle"
            /\ inflight' = [inflight EXCEPT ![p] = r]
            /\ Goto(r, "begin")
            /\ Locals(r, ttl, 0, NoRow, 0)
      BY <1>2 DEF Spawn
    <2>2. r \in Tasks /\ 0 \in Versions /\ NoRow \in Rows
      BY SwrAssumption, NoRowIsRow DEF Versions, Tasks
    <2>3. TasksOK'
      BY <2>1, <2>2 DEF Goto, Locals, IInv, TypeOK, TasksOK
    <2>4. FetchKnows'
      BY <2>1, <2>2, SwrAssumption DEF Goto, Locals, IInv, TypeOK, FetchKnows, Holds, Versions
    <2>5. OneRevalidation'
      BY <1>2, <2>1, <2>2, SwrAssumption, CallersAreNotRevals
         DEF Goto, IInv, TypeOK, OneRevalidation
    <2> QED
      BY <2>3, <2>4, <2>5
  <1> QED
    BY <1>1, <1>2

-----------------------------------------------------------------------------
(* What get does up to its return or its await keeps IInv. *)
LEMMA GetIInv ==
    ASSUME IInv, NEW c \in Callers, Get(c)
    PROVE  IInv'
  <1>0. PICK ttl \in Ttls :
            \/ MemoryHit(c, ttl) \/ DiskHit(c, ttl) \/ Offline(c, ttl)
            \/ StaleHit(c, ttl) \/ Miss(c, ttl)
    BY DEF Get
  <1>1. c \in Tasks /\ Home[c] \in Procs /\ ttl \in Ages /\ origin \in Versions /\ 0 \in Versions
    BY CallersAreNotRevals, SwrAssumption DEF IInv, TypeOK, Ages, Versions
  <1>2. memory[Home[c]] \in Rows /\ disk \in Rows /\ lkg \in Rows /\ StaleValue(Home[c]) \in Rows
    BY <1>1 DEF IInv, TypeOK, StaleValue
  <1> SUFFICES TiersOK' /\ TasksOK' /\ reply' \in Replies /\ FetchKnows' /\ OneRevalidation'
                 /\ SnapshotHasRow' /\ FreshIsCurrent'
    BY TypePartsNext DEF IInv
  <1>3. CASE UNCHANGED <<inflight, loop, pc, locals>>
    <2>1. UNCHANGED <<origin, disk, lkg>>
      BY <1>0 DEF MemoryHit, DiskHit, Offline, StaleHit, Miss
    <2>2. TasksOK' /\ FetchKnows' /\ OneRevalidation' /\ SnapshotHasRow'
      BY <1>3, <2>1 DEF locals, IInv, TypeOK, TasksOK, FetchKnows, OneRevalidation,
                        SnapshotHasRow, Holds
    <2>3. memory' \in [Procs -> Rows]
      <3>1. [disk EXCEPT !.ttl = ttl] \in Rows
        BY <1>1, <1>2 DEF Rows
      <3> QED
        BY <1>0, <1>1, <3>1 DEF MemoryHit, DiskHit, Offline, StaleHit, Miss, IInv, TypeOK
    <2>4. \/ reply' = Silence
          \/ \E state \in States \ {"fresh"}, row \in Rows : reply' = Reply(state, row, ttl, origin)
      BY <1>0, <1>2
         DEF MemoryHit, DiskHit, Offline, OfflineReply, StaleHit, Miss, States
    <2>5. reply' \in Replies /\ FreshIsCurrent'
      BY <1>1, <2>4, ReplyIsReply, SilenceIsReply DEF FreshIsCurrent
    <2> QED
      BY <2>1, <2>2, <2>3, <2>5 DEF IInv, TypeOK, TiersOK
  <1>4. CASE StaleHit(c, ttl)
    <2>1. reply' = Reply("stale", StaleValue(Home[c]), ttl, origin)
      BY <1>4 DEF StaleHit
    <2>2. reply' \in Replies /\ FreshIsCurrent'
      BY <1>1, <1>2, <2>1, ReplyIsReply DEF FreshIsCurrent, States
    <2>3. UNCHANGED <<origin, disk, lkg, memory, loop>> /\ Spawn(Home[c], ttl)
      BY <1>4 DEF StaleHit
    <2>4. TasksOK' /\ FetchKnows' /\ OneRevalidation'
      BY <1>1, <2>3, SpawnKeeps
    <2> QED
      BY <2>2, <2>3, <2>4 DEF IInv, TypeOK, TiersOK, SnapshotHasRow, Holds
  <1>5. CASE Miss(c, ttl)
    <2>1. UNCHANGED <<origin, disk, lkg, memory, inflight>> /\ reply' = Silence
          /\ pc' = [pc EXCEPT ![c] = "begin"] /\ Locals(c, ttl, origin, NoRow, 0) /\ Keep(c)
      BY <1>5 DEF Miss, Goto
    <2>2. TasksOK'
      BY <1>1, <2>1, NoRowIsRow DEF Locals, Keep, IInv, TypeOK, TasksOK
    <2>3. FetchKnows'
      BY <1>1, <2>1, SwrAssumption DEF Locals, IInv, TypeOK, FetchKnows, Holds, Versions
    <2>4. OneRevalidation'
      BY <2>1, CallerKeepsOne
    <2> QED
      BY <2>1, <2>2, <2>3, <2>4, SilenceIsReply
         DEF IInv, TypeOK, TiersOK, SnapshotHasRow, Holds, FreshIsCurrent
  <1> QED
    BY <1>0, <1>3, <1>4, <1>5 DEF MemoryHit, DiskHit, Offline

(* A task that moves on without ending, storing or answering a caller.      *)
LEMMA MovesOn ==
    ASSUME IInv, NEW t \in Tasks, NEW place \in {"fetching", "answered", "confirmed", "saving"},
           pc[t] # "idle", pc' = [pc EXCEPT ![t] = place], UNCHANGED inflight
    PROVE  OneRevalidation'
  BY CallersAreNotRevals DEF IInv, TypeOK, OneRevalidation

(* The two ways a fetch ends well. *)
LEMMA SucceedsKeeps ==
    ASSUME IInv, NEW t \in Tasks, NEW row \in Rows, row.ver >= asked[t], pc[t] # "idle",
           Succeeds(t, row), UNCHANGED origin, Holds(disk) => Holds(disk)'
    PROVE  TasksOK' /\ FetchKnows' /\ OneRevalidation' /\ reply' \in Replies /\ FreshIsCurrent'
  <1>1. CASE t \in Callers
    <2>1. Ended(t) /\ UNCHANGED inflight /\ reply' = Reply("fresh", row, want[t], asked[t])
      BY <1>1 DEF Succeeds, Returns
    <2>2. TasksOK' /\ FetchKnows' /\ pc' = [pc EXCEPT ![t] = "idle"]
      BY <2>1, EndedKeeps DEF IInv, TypeOK
    <2>3. OneRevalidation'
      BY <1>1, <2>1, <2>2, CallerKeepsOne
    <2>4. reply' \in Replies /\ FreshIsCurrent'
      BY <2>1, ReplyIsReply DEF IInv, TypeOK, FreshIsCurrent, States
    <2> QED
      BY <2>2, <2>3, <2>4
  <1>2. CASE t \notin Callers
    <2>1. t \in Revals
      BY <1>2 DEF Tasks
    <2>2. Ended(t) /\ inflight' = [inflight EXCEPT ![Home[t]] = NoTask] /\ reply' = Silence
      BY <1>2 DEF Succeeds
    <2>3. OneRevalidation' /\ inflight' \in [Procs -> Revals \cup {NoTask}]
      BY <2>1, <2>2, PoppedKeepsOne DEF Ended, Goto
    <2>4. TasksOK' /\ FetchKnows'
      BY <2>2, <2>3, EndedKeeps
    <2> QED
      BY <2>2, <2>3, <2>4, SilenceIsReply DEF FreshIsCurrent
  <1> QED
    BY <1>1, <1>2

(* What IInv asks of a step, one part at a time. *)
LEMMA IInvNextParts ==
    ASSUME TiersOK', TasksOK', reply' \in Replies, FetchKnows', OneRevalidation',
           SnapshotHasRow', FreshIsCurrent'
    PROVE  IInv'
  BY TypePartsNext DEF IInv

(* Every step of _fetch_and_store keeps IInv. *)
LEMMA FetchIInv ==
    ASSUME IInv, NEW t \in Tasks, Fetch(t)
    PROVE  IInv'
  <1>1. Home[t] \in Procs /\ origin \in Versions /\ 0 \in Versions /\ MaxAge \in Ages
    BY SwrAssumption, TtlIsAge DEF IInv, TypeOK, Versions
  <1>2. CASE ReadPrior(t)
    <2>1. TiersOK' /\ SnapshotHasRow' /\ reply' \in Replies /\ FreshIsCurrent'
      BY <1>2, SilenceIsReply
         DEF ReadPrior, IInv, TypeOK, TiersOK, SnapshotHasRow, Holds, FreshIsCurrent
    <2>2. TasksOK' /\ FetchKnows'
      BY <1>1, <1>2 DEF ReadPrior, Goto, Yield, IInv, TypeOK, TasksOK, FetchKnows, Holds
    <2>3. OneRevalidation'
      BY <1>2, MovesOn DEF ReadPrior, Goto
    <2> QED
      BY <2>1, <2>2, <2>3, IInvNextParts
  <1>3. CASE OriginAnswers(t)
    <2>1. TiersOK' /\ SnapshotHasRow' /\ reply' \in Replies /\ FreshIsCurrent'
      BY <1>3, SilenceIsReply
         DEF OriginAnswers, IInv, TypeOK, TiersOK, SnapshotHasRow, Holds, FreshIsCurrent
    <2>2. TasksOK' /\ FetchKnows'
      BY <1>1, <1>3 DEF OriginAnswers, Goto, IInv, TypeOK, TasksOK, FetchKnows, Holds
    <2>3. OneRevalidation'
      BY <1>3, MovesOn DEF OriginAnswers, Goto
    <2> QED
      BY <2>1, <2>2, <2>3, IInvNextParts
  <1>4. CASE OriginConfirms(t)
    <2>1. TiersOK' /\ SnapshotHasRow' /\ reply' \in Replies /\ FreshIsCurrent'
      BY <1>4, SilenceIsReply
         DEF OriginConfirms, IInv, TypeOK, TiersOK, SnapshotHasRow, Holds, FreshIsCurrent
    <2>2. TasksOK' /\ FetchKnows'
      BY <1>1, <1>4 DEF OriginConfirms, Goto, locals, IInv, TypeOK, TasksOK, FetchKnows, Holds
    <2>3. OneRevalidation'
      BY <1>4, MovesOn DEF OriginConfirms, Goto
    <2> QED
      BY <2>1, <2>2, <2>3, IInvNextParts
  <1>5. CASE StoreRow(t)
    <2>1. disk' \in Rows /\ disk'.ver = answer[t]
      BY <1>5, StoredIsRow DEF StoreRow, IInv, TypeOK
    <2>2. Holds(disk)'
      BY <1>5, <2>1 DEF StoreRow, IInv, FetchKnows, TypeOK, Versions, Holds
    <2>3. TiersOK' /\ SnapshotHasRow' /\ reply' \in Replies /\ FreshIsCurrent'
      BY <1>5, <2>1, <2>2, SilenceIsReply
         DEF StoreRow, IInv, TypeOK, TiersOK, SnapshotHasRow, FreshIsCurrent
    <2>4. TasksOK' /\ FetchKnows'
      BY <1>1, <1>5, <2>2
         DEF StoreRow, Goto, Keep, locals, IInv, TypeOK, TasksOK, FetchKnows
    <2>5. OneRevalidation'
      BY <1>5, MovesOn DEF StoreRow, Goto
    <2> QED
      BY <2>3, <2>4, <2>5, IInvNextParts
  <1>6. CASE SaveSnapshot(t)
    <2>1. Stored(answer[t], want[t]) \in Rows /\ Stored(answer[t], want[t]).ver >= asked[t]
      BY <1>6, StoredIsRow DEF SaveSnapshot, IInv, TypeOK, FetchKnows
    <2>2. lkg' \in Rows
      BY <1>1, <1>6, StoredIsRow DEF SaveSnapshot, IInv, TypeOK
    <2>3. TiersOK' /\ SnapshotHasRow'
      BY <1>6, <2>2 DEF SaveSnapshot, IInv, TypeOK, TiersOK, FetchKnows, SnapshotHasRow, Holds
    <2>4. TasksOK' /\ FetchKnows' /\ OneRevalidation' /\ reply' \in Replies /\ FreshIsCurrent'
      BY <1>6, <2>1, SucceedsKeeps DEF SaveSnapshot, Holds
    <2> QED
      BY <2>3, <2>4, IInvNextParts
  <1>7. CASE Touch(t)
    <2>1. prior[t] \in Rows /\ prior[t].ver \in Versions
      BY DEF IInv, TypeOK, Rows
    <2>2. Stored(prior[t].ver, want[t]) \in Rows /\ Stored(prior[t].ver, want[t]).ver >= asked[t]
      BY <1>7, <2>1, StoredIsRow DEF Touch, IInv, TypeOK, FetchKnows
    <2>3. disk' \in Rows /\ disk'.ver = disk.ver
      BY <1>7, TtlIsAge DEF Touch, IInv, TypeOK, Rows
    <2>4. TiersOK' /\ SnapshotHasRow'
      BY <1>7, <2>2, <2>3 DEF Touch, IInv, TypeOK, TiersOK, SnapshotHasRow, Holds
    <2>5. TasksOK' /\ FetchKnows' /\ OneRevalidation' /\ reply' \in Replies /\ FreshIsCurrent'
      BY <1>7, <2>2, <2>3, SucceedsKeeps DEF Touch, Holds
    <2> QED
      BY <2>4, <2>5, IInvNextParts
  <1> QED
    BY <1>2, <1>3, <1>4, <1>5, <1>6, <1>7 DEF Fetch

(* So does a fetch that fails, for a caller and in the background. *)
LEMMA FailIInv ==
    ASSUME IInv, NEW t \in Tasks, Fail(t)
    PROVE  IInv'
  <1>1. UNCHANGED <<origin, disk, lkg, memory>> /\ Ended(t) /\ pc[t] # "idle"
    BY DEF Fail, FetchFails, Returns, RevalidationFails
  <1>2. TiersOK' /\ SnapshotHasRow'
    BY <1>1 DEF IInv, TypeOK, TiersOK, SnapshotHasRow, Holds
  <1>3. ASSUME t \in Callers, NEW error, FetchFails(t, error)
        PROVE  IInv'
    <2>1. TasksOK' /\ FetchKnows' /\ pc' = [pc EXCEPT ![t] = "idle"] /\ UNCHANGED inflight
      BY <1>1, <1>3, EndedKeeps DEF FetchFails, IInv, TypeOK, Holds
    <2>2. OneRevalidation'
      BY <1>3, <2>1, CallerKeepsOne
    <2>3. \E state \in {"last_known_good", "raised"}, row \in Rows :
              reply' = Reply(state, row, want[t], asked[t])
      BY <1>3, NoRowIsRow DEF FetchFails, Returns, IInv, TypeOK
    <2>4. reply' \in Replies /\ FreshIsCurrent'
      BY <2>3, ReplyIsReply DEF IInv, TypeOK, FreshIsCurrent, States
    <2> QED
      BY <1>2, <2>1, <2>2, <2>4, IInvNextParts
  <1>4. ASSUME t \in Revals, RevalidationFails(t)
        PROVE  IInv'
    <2>1. OneRevalidation' /\ inflight' \in [Procs -> Revals \cup {NoTask}]
      BY <1>1, <1>4, PoppedKeepsOne DEF RevalidationFails, Ended, Goto
    <2>2. TasksOK' /\ FetchKnows'
      BY <1>1, <2>1, EndedKeeps DEF Holds
    <2>3. reply' \in Replies /\ FreshIsCurrent'
      BY <1>4, SilenceIsReply DEF RevalidationFails, FreshIsCurrent
    <2> QED
      BY <1>2, <2>1, <2>2, <2>3, IInvNextParts
  <1> QED
    BY <1>3, <1>4 DEF Fail

(* So do a restart, an eviction, a new version and time. *)
LEMMA EnvironmentIInv ==
    ASSUME IInv, Publish \/ Tick \/ \E p \in Procs : Restart(p) \/ Evict(p)
    PROVE  IInv'
  <1>1. reply' \in Replies /\ FreshIsCurrent'
    BY SilenceIsReply DEF Publish, Tick, Restart, Evict, FreshIsCurrent
  <1>2. CASE Publish
    <2>1. origin' \in 1..MaxVersion /\ origin' >= origin
      BY <1>2, SwrAssumption DEF Publish, IInv, TypeOK
    <2>2. TiersOK' /\ TasksOK' /\ SnapshotHasRow' /\ OneRevalidation'
      BY <1>2, <2>1 DEF Publish, locals, IInv, TypeOK, TiersOK, TasksOK, SnapshotHasRow,
                        OneRevalidation, Holds
    <2>3. FetchKnows'
      BY <1>2, <2>1, SwrAssumption DEF Publish, locals, IInv, TypeOK, FetchKnows, Holds, Versions
    <2> QED
      BY <1>1, <2>2, <2>3, IInvNextParts
  <1>3. CASE Tick
    <2>1. /\ disk' \in Rows /\ (Holds(disk)' <=> Holds(disk))
          /\ lkg' \in Rows /\ (Holds(lkg)' <=> Holds(lkg))
          /\ memory' \in [Procs -> Rows]
      BY <1>3, OlderIsRow DEF Tick, IInv, TypeOK, Holds
    <2>2. UNCHANGED <<origin, inflight, loop, pc, want, asked, prior, answer>>
      BY <1>3 DEF Tick, locals
    <2> QED
      BY <1>1, <2>1, <2>2, IInvNextParts
         DEF IInv, TypeOK, TiersOK, TasksOK, SnapshotHasRow, OneRevalidation, FetchKnows
  <1>4. ASSUME NEW p \in Procs, Restart(p)
        PROVE  IInv'
    <2>1. TiersOK' /\ SnapshotHasRow'
      BY <1>4, NoRowIsRow DEF Restart, IInv, TypeOK, TiersOK, SnapshotHasRow, Holds
    <2>2. TasksOK'
      BY <1>4, NoRowIsRow, TtlIsAge, SwrAssumption DEF Restart, IInv, TypeOK, TasksOK, Versions
    <2>3. FetchKnows'
      BY <1>4, SwrAssumption DEF Restart, IInv, TypeOK, FetchKnows, Holds, Versions
    <2>4. OneRevalidation'
      BY <1>4, CallersAreNotRevals, SwrAssumption DEF Restart, IInv, TypeOK, OneRevalidation
    <2> QED
      BY <1>1, <2>1, <2>2, <2>3, <2>4, IInvNextParts
  <1>5. ASSUME NEW p \in Procs, Evict(p)
        PROVE  IInv'
    BY <1>1, <1>5, NoRowIsRow, IInvNextParts
       DEF Evict, locals, IInv, TypeOK, TiersOK, TasksOK, SnapshotHasRow, OneRevalidation,
           FetchKnows, Holds
  <1> QED
    BY <1>2, <1>3, <1>4, <1>5

(* Every step keeps IInv. *)
LEMMA NextIInv == IInv /\ [Next]_vars => IInv'
  <1> SUFFICES ASSUME IInv, [Next]_vars
               PROVE  IInv'
    OBVIOUS
  <1>1. CASE UNCHANGED vars
    BY <1>1, IInvNextParts
       DEF vars, locals, IInv, TypeOK, TiersOK, TasksOK, FetchKnows, OneRevalidation,
           SnapshotHasRow, FreshIsCurrent, Holds
  <1> QED
    BY <1>1, GetIInv, FetchIInv, FailIInv, EnvironmentIInv DEF Next

(* Every variable of the cache keeps a value of its type. *)
THEOREM TypeCorrect == Spec => []TypeOK
  <1>1. IInv => TypeOK
    BY DEF IInv
  <1> QED
    BY InitIInv, NextIInv, <1>1, PTL DEF Spec

(***************************************************************************)
(* For any number of processes, callers and restarts, a process has at most *)
(* one background refresh of a key, and _inflight names it exactly while it *)
(* runs (_spawn_revalidate, _revalidate).                                   *)
(***************************************************************************)
THEOREM AtMostOneRevalidation == Spec => []OneRevalidation
  <1>1. IInv => OneRevalidation
    BY DEF IInv
  <1> QED
    BY InitIInv, NextIInv, <1>1, PTL DEF Spec

(***************************************************************************)
(* What get returns as "fresh" is a version the origin had not left when    *)
(* get was called, whatever the other tasks and processes store meanwhile   *)
(* (_fetch_and_store, 200 and 304 paths).                                   *)
(***************************************************************************)
THEOREM FreshRepliesAreCurrent == Spec => []FreshIsCurrent
  <1>1. IInv => FreshIsCurrent
    BY DEF IInv
  <1> QED
    BY InitIInv, NextIInv, <1>1, PTL DEF Spec

(***************************************************************************)
(* Wherever processes die, a key with a snapshot has a row: so a get that   *)
(* begins when there is a snapshot never needs it (_fetch_and_store).       *)
(***************************************************************************)
THEOREM SnapshotsHaveRows == Spec => []SnapshotHasRow
  <1>1. IInv => SnapshotHasRow
    BY DEF IInv
  <1> QED
    BY InitIInv, NextIInv, <1>1, PTL DEF Spec

-----------------------------------------------------------------------------
(***************************************************************************)
(* One process over a warm cache: the row never goes back and the tiers     *)
(* agree.  A row, once there, makes every get a hit, so only the one        *)
(* revalidation that OneRevalidation allows ever fetches; between its read  *)
(* of the prior row and its store the row is its own (WInv).                *)
(***************************************************************************)
(* There is one process. *)
Alone == \A p, q \in Procs : p = q

(* The row is there, and what the one refresh under way knows of it holds. *)
WInv ==
    /\ Holds(disk)
    /\ disk.ver <= origin
    /\ \A c \in Callers : pc[c] = "idle"
    /\ \A r \in Revals :
        /\ pc[r] \in {"fetching", "answered", "confirmed"} => prior[r].ver = disk.ver
        /\ pc[r] = "answered" => answer[r] >= disk.ver
        /\ pc[r] \in {"answered", "saving"} => answer[r] <= origin
        /\ pc[r] = "saving" => answer[r] = disk.ver
    /\ TiersAgree

-----------------------------------------------------------------------------
(* A warm start has a row, and nobody fetches yet. *)
LEMMA InitWInv ==
    ASSUME WarmStart
    PROVE  Init => WInv
  <1> SUFFICES ASSUME Init
               PROVE  WInv
    OBVIOUS
  <1>1. PICK age \in Ages, ttl \in Ttls : disk = [ver |-> 1, age |-> age, ttl |-> ttl]
    BY DEF Init
  <1>2. Callers \subseteq Tasks /\ Revals \subseteq Tasks
    BY DEF Tasks
  <1> QED
    BY <1>1, <1>2 DEF Init, WInv, TiersAgree, Holds, NoRow

(* Only revalidations fetch, and of those one at a time. *)
LEMMA OneFetch ==
    ASSUME IInv, WInv, Alone
    PROVE  \A t, r \in Tasks : pc[t] # "idle" /\ pc[r] # "idle" => t = r /\ t \in Revals
  <1>1. \A t \in Tasks : pc[t] # "idle" => t \in Revals /\ Home[t] \in Procs
    BY SwrAssumption DEF WInv, Tasks
  <1> QED
    BY <1>1 DEF IInv, OneRevalidation, Alone

(* A get is a hit: it moves no row, and at most starts the revalidation.    *)
LEMMA GetWInv ==
    ASSUME IInv, WInv, NEW c \in Callers, Get(c)
    PROVE  WInv' /\ UNCHANGED disk.ver
  <1>0. PICK ttl \in Ttls :
            MemoryHit(c, ttl) \/ DiskHit(c, ttl) \/ Offline(c, ttl) \/ StaleHit(c, ttl)
    BY DEF Get, Miss, StaleValue, WInv
  <1>1. UNCHANGED <<origin, disk, lkg>>
    BY <1>0 DEF MemoryHit, DiskHit, Offline, StaleHit
  <1>2. TiersAgree'
    <2>1. [disk EXCEPT !.ttl = ttl].ver = disk.ver /\ [disk EXCEPT !.ttl = ttl].age = disk.age
      BY DEF IInv, TypeOK, Rows
    <2> QED
      BY <1>0, <1>1, <2>1
         DEF MemoryHit, DiskHit, Offline, StaleHit, WInv, TiersAgree, IInv, TypeOK
  <1>3. \/ UNCHANGED <<pc, prior, answer>>
        \/ \E r \in Revals : /\ pc' = [pc EXCEPT ![r] = "begin"]
                             /\ prior' = [prior EXCEPT ![r] = NoRow]
                             /\ answer' = [answer EXCEPT ![r] = 0]
    BY <1>0 DEF MemoryHit, DiskHit, Offline, StaleHit, Spawn, Goto, Locals, locals
  <1> QED
    BY <1>1, <1>2, <1>3, CallersAreNotRevals DEF WInv, IInv, TypeOK, Holds

(* The one revalidation reads the row, and stores over what it read. *)
LEMMA FetchWInv ==
    ASSUME IInv, WInv, Alone, NEW t \in Tasks, Fetch(t)
    PROVE  WInv' /\ disk'.ver >= disk.ver
  <1>1. pc[t] # "idle"
    BY DEF Fetch, ReadPrior, OriginAnswers, OriginConfirms, StoreRow, SaveSnapshot, Touch
  <1>2. t \in Revals /\ \A u \in Tasks : u # t => pc[u] = "idle"
    BY <1>1, OneFetch
  <1>3. t \notin Callers /\ Home[t] \in Procs /\ \A p \in Procs : p = Home[t]
    BY <1>2, CallersAreNotRevals, SwrAssumption DEF Alone
  <1>4. disk.ver \in Nat /\ origin \in Nat /\ answer[t] \in Nat /\ prior[t].ver \in Nat
    BY SwrAssumption DEF IInv, TypeOK, Rows, Versions
  <1>5. \A u \in Tasks : u # t => pc'[u] = "idle"
    BY <1>2 DEF Fetch, ReadPrior, OriginAnswers, OriginConfirms, StoreRow, SaveSnapshot,
                Touch, Succeeds, Returns, Ended, Goto, IInv, TypeOK
  <1>6. \A c \in Callers : pc'[c] = "idle"
    BY <1>3, <1>5, CallersAreNotRevals
  <1>7. CASE ReadPrior(t)
    BY <1>2, <1>4, <1>5, <1>6, <1>7, CallersAreNotRevals
       DEF ReadPrior, Goto, WInv, TiersAgree, IInv, TypeOK, Holds
  <1>8. CASE OriginAnswers(t)
    BY <1>2, <1>4, <1>5, <1>6, <1>8, CallersAreNotRevals
       DEF OriginAnswers, Goto, WInv, TiersAgree, IInv, TypeOK, Holds
  <1>9. CASE OriginConfirms(t)
    BY <1>2, <1>4, <1>5, <1>6, <1>9, CallersAreNotRevals
       DEF OriginConfirms, Goto, locals, WInv, TiersAgree, IInv, TypeOK, Holds
  <1>10. CASE StoreRow(t)
    <2>1. /\ disk'.ver = answer[t] /\ disk'.age = 0
          /\ \A p \in Procs : memory'[p].ver = answer[t] /\ memory'[p].age = 0
      BY <1>3, <1>10, StoredIsRow DEF StoreRow, IInv, TypeOK
    <2>2. answer[t] >= disk.ver /\ answer[t] <= origin
      BY <1>2, <1>10 DEF StoreRow, WInv
    <2> QED
      BY <1>2, <1>4, <1>5, <1>6, <1>10, <2>1, <2>2, CallersAreNotRevals
         DEF StoreRow, Goto, locals, WInv, TiersAgree, IInv, TypeOK, Holds
  <1>11. CASE SaveSnapshot(t)
    <2>1. pc' = [pc EXCEPT ![t] = "idle"] /\ UNCHANGED <<origin, disk, memory>>
      BY <1>3, <1>11 DEF SaveSnapshot, Succeeds, Ended, Goto
    <2> QED
      BY <1>2, <1>4, <1>5, <1>6, <2>1, CallersAreNotRevals
         DEF WInv, TiersAgree, IInv, TypeOK, Holds
  <1>12. CASE Touch(t)
    <2>1. pc' = [pc EXCEPT ![t] = "idle"] /\ UNCHANGED origin
      BY <1>3, <1>12 DEF Touch, Succeeds, Ended, Goto
    <2>2. disk'.ver = disk.ver /\ disk'.age = 0
      BY <1>12 DEF Touch, WInv, IInv, TypeOK, Rows
    <2>3. \A p \in Procs : memory'[p].ver = prior[t].ver /\ memory'[p].age = 0
      BY <1>3, <1>12, StoredIsRow DEF Touch, IInv, TypeOK, Rows
    <2>4. prior[t].ver = disk.ver
      BY <1>2, <1>12 DEF Touch, WInv
    <2> QED
      BY <1>2, <1>4, <1>5, <1>6, <2>1, <2>2, <2>3, <2>4, CallersAreNotRevals
         DEF WInv, TiersAgree, IInv, TypeOK, Holds
  <1> QED
    BY <1>7, <1>8, <1>9, <1>10, <1>11, <1>12 DEF Fetch

(* A fetch that fails moves no row. *)
LEMMA FailWInv ==
    ASSUME IInv, WInv, NEW t \in Tasks, Fail(t)
    PROVE  WInv' /\ UNCHANGED disk
  <1>1. UNCHANGED <<origin, disk, memory>> /\ Ended(t)
    BY DEF Fail, FetchFails, Returns, RevalidationFails
  <1> QED
    BY <1>1, CallersAreNotRevals
       DEF Ended, Goto, Locals, WInv, TiersAgree, IInv, TypeOK, Holds

(* Nor do a restart, an eviction or time replace it. *)
LEMMA EnvironmentWInv ==
    ASSUME IInv, WInv, Publish \/ Tick \/ \E p \in Procs : Restart(p) \/ Evict(p)
    PROVE  WInv' /\ UNCHANGED disk.ver
  <1>1. CASE Publish
    <2>1. origin' = origin + 1 /\ UNCHANGED <<disk, memory, pc, prior, answer>>
      BY <1>1 DEF Publish, locals
    <2>2. origin \in Nat /\ disk.ver \in Nat /\ \A r \in Revals : answer[r] \in Nat
      BY SwrAssumption, CallersAreNotRevals DEF IInv, TypeOK, Rows, Versions
    <2> QED
      BY <2>1, <2>2 DEF WInv, TiersAgree, Holds
  <1>2. CASE Tick
    <2>1. disk'.ver = disk.ver /\ \A p \in Procs : memory'[p].ver = memory[p].ver
      BY <1>2, OlderIsRow DEF Tick, IInv, TypeOK
    <2>2. UNCHANGED <<origin, pc, prior, answer>>
      BY <1>2 DEF Tick, locals
    <2>3. ASSUME NEW p \in Procs, Holds(memory'[p])
          PROVE  memory'[p].age = disk'.age
      <3>1. Holds(memory[p]) /\ Holds(disk) /\ memory[p].age = disk.age
        BY <2>1, <2>3 DEF WInv, TiersAgree, Holds
      <3> QED
        BY <1>2, <3>1, OlderIsRow DEF Tick, IInv, TypeOK
    <2> QED
      BY <2>1, <2>2, <2>3 DEF WInv, TiersAgree, Holds
  <1>3. ASSUME NEW p \in Procs, Restart(p)
        PROVE  WInv' /\ UNCHANGED disk.ver
    BY <1>3, NoRowIsRow, CallersAreNotRevals DEF Restart, WInv, TiersAgree, IInv, TypeOK, Holds
  <1>4. ASSUME NEW p \in Procs, Evict(p)
        PROVE  WInv' /\ UNCHANGED disk.ver
    BY <1>4, NoRowIsRow DEF Evict, locals, WInv, TiersAgree, IInv, TypeOK, Holds
  <1> QED
    BY <1>1, <1>2, <1>3, <1>4

(* Every step of a lone process keeps WInv, and none takes the row back. *)
LEMMA NextWInv ==
    ASSUME Alone
    PROVE  IInv /\ WInv /\ [Next]_vars => WInv' /\ [disk'.ver >= disk.ver]_disk
  <1> SUFFICES ASSUME IInv, WInv, [Next]_vars
               PROVE  WInv' /\ disk'.ver >= disk.ver
    OBVIOUS
  <1>1. disk.ver \in Nat
    BY SwrAssumption DEF IInv, TypeOK, Rows, Versions
  <1>2. CASE UNCHANGED vars
    BY <1>1, <1>2 DEF vars, locals, WInv, TiersAgree, Holds
  <1>3. CASE \E c \in Callers : Get(c)
    BY <1>1, <1>3, GetWInv
  <1>4. CASE \E t \in Tasks : Fetch(t)
    BY <1>4, FetchWInv
  <1>5. CASE \E t \in Tasks : Fail(t)
    BY <1>1, <1>5, FailWInv
  <1>6. CASE Publish \/ Tick \/ \E p \in Procs : Restart(p) \/ Evict(p)
    BY <1>1, <1>6, EnvironmentWInv
  <1> QED
    BY <1>2, <1>3, <1>4, <1>5, <1>6 DEF Next

(***************************************************************************)
(* A lone process over a warm cache never stores an older version over a    *)
(* newer one, whatever the number of callers and ttls, restarts and failed  *)
(* or slow fetches included (_spawn_revalidate, _fetch_and_store).          *)
(***************************************************************************)
THEOREM WarmCacheNeverGoesBack ==
    ASSUME Alone, WarmStart
    PROVE  Spec => NeverGoesBack
  BY InitIInv, NextIInv, InitWInv, NextWInv, PTL DEF Spec, NeverGoesBack

(***************************************************************************)
(* Nor does its memory hold another version than its file: the 304 path,    *)
(* which writes the prior value to memory, always finds the row it read     *)
(* (_fetch_and_store, touch).                                               *)
(***************************************************************************)
THEOREM WarmTiersAgree ==
    ASSUME Alone, WarmStart
    PROVE  Spec => []TiersAgree
  <1>1. WInv => TiersAgree
    BY DEF WInv
  <1> QED
    BY InitIInv, NextIInv, InitWInv, NextWInv, <1>1, PTL DEF Spec

-----------------------------------------------------------------------------
(***************************************************************************)
(* One process that fetches and does not die, beside any number that only   *)
(* read offline: row and snapshot are one version whenever its event loop   *)
(* is free, because a task that has stored the one keeps the loop until it  *)
(* has stored the other (MInv).                                             *)
(***************************************************************************)
OneWriter ==
    /\ \A p, q \in Procs \ OfflineProcs : p = q
    /\ CrashingProcs \subseteq OfflineProcs

(* Nobody fetches offline; between its two commits a task has the loop.     *)
MInv ==
    /\ \A t \in Tasks : pc[t] # "idle" => Home[t] \notin OfflineProcs
    /\ \A t \in Tasks : pc[t] = "saving" => loop[Home[t]] = t /\ answer[t] = disk.ver
    /\ (\A t \in Tasks : pc[t] # "saving") => lkg.ver = disk.ver

LEMMA InitMInv == Init => MInv
  <1> SUFFICES ASSUME Init
               PROVE  MInv
    OBVIOUS
  <1>1. CASE ~WarmStart
    BY <1>1 DEF Init, MInv
  <1>2. CASE WarmStart
    BY <1>2 DEF Init, MInv
  <1> QED
    BY <1>1, <1>2

(* Who has the loop is the only one that may be between two commits.        *)
LEMMA NobodyElseSaves ==
    ASSUME IInv, MInv, OneWriter, NEW t \in Tasks, pc[t] # "idle",
           loop[Home[t]] \in {NoTask, t}
    PROVE  \A u \in Tasks : u # t => pc[u] # "saving"
  <1>1. \A u \in Tasks : Home[u] \in Procs /\ u # NoTask
    BY SwrAssumption
  <1> QED
    BY <1>1 DEF MInv, OneWriter

(* A get moves no row; a miss takes a loop that is free. *)
LEMMA GetMInv ==
    ASSUME IInv, MInv, NEW c \in Callers, Get(c)
    PROVE  MInv'
  <1>0. PICK ttl \in Ttls :
            \/ MemoryHit(c, ttl) \/ DiskHit(c, ttl) \/ Offline(c, ttl)
            \/ StaleHit(c, ttl) \/ Miss(c, ttl)
    BY DEF Get
  <1>1. UNCHANGED <<disk, lkg>>
    BY <1>0 DEF MemoryHit, DiskHit, Offline, StaleHit, Miss
  <1>2. CASE UNCHANGED <<pc, loop, answer>>
    BY <1>1, <1>2 DEF MInv
  <1>3. CASE Miss(c, ttl)
    <2>1. /\ c \in Tasks /\ Home[c] \notin OfflineProcs /\ loop[Home[c]] = NoTask
          /\ pc' = [pc EXCEPT ![c] = "begin"] /\ answer' = [answer EXCEPT ![c] = 0]
          /\ loop' = [loop EXCEPT ![Home[c]] = c] /\ pc[c] = "idle"
      BY <1>3, CallersAreNotRevals DEF Miss, NothingFresh, CanGet, Goto, Locals, Keep
    <2>2. \A u \in Tasks : pc[u] = "saving" => Home[u] # Home[c]
      BY <2>1, SwrAssumption DEF MInv
    <2> QED
      BY <1>1, <2>1, <2>2 DEF MInv, IInv, TypeOK
  <1>4. CASE StaleHit(c, ttl) /\ ~UNCHANGED <<pc, loop, answer>>
    <2>1. PICK r \in Revals :
            /\ Home[r] = Home[c] /\ pc[r] = "idle"
            /\ pc' = [pc EXCEPT ![r] = "begin"] /\ answer' = [answer EXCEPT ![r] = 0]
      BY <1>4 DEF StaleHit, Spawn, Goto, Locals, locals
    <2>2. Home[c] \notin OfflineProcs /\ UNCHANGED loop /\ r \in Tasks
      BY <1>4, CallersAreNotRevals DEF StaleHit
    <2> QED
      BY <1>1, <2>1, <2>2 DEF MInv, IInv, TypeOK
  <1> QED
    BY <1>0, <1>2, <1>3, <1>4 DEF MemoryHit, DiskHit, Offline, locals

(* A task that ends when nobody else saves leaves a snapshot of the row. *)
LEMMA EndedMInv ==
    ASSUME IInv, MInv, NEW t \in Tasks, Ended(t),
           \A u \in Tasks : u # t => pc[u] # "saving",
           lkg'.ver = disk'.ver
    PROVE  MInv'
  <1>1. \A u \in Tasks : pc'[u] = IF u = t THEN "idle" ELSE pc[u]
    BY DEF Ended, Goto, IInv, TypeOK
  <1> QED
    BY <1>1 DEF MInv

(* The two commits of one task are one to the others. *)
LEMMA FetchMInv ==
    ASSUME IInv, MInv, OneWriter, NEW t \in Tasks, Fetch(t)
    PROVE  MInv'
  <1>0. Home[t] \in Procs /\ t # NoTask
    BY SwrAssumption
  <1>1. CASE ReadPrior(t)
    <2>1. \A u \in Tasks : u # t => pc[u] # "saving"
      BY <1>1, NobodyElseSaves DEF ReadPrior, LoopIsFree
    <2> QED
      BY <1>1, <2>1 DEF ReadPrior, Goto, MInv, IInv, TypeOK
  <1>2. CASE OriginAnswers(t)
    BY <1>2 DEF OriginAnswers, Goto, MInv, IInv, TypeOK
  <1>3. CASE OriginConfirms(t)
    BY <1>3 DEF OriginConfirms, Goto, locals, MInv, IInv, TypeOK
  <1>4. CASE StoreRow(t)
    <2>1. \A u \in Tasks : u # t => pc[u] # "saving"
      BY <1>4, NobodyElseSaves DEF StoreRow
    <2>2. /\ disk'.ver = answer[t] /\ UNCHANGED answer
          /\ pc' = [pc EXCEPT ![t] = "saving"] /\ loop' = [loop EXCEPT ![Home[t]] = t]
      BY <1>4, StoredIsRow DEF StoreRow, Goto, Keep, locals, IInv, TypeOK
    <2>3. pc'[t] = "saving" /\ loop'[Home[t]] = t
      BY <1>0, <2>2 DEF IInv, TypeOK
    <2>4. \A u \in Tasks : u # t => pc'[u] = pc[u]
      BY <2>2 DEF IInv, TypeOK
    <2>5. Home[t] \notin OfflineProcs
      BY <1>4 DEF StoreRow, MInv
    <2> QED
      BY <2>1, <2>2, <2>3, <2>4, <2>5 DEF MInv
  <1>5. CASE SaveSnapshot(t)
    <2>1. pc[t] = "saving" /\ loop[Home[t]] = t /\ answer[t] = disk.ver
      BY <1>5 DEF SaveSnapshot, MInv
    <2>2. Ended(t) /\ UNCHANGED disk
      BY <1>5 DEF SaveSnapshot, Succeeds, Returns
    <2>3. lkg'.ver = disk'.ver
      BY <1>5, <2>1, <2>2, StoredIsRow, TtlIsAge DEF SaveSnapshot, IInv, TypeOK
    <2> QED
      BY <2>1, <2>2, <2>3, NobodyElseSaves, EndedMInv
  <1>6. CASE Touch(t)
    <2>1. \A u \in Tasks : u # t => pc[u] # "saving"
      BY <1>6, NobodyElseSaves DEF Touch
    <2>2. Ended(t) /\ UNCHANGED lkg
      BY <1>6 DEF Touch, Succeeds, Returns
    <2>3. disk'.ver = disk.ver
      BY <1>6 DEF Touch, IInv, TypeOK, Rows
    <2>4. lkg.ver = disk.ver
      BY <1>6, <2>1 DEF Touch, MInv
    <2> QED
      BY <2>1, <2>2, <2>3, <2>4, EndedMInv
  <1> QED
    BY <1>1, <1>2, <1>3, <1>4, <1>5, <1>6 DEF Fetch

(* A fetch that fails finds the row and the snapshot alike. *)
LEMMA FailMInv ==
    ASSUME IInv, MInv, OneWriter, NEW t \in Tasks, Fail(t)
    PROVE  MInv' /\ lkg.ver = disk.ver /\ UNCHANGED <<disk, lkg>>
  <1>1. /\ Ended(t) /\ UNCHANGED <<disk, lkg>>
        /\ pc[t] \in {"fetching", "answered"} /\ loop[Home[t]] = NoTask
    BY DEF Fail, FetchFails, Returns, RevalidationFails
  <1>2. \A u \in Tasks : u # t => pc[u] # "saving"
    BY <1>1, NobodyElseSaves
  <1>3. lkg.ver = disk.ver
    BY <1>1, <1>2 DEF MInv
  <1> QED
    BY <1>1, <1>2, <1>3, EndedMInv

(* Only a process without tasks dies, and time passes when no loop is held. *)
LEMMA EnvironmentMInv ==
    ASSUME IInv, MInv, OneWriter, Publish \/ Tick \/ \E p \in Procs : Restart(p) \/ Evict(p)
    PROVE  MInv'
  <1>1. CASE Publish \/ \E p \in Procs : Evict(p)
    BY <1>1 DEF Publish, Evict, locals, MInv
  <1>2. CASE Tick
    <2>1. disk'.ver = disk.ver /\ lkg'.ver = lkg.ver
      BY <1>2, OlderIsRow DEF Tick, IInv, TypeOK
    <2> QED
      BY <1>2, <2>1 DEF Tick, locals, MInv
  <1>3. ASSUME NEW p \in Procs, Restart(p)
        PROVE  MInv'
    <2>1. p \in OfflineProcs
      BY <1>3 DEF Restart, OneWriter
    <2>2. \A t \in Tasks : Home[t] = p => pc[t] = "idle"
      BY <2>1 DEF MInv
    <2>3. \A t \in Tasks : pc'[t] = pc[t]
      BY <1>3, <2>2 DEF Restart
    <2>4. \A t \in Tasks : pc[t] # "idle" => answer'[t] = answer[t] /\ loop'[Home[t]] = loop[Home[t]]
      BY <1>3, <2>2, SwrAssumption DEF Restart, IInv, TypeOK
    <2> QED
      BY <1>3, <2>3, <2>4 DEF Restart, MInv
  <1> QED
    BY <1>1, <1>2, <1>3

LEMMA NextMInv ==
    ASSUME OneWriter
    PROVE  IInv /\ MInv /\ [Next]_vars => MInv'
  <1>1. ASSUME UNCHANGED vars, MInv
        PROVE  MInv'
    BY <1>1 DEF vars, locals, MInv
  <1> QED
    BY <1>1, GetMInv, FetchMInv, FailMInv, EnvironmentMInv DEF Next

(***************************************************************************)
(* However the fetches of one process overlap, the snapshot is of the very  *)
(* version of the row whenever the event loop is free (_fetch_and_store).   *)
(***************************************************************************)
THEOREM SnapshotsMirrorRows ==
    ASSUME OneWriter
    PROVE  Spec => []SnapshotMirrorsRow
  <1>1. MInv => SnapshotMirrorsRow
    BY SwrAssumption DEF MInv, SnapshotMirrorsRow
  <1> QED
    BY InitIInv, NextIInv, InitMInv, NextMInv, <1>1, PTL DEF Spec

(* An error is raised only over an empty file. *)
LEMMA NextRaises ==
    ASSUME OneWriter, "other_error" \notin Outcomes
    PROVE  IInv /\ MInv /\ NeverNothing /\ [Next]_vars => NeverNothing'
  <1> SUFFICES ASSUME IInv, MInv, NeverNothing, [Next]_vars, reply'.state = "raised"
               PROVE  ~Holds(lkg') /\ ~Holds(disk')
    BY DEF NeverNothing, Holds
  <1>1. Silence.state # "raised"
    BY SilenceIsReply
  <1>2. CASE UNCHANGED vars
    BY <1>2 DEF vars, NeverNothing
  <1>3. ASSUME NEW c \in Callers, Get(c)
        PROVE  ~Holds(lkg') /\ ~Holds(disk')
    <2>1. PICK ttl \in Ttls : Offline(c, ttl)
      BY <1>1, <1>3 DEF Get, MemoryHit, DiskHit, StaleHit, Miss, Reply
    <2>2. ~Holds(StaleValue(Home[c])) /\ ~Holds(lkg)
      BY <2>1 DEF Offline, OfflineReply, Reply
    <2> QED
      BY <2>1, <2>2 DEF Offline, StaleValue
  <1>4. ASSUME NEW t \in Tasks, Fetch(t)
        PROVE  FALSE
    BY <1>1, <1>4 DEF Fetch, ReadPrior, OriginAnswers, OriginConfirms, StoreRow, SaveSnapshot,
                      Touch, Succeeds, Returns, Reply
  <1>5. ASSUME NEW t \in Tasks, Fail(t)
        PROVE  ~Holds(lkg') /\ ~Holds(disk')
    <2>1. ~Holds(lkg)
      BY <1>1, <1>5 DEF Fail, FetchFails, RevalidationFails, Returns, Reply
    <2> QED
      BY <1>5, <2>1, FailMInv DEF Holds
  <1>6. CASE Publish \/ Tick \/ \E p \in Procs : Restart(p) \/ Evict(p)
    BY <1>1, <1>6 DEF Publish, Tick, Restart, Evict
  <1> QED
    BY <1>2, <1>3, <1>4, <1>5, <1>6 DEF Next

(***************************************************************************)
(* While the errors of a fetch are those of the package, get raises only if *)
(* nothing was ever stored: a miss that another one's store overtakes finds *)
(* its snapshot (get, "except MaxPrepsError").                              *)
(***************************************************************************)
THEOREM SomethingIsServed ==
    ASSUME OneWriter, "other_error" \notin Outcomes
    PROVE  Spec => []NeverNothing
  <1>1. Init => NeverNothing
    BY SilenceIsReply DEF Init, NeverNothing
  <1> QED
    BY InitIInv, NextIInv, InitMInv, NextMInv, NextRaises, <1>1, PTL DEF Spec
=============================================================================
