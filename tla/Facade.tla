-------------------------------- MODULE Facade --------------------------------
(***************************************************************************)
(* The synchronous facade (sync.py): one event loop in a thread of its own, *)
(* calls from other threads that wait for their coroutine, and close, which *)
(* runs MaxPrepsClient.aclose on the loop and stops it.  Of a call, the     *)
(* cache's answer, the refresh a stale one spawns and the fetch of a miss   *)
(* are kept (cache/swr.py); each thread makes one call.                     *)
(***************************************************************************)
CONSTANTS
    Threads,        \* callers
    Keys            \* cache keys that may be refreshed

VARIABLES
    loop,       \* "starting", "running", "stopping", "stopped" or "closed"
    maker,      \* the constructor: "new", "made", or "refused"
    call,       \* thread -> where its call is
    refreshing, \* CachedFetcher._inflight
    drained,    \* the refreshes aclose waits for
    aclose,     \* "none", "asked", "waiting", "leaving" or "over"
    db,         \* the DiskCache and the transport: "open" or "closed"
    closer,     \* where the thread in close is
    late,       \* history: the refreshes spawned since aclose took its list
    lost        \* history: the refreshes that found the database closed

loopVars == <<loop, maker>>
shutdown == <<drained, aclose, db, closer>>
facadeVars == <<loopVars, call, refreshing, shutdown, late, lost>>

(***************************************************************************)
(*   idle       has not called                                              *)
(*   checked    has seen the loop running                                   *)
(*   scheduled  waits for its future; the coroutine is in the loop's queue  *)
(*   fetching   waits for its future; the coroutine awaits the network      *)
(*   ended      the future has a result or an exception                     *)
(*   refused    a RuntimeError: the loop does not run                       *)
(***************************************************************************)
InLoop == {"scheduled", "fetching"}
Over == {"ended", "refused"}

FacadeInit ==
    /\ loop = "starting"
    /\ maker = "new"
    /\ call = [t \in Threads |-> "idle"]
    /\ refreshing = {}
    /\ drained = {}
    /\ aclose = "none"
    /\ db = "open"
    /\ closer = "away"
    /\ late = {}
    /\ lost = {}

IsRunning == loop \in {"running", "stopping"}

-----------------------------------------------------------------------------
(* The constructor *)

(* The thread that was started comes to run_forever. *)
LoopStarts ==
    /\ loop = "starting"
    /\ loop' = "running"
    /\ UNCHANGED <<maker, call, refreshing, shutdown, late, lost>>

(***************************************************************************)
(* SyncClient.__init__ makes the client on the loop; it does not wait for   *)
(* the thread to have come to run_forever, and is then refused.             *)
(***************************************************************************)
Make ==
    /\ maker = "new"
    /\ maker' = IF IsRunning THEN "made" ELSE "refused"
    /\ UNCHANGED <<loop, call, refreshing, shutdown, late, lost>>

-----------------------------------------------------------------------------
(* Calls *)

Go(t, where) == call' = [call EXCEPT ![t] = where]

(* _run looks whether the loop runs ... *)
Check(t) ==
    /\ maker = "made"
    /\ call[t] = "idle"
    /\ Go(t, IF IsRunning THEN "checked" ELSE "refused")
    /\ UNCHANGED <<loopVars, refreshing, shutdown, late, lost>>

(* ... and queues the coroutine, whatever has become of the loop since; only *)
(* a closed one raises.                                                      *)
Schedule(t) ==
    /\ call[t] = "checked"
    /\ Go(t, IF loop = "closed" THEN "refused" ELSE "scheduled")
    /\ UNCHANGED <<loopVars, refreshing, shutdown, late, lost>>

(* A fresh entry, or a database that is closed. *)
AnswerAtOnce(t) ==
    /\ IsRunning
    /\ call[t] = "scheduled"
    /\ Go(t, "ended")
    /\ UNCHANGED <<loopVars, refreshing, shutdown, late, lost>>

(* A stale entry: it is refreshed behind the answer, once. *)
AnswerStale(t, k) ==
    /\ IsRunning
    /\ db = "open"
    /\ call[t] = "scheduled"
    /\ refreshing' = refreshing \cup {k}
    /\ late' = IF aclose # "none" /\ aclose # "asked" /\ k \notin refreshing
               THEN late \cup {k} ELSE late
    /\ Go(t, "ended")
    /\ UNCHANGED <<loopVars, shutdown, lost>>

Miss(t) ==
    /\ IsRunning
    /\ db = "open"
    /\ call[t] = "scheduled"
    /\ Go(t, "fetching")
    /\ UNCHANGED <<loopVars, refreshing, shutdown, late, lost>>

(* The fetch ends, with a value or an error; so it does on a closed client. *)
FetchEnds(t) ==
    /\ IsRunning
    /\ call[t] = "fetching"
    /\ Go(t, "ended")
    /\ UNCHANGED <<loopVars, refreshing, shutdown, late, lost>>

(* Whether a refresh was spawned before aclose took its list, or since. *)
Spawned(k) == IF k \in late THEN "late" ELSE "early"

RefreshEnds(k) ==
    /\ IsRunning
    /\ k \in refreshing
    /\ refreshing' = refreshing \ {k}
    /\ late' = late \ {k}
    /\ lost' = IF db = "closed" THEN lost \cup {<<k, Spawned(k)>>} ELSE lost
    /\ UNCHANGED <<loopVars, call, shutdown>>

-----------------------------------------------------------------------------
(* close and aclose *)

Closer(from, to) == closer = from /\ closer' = to

(* close, once: a loop that runs is asked to run aclose. *)
Close ==
    /\ maker = "made"
    /\ Closer("away", "waiting")
    /\ aclose' = "asked"
    /\ UNCHANGED <<loopVars, call, refreshing, drained, db, late, lost>>

(* Mutant: nothing is drained.                                              *)
AcloseStartsUndrained ==
    /\ IsRunning
    /\ aclose = "asked"
    /\ aclose' = "waiting"
    /\ drained' = {}
    /\ UNCHANGED <<loopVars, call, refreshing, db, closer, late, lost>>

(* wait_for_revalidations lists the refreshes there are, and awaits those. *)
AcloseStarts ==
    /\ IsRunning
    /\ aclose = "asked"
    /\ aclose' = "waiting"
    /\ drained' = refreshing
    /\ UNCHANGED <<loopVars, call, refreshing, db, closer, late, lost>>

(* Those have ended (a later one of the same key does not count). *)
Drained ==
    /\ IsRunning
    /\ aclose = "waiting"
    /\ drained \cap (refreshing \ late) = {}
    /\ aclose' = "leaving"
    /\ UNCHANGED <<loopVars, call, refreshing, drained, db, closer, late, lost>>

(* The transport is closed, which may raise, and then the database. *)
AcloseEnds ==
    /\ IsRunning
    /\ aclose = "leaving"
    /\ aclose' = "over"
    /\ db' \in {"open", "closed"}
    /\ UNCHANGED <<loopVars, call, refreshing, drained, closer, late, lost>>

(* Mutant: close waits for aclose as long as it takes.                      *)
StopLoopPatiently ==
    /\ Closer("waiting", "joining")
    /\ aclose = "over"
    /\ loop' = "stopping"
    /\ UNCHANGED <<maker, call, refreshing, drained, aclose, db, late, lost>>

(* aclose has ended, or ten seconds are over: the loop is told to stop. *)
StopLoop ==
    /\ Closer("waiting", "joining")
    /\ loop' = "stopping"
    /\ UNCHANGED <<maker, call, refreshing, drained, aclose, db, late, lost>>

(* run_forever returns; what is queued or awaited stays so for ever. *)
LoopStops ==
    /\ loop = "stopping"
    /\ loop' = "stopped"
    /\ UNCHANGED <<maker, call, refreshing, shutdown, late, lost>>

(* The thread has ended and the loop is closed. *)
CloseLoop ==
    /\ Closer("joining", "done")
    /\ loop = "stopped"
    /\ loop' = "closed"
    /\ UNCHANGED <<maker, call, refreshing, drained, aclose, db, late, lost>>

(* Five seconds are over and the loop still runs: closing it raises. *)
JoinTimesOut ==
    /\ Closer("joining", "failed")
    /\ loop = "stopping"
    /\ UNCHANGED <<loopVars, call, refreshing, drained, aclose, db, late, lost>>

Coroutine(t) ==
    AnswerAtOnce(t) \/ Miss(t) \/ FetchEnds(t) \/ \E k \in Keys : AnswerStale(t, k)

Caller(t) == Check(t) \/ Schedule(t)

Shutdown ==
    AcloseStarts \/ Drained \/ AcloseEnds \/ StopLoop \/ LoopStops \/ CloseLoop \/ JoinTimesOut

FacadeNext ==
    \/ LoopStarts \/ Make \/ Close \/ Shutdown
    \/ \E t \in Threads : Caller(t) \/ Coroutine(t)
    \/ \E k \in Keys : RefreshEnds(k)

FacadeSpec == FacadeInit /\ [][FacadeNext]_facadeVars

(***************************************************************************)
(* Threads and the loop go on, a fetch ends with a value, an error or a     *)
(* timeout, and the waits of close are bounded by their timeouts.  Refreshes*)
(* need not end.                                                            *)
(***************************************************************************)
FacadeFairSpec ==
    /\ FacadeSpec
    /\ WF_facadeVars(LoopStarts)
    /\ WF_facadeVars(StopLoop \/ LoopStops \/ CloseLoop \/ JoinTimesOut)
    /\ \A t \in Threads : WF_facadeVars(Schedule(t)) /\ WF_facadeVars(Coroutine(t))

-----------------------------------------------------------------------------
(* Every variable holds a value of its type. *)
FacadeTypeOK ==
    /\ loop \in {"starting", "running", "stopping", "stopped", "closed"}
    /\ maker \in {"new", "made", "refused"}
    /\ call \in [Threads -> {"idle", "checked"} \cup InLoop \cup Over]
    /\ refreshing \subseteq Keys
    /\ drained \subseteq Keys
    /\ aclose \in {"none", "asked", "waiting", "leaving", "over"}
    /\ db \in {"open", "closed"}
    /\ closer \in {"away", "waiting", "joining", "done", "failed"}
    /\ late \subseteq refreshing
    /\ lost \subseteq Keys \X {"early", "late"}

(***************************************************************************)
(* Only a refresh that a call spawned while aclose was already waiting      *)
(* finds the database closed; the ones before have stored what they fetched *)
(* (aclose, wait_for_revalidations: "drain in-flight background refreshes").*)
(***************************************************************************)
OnlyLatecomersAreLost ==
    /\ \A l \in lost : l[2] = "late"
    /\ db = "closed" => refreshing \subseteq late

(***************************************************************************)
(* Nobody waits for ever who could know better.  close comes back, though a *)
(* refresh should hang and the loop be busy: with the loop closed, or with  *)
(* the RuntimeError of closing one that runs.  A call that has been let in  *)
(* ends, unless the loop is stopped under it: then its thread waits for     *)
(* ever, for result() has no timeout (close, _run).                         *)
(***************************************************************************)
WaitsEnd ==
    /\ closer # "away" ~> closer \in {"done", "failed"}
    /\ \A t \in Threads :
          call[t] \in {"checked"} \cup InLoop ~>
              (call[t] \in Over \/ loop \in {"stopping", "stopped", "closed"})
=============================================================================
