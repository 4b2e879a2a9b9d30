------------------------------- MODULE SwrCache -------------------------------
(***************************************************************************)
(* CachedFetcher (cache/swr.py) over its three tiers, for one cache key:    *)
(* the process's MemoryCache, and the row and the last-known-good snapshot  *)
(* of that key in the SQLite file, which every process of the machine       *)
(* shares (the service and the command line run side by side).              *)
(*                                                                          *)
(* Payloads are versions of the resource at the origin, counted from 1;     *)
(* version 0 stands for no entry.  The age of an entry is time.time() -     *)
(* stored_at, counted up to MaxAge, which is beyond every ttl.  A step is   *)
(* the code between two awaits, cut where another process can see the       *)
(* difference: between the two commits of a store.                          *)
(***************************************************************************)
EXTENDS Naturals, FiniteSets

CONSTANTS
    Procs,          \* the processes that share the cache file
    OfflineProcs,   \* those run with offline=True
    CrashingProcs,  \* those that may die, or end, and be started again
    Callers,        \* tasks that call CachedFetcher.get
    Revals,         \* tasks that _spawn_revalidate may create
    Home,           \* the process of each task
    NoTask,         \* nobody
    Outcomes,       \* how a fetch may end, of AllOutcomes
    Ttls,           \* the ttl arguments the callers of this key pass
    MaxAge,         \* ages are not counted beyond this
    MaxVersion,     \* the origin stops changing at this version
    WarmStart       \* whether an earlier run left this key in the file

Tasks == Callers \cup Revals

(* A MaxPrepsError is what get catches; the other errors that leave the     *)
(* fetchers of client.py (httpx.ReadError, json.JSONDecodeError) are not.    *)
AllOutcomes == {"ok", "not_modified", "package_error", "other_error"}

ASSUME SwrAssumption ==
    /\ OfflineProcs \subseteq Procs
    /\ CrashingProcs \subseteq Procs
    /\ Callers \cap Revals = {}
    /\ Home \in [Tasks -> Procs]
    /\ NoTask \notin Tasks
    /\ Outcomes \subseteq AllOutcomes
    /\ MaxAge \in Nat
    /\ Ttls \subseteq 0..MaxAge
    /\ \A ttl \in Ttls : ttl < MaxAge
    /\ MaxVersion \in Nat \ {0}
    /\ WarmStart \in BOOLEAN

VARIABLES
    origin,     \* the version maxpreps.com would answer with now
    disk,       \* the key's row in DiskCache
    lkg,        \* the row of SnapshotStore, under the lkg: prefix
    memory,     \* the key's entry in each process's MemoryCache
    inflight,   \* CachedFetcher._inflight of each process, for this key
    loop,       \* the task that holds a process's event loop, if one must
    pc,         \* where each task is
    want,       \* the ttl argument of each task
    asked,      \* the origin's version when a task's get began
    prior,      \* the row a fetch read before it asked the origin
    answer,     \* the version the origin answered a fetch with
    reply       \* what the last step returned to a caller, if it did

locals == <<want, asked, prior, answer>>
vars == <<origin, disk, lkg, memory, inflight, loop, pc, locals, reply>>

Versions == 0..MaxVersion
Ages == 0..MaxAge

Rows == [ver: Versions, age: Ages, ttl: Ages]
NoRow == [ver |-> 0, age |-> 0, ttl |-> 0]

Holds(row) == row.ver > 0
IsFresh(row) == Holds(row) /\ row.age <= row.ttl
Stored(ver, ttl) == [ver |-> ver, age |-> 0, ttl |-> ttl]

(* A CacheHit or an error, with the ttl its caller asked for and the        *)
(* origin's version when it asked.                                          *)
States == {"nothing", "cached", "stale", "fresh", "last_known_good", "raised"}
Replies == [state: States, ver: Versions, age: Ages, ttl: Ages, asked: Versions]
Reply(state, row, ttl, since) ==
    [state |-> state, ver |-> row.ver, age |-> row.age, ttl |-> ttl, asked |-> since]
Silence == Reply("nothing", NoRow, 0, 0)

-----------------------------------------------------------------------------
Init ==
    /\ origin = 1
    /\ \/ ~WarmStart /\ disk = NoRow /\ lkg = NoRow
       \/ /\ WarmStart
          /\ \E age \in Ages, ttl \in Ttls : disk = [ver |-> 1, age |-> age, ttl |-> ttl]
          /\ lkg = [ver |-> 1, age |-> disk.age, ttl |-> MaxAge]
    /\ memory = [p \in Procs |-> NoRow]
    /\ inflight = [p \in Procs |-> NoTask]
    /\ loop = [p \in Procs |-> NoTask]
    /\ pc = [t \in Tasks |-> "idle"]
    /\ want = [t \in Tasks |-> 0]
    /\ asked = [t \in Tasks |-> 0]
    /\ prior = [t \in Tasks |-> NoRow]
    /\ answer = [t \in Tasks |-> 0]
    /\ reply = Silence

LoopIsFree(t) == loop[Home[t]] \in {NoTask, t}

Yield(t) == loop' = [loop EXCEPT ![Home[t]] = NoTask]

Keep(t) == loop' = [loop EXCEPT ![Home[t]] = t]

Goto(t, place) == pc' = [pc EXCEPT ![t] = place]

(* A task starts, and its locals are set; it ends, and they are gone.       *)
Locals(t, ttl, since, row, ver) ==
    /\ want' = [want EXCEPT ![t] = ttl]
    /\ asked' = [asked EXCEPT ![t] = since]
    /\ prior' = [prior EXCEPT ![t] = row]
    /\ answer' = [answer EXCEPT ![t] = ver]

Ended(t) ==
    /\ Goto(t, "idle")
    /\ Locals(t, 0, 0, NoRow, 0)
    /\ Yield(t)

Returns(c, state, row) ==
    /\ reply' = Reply(state, row, want[c], asked[c])
    /\ Ended(c)

-----------------------------------------------------------------------------
(* get, up to its return or to the await of _fetch_and_store.               *)

CanGet(c) == pc[c] = "idle" /\ loop[Home[c]] = NoTask

(* Memory hit, fresh. *)
MemoryHit(c, ttl) ==
    /\ CanGet(c)
    /\ IsFresh(memory[Home[c]])
    /\ reply' = Reply("cached", memory[Home[c]], ttl, origin)
    /\ UNCHANGED <<origin, disk, lkg, memory, inflight, loop, pc, locals>>

(* Mutant: the promoted entry is stamped anew.                              *)
DiskHitRestamped(c, ttl) ==
    /\ CanGet(c)
    /\ ~IsFresh(memory[Home[c]])
    /\ IsFresh(disk)
    /\ memory' = [memory EXCEPT ![Home[c]] = Stored(disk.ver, ttl)]
    /\ reply' = Reply("cached", disk, ttl, origin)
    /\ UNCHANGED <<origin, disk, lkg, inflight, loop, pc, locals>>

(* Disk hit, fresh: promoted to memory under the ttl of this caller.        *)
DiskHit(c, ttl) ==
    /\ CanGet(c)
    /\ ~IsFresh(memory[Home[c]])
    /\ IsFresh(disk)
    /\ memory' = [memory EXCEPT ![Home[c]] = [disk EXCEPT !.ttl = ttl]]
    /\ reply' = Reply("cached", disk, ttl, origin)
    /\ UNCHANGED <<origin, disk, lkg, inflight, loop, pc, locals>>

(* What get finds of a key that is fresh nowhere: the row, else the memory. *)
StaleValue(p) == IF Holds(disk) THEN disk ELSE memory[p]

NothingFresh(c) == CanGet(c) /\ ~IsFresh(memory[Home[c]]) /\ ~IsFresh(disk)

(* offline=True: whatever exists, or OfflineMissError. *)
OfflineReply(p) ==
    IF Holds(StaleValue(p)) THEN "stale"
    ELSE IF Holds(lkg) THEN "last_known_good" ELSE "raised"

Offline(c, ttl) ==
    /\ NothingFresh(c)
    /\ Home[c] \in OfflineProcs
    /\ LET state == OfflineReply(Home[c])
           row == IF state = "last_known_good" THEN lkg ELSE StaleValue(Home[c])
       IN  reply' = Reply(state, row, ttl, origin)
    /\ UNCHANGED <<origin, disk, lkg, memory, inflight, loop, pc, locals>>

(* Mutant: a stale hit always starts a refresh.                             *)
SpawnAlways(p, ttl) ==
    \E r \in {x \in Revals : Home[x] = p /\ pc[x] = "idle"} :
        /\ inflight' = [inflight EXCEPT ![p] = r]
        /\ Goto(r, "begin")
        /\ Locals(r, ttl, 0, NoRow, 0)

(* _spawn_revalidate: nothing if _inflight names a task of the key that is  *)
(* not done; one that ended is done(), whether or not it popped itself.     *)
Spawn(p, ttl) ==
    IF inflight[p] # NoTask /\ pc[inflight[p]] # "idle"
    THEN UNCHANGED <<inflight, pc, locals>>
    ELSE \E r \in {x \in Revals : Home[x] = p /\ pc[x] = "idle"} :
            /\ inflight' = [inflight EXCEPT ![p] = r]
            /\ Goto(r, "begin")
            /\ Locals(r, ttl, 0, NoRow, 0)

StaleHit(c, ttl) ==
    /\ NothingFresh(c)
    /\ Home[c] \notin OfflineProcs
    /\ Holds(StaleValue(Home[c]))
    /\ Spawn(Home[c], ttl)
    /\ reply' = Reply("stale", StaleValue(Home[c]), ttl, origin)
    /\ UNCHANGED <<origin, disk, lkg, memory, loop>>

(* Nothing anywhere: fetch in this very task, without giving up the loop.   *)
Miss(c, ttl) ==
    /\ NothingFresh(c)
    /\ Home[c] \notin OfflineProcs
    /\ ~Holds(StaleValue(Home[c]))
    /\ Goto(c, "begin")
    /\ Locals(c, ttl, origin, NoRow, 0)
    /\ Keep(c)
    /\ reply' = Silence
    /\ UNCHANGED <<origin, disk, lkg, memory, inflight>>

-----------------------------------------------------------------------------
(* _fetch_and_store, of a caller or of a revalidation.                      *)

(* The prior row is read for its validators, then fetch is awaited. *)
ReadPrior(t) ==
    /\ pc[t] = "begin"
    /\ LoopIsFree(t)
    /\ prior' = [prior EXCEPT ![t] = disk]
    /\ Goto(t, "fetching")
    /\ Yield(t)
    /\ reply' = Silence
    /\ UNCHANGED <<origin, disk, lkg, memory, inflight, want, asked, answer>>

(* The origin answers with its version; the answer is on its way.           *)
OriginAnswers(t) ==
    /\ "ok" \in Outcomes
    /\ pc[t] = "fetching"
    /\ answer' = [answer EXCEPT ![t] = origin]
    /\ Goto(t, "answered")
    /\ reply' = Silence
    /\ UNCHANGED <<origin, disk, lkg, memory, inflight, loop, want, asked, prior>>

(* The validators of the prior row still hold: 304. *)
OriginConfirms(t) ==
    /\ "not_modified" \in Outcomes
    /\ pc[t] = "fetching"
    /\ prior[t].ver = origin
    /\ Goto(t, "confirmed")
    /\ reply' = Silence
    /\ UNCHANGED <<origin, disk, lkg, memory, inflight, loop, locals>>

(* The task ends well: the caller gets a fresh hit, the revalidation is     *)
(* popped from _inflight in its finally clause.                             *)
Succeeds(t, row) ==
    IF t \in Callers
    THEN Returns(t, "fresh", row) /\ UNCHANGED inflight
    ELSE /\ Ended(t)
         /\ inflight' = [inflight EXCEPT ![Home[t]] = NoTask]
         /\ reply' = Silence

(* Mutant: the two commits have an await between them.                      *)
StoreRowAndYield(t) ==
    /\ pc[t] = "answered"
    /\ loop[Home[t]] = NoTask
    /\ disk' = Stored(answer[t], want[t])
    /\ memory' = [memory EXCEPT ![Home[t]] = Stored(answer[t], want[t])]
    /\ Goto(t, "saving")
    /\ reply' = Silence
    /\ UNCHANGED <<origin, lkg, inflight, loop, locals>>

(* Mutant: the snapshot is committed before the row.                        *)
StoreSnapshotFirst(t) ==
    /\ pc[t] = "answered"
    /\ loop[Home[t]] = NoTask
    /\ lkg' = Stored(answer[t], MaxAge)
    /\ memory' = [memory EXCEPT ![Home[t]] = Stored(answer[t], want[t])]
    /\ Goto(t, "saving")
    /\ Keep(t)
    /\ reply' = Silence
    /\ UNCHANGED <<origin, disk, inflight, locals>>

(* Mutant: the row is inserted only if there is none (INSERT OR IGNORE).    *)
StoreRowOnce(t) ==
    /\ pc[t] = "answered"
    /\ loop[Home[t]] = NoTask
    /\ disk' = IF Holds(disk) THEN disk ELSE Stored(answer[t], want[t])
    /\ memory' = [memory EXCEPT ![Home[t]] = Stored(answer[t], want[t])]
    /\ Goto(t, "saving")
    /\ Keep(t)
    /\ reply' = Silence
    /\ UNCHANGED <<origin, lkg, inflight, locals>>

(* disk.set commits, memory.set; the snapshot is a second commit. *)
StoreRow(t) ==
    /\ pc[t] = "answered"
    /\ loop[Home[t]] = NoTask
    /\ disk' = Stored(answer[t], want[t])
    /\ memory' = [memory EXCEPT ![Home[t]] = Stored(answer[t], want[t])]
    /\ Goto(t, "saving")
    /\ Keep(t)
    /\ reply' = Silence
    /\ UNCHANGED <<origin, lkg, inflight, locals>>

SaveSnapshot(t) ==
    /\ pc[t] = "saving"
    /\ lkg' = Stored(answer[t], MaxAge)
    /\ Succeeds(t, Stored(answer[t], want[t]))
    /\ UNCHANGED <<origin, disk, memory>>

(* disk.touch restamps the row there is now; memory gets the prior value.   *)
Touch(t) ==
    /\ pc[t] = "confirmed"
    /\ loop[Home[t]] = NoTask
    /\ disk' = IF Holds(disk) THEN [disk EXCEPT !.age = 0] ELSE disk
    /\ memory' = [memory EXCEPT ![Home[t]] = Stored(prior[t].ver, want[t])]
    /\ Succeeds(t, Stored(prior[t].ver, want[t]))
    /\ UNCHANGED <<origin, lkg>>

(* Mutant: the snapshot is returned as if it had been fetched.              *)
FetchFailsFresh(c, error) ==
    /\ error \in Outcomes
    /\ pc[c] \in {"fetching", "answered"}
    /\ loop[Home[c]] = NoTask
    /\ IF error = "package_error" /\ Holds(lkg)
       THEN Returns(c, "fresh", lkg)
       ELSE Returns(c, "raised", NoRow)
    /\ UNCHANGED <<origin, disk, lkg, memory, inflight>>

(* Mutant: no fallback on the snapshot.                                     *)
FetchFailsBare(c, error) ==
    /\ error \in Outcomes
    /\ pc[c] \in {"fetching", "answered"}
    /\ loop[Home[c]] = NoTask
    /\ Returns(c, "raised", NoRow)
    /\ UNCHANGED <<origin, disk, lkg, memory, inflight>>

(* The fetch of a get fails: the snapshot, if the error is one get catches  *)
(* and if there is one; else the error.                                     *)
FetchFails(c, error) ==
    /\ error \in Outcomes
    /\ pc[c] \in {"fetching", "answered"}
    /\ loop[Home[c]] = NoTask
    /\ IF error = "package_error" /\ Holds(lkg)
       THEN Returns(c, "last_known_good", lkg)
       ELSE Returns(c, "raised", NoRow)
    /\ UNCHANGED <<origin, disk, lkg, memory, inflight>>

(* _revalidate swallows every Exception and pops itself. *)
RevalidationFails(r) ==
    /\ Outcomes \cap {"package_error", "other_error"} # {}
    /\ pc[r] \in {"fetching", "answered"}
    /\ loop[Home[r]] = NoTask
    /\ Ended(r)
    /\ inflight' = [inflight EXCEPT ![Home[r]] = NoTask]
    /\ reply' = Silence
    /\ UNCHANGED <<origin, disk, lkg, memory>>

-----------------------------------------------------------------------------
(* The process dies, or ends, and is started again: the file is what stays. *)
Restart(p) ==
    LET Mine(t) == Home[t] = p
    IN  /\ p \in CrashingProcs
        /\ memory' = [memory EXCEPT ![p] = NoRow]
        /\ inflight' = [inflight EXCEPT ![p] = NoTask]
        /\ loop' = [loop EXCEPT ![p] = NoTask]
        /\ pc' = [t \in Tasks |-> IF Mine(t) THEN "idle" ELSE pc[t]]
        /\ want' = [t \in Tasks |-> IF Mine(t) THEN 0 ELSE want[t]]
        /\ asked' = [t \in Tasks |-> IF Mine(t) THEN 0 ELSE asked[t]]
        /\ prior' = [t \in Tasks |-> IF Mine(t) THEN NoRow ELSE prior[t]]
        /\ answer' = [t \in Tasks |-> IF Mine(t) THEN 0 ELSE answer[t]]
        /\ reply' = Silence
        /\ UNCHANGED <<origin, disk, lkg>>

(* Other keys of this process push the entry out of its MemoryCache. *)
Evict(p) ==
    /\ Holds(memory[p])
    /\ loop[p] = NoTask
    /\ memory' = [memory EXCEPT ![p] = NoRow]
    /\ reply' = Silence
    /\ UNCHANGED <<origin, disk, lkg, inflight, loop, pc, locals>>

Publish ==
    /\ origin < MaxVersion
    /\ origin' = origin + 1
    /\ reply' = Silence
    /\ UNCHANGED <<disk, lkg, memory, inflight, loop, pc, locals>>

Older(row) == IF Holds(row) /\ row.age < MaxAge THEN [row EXCEPT !.age = @ + 1] ELSE row

(* A unit of time is long against the code between two awaits.              *)
Tick ==
    /\ \A p \in Procs : loop[p] = NoTask
    /\ disk' = Older(disk)
    /\ lkg' = Older(lkg)
    /\ memory' = [p \in Procs |-> Older(memory[p])]
    /\ reply' = Silence
    /\ UNCHANGED <<origin, inflight, loop, pc, locals>>

Get(c) ==
    \E ttl \in Ttls :
        MemoryHit(c, ttl) \/ DiskHit(c, ttl) \/ Offline(c, ttl) \/ StaleHit(c, ttl) \/ Miss(c, ttl)

Fetch(t) ==
    \/ ReadPrior(t)
    \/ OriginAnswers(t) \/ OriginConfirms(t)
    \/ StoreRow(t) \/ SaveSnapshot(t) \/ Touch(t)

Fail(t) ==
    \/ t \in Callers /\ \E error \in {"package_error", "other_error"} : FetchFails(t, error)
    \/ t \in Revals /\ RevalidationFails(t)

Next ==
    \/ \E c \in Callers : Get(c)
    \/ \E t \in Tasks : Fetch(t) \/ Fail(t)
    \/ \E p \in Procs : Restart(p) \/ Evict(p)
    \/ Publish
    \/ Tick

Spec == Init /\ [][Next]_vars

(***************************************************************************)
(* The event loop runs its ready tasks in turn, so a task that can go on    *)
(* again and again does; httpx bounds every request, so a fetch is answered *)
(* or fails; time passes.  Callers poll, as the Watcher does.               *)
(***************************************************************************)
Fairness ==
    /\ SF_vars(Tick)
    /\ \A t \in Tasks : SF_vars(Fetch(t) \/ Fail(t))
    /\ \A c \in Callers : SF_vars(Get(c))

FairSpec == Spec /\ Fairness

(* The network works often enough: asked again and again, the origin        *)
(* answers, and the answer arrives.                                         *)
NetworkFairness ==
    \A t \in Tasks :
        /\ SF_vars(OriginAnswers(t) \/ OriginConfirms(t))
        /\ SF_vars(StoreRow(t))

NetworkSpec == FairSpec /\ NetworkFairness

-----------------------------------------------------------------------------
(* Every variable holds a value of its type. *)
TypeOK ==
    /\ origin \in 1..MaxVersion
    /\ disk \in Rows /\ lkg \in Rows
    /\ memory \in [Procs -> Rows]
    /\ inflight \in [Procs -> Revals \cup {NoTask}]
    /\ loop \in [Procs -> Tasks \cup {NoTask}]
    /\ pc \in [Tasks -> {"idle", "begin", "fetching", "answered", "confirmed", "saving"}]
    /\ want \in [Tasks -> Ages]
    /\ asked \in [Tasks -> Versions]
    /\ prior \in [Tasks -> Rows]
    /\ answer \in [Tasks -> Versions]
    /\ reply \in Replies

(***************************************************************************)
(* A process has at most one background refresh of a key under way, the one *)
(* _inflight names, however many gets find the key stale before it has run; *)
(* _inflight names none that ended (swr.py, "deduped per key").             *)
(***************************************************************************)
OneRevalidation ==
    \A r \in Revals : pc[r] # "idle" <=> inflight[Home[r]] = r

(***************************************************************************)
(* What is returned as "fresh" is no older than the call: the origin had    *)
(* not moved past it when get was called, 304 answers and fetches of other  *)
(* tasks and processes in between included (swr.py, step 4).                *)
(***************************************************************************)
FreshIsCurrent == reply.state = "fresh" => reply.ver >= reply.asked

(***************************************************************************)
(* There is no snapshot without a row, wherever a process dies and whatever *)
(* order the commits of several processes take (_fetch_and_store).          *)
(***************************************************************************)
SnapshotHasRow == Holds(lkg) => Holds(disk)

(***************************************************************************)
(* With one process that does not die, the parachute holds the very version *)
(* the cache serves whenever the event loop is free, however fetches        *)
(* overlap (_fetch_and_store writes both before it yields).                 *)
(***************************************************************************)
SnapshotMirrorsRow == (\A p \in Procs : loop[p] = NoTask) => lkg.ver = disk.ver

(***************************************************************************)
(* One process over a warm cache never replaces a row by an older version:  *)
(* refreshes do not overlap, and one that was cut off by a restart does not *)
(* come back (_spawn_revalidate).                                           *)
(***************************************************************************)
NeverGoesBack == [][disk'.ver >= disk.ver]_disk

(***************************************************************************)
(* One process over a warm cache never serves from memory what the file     *)
(* has already replaced, nor under another age: the 304 path, which writes  *)
(* prior to memory and restamps the row, finds the row it read, and a       *)
(* promoted entry keeps its stored_at (_fetch_and_store, touch, get).       *)
(***************************************************************************)
TiersAgree ==
    \A p \in Procs :
        Holds(memory[p]) => memory[p].ver = disk.ver /\ memory[p].age = disk.age

(***************************************************************************)
(* An error reaches a caller only if there is no snapshot and no row        *)
(* (swr.py: "never return nothing when we have something").                 *)
(***************************************************************************)
NeverNothing == reply.state = "raised" => ~Holds(lkg) /\ ~Holds(disk)

(***************************************************************************)
(* When the origin stops changing and answers often enough, pollers come to *)
(* be served its last version, and not only while the process remembers it: *)
(* a refresh that fails is logged and forgotten (swr.py, _revalidate), so a *)
(* later get must find the key stale and start another, past whatever ttl,  *)
(* promotion, 304 or restart there was, and what it stores must be what the *)
(* next get finds.                                                          *)
(***************************************************************************)
LastVersionArrives ==
    origin = MaxVersion ~> reply.state # "nothing" /\ reply.ver = MaxVersion
=============================================================================
