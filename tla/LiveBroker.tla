------------------------------ MODULE LiveBroker ------------------------------
(***************************************************************************)
(* LiveBroker (service/sse.py): one asyncio.Condition, a publisher (the     *)
(* Watcher) and the async generators behind GET /stream.                    *)
(*                                                                          *)
(* A step is the code between two awaits or yields.  The lock of the        *)
(* condition is held across a step only where a generator yields inside     *)
(* async with: everywhere else it is taken and given back in one step, and  *)
(* wait() gives it back while it waits.                                     *)
(***************************************************************************)
EXTENDS Naturals

CONSTANTS
    Subs,           \* the connections to /stream
    Nobody,         \* holder of a free lock
    MaxPublished    \* the model stops publishing here

ASSUME BrokerAssumption ==
    /\ Nobody \notin Subs
    /\ MaxPublished \in Nat

VARIABLES
    lock,       \* who holds the condition's lock between steps
    sequence,   \* _sequence, also the id of _latest; 0: nothing published yet
    publisher,  \* "idle", or "publishing" once publish is called
    pc,         \* where each generator is
    seen        \* last_seen of each generator

vars == <<lock, sequence, publisher, pc, seen>>

(***************************************************************************)
(*   gone        no connection                                              *)
(*   opening     subscribe is about to read _latest under the lock          *)
(*   sending     paused at the yield of a message                           *)
(*   acquiring   at the head of the while loop, about to take the lock      *)
(*   waiting     in wait_for, asleep, the lock given back                   *)
(*   notified    woken by notify_all, about to take the lock again          *)
(*   timed_out   the heartbeat timeout has cancelled the wait, which takes  *)
(*               the lock again before it lets go                           *)
(*   beating     paused at the yield of a heartbeat                         *)
(***************************************************************************)
Places == {"gone", "opening", "sending", "acquiring", "waiting", "notified", "timed_out",
           "beating"}

Init ==
    /\ lock = Nobody
    /\ sequence = 0
    /\ publisher = "idle"
    /\ pc = [s \in Subs |-> "gone"]
    /\ seen = [s \in Subs |-> 0]

Goto(s, place) == pc' = [pc EXCEPT ![s] = place]

(* Mutant: the message last seen counts as news.                            *)
NewerOrSame(s) == sequence > 0 /\ sequence >= seen[s]

Newer(s) == sequence > seen[s]

-----------------------------------------------------------------------------
(* The Watcher calls publish. *)
CallPublish ==
    /\ publisher = "idle"
    /\ sequence < MaxPublished
    /\ publisher' = "publishing"
    /\ UNCHANGED <<lock, sequence, pc, seen>>

(* Mutant: publish sets _latest and wakes nobody.                           *)
PublishSilently ==
    /\ publisher = "publishing"
    /\ lock = Nobody
    /\ sequence' = sequence + 1
    /\ publisher' = "idle"
    /\ UNCHANGED <<lock, pc, seen>>

(* publish gets the lock, sets _latest and wakes everybody. *)
Publish ==
    /\ publisher = "publishing"
    /\ lock = Nobody
    /\ sequence' = sequence + 1
    /\ pc' = [s \in Subs |-> IF pc[s] = "waiting" THEN "notified" ELSE pc[s]]
    /\ publisher' = "idle"
    /\ UNCHANGED <<lock, seen>>

(* Mutant: a publish that is cancelled keeps the lock it had.               *)
AbandonPublishHolding ==
    /\ publisher = "publishing"
    /\ lock = Nobody
    /\ publisher' = "idle"
    /\ lock' = publisher
    /\ UNCHANGED <<sequence, pc, seen>>

(* Watcher.stop cancels a publish that waits for the lock.                  *)
AbandonPublish ==
    /\ publisher = "publishing"
    /\ publisher' = "idle"
    /\ UNCHANGED <<lock, sequence, pc, seen>>

-----------------------------------------------------------------------------
(* A client connects: subscribe starts with last_seen = 0. *)
Connect(s) ==
    /\ pc[s] = "gone"
    /\ Goto(s, "opening")
    /\ seen' = [seen EXCEPT ![s] = 0]
    /\ UNCHANGED <<lock, sequence, publisher>>

(* The newest message is yielded, outside the lock. *)
SendLatest(s) ==
    /\ seen' = [seen EXCEPT ![s] = sequence]
    /\ Goto(s, "sending")

(* A new subscriber gets the current state, if there is one. *)
ReadInitial(s) ==
    /\ pc[s] = "opening"
    /\ lock = Nobody
    /\ IF sequence > 0 THEN SendLatest(s) ELSE Goto(s, "acquiring") /\ UNCHANGED seen
    /\ UNCHANGED <<lock, sequence, publisher>>

(* The client takes the message; the generator goes on. *)
Resume(s) ==
    /\ pc[s] = "sending"
    /\ Goto(s, "acquiring")
    /\ UNCHANGED <<lock, sequence, publisher, seen>>

(* wait_for with the lock: the news if there is some, else sleep.           *)
CheckNews(s) ==
    /\ pc[s] \in {"acquiring", "notified"}
    /\ lock = Nobody
    /\ IF Newer(s) THEN SendLatest(s) ELSE Goto(s, "waiting") /\ UNCHANGED seen
    /\ UNCHANGED <<lock, sequence, publisher>>

(* heartbeat_seconds without a message. *)
TimeOut(s) ==
    /\ pc[s] \in {"waiting", "notified"}
    /\ Goto(s, "timed_out")
    /\ UNCHANGED <<lock, sequence, publisher, seen>>

(* The cancelled wait has the lock again, TimeoutError is caught inside     *)
(* async with, and the heartbeat is yielded from there.                     *)
Heartbeat(s) ==
    /\ pc[s] = "timed_out"
    /\ lock = Nobody
    /\ lock' = s
    /\ Goto(s, "beating")
    /\ UNCHANGED <<sequence, publisher, seen>>

(* Mutant: the lock is not given back after a heartbeat.                    *)
ResumeBeatWithLock(s) ==
    /\ pc[s] = "beating"
    /\ Goto(s, "acquiring")
    /\ UNCHANGED <<lock, sequence, publisher, seen>>

(* The client takes the heartbeat; continue leaves async with. *)
ResumeBeat(s) ==
    /\ pc[s] = "beating"
    /\ lock' = Nobody
    /\ Goto(s, "acquiring")
    /\ UNCHANGED <<sequence, publisher, seen>>

(* The client goes away: the generator is closed where it stands, and       *)
(* leaving async with gives back the lock it may hold.                      *)
Disconnect(s) ==
    /\ pc[s] # "gone"
    /\ Goto(s, "gone")
    /\ lock' = IF lock = s THEN Nobody ELSE lock
    /\ UNCHANGED <<sequence, publisher, seen>>

Generator(s) ==
    ReadInitial(s) \/ CheckNews(s) \/ Heartbeat(s)

Client(s) == Resume(s) \/ ResumeBeat(s)

Connection(s) == Connect(s) \/ Generator(s) \/ Client(s) \/ TimeOut(s) \/ Disconnect(s)

Next ==
    \/ CallPublish
    \/ Publish
    \/ AbandonPublish
    \/ \E s \in Subs : Connection(s)

Spec == Init /\ [][Next]_vars

(***************************************************************************)
(* asyncio.Lock is first come, first served, so whoever keeps finding it    *)
(* free gets it.  ClientsRead: every client reads what it is sent.          *)
(***************************************************************************)
LockFairness ==
    /\ SF_vars(Publish)
    /\ \A s \in Subs : SF_vars(ReadInitial(s)) /\ SF_vars(CheckNews(s)) /\ SF_vars(Heartbeat(s))

ClientsRead == \A s \in Subs : WF_vars(Client(s))

FairSpec == Spec /\ LockFairness

ReadingSpec == FairSpec /\ ClientsRead

-----------------------------------------------------------------------------
(* Every variable holds a value of its type. *)
TypeOK ==
    /\ lock \in Subs \cup {Nobody}
    /\ sequence \in 0..MaxPublished
    /\ publisher \in {"idle", "publishing"}
    /\ pc \in [Subs -> Places]
    /\ seen \in [Subs -> 0..MaxPublished]

(***************************************************************************)
(* No generator sleeps on news: one that waits has seen the latest message, *)
(* whatever publishes, timeouts and reconnections came between its check    *)
(* and its sleep (sse.py, wait_for(newer) under the condition).             *)
(***************************************************************************)
NoLostWakeup == \A s \in Subs : pc[s] = "waiting" => seen[s] = sequence

(***************************************************************************)
(* A connection never gets a message twice or an older one after a newer,   *)
(* also when a heartbeat races a publish (sse.py: "subscribers that lag     *)
(* simply skip to the newest state").                                       *)
(***************************************************************************)
SkipsToNewest ==
    [][\A s \in Subs : pc'[s] = "sending" /\ pc[s] # "sending" =>
          seen'[s] > seen[s] /\ seen'[s] = sequence]_vars

(***************************************************************************)
(* Every publish ends, so the Watcher's tick goes on (app.py, tick).        *)
(***************************************************************************)
PublishEnds == publisher = "publishing" ~> publisher = "idle"

(***************************************************************************)
(* A connected subscriber gets the news, or something newer, or goes away   *)
(* (sse.py: "every publish wakes all subscribers with the latest event").   *)
(***************************************************************************)
NewsArrives == \A s \in Subs : pc[s] # "gone" /\ Newer(s) ~> pc[s] = "gone" \/ ~Newer(s)
=============================================================================
