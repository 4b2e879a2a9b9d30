------------------------------ MODULE PageFetch ------------------------------
(***************************************************************************)
(* One page of maxpreps.com as client.py fetches it: MaxPrepsClient.        *)
(* _fetch_tiered asks the JSON data route of the site's current build, then *)
(* the page itself, each request behind the RobotsGate of http/robots.py.   *)
(* The site deploys and changes its robots.txt at any time.  What happens   *)
(* to a request between the gate and its answer is Transport's subject.     *)
(***************************************************************************)
EXTENDS Naturals

CONSTANTS
    Fetches,        \* the concurrent calls of _fetch_tiered
    WithTables,     \* those called with allow_html_tier
    Conditional,    \* those called with the ETag of a stored page
    LastBuild,      \* the model's last deployment
    RobotsFiles,    \* what the site's robots.txt may allow
    BuildIdTTL,     \* _BUILD_ID_TTL, in ticks of the clock
    RobotsTTL,      \* RobotsGate.ttl, in ticks of the clock
    RobotsDelay     \* the longest a robots.txt is on its way, in ticks

(* The homepage, which names the build; the data route; the page.           *)
Requests == {"home", "route", "page"}

(* robots.txt allows a subset of Requests; a 5xx stands for {}, a 4xx for   *)
(* all of them.                                                             *)
ASSUME PageFetchAssumption ==
    /\ WithTables \subseteq Fetches
    /\ Conditional \subseteq Fetches
    /\ LastBuild \in Nat
    /\ RobotsFiles \subseteq SUBSET Requests
    /\ BuildIdTTL \in Nat
    /\ RobotsTTL \in Nat
    /\ RobotsDelay \in Nat

Builds == 0..LastBuild

NoBuild == LastBuild + 1

VARIABLES
    build,      \* the build the site serves
    robots,     \* what its robots.txt allows
    cached,     \* _build_id, and the time since _build_id_at
    rules,      \* the host's _Entry: what it allows, the time since fetched_at
    fetch,      \* the calls of _fetch_tiered
    replaced,   \* history: the time since a newer build replaced each
    forbidden   \* history: how long robots.txt has forbidden each request

vars == <<build, robots, cached, rules, fetch, replaced, forbidden>>

site == <<build, robots, replaced, forbidden>>

(* Times are counted as far as they are compared. *)
BuildAges == 0..BuildIdTTL
RobotsAges == 0..RobotsTTL + 1
Forbidden == 0..RobotsTTL + RobotsDelay + 1

(***************************************************************************)
(* What a fetch awaits (pc): nothing, robots.txt, the robots.txt the site    *)
(* has already served, the answer to a request, or the homepage the site has *)
(* already served.  want is the request it makes, using the buildId it       *)
(* knows, waited the time since _get_build_id read now, reading what the     *)
(* robots.txt on its way allows, forced says the buildId was asked for with  *)
(* force=True, served is the tier or how else the fetch ended.  Two fields   *)
(* are history: late is the time since reading was the site's, spoiled says  *)
(* that the data route had a reason to fail that no new buildId cures.       *)
(***************************************************************************)
Fetch == [pc : {"idle", "rules", "reading", "sent", "read"}, want : Requests,
          using : Builds \cup {NoBuild}, waited : BuildAges, forced : BOOLEAN,
          reading : SUBSET Requests, late : 0..RobotsDelay,
          served : {"none", "json_api", "not_modified", "hydration", "html",
                    "failed", "escaped"},
          spoiled : BOOLEAN]

NoFetch == [pc |-> "idle", want |-> "home", using |-> NoBuild, waited |-> 0,
            forced |-> FALSE, reading |-> {}, late |-> 0, served |-> "none", spoiled |-> FALSE]

(* No _Entry is as good as an expired one. *)
NoRules == [allows |-> {}, age |-> RobotsTTL + 1]

Init ==
    /\ build = 0
    /\ robots \in RobotsFiles
    /\ cached = [id |-> NoBuild, age |-> 0]
    /\ rules = NoRules
    /\ fetch = [f \in Fetches |-> NoFetch]
    /\ replaced = [b \in Builds |-> 0]
    /\ forbidden = [k \in Requests |-> 0]

-----------------------------------------------------------------------------
(* The site and the clock.                                                  *)

(* It has a buildId, and is on its way to the data route. *)
AtRoute(r) == r.pc = "read" \/ (r.pc # "idle" /\ r.want = "route")

(* A deployment spoils a data route whose buildId is already the forced one. *)
Outrun(r) == r.forced /\ AtRoute(r)

Deploy ==
    /\ build < LastBuild
    /\ build' = build + 1
    /\ fetch' = [f \in Fetches |->
                    [fetch[f] EXCEPT !.spoiled = @ \/ Outrun(fetch[f])]]
    /\ UNCHANGED <<robots, cached, rules, replaced, forbidden>>

ChangeRobots ==
    /\ robots' \in RobotsFiles
    /\ forbidden' = [k \in Requests |-> IF k \in robots' THEN 0 ELSE forbidden[k]]
    /\ UNCHANGED <<build, cached, rules, fetch, replaced>>

Later(t, last) == IF t < last THEN t + 1 ELSE t

(* Whoever still awaits the homepage. *)
Asking(r) == r.pc # "idle" /\ r.want = "home"

(* A robots.txt that is on its way arrives, or is given up, in time. *)
Tick ==
    /\ \A f \in Fetches : fetch[f].pc = "reading" => fetch[f].late < RobotsDelay
    /\ cached' = [cached EXCEPT !.age = Later(@, BuildIdTTL)]
    /\ rules' = IF rules.age < RobotsTTL THEN [rules EXCEPT !.age = @ + 1] ELSE NoRules
    /\ fetch' = [f \in Fetches |->
                    [fetch[f] EXCEPT
                        !.waited = IF Asking(fetch[f]) THEN Later(@, BuildIdTTL) ELSE @,
                        !.late = IF fetch[f].pc = "reading" THEN @ + 1 ELSE @]]
    /\ replaced' = [b \in Builds |->
                        IF b < build THEN Later(replaced[b], BuildIdTTL) ELSE 0]
    /\ forbidden' = [k \in Requests |->
                        IF k \in robots THEN 0 ELSE Later(forbidden[k], RobotsTTL + RobotsDelay + 1)]
    /\ UNCHANGED <<build, robots>>

-----------------------------------------------------------------------------
(* The steps of a fetch between two awaits.                                 *)

Ended(r, outcome) ==
    [NoFetch EXCEPT !.served = outcome, !.spoiled = r.spoiled]

Spoiled(r) == [r EXCEPT !.spoiled = TRUE]

(***************************************************************************)
(* A refusal of the gate is a TerminalError, handled at once like any        *)
(* other: the data route's by a forced buildId, every tier 1 error by the    *)
(* page.  So what is sent is the first of these that is allowed.             *)
(***************************************************************************)
Ways(k, forced) ==
    {k, "page"} \cup (IF k = "route" /\ ~forced THEN {"home"} ELSE {})

First(ways) ==
    IF "route" \in ways THEN "route" ELSE IF "home" \in ways THEN "home" ELSE "page"

(* Mutant: the rules bind the calls after the one that fetched them.        *)
GatedLate(r, k, allows) == [r EXCEPT !.pc = "sent", !.want = k]

Gated(r, k, allows) ==
    LET open == Ways(k, r.forced) \cap allows
        next == First(open)
    IN  IF open = {} THEN Spoiled(Ended(r, "failed"))
        ELSE IF next = k THEN [r EXCEPT !.pc = "sent", !.want = k]
        ELSE [r EXCEPT !.pc = "sent", !.want = next, !.using = NoBuild, !.waited = 0,
                       !.forced = next = "home", !.spoiled = TRUE]

(* Transport.get: RobotsGate.check with a fresh _Entry or one to be fetched. *)
Ask(r, k) ==
    IF rules.age <= RobotsTTL THEN Gated(r, k, rules.allows)
    ELSE [r EXCEPT !.pc = "rules", !.want = k]

AskHome(r) == Ask([r EXCEPT !.using = NoBuild, !.waited = 0], "home")

AskPage(r) == Ask([r EXCEPT !.using = NoBuild, !.waited = 0, !.forced = FALSE], "page")

Goto(f, r) == fetch' = [fetch EXCEPT ![f] = r]

(* _get_build_id without force, then the data route of the build it returns. *)
GetBuildId(r) ==
    IF cached.id # NoBuild /\ cached.age < BuildIdTTL
    THEN Ask([r EXCEPT !.using = cached.id], "route")
    ELSE AskHome(r)

(* _fetch_tiered is called. *)
Start(f) ==
    /\ fetch[f].pc = "idle"
    /\ Goto(f, GetBuildId(NoFetch))
    /\ UNCHANGED <<site, cached, rules>>

(* The robots.txt leaves the site. *)
ServeRobots(f) ==
    /\ fetch[f].pc = "rules"
    /\ Goto(f, [fetch[f] EXCEPT !.pc = "reading", !.reading = robots])
    /\ UNCHANGED <<site, cached, rules>>

(* RobotsGate._fetch returns, and check stores its _Entry and obeys it.     *)
Obeys(f, allows) ==
    /\ rules' = [allows |-> allows, age |-> 0]
    /\ Goto(f, Gated([fetch[f] EXCEPT !.reading = {}, !.late = 0], fetch[f].want, allows))

(* It arrives, after a newer one perhaps; it is dated when it arrives. *)
StoreRobots(f) ==
    /\ fetch[f].pc = "reading"
    /\ Obeys(f, fetch[f].reading)
    /\ UNCHANGED <<site, cached>>

(* It cannot be had, or is lost on its way: everything is allowed. *)
Unreachable(f) ==
    /\ fetch[f].pc \in {"rules", "reading"}
    /\ Obeys(f, Requests)
    /\ forbidden' = [k \in Requests |-> 0]
    /\ UNCHANGED <<build, robots, cached, replaced>>

Sent(f, k) ==
    /\ fetch[f].pc = "sent"
    /\ fetch[f].want = k
    /\ UNCHANGED <<site, rules>>

(* The homepage leaves the site with its build. *)
ServeHome(f) ==
    /\ Sent(f, "home")
    /\ Goto(f, [fetch[f] EXCEPT !.pc = "read", !.using = build])
    /\ UNCHANGED cached

(* Mutant: the buildId is dated when it arrives.                            *)
StoreBuildIdAtArrival(f) ==
    /\ fetch[f].pc = "read"
    /\ cached' = [id |-> fetch[f].using, age |-> 0]
    /\ Goto(f, Ask(fetch[f], "route"))
    /\ UNCHANGED <<site, rules>>

(* It arrives, after others perhaps; it is dated when it was asked for. *)
StoreBuildId(f) ==
    /\ fetch[f].pc = "read"
    /\ cached' = [id |-> fetch[f].using, age |-> fetch[f].waited]
    /\ Goto(f, Ask([fetch[f] EXCEPT !.waited = 0], "route"))
    /\ UNCHANGED <<site, rules>>

(* Every other MaxPrepsError of tier 1: no buildId in the homepage, a JSON  *)
(* that is no object, retries that are used up, an open circuit.            *)
LeaveTier1(f) ==
    /\ \E k \in {"home", "route"} : Sent(f, k)
    /\ Goto(f, AskPage(Spoiled(fetch[f])))
    /\ UNCHANGED cached

(* The data route of the build the site serves. *)
AnswerRoute(f) ==
    /\ Sent(f, "route")
    /\ fetch[f].using = build
    /\ \/ Goto(f, Ended(fetch[f], "json_api"))
       \/ f \in Conditional /\ Goto(f, Ended(fetch[f], "not_modified"))
    /\ UNCHANGED cached

(* Mutant: force=True is forgotten.                                         *)
RefuseRouteUnforced(f) ==
    LET r == [fetch[f] EXCEPT !.spoiled = @ \/ fetch[f].using = build, !.forced = TRUE]
    IN  /\ Sent(f, "route")
        /\ Goto(f, IF fetch[f].forced THEN AskPage(r) ELSE GetBuildId(r))
        /\ UNCHANGED cached

(* Mutant: the buildId is forced after every refusal.                       *)
RefuseRouteAlways(f) ==
    /\ Sent(f, "route")
    /\ Goto(f, AskHome([fetch[f] EXCEPT !.forced = TRUE,
                            !.spoiled = @ \/ fetch[f].using = build]))
    /\ UNCHANGED cached

(* A 404, of an old build or of a page that is not there: the buildId is    *)
(* forced once. *)
RefuseRoute(f) ==
    LET r == [fetch[f] EXCEPT !.spoiled = @ \/ fetch[f].using = build]
    IN  /\ Sent(f, "route")
        /\ Goto(f, IF r.forced THEN AskPage(r)
                   ELSE AskHome([r EXCEPT !.forced = TRUE]))
        /\ UNCHANGED cached

(* The page: its hydration blob, else its tables, else tier1_error. *)
AnswerPage(f) ==
    /\ Sent(f, "page")
    /\ \/ Goto(f, Ended(fetch[f], "hydration"))
       \/ Goto(f, Ended(fetch[f], IF f \in WithTables THEN "html" ELSE "failed"))
    /\ UNCHANGED cached

FailPage(f) ==
    /\ Sent(f, "page")
    /\ Goto(f, Ended(fetch[f], "failed"))
    /\ UNCHANGED cached

(* An error that is no MaxPrepsError leaves every request by the shortest   *)
(* way: an httpx.ReadError, or a JSONDecodeError of the data route.         *)
Escape(f) ==
    /\ \E k \in Requests : Sent(f, k)
    /\ Goto(f, Spoiled(Ended(fetch[f], "escaped")))
    /\ UNCHANGED cached

Answer(f) ==
    \/ ServeHome(f) \/ LeaveTier1(f) \/ AnswerRoute(f) \/ RefuseRoute(f)
    \/ AnswerPage(f) \/ FailPage(f) \/ Escape(f)

Next ==
    \/ Deploy \/ ChangeRobots \/ Tick
    \/ \E f \in Fetches :
        \/ Start(f)
        \/ ServeRobots(f) \/ StoreRobots(f) \/ Unreachable(f)
        \/ StoreBuildId(f) \/ Answer(f)

Spec == Init /\ [][Next]_vars

(***************************************************************************)
(* Every request ends (Transport: EveryGetEnds), httpx waits eight seconds  *)
(* for robots.txt and no longer, a response that is under way arrives.      *)
(***************************************************************************)
Fairness ==
    \A f \in Fetches :
        WF_vars(ServeRobots(f) \/ StoreRobots(f) \/ Unreachable(f)
                    \/ StoreBuildId(f) \/ Answer(f))

FairSpec == Spec /\ Fairness

-----------------------------------------------------------------------------
(* Every variable holds a value of its type, and whoever is at a data route *)
(* has a build to name in its URL (client.py, _get_build_id). *)
TypeOK ==
    /\ build \in Builds
    /\ robots \in RobotsFiles
    /\ cached \in [id : Builds \cup {NoBuild}, age : BuildAges]
    /\ rules \in [allows : SUBSET Requests, age : RobotsAges]
    /\ fetch \in [Fetches -> Fetch]
    /\ \A f \in Fetches : AtRoute(fetch[f]) => fetch[f].using \in Builds
    /\ replaced \in [Builds -> BuildAges]
    /\ forbidden \in [Requests -> Forbidden]

(***************************************************************************)
(* The age by which a buildId expires is never less than the time since a   *)
(* newer build replaced it, whichever of several homepages arrives last:    *)
(* one that is used unasked was the site's within the last six hours        *)
(* (client.py, _get_build_id).                                              *)
(***************************************************************************)
BuildIdAgeIsHonest ==
    cached.id # NoBuild => replaced[cached.id] <= cached.age

(***************************************************************************)
(* A deployment costs a fetch one forced buildId and no more: unless its    *)
(* data route failed by itself or the site deployed again after the forced  *)
(* buildId was served, the fetch ends in tier 1 (client.py, _fetch_tiered:  *)
(* "Likely a stale buildId"; ENDPOINTS.md, "buildId lifecycle").            *)
(***************************************************************************)
DeploymentIsSurvived ==
    \A f \in Fetches :
        fetch[f].pc = "idle" /\ ~fetch[f].spoiled
            => fetch[f].served \in {"none", "json_api", "not_modified"}

(***************************************************************************)
(* The gate lets no request pass that a reachable robots.txt has forbidden  *)
(* for longer than it keeps its rules and the reading they were taken from  *)
(* was on its way: a reading is dated when it arrives, and of two that      *)
(* overlap the older may be stored last, as new (robots.py: "Disallowed     *)
(* paths fail closed").  The gate is asked once: what passed it and waits   *)
(* in Transport's queues, or is sent again, is not looked at a second time. *)
(***************************************************************************)
Passes(f) ==
    /\ fetch'[f].pc = "sent"
    /\ fetch[f].pc # "sent" \/ fetch[f].want # fetch'[f].want

NothingLongForbidden ==
    [][\A f \in Fetches :
        Passes(f) => forbidden'[fetch'[f].want] <= RobotsTTL + RobotsDelay]_vars

(***************************************************************************)
(* Every fetch ends, by a tier or an error: the buildId is forced at most   *)
(* once and the tiers are tried in one direction (client.py,                *)
(* _fetch_tiered).                                                          *)
(***************************************************************************)
EveryFetchEnds ==
    \A f \in Fetches : fetch[f].pc # "idle" ~> fetch[f].pc = "idle"
=============================================================================
