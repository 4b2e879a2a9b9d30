----------------------------- MODULE ClientProofs -----------------------------
(***************************************************************************)
(* What is shown of the client: of how it fetches a page, for any number of *)
(* fetches, builds, robots files and ticks, and of how its synchronous      *)
(* facade shuts it down, for any threads and cache keys.                    *)
(***************************************************************************)
EXTENDS PageFetch, Facade, TLAPS

-----------------------------------------------------------------------------
(***************************************************************************)
(* The tiered fetch.  The inductive invariant says of every fetch what it   *)
(* may rely on where it stands; every step but the site's own puts one      *)
(* fetch behind the gate again, so the gate's lemma does most of the work.  *)
(***************************************************************************)

Good == {"none", "json_api", "not_modified"}

(* What holds of a fetch wherever it is, and makes DeploymentIsSurvived,    *)
(* BuildIdAgeIsHonest and RulesAreHonest inductive. *)
OnItsWay(r) ==
    /\ AtRoute(r) => r.using \in Builds
    /\ r.pc = "read" => r.want = "home" /\ replaced[r.using] <= r.waited
    /\ r.pc = "reading" => \A k \in r.reading : forbidden[k] <= r.late
    /\ r.pc # "idle" /\ r.want = "page" => r.spoiled
    /\ r.forced /\ AtRoute(r) /\ ~r.spoiled => r.using = build
    /\ r.pc = "idle" /\ ~r.spoiled => r.served \in Good

Typed ==
    /\ build \in Builds
    /\ robots \in RobotsFiles
    /\ cached \in [id : Builds \cup {NoBuild}, age : BuildAges]
    /\ rules \in [allows : SUBSET Requests, age : RobotsAges]
    /\ fetch \in [Fetches -> Fetch]
    /\ replaced \in [Builds -> BuildAges]
    /\ forbidden \in [Requests -> Forbidden]

NewestIsNotReplaced == \A b \in Builds : b >= build => replaced[b] = 0

RulesAreHonest == \A k \in rules.allows : forbidden[k] <= rules.age + RobotsDelay

SiteIsHonest == \A k \in robots : forbidden[k] = 0

IInv ==
    /\ Typed
    /\ NewestIsNotReplaced
    /\ SiteIsHonest
    /\ BuildIdAgeIsHonest
    /\ RulesAreHonest
    /\ \A f \in Fetches : OnItsWay(fetch[f])

-----------------------------------------------------------------------------
(* r asked for k: it is sent or waits for the rules, or was turned from it. *)
Asked(s, r, k) ==
    /\ s \in Fetch
    /\ s.pc \in {"idle", "rules", "sent"}
    /\ \/ s.spoiled /\ ~AtRoute(s)
       \/ /\ s.pc # "idle"
          /\ s.want = k
          /\ s.using = r.using
          /\ s.forced = r.forced
          /\ s.spoiled = r.spoiled

LEMMA NoFetchTyped == NoFetch \in Fetch
BY PageFetchAssumption DEF NoFetch, Fetch, Requests, NoBuild, BuildAges

LEMMA EndedTyped ==
    ASSUME NEW r \in Fetch,
           NEW out \in {"json_api", "not_modified", "hydration", "html", "failed", "escaped"}
    PROVE  /\ Ended(r, out) \in Fetch
           /\ Ended(r, out).pc = "idle"
           /\ Ended(r, out).spoiled = r.spoiled
           /\ Ended(r, out).served = out
BY NoFetchTyped DEF Ended, NoFetch, Fetch

LEMMA GatedIsAsked ==
    ASSUME NEW r \in Fetch, NEW k \in Requests, NEW allows \in SUBSET Requests
    PROVE  /\ Asked(Gated(r, k, allows), r, k)
           /\ Gated(r, k, allows).pc = "sent" => Gated(r, k, allows).want \in allows
<1> DEFINE open == Ways(k, r.forced) \cap allows
           next == First(open)
<1>1. CASE open = {}
  <2>1. Gated(r, k, allows) = Spoiled(Ended(r, "failed"))
    BY <1>1 DEF Gated
  <2>2. Ended(r, "failed") \in Fetch /\ Ended(r, "failed").pc = "idle"
    BY EndedTyped
  <2> DEFINE e == Ended(r, "failed")
  <2>3. e \in Fetch /\ e.pc = "idle"
    BY <2>2
  <2> HIDE DEF e
  <2>4. /\ Spoiled(e) \in Fetch /\ Spoiled(e).pc = "idle" /\ Spoiled(e).spoiled
    BY <2>3 DEF Spoiled, Fetch
  <2>5. Gated(r, k, allows) = Spoiled(e)
    BY <2>1 DEF e
  <2>6. QED
    BY <2>4, <2>5 DEF Asked, AtRoute
<1>2. CASE open # {} /\ next = k
  <2>1. Gated(r, k, allows) = [r EXCEPT !.pc = "sent", !.want = k]
    BY <1>2 DEF Gated
  <2>2. k \in open
    BY <1>2 DEF First, Ways, Requests
  <2>3. QED
    BY <2>1, <2>2 DEF Asked, Fetch
<1>3. CASE open # {} /\ next # k
  <2>1. Gated(r, k, allows) =
          [r EXCEPT !.pc = "sent", !.want = next, !.using = NoBuild, !.waited = 0,
                    !.forced = next = "home", !.spoiled = TRUE]
    BY <1>3 DEF Gated
  <2>2. next \in open /\ next \in {"home", "page"}
    BY <1>3 DEF First, Ways, Requests
  <2>3. next \in Requests /\ 0 \in BuildAges /\ (next = "home") \in BOOLEAN
    BY <2>2, PageFetchAssumption DEF Requests, BuildAges, Fetch
  <2> DEFINE s == Gated(r, k, allows)
  <2>4. s \in Fetch /\ s.pc = "sent" /\ s.want = next /\ s.spoiled
    <3> HIDE DEF next
    <3>1. QED
      BY <2>1, <2>3 DEF Fetch
  <2> HIDE DEF s, next
  <2>5. Asked(s, r, k)
    BY <2>2, <2>4 DEF Asked, AtRoute
  <2>6. s.want \in allows
    BY <2>2, <2>4
  <2>7. QED
    BY <2>5, <2>6 DEF s
<1>4. QED
  BY <1>1, <1>2, <1>3

LEMMA AskIsAsked ==
    ASSUME Typed, NEW r \in Fetch, NEW k \in Requests
    PROVE  /\ Asked(Ask(r, k), r, k)
           /\ Ask(r, k).pc = "sent" =>
                Ask(r, k).want \in rules.allows /\ rules.age <= RobotsTTL
<1>1. CASE rules.age <= RobotsTTL
  BY <1>1, GatedIsAsked DEF Ask, Typed
<1>2. CASE ~(rules.age <= RobotsTTL)
  BY <1>2 DEF Ask, Asked, Fetch
<1>3. QED
  BY <1>1, <1>2

(* What is asked for leaves the fetch on its way, if it may ask for it. *)
MayAsk(r, k) ==
    /\ k = "route" => r.using \in Builds /\ (r.forced /\ ~r.spoiled => r.using = build)
    /\ k = "page" => r.spoiled

LEMMA AskedOnItsWay ==
    ASSUME NEW r, NEW k \in Requests, NEW s, Asked(s, r, k), MayAsk(r, k)
    PROVE  s \in Fetch /\ OnItsWay(s)
BY DEF Asked, MayAsk, OnItsWay, AtRoute, Requests, Good

(* One fetch moves, and neither the site nor the clock does. *)
LEMMA OneMoves ==
    ASSUME IInv, NEW f \in Fetches, NEW s \in Fetch, OnItsWay(s), Goto(f, s),
           build' = build, replaced' = replaced, forbidden' = forbidden
    PROVE  /\ fetch' \in [Fetches -> Fetch]
           /\ \A g \in Fetches : OnItsWay(fetch[g])'
BY DEF IInv, Typed, Goto, OnItsWay, AtRoute

-----------------------------------------------------------------------------
LEMMA InitIInv == Init => IInv
<1> SUFFICES ASSUME Init PROVE IInv
  OBVIOUS
<1>1. build \in Builds /\ 0 \in BuildAges /\ 0 \in Forbidden /\ RobotsTTL + 1 \in RobotsAges
  BY PageFetchAssumption DEF Init, Builds, BuildAges, RobotsAges, Forbidden
<1>2. Typed
  BY <1>1, NoFetchTyped DEF Init, Typed, NoRules
<1>3. \A f \in Fetches : OnItsWay(fetch[f])
  BY DEF Init, OnItsWay, NoFetch, AtRoute, Good
<1>4. NewestIsNotReplaced /\ RulesAreHonest /\ SiteIsHonest
  <2>1. robots \subseteq Requests
    BY PageFetchAssumption DEF Init
  <2>2. QED
    BY <2>1 DEF Init, NewestIsNotReplaced, RulesAreHonest, NoRules, SiteIsHonest
<1>5. BuildIdAgeIsHonest
  BY DEF Init, BuildIdAgeIsHonest
<1>6. QED
  BY <1>2, <1>3, <1>4, <1>5 DEF IInv

LEMMA DeployIInv == ASSUME IInv, Deploy PROVE IInv'
<1>1. build' \in Builds /\ build' > build
  BY PageFetchAssumption DEF IInv, Typed, Deploy, Builds
<1>2. ASSUME NEW f \in Fetches
      PROVE  fetch'[f] \in Fetch /\ OnItsWay(fetch[f])'
  <2>1. fetch'[f] = [fetch[f] EXCEPT !.spoiled = @ \/ Outrun(fetch[f])]
    BY DEF Deploy
  <2>2. fetch[f] \in Fetch /\ OnItsWay(fetch[f])
    BY DEF IInv, Typed
  <2> DEFINE r == fetch[f]
             s == fetch'[f]
  <2>3. /\ s \in Fetch /\ s.pc = r.pc /\ s.want = r.want /\ s.using = r.using
        /\ s.waited = r.waited /\ s.forced = r.forced /\ s.served = r.served
        /\ s.reading = r.reading /\ s.late = r.late
        /\ s.spoiled = (r.spoiled \/ Outrun(r))
    BY <2>1, <2>2 DEF Fetch
  <2>4. replaced' = replaced /\ forbidden' = forbidden
    BY DEF Deploy
  <2> HIDE DEF s, r
  <2>5. OnItsWay(r)
    BY <2>2 DEF r
  <2>6. /\ AtRoute(s) => s.using \in Builds
        /\ s.pc = "read" => s.want = "home" /\ replaced'[s.using] <= s.waited
        /\ s.pc = "reading" => \A k \in s.reading : forbidden'[k] <= s.late
        /\ s.pc # "idle" /\ s.want = "page" => s.spoiled
        /\ s.forced /\ AtRoute(s) => s.spoiled
        /\ s.pc = "idle" /\ ~s.spoiled => s.served \in Good
    BY <2>3, <2>4, <2>5 DEF OnItsWay, Outrun, AtRoute
  <2>7. QED
    BY <2>3, <2>6 DEF s, OnItsWay, AtRoute
<1>3. fetch' \in [Fetches -> Fetch]
  BY <1>2 DEF Deploy
<1>4. Typed'
  BY <1>1, <1>3 DEF IInv, Typed, Deploy
<1>5. NewestIsNotReplaced'
  BY <1>1 DEF IInv, Typed, NewestIsNotReplaced, Deploy, Builds
<1>6. BuildIdAgeIsHonest' /\ RulesAreHonest' /\ SiteIsHonest'
  BY DEF IInv, BuildIdAgeIsHonest, RulesAreHonest, SiteIsHonest, Deploy
<1>7. QED
  BY <1>2, <1>4, <1>5, <1>6 DEF IInv

LEMMA ChangeRobotsIInv == ASSUME IInv, ChangeRobots PROVE IInv'
<1>1. Typed'
  <2>1. 0 \in Forbidden
    BY PageFetchAssumption DEF Forbidden
  <2>2. QED
    BY <2>1 DEF IInv, Typed, ChangeRobots
<1>2. \A k \in Requests : forbidden[k] \in Nat /\ forbidden'[k] \in {0, forbidden[k]}
  BY PageFetchAssumption DEF IInv, Typed, ChangeRobots, Forbidden
<1>3. RulesAreHonest'
  <2>1. /\ rules' = rules /\ rules.age \in Nat /\ RobotsDelay \in Nat
        /\ rules.allows \subseteq Requests
    BY PageFetchAssumption DEF IInv, Typed, ChangeRobots, RobotsAges
  <2>2. QED
    BY <1>2, <2>1 DEF IInv, RulesAreHonest
<1>4. NewestIsNotReplaced' /\ BuildIdAgeIsHonest' /\ SiteIsHonest'
  <2>1. robots' \subseteq Requests
    BY PageFetchAssumption DEF ChangeRobots
  <2>2. QED
    BY <2>1 DEF IInv, NewestIsNotReplaced, BuildIdAgeIsHonest, SiteIsHonest, ChangeRobots
<1>5. ASSUME NEW f \in Fetches
      PROVE  OnItsWay(fetch[f])'
  <2> DEFINE r == fetch[f]
  <2>1. /\ r \in Fetch /\ OnItsWay(r)
        /\ fetch' = fetch /\ build' = build /\ replaced' = replaced
    BY DEF IInv, Typed, ChangeRobots
  <2>2. r.reading \subseteq Requests /\ r.late \in Nat
    BY <2>1 DEF Fetch
  <2> HIDE DEF r
  <2>3. r.pc = "reading" => \A k \in r.reading : forbidden'[k] <= r.late
    BY <1>2, <2>1, <2>2 DEF OnItsWay
  <2>4. QED
    BY <2>1, <2>3 DEF r, OnItsWay, AtRoute
<1>6. QED
  BY <1>1, <1>3, <1>4, <1>5 DEF IInv

LEMMA TickIInv == ASSUME IInv, Tick PROVE IInv'
<1>1. ASSUME NEW b \in Builds, NEW t \in BuildAges, replaced[b] <= t
      PROVE  /\ replaced'[b] \in BuildAges
             /\ Later(t, BuildIdTTL) \in BuildAges
             /\ replaced'[b] <= Later(t, BuildIdTTL)
  <2>1. replaced[b] \in 0..BuildIdTTL /\ t \in 0..BuildIdTTL
    BY DEF IInv, Typed, BuildAges
  <2>2. /\ Later(t, BuildIdTTL) \in 0..BuildIdTTL
        /\ Later(replaced[b], BuildIdTTL) \in 0..BuildIdTTL
        /\ Later(replaced[b], BuildIdTTL) <= Later(t, BuildIdTTL)
    BY <1>1, <2>1, PageFetchAssumption DEF Later
  <2>3. replaced'[b] = IF b < build THEN Later(replaced[b], BuildIdTTL) ELSE 0
    BY DEF Tick
  <2>4. QED
    BY <2>2, <2>3, PageFetchAssumption DEF BuildAges
<1>2. ASSUME NEW k \in Requests
      PROVE  /\ forbidden'[k] \in Forbidden
             /\ \A t \in Nat : forbidden[k] <= t => forbidden'[k] <= t + 1
  <2>1. forbidden[k] \in Forbidden /\ RobotsTTL \in Nat /\ RobotsDelay \in Nat
    BY PageFetchAssumption DEF IInv, Typed
  <2>2. forbidden'[k] =
          IF k \in robots THEN 0 ELSE Later(forbidden[k], RobotsTTL + RobotsDelay + 1)
    BY DEF Tick
  <2>3. QED
    BY <2>1, <2>2 DEF Forbidden, Later
<1>3. ASSUME NEW f \in Fetches
      PROVE  fetch'[f] \in Fetch /\ OnItsWay(fetch[f])'
  <2> DEFINE r == fetch[f]
             s == fetch'[f]
  <2>1. r \in Fetch /\ OnItsWay(r)
    BY DEF IInv, Typed
  <2> DEFINE waited == IF Asking(r) THEN Later(r.waited, BuildIdTTL) ELSE r.waited
             behind == IF r.pc = "reading" THEN r.late + 1 ELSE r.late
  <2>2. s = [r EXCEPT !.waited = waited, !.late = behind]
    BY DEF Tick
  <2>3. waited \in BuildAges /\ behind \in 0..RobotsDelay
    <3>1. r.waited \in BuildAges /\ r.late \in 0..RobotsDelay
      BY <2>1 DEF Fetch
    <3>2. r.pc = "reading" => r.late < RobotsDelay
      BY DEF Tick
    <3>3. QED
      BY <3>1, <3>2, PageFetchAssumption DEF BuildAges, Later
  <2>4. /\ s \in Fetch /\ s.pc = r.pc /\ s.want = r.want /\ s.using = r.using
        /\ s.forced = r.forced /\ s.served = r.served /\ s.spoiled = r.spoiled
        /\ s.reading = r.reading /\ s.waited = waited /\ s.late = behind
    <3> HIDE DEF waited, behind
    <3>1. QED
      BY <2>1, <2>2, <2>3 DEF Fetch
  <2>5. build' = build
    BY DEF Tick
  <2> HIDE DEF s, r
  <2>6. s.pc = "read" => s.want = "home" /\ replaced'[s.using] <= s.waited
    <3> SUFFICES ASSUME s.pc = "read" PROVE s.want = "home" /\ replaced'[s.using] <= s.waited
      OBVIOUS
    <3>1. /\ r.pc = "read" /\ r.want = "home" /\ r.using \in Builds
          /\ r.waited \in BuildAges /\ replaced[r.using] <= r.waited
      BY <2>1, <2>4 DEF OnItsWay, AtRoute, Fetch
    <3>2. s.waited = Later(r.waited, BuildIdTTL)
      BY <2>4, <3>1 DEF Asking
    <3>3. replaced'[r.using] <= Later(r.waited, BuildIdTTL)
      BY <1>1, <3>1
    <3>4. QED
      BY <2>4, <3>1, <3>2, <3>3
  <2>7. s.pc = "reading" => \A k \in s.reading : forbidden'[k] <= s.late
    <3>1. r.late \in Nat /\ r.reading \subseteq Requests
      BY <2>1 DEF Fetch
    <3>2. QED
      BY <1>2, <2>1, <2>4, <3>1 DEF OnItsWay
  <2>8. /\ AtRoute(s) => s.using \in Builds
        /\ s.pc # "idle" /\ s.want = "page" => s.spoiled
        /\ s.forced /\ AtRoute(s) /\ ~s.spoiled => s.using = build'
        /\ s.pc = "idle" /\ ~s.spoiled => s.served \in Good
    BY <2>1, <2>4, <2>5 DEF OnItsWay, AtRoute
  <2>9. s \in Fetch
    BY <2>4
  <2>10. QED
    BY <2>6, <2>7, <2>8, <2>9 DEF s, OnItsWay, AtRoute
<1>4. Typed'
  <2>1. cached' \in [id : Builds \cup {NoBuild}, age : BuildAges]
    <3>1. Later(cached.age, BuildIdTTL) \in BuildAges
      BY PageFetchAssumption DEF IInv, Typed, BuildAges, Later
    <3>2. QED
      BY <3>1 DEF IInv, Typed, Tick
  <2>2. rules' \in [allows : SUBSET Requests, age : RobotsAges]
    <3>1. rules.age < RobotsTTL => rules.age + 1 \in RobotsAges
      BY PageFetchAssumption DEF IInv, Typed, RobotsAges
    <3>2. NoRules \in [allows : SUBSET Requests, age : RobotsAges]
      BY PageFetchAssumption DEF NoRules, RobotsAges
    <3>3. QED
      BY <3>1, <3>2 DEF IInv, Typed, Tick
  <2>3. replaced' \in [Builds -> BuildAges]
    <3>1. \A b \in Builds : replaced'[b] \in BuildAges
      BY <1>1, PageFetchAssumption DEF IInv, Typed, BuildAges
    <3>2. QED
      BY <3>1 DEF Tick
  <2>4. forbidden' \in [Requests -> Forbidden]
    <3>1. \A k \in Requests : forbidden'[k] \in Forbidden
      BY <1>2 DEF IInv, Typed
    <3>2. QED
      BY <3>1 DEF Tick
  <2>5. fetch' \in [Fetches -> Fetch]
    BY <1>3 DEF Tick
  <2>6. QED
    BY <2>1, <2>2, <2>3, <2>4, <2>5 DEF IInv, Typed, Tick
<1>5. NewestIsNotReplaced'
  <2>1. /\ build' = build /\ build \in Builds
        /\ \A b \in Builds :
             replaced'[b] = IF b < build THEN Later(replaced[b], BuildIdTTL) ELSE 0
    BY DEF IInv, Typed, Tick
  <2>2. \A b \in Builds : b >= build => ~(b < build)
    BY <2>1, PageFetchAssumption DEF Builds
  <2>3. QED
    BY <2>1, <2>2 DEF NewestIsNotReplaced
<1>6. BuildIdAgeIsHonest'
  <2> SUFFICES ASSUME cached'.id # NoBuild PROVE replaced'[cached'.id] <= cached'.age
    BY DEF BuildIdAgeIsHonest
  <2>1. cached'.id = cached.id /\ cached'.age = Later(cached.age, BuildIdTTL)
    BY DEF IInv, Typed, Tick
  <2>2. cached.id \in Builds /\ cached.age \in BuildAges /\ replaced[cached.id] <= cached.age
    BY <2>1 DEF IInv, Typed, BuildIdAgeIsHonest
  <2>3. QED
    BY <1>1, <2>1, <2>2
<1>7. RulesAreHonest'
  <2>1. CASE rules.age < RobotsTTL
    <3>1. rules'.allows = rules.allows /\ rules'.age = rules.age + 1
      BY <2>1 DEF IInv, Typed, Tick
    <3>2. /\ rules.age \in Nat /\ rules.age + RobotsDelay \in Nat
          /\ \A k \in rules.allows : k \in Requests
      BY PageFetchAssumption DEF IInv, Typed, RobotsAges
    <3>3. rules.age + 1 + RobotsDelay = (rules.age + RobotsDelay) + 1
      BY <3>2, PageFetchAssumption
    <3>4. QED
      BY <1>2, <3>1, <3>2, <3>3 DEF IInv, RulesAreHonest
  <2>2. CASE ~(rules.age < RobotsTTL)
    BY <2>2 DEF Tick, NoRules, RulesAreHonest
  <2>3. QED
    BY <2>1, <2>2
<1>8. SiteIsHonest'
  <2>1. robots \subseteq Requests /\ robots' = robots
    BY PageFetchAssumption DEF IInv, Typed, Tick
  <2>2. QED
    BY <2>1 DEF Tick, SiteIsHonest
<1>9. QED
  BY <1>3, <1>4, <1>5, <1>6, <1>7, <1>8 DEF IInv

-----------------------------------------------------------------------------
(* A step in which one fetch moves and the client and the site do not. *)
LEMMA MoveIInv ==
    ASSUME IInv, NEW f \in Fetches, NEW s \in Fetch, OnItsWay(s), Goto(f, s),
           UNCHANGED <<site, cached, rules>>
    PROVE  IInv'
<1>1. fetch' \in [Fetches -> Fetch] /\ \A g \in Fetches : OnItsWay(fetch[g])'
  BY OneMoves DEF site
<1>2. QED
  BY <1>1 DEF IInv, Typed, NewestIsNotReplaced, BuildIdAgeIsHonest, RulesAreHonest,
     SiteIsHonest, site

(* What Ask returns, put for short. *)
LEMMA AskOnItsWay ==
    ASSUME Typed, NEW r \in Fetch, NEW k \in Requests, MayAsk(r, k)
    PROVE  Ask(r, k) \in Fetch /\ OnItsWay(Ask(r, k))
<1> DEFINE s == Ask(r, k)
<1>1. Asked(s, r, k)
  BY AskIsAsked
<1> HIDE DEF s
<1>2. s \in Fetch /\ OnItsWay(s)
  BY <1>1, AskedOnItsWay
<1>3. QED
  BY <1>2 DEF s

LEMMA AskHomeOnItsWay ==
    ASSUME Typed, NEW r \in Fetch
    PROVE  AskHome(r) \in Fetch /\ OnItsWay(AskHome(r))
<1> DEFINE q == [r EXCEPT !.using = NoBuild, !.waited = 0]
<1>1. q \in Fetch
  <2>1. 0 \in BuildAges
    BY PageFetchAssumption DEF BuildAges
  <2>2. QED
    BY <2>1 DEF Fetch
<1>2. MayAsk(q, "home")
  BY DEF MayAsk
<1> HIDE DEF q
<1>3. Ask(q, "home") \in Fetch /\ OnItsWay(Ask(q, "home"))
  BY <1>1, <1>2, AskOnItsWay DEF Requests
<1>4. QED
  BY <1>3 DEF AskHome, q

LEMMA AskPageOnItsWay ==
    ASSUME Typed, NEW r \in Fetch, r.spoiled
    PROVE  AskPage(r) \in Fetch /\ OnItsWay(AskPage(r))
<1> DEFINE q == [r EXCEPT !.using = NoBuild, !.waited = 0, !.forced = FALSE]
<1>1. q \in Fetch /\ q.spoiled
  <2>1. 0 \in BuildAges
    BY PageFetchAssumption DEF BuildAges
  <2>2. QED
    BY <2>1 DEF Fetch
<1> HIDE DEF q
<1>2. MayAsk(q, "page")
  BY <1>1 DEF MayAsk
<1>3. Ask(q, "page") \in Fetch /\ OnItsWay(Ask(q, "page"))
  BY <1>1, <1>2, AskOnItsWay DEF Requests
<1>4. QED
  BY <1>3 DEF AskPage, q

LEMMA EndedOnItsWay ==
    ASSUME NEW r \in Fetch,
           NEW out \in {"json_api", "not_modified", "hydration", "html", "failed", "escaped"},
           r.spoiled \/ out \in Good
    PROVE  Ended(r, out) \in Fetch /\ OnItsWay(Ended(r, out))
<1> DEFINE s == Ended(r, out)
<1>1. s \in Fetch /\ s.pc = "idle" /\ s.spoiled = r.spoiled /\ s.served = out
  BY EndedTyped
<1> HIDE DEF s
<1>2. OnItsWay(s)
  BY <1>1 DEF OnItsWay, AtRoute
<1>3. QED
  BY <1>1, <1>2 DEF s

LEMMA StartIInv == ASSUME IInv, NEW f \in Fetches, Start(f) PROVE IInv'
<1>1. Typed
  BY DEF IInv
<1>2. CASE cached.id # NoBuild /\ cached.age < BuildIdTTL
  <2> DEFINE q == [NoFetch EXCEPT !.using = cached.id]
  <2>1. cached.id \in Builds
    BY <1>1, <1>2 DEF Typed
  <2>2. q \in Fetch /\ q.using \in Builds /\ ~q.forced
    BY <2>1, NoFetchTyped DEF Fetch, NoFetch
  <2>3. GetBuildId(NoFetch) = Ask(q, "route")
    BY <1>2 DEF GetBuildId
  <2> HIDE DEF q
  <2>4. MayAsk(q, "route")
    BY <2>2 DEF MayAsk
  <2>5. Ask(q, "route") \in Fetch /\ OnItsWay(Ask(q, "route"))
    BY <1>1, <2>2, <2>4, AskOnItsWay DEF Requests
  <2>6. QED
    BY <2>3, <2>5, MoveIInv DEF Start
<1>3. CASE ~(cached.id # NoBuild /\ cached.age < BuildIdTTL)
  <2>1. GetBuildId(NoFetch) = AskHome(NoFetch)
    BY <1>3 DEF GetBuildId
  <2>2. AskHome(NoFetch) \in Fetch /\ OnItsWay(AskHome(NoFetch))
    BY <1>1, NoFetchTyped, AskHomeOnItsWay
  <2>3. QED
    BY <2>1, <2>2, MoveIInv DEF Start
<1>4. QED
  BY <1>2, <1>3

LEMMA ServeRobotsIInv == ASSUME IInv, NEW f \in Fetches, ServeRobots(f) PROVE IInv'
<1> DEFINE r == fetch[f]
           s == [r EXCEPT !.pc = "reading", !.reading = robots]
<1>1. r \in Fetch /\ OnItsWay(r) /\ r.pc = "rules" /\ robots \subseteq Requests
  BY PageFetchAssumption DEF IInv, Typed, ServeRobots
<1>2. \A k \in robots : forbidden[k] = 0
  BY DEF IInv, SiteIsHonest
<1>3. Goto(f, s) /\ UNCHANGED <<site, cached, rules>>
  BY DEF ServeRobots
<1>4. /\ s \in Fetch /\ s.pc = "reading" /\ s.reading = robots /\ s.late \in Nat
      /\ s.want = r.want /\ s.using = r.using /\ s.forced = r.forced /\ s.spoiled = r.spoiled
  <2>1. r.late \in Nat
    BY <1>1, PageFetchAssumption DEF Fetch
  <2>2. s \in Fetch
    BY <1>1 DEF Fetch
  <2>3. QED
    BY <1>1, <2>1, <2>2 DEF Fetch
<1> HIDE DEF s, r
<1>5. OnItsWay(s)
  BY <1>1, <1>2, <1>4 DEF OnItsWay, AtRoute
<1>6. QED
  BY <1>3, <1>4, <1>5, MoveIInv

(* An _Entry is stored, and the fetch that asked for it obeys it. *)
LEMMA ObeysIInv ==
    ASSUME IInv, NEW f \in Fetches, fetch[f].pc \in {"rules", "reading"},
           NEW allows \in SUBSET Requests, Obeys(f, allows),
           UNCHANGED <<build, robots, cached, replaced>>,
           forbidden' \in [Requests -> Forbidden],
           \A k \in Requests : forbidden'[k] \in {0, forbidden[k]},
           \A k \in allows : forbidden'[k] <= RobotsDelay
    PROVE  IInv'
<1> DEFINE r == fetch[f]
           q == [r EXCEPT !.reading = {}, !.late = 0]
<1>1. r \in Fetch /\ OnItsWay(r) /\ r.pc \in {"rules", "reading"} /\ r.want \in Requests
  BY DEF IInv, Typed, Fetch
<1>2. /\ rules' = [allows |-> allows, age |-> 0]
      /\ Goto(f, Gated(q, r.want, allows))
  BY DEF Obeys
<1>3. /\ q \in Fetch /\ q.using = r.using /\ q.forced = r.forced /\ q.spoiled = r.spoiled
  <2>1. 0 \in 0..RobotsDelay /\ {} \in SUBSET Requests
    BY PageFetchAssumption
  <2>2. QED
    BY <1>1, <2>1 DEF Fetch
<1> HIDE DEF q
<1> DEFINE s == Gated(q, r.want, allows)
<1>4. s \in Fetch /\ OnItsWay(s) /\ s.pc # "reading"
  <2>1. MayAsk(q, r.want)
    BY <1>1, <1>3 DEF MayAsk, OnItsWay, AtRoute
  <2>2. Asked(s, q, r.want)
    BY <1>1, <1>3, GatedIsAsked
  <2> HIDE DEF s, r
  <2>3. s \in Fetch /\ OnItsWay(s)
    BY <1>1, <2>1, <2>2, AskedOnItsWay
  <2>4. QED
    BY <2>2, <2>3 DEF Asked
<1>5. fetch' \in [Fetches -> Fetch]
  BY <1>2, <1>4 DEF IInv, Typed, Goto
<1>6. ASSUME NEW g \in Fetches
      PROVE  OnItsWay(fetch[g])'
  <2>1. fetch'[g] = IF g = f THEN s ELSE fetch[g]
    BY <1>2 DEF IInv, Typed, Goto
  <2> HIDE DEF s
  <2> DEFINE u == fetch'[g]
  <2>2. u \in Fetch /\ OnItsWay(u)
    BY <1>4, <2>1 DEF IInv, Typed
  <2>3. u.reading \subseteq Requests /\ u.late \in Nat
    BY <2>2 DEF Fetch
  <2> HIDE DEF u
  <2>4. \A k \in u.reading : forbidden[k] <= u.late => forbidden'[k] <= u.late
    BY <2>3
  <2>5. QED
    BY <2>2, <2>4 DEF u, OnItsWay, AtRoute
<1>7. Typed'
  <2>1. 0 \in RobotsAges
    BY PageFetchAssumption DEF RobotsAges
  <2>2. QED
    BY <1>2, <1>5, <2>1 DEF IInv, Typed
<1>8. RulesAreHonest'
  BY <1>2, PageFetchAssumption DEF RulesAreHonest
<1>9. NewestIsNotReplaced' /\ BuildIdAgeIsHonest' /\ SiteIsHonest'
  <2>1. robots \subseteq Requests
    BY PageFetchAssumption DEF IInv, Typed
  <2>2. QED
    BY <2>1 DEF IInv, NewestIsNotReplaced, BuildIdAgeIsHonest, SiteIsHonest
<1>10. QED
  BY <1>6, <1>7, <1>8, <1>9 DEF IInv

(* How old what it obeys may be. *)
LEMMA ObeyedIsRecent ==
    ASSUME IInv, NEW f \in Fetches, StoreRobots(f) \/ Unreachable(f)
    PROVE  \E allows \in SUBSET Requests :
             /\ Obeys(f, allows)
             /\ \A k \in allows : forbidden'[k] <= RobotsDelay
             /\ forbidden' \in [Requests -> Forbidden]
             /\ \A k \in Requests : forbidden'[k] \in {0, forbidden[k]}
             /\ UNCHANGED <<build, robots, cached, replaced>>
             /\ fetch[f].pc \in {"rules", "reading"}
<1>1. fetch[f] \in Fetch /\ OnItsWay(fetch[f]) /\ forbidden \in [Requests -> Forbidden]
  BY DEF IInv, Typed
<1>2. CASE StoreRobots(f)
  <2>1. fetch[f].reading \in SUBSET Requests /\ fetch[f].late \in 0..RobotsDelay
    BY <1>1 DEF Fetch
  <2>2. \A k \in fetch[f].reading : forbidden[k] \in Nat /\ forbidden[k] <= fetch[f].late
    BY <1>1, <1>2, <2>1, PageFetchAssumption DEF StoreRobots, OnItsWay, Forbidden
  <2>3. \A k \in fetch[f].reading : forbidden'[k] <= RobotsDelay
    BY <1>2, <2>1, <2>2, PageFetchAssumption DEF StoreRobots, site
  <2>4. QED
    BY <1>1, <1>2, <2>1, <2>3 DEF StoreRobots, site
<1>3. CASE Unreachable(f)
  <2>1. 0 \in Forbidden /\ 0 <= RobotsDelay
    BY PageFetchAssumption DEF Forbidden
  <2>2. Requests \in SUBSET Requests
    OBVIOUS
  <2>3. QED
    BY <1>3, <2>1, <2>2 DEF Unreachable
<1>4. QED
  BY <1>2, <1>3

LEMMA ReadRobotsIInv ==
    ASSUME IInv, NEW f \in Fetches, StoreRobots(f) \/ Unreachable(f) PROVE IInv'
BY ObeyedIsRecent, ObeysIInv

LEMMA StoreBuildIdIInv == ASSUME IInv, NEW f \in Fetches, StoreBuildId(f) PROVE IInv'
<1> DEFINE r == fetch[f]
           q == [r EXCEPT !.waited = 0]
<1>1. r \in Fetch /\ OnItsWay(r) /\ r.pc = "read"
  BY DEF IInv, Typed, StoreBuildId
<1>2. /\ r.using \in Builds /\ r.waited \in BuildAges /\ replaced[r.using] <= r.waited
      /\ r.forced /\ ~r.spoiled => r.using = build
  BY <1>1 DEF OnItsWay, AtRoute, Fetch
<1>3. /\ q \in Fetch /\ q.using = r.using /\ q.forced = r.forced /\ q.spoiled = r.spoiled
  BY <1>1, PageFetchAssumption DEF Fetch, BuildAges
<1>4. /\ cached' = [id |-> r.using, age |-> r.waited]
      /\ Goto(f, Ask(q, "route"))
      /\ UNCHANGED <<site, rules>>
  BY DEF StoreBuildId
<1> HIDE DEF q, r
<1> DEFINE s == Ask(q, "route")
<1>5. s \in Fetch /\ OnItsWay(s)
  <2>1. MayAsk(q, "route")
    BY <1>2, <1>3 DEF MayAsk
  <2>2. Typed
    BY DEF IInv
  <2>3. QED
    BY <1>3, <2>1, <2>2, AskOnItsWay DEF Requests
<1>6. /\ fetch' \in [Fetches -> Fetch]
      /\ \A g \in Fetches : OnItsWay(fetch[g])'
  <2>1. Goto(f, s) /\ build' = build /\ replaced' = replaced /\ forbidden' = forbidden
    BY <1>4 DEF site
  <2> HIDE DEF s
  <2>2. QED
    BY <1>5, <2>1, OneMoves
<1>7. Typed'
  BY <1>2, <1>4, <1>6 DEF IInv, Typed, site
<1>8. BuildIdAgeIsHonest'
  BY <1>2, <1>4 DEF BuildIdAgeIsHonest, site
<1>9. NewestIsNotReplaced' /\ RulesAreHonest' /\ SiteIsHonest'
  BY <1>4 DEF IInv, NewestIsNotReplaced, RulesAreHonest, SiteIsHonest, site
<1>10. QED
  BY <1>6, <1>7, <1>8, <1>9 DEF IInv

LEMMA AnswerIInv == ASSUME IInv, NEW f \in Fetches, Answer(f) PROVE IInv'
<1> DEFINE r == fetch[f]
<1>1. Typed /\ r \in Fetch /\ OnItsWay(r)
  BY DEF IInv, Typed
<1>2. ASSUME NEW s \in Fetch, OnItsWay(s), Goto(f, s), UNCHANGED <<site, cached, rules>>
      PROVE  IInv'
  BY <1>2, MoveIInv
<1>3. CASE ServeHome(f)
  <2> DEFINE s == [r EXCEPT !.pc = "read", !.using = build]
  <2>1. /\ s \in Fetch /\ s.pc = "read" /\ s.want = "home" /\ s.using = build
        /\ s.waited = r.waited
    BY <1>1, <1>3 DEF ServeHome, Sent, Typed, Fetch
  <2>2. Goto(f, s) /\ UNCHANGED <<site, cached, rules>>
    BY <1>3 DEF ServeHome, Sent
  <2>3. build \in Builds /\ replaced[build] = 0 /\ r.waited >= 0
    BY <1>1 DEF IInv, Typed, NewestIsNotReplaced, Fetch, BuildAges, Builds
  <2> HIDE DEF s
  <2>4. OnItsWay(s)
    BY <2>1, <2>3 DEF OnItsWay, AtRoute
  <2>5. QED
    BY <1>2, <2>1, <2>2, <2>4
<1>4. CASE LeaveTier1(f)
  <2>1. Spoiled(r) \in Fetch /\ Spoiled(r).spoiled
    BY <1>1 DEF Spoiled, Fetch
  <2>2. AskPage(Spoiled(r)) \in Fetch /\ OnItsWay(AskPage(Spoiled(r)))
    BY <1>1, <2>1, AskPageOnItsWay
  <2>3. QED
    BY <1>2, <1>4, <2>2 DEF LeaveTier1, Sent
<1>5. CASE AnswerRoute(f)
  <2>1. PICK out \in {"json_api", "not_modified"} : Goto(f, Ended(r, out))
    BY <1>5 DEF AnswerRoute
  <2>2. Ended(r, out) \in Fetch /\ OnItsWay(Ended(r, out))
    BY <1>1, EndedOnItsWay DEF Good
  <2>3. QED
    BY <1>2, <1>5, <2>1, <2>2 DEF AnswerRoute, Sent
<1>6. CASE RefuseRoute(f)
  <2> DEFINE q == [r EXCEPT !.spoiled = @ \/ r.using = build]
  <2>1. q \in Fetch /\ q.spoiled = (r.spoiled \/ r.using = build) /\ q.forced = r.forced
    BY <1>1 DEF Fetch
  <2>2. /\ Goto(f, IF q.forced THEN AskPage(q) ELSE AskHome([q EXCEPT !.forced = TRUE]))
        /\ UNCHANGED <<site, cached, rules>>
    BY <1>6 DEF RefuseRoute, Sent
  <2>3. AtRoute(r)
    BY <1>6 DEF RefuseRoute, Sent, AtRoute
  <2> HIDE DEF q
  <2>4. CASE q.forced
    <3>1. q.spoiled
      BY <1>1, <2>1, <2>3, <2>4 DEF OnItsWay
    <3>2. AskPage(q) \in Fetch /\ OnItsWay(AskPage(q))
      BY <1>1, <2>1, <3>1, AskPageOnItsWay
    <3>3. QED
      BY <1>2, <2>2, <2>4, <3>2
  <2>5. CASE ~q.forced
    <3>1. [q EXCEPT !.forced = TRUE] \in Fetch
      BY <2>1 DEF Fetch
    <3>2. /\ AskHome([q EXCEPT !.forced = TRUE]) \in Fetch
          /\ OnItsWay(AskHome([q EXCEPT !.forced = TRUE]))
      BY <1>1, <3>1, AskHomeOnItsWay
    <3>3. QED
      BY <1>2, <2>2, <2>5, <3>2
  <2>6. QED
    BY <2>4, <2>5
<1>7. CASE AnswerPage(f) \/ FailPage(f)
  <2>1. r.pc = "sent" /\ r.want = "page" /\ UNCHANGED <<site, cached, rules>>
    BY <1>7 DEF AnswerPage, FailPage, Sent
  <2>2. r.spoiled
    BY <1>1, <2>1 DEF OnItsWay
  <2>3. PICK out \in {"hydration", "html", "failed"} : Goto(f, Ended(r, out))
    BY <1>7 DEF AnswerPage, FailPage
  <2>4. Ended(r, out) \in Fetch /\ OnItsWay(Ended(r, out))
    BY <1>1, <2>2, EndedOnItsWay
  <2>5. QED
    BY <1>2, <2>1, <2>3, <2>4
<1>8. CASE Escape(f)
  <2> DEFINE e == Ended(r, "escaped")
  <2>1. e \in Fetch /\ e.pc = "idle"
    BY <1>1, EndedTyped
  <2>2. Goto(f, Spoiled(e)) /\ UNCHANGED <<site, cached, rules>>
    BY <1>8 DEF Escape, Sent
  <2> HIDE DEF e
  <2>3. Spoiled(e) \in Fetch /\ Spoiled(e).pc = "idle" /\ Spoiled(e).spoiled
    BY <2>1 DEF Spoiled, Fetch
  <2>4. OnItsWay(Spoiled(e))
    BY <2>3 DEF OnItsWay, AtRoute
  <2>5. QED
    BY <1>2, <2>2, <2>3, <2>4
<1>9. QED
  BY <1>3, <1>4, <1>5, <1>6, <1>7, <1>8 DEF Answer

LEMMA NextIInv == ASSUME IInv, [Next]_vars PROVE IInv'
<1>1. CASE Next
  BY <1>1, DeployIInv, ChangeRobotsIInv, TickIInv, StartIInv, ServeRobotsIInv,
     ReadRobotsIInv, StoreBuildIdIInv, AnswerIInv DEF Next
<1>2. CASE UNCHANGED vars
  BY <1>2 DEF vars, IInv, Typed, NewestIsNotReplaced, BuildIdAgeIsHonest, RulesAreHonest,
              SiteIsHonest, OnItsWay, AtRoute
<1>3. QED
  BY <1>1, <1>2

LEMMA Invariance == Spec => []IInv
BY InitIInv, NextIInv, PTL DEF Spec

(* TypeOK, with a build in the URL of every data route, for every instance. *)
THEOREM TypesAreKept == Spec => []TypeOK
<1>1. IInv => TypeOK
  BY DEF IInv, Typed, TypeOK, OnItsWay
<1>2. QED
  BY <1>1, Invariance, PTL

(* However many homepages are on their way and whichever arrives last, a    *)
(* buildId is never older than its age says. *)
THEOREM BuildIdsAgeHonestly == Spec => []BuildIdAgeIsHonest
<1>1. IInv => BuildIdAgeIsHonest
  BY DEF IInv
<1>2. QED
  BY <1>1, Invariance, PTL

(* Deployments alone never cost more than the forced buildId. *)
THEOREM DeploymentsAreSurvived == Spec => []DeploymentIsSurvived
<1>1. IInv => DeploymentIsSurvived
  BY DEF IInv, OnItsWay, DeploymentIsSurvived, Good
<1>2. QED
  BY <1>1, Invariance, PTL

-----------------------------------------------------------------------------
(* The gate, seen from the site. *)

Allowed(s) == s.pc = "sent" => s.want \in rules.allows /\ rules.age <= RobotsTTL

LEMMA AskIsAllowed ==
    ASSUME Typed, NEW r \in Fetch
    PROVE  /\ \A k \in Requests : Allowed(Ask(r, k))
           /\ Allowed(AskHome(r))
           /\ Allowed(AskPage(r))
<1>1. \A q \in Fetch : \A k \in Requests : Allowed(Ask(q, k))
  BY AskIsAsked DEF Allowed
<1> DEFINE q == [r EXCEPT !.using = NoBuild, !.waited = 0]
           u == [r EXCEPT !.using = NoBuild, !.waited = 0, !.forced = FALSE]
<1>2. q \in Fetch /\ u \in Fetch
  <2>1. 0 \in BuildAges
    BY PageFetchAssumption DEF BuildAges
  <2>2. QED
    BY <2>1 DEF Fetch
<1> HIDE DEF q, u
<1>3. Allowed(Ask(q, "home")) /\ Allowed(Ask(u, "page"))
  BY <1>1, <1>2 DEF Requests
<1>4. QED
  BY <1>1, <1>3 DEF AskHome, AskPage, q, u

LEMMA OwnStepPassesAllowed ==
    ASSUME IInv, NEW f \in Fetches, Passes(f),
           Start(f) \/ StoreBuildId(f) \/ Answer(f)
    PROVE  forbidden'[fetch'[f].want] <= RobotsTTL + RobotsDelay
<1> DEFINE r == fetch[f]
<1>1. Typed /\ r \in Fetch /\ NoFetch \in Fetch
  BY NoFetchTyped DEF IInv, Typed
<1>2. forbidden' = forbidden /\ fetch'[f] \in Fetch
  <2>1. IInv'
    BY StartIInv, StoreBuildIdIInv, AnswerIInv
  <2>2. forbidden' = forbidden
    BY DEF Start, StoreBuildId, Answer, ServeHome, LeaveTier1, AnswerRoute, RefuseRoute,
           AnswerPage, FailPage, Escape, Sent, site
  <2>3. QED
    BY <2>1, <2>2 DEF IInv, Typed
<1>3. ASSUME NEW s, Goto(f, s)
      PROVE  fetch'[f] = s
  BY <1>1, <1>3 DEF Goto, Typed
<1>4. SUFFICES Allowed(fetch'[f])
  <2>1. /\ forbidden \in [Requests -> Forbidden] /\ rules.age \in RobotsAges
        /\ rules.allows \subseteq Requests
    BY <1>1 DEF Typed
  <2>2. QED
    BY <1>2, <2>1, PageFetchAssumption
    DEF Allowed, Passes, IInv, RulesAreHonest, RobotsAges, Forbidden
<1>5. CASE Start(f)
  <2>1. Goto(f, GetBuildId(NoFetch))
    BY <1>5 DEF Start
  <2>2. CASE cached.id # NoBuild /\ cached.age < BuildIdTTL
    <3> DEFINE q == [NoFetch EXCEPT !.using = cached.id]
    <3>1. q \in Fetch
      BY <1>1, <2>2, NoFetchTyped DEF Typed, Fetch, NoFetch
    <3>2. GetBuildId(NoFetch) = Ask(q, "route")
      BY <2>2 DEF GetBuildId
    <3> HIDE DEF q
    <3>3. Allowed(Ask(q, "route"))
      BY <1>1, <3>1, AskIsAllowed DEF Requests
    <3>4. QED
      BY <1>3, <2>1, <3>2, <3>3
  <2>3. CASE ~(cached.id # NoBuild /\ cached.age < BuildIdTTL)
    <3>1. GetBuildId(NoFetch) = AskHome(NoFetch)
      BY <2>3 DEF GetBuildId
    <3>2. QED
      BY <1>1, <1>3, <2>1, <3>1, AskIsAllowed
  <2>4. QED
    BY <2>2, <2>3
<1>6. CASE StoreBuildId(f)
  <2> DEFINE q == [r EXCEPT !.waited = 0]
  <2>1. q \in Fetch
    BY <1>1, PageFetchAssumption DEF Fetch, BuildAges
  <2>2. Goto(f, Ask(q, "route"))
    BY <1>6 DEF StoreBuildId
  <2> HIDE DEF q
  <2>3. Allowed(Ask(q, "route"))
    BY <1>1, <2>1, AskIsAllowed DEF Requests
  <2>4. QED
    BY <1>3, <2>2, <2>3
<1>7. CASE LeaveTier1(f)
  <2>1. Spoiled(r) \in Fetch
    BY <1>1 DEF Spoiled, Fetch
  <2>2. Goto(f, AskPage(Spoiled(r)))
    BY <1>7 DEF LeaveTier1
  <2>3. QED
    BY <1>1, <1>3, <2>1, <2>2, AskIsAllowed
<1>8. CASE RefuseRoute(f)
  <2> DEFINE q == [r EXCEPT !.spoiled = @ \/ r.using = build]
  <2>1. q \in Fetch
    BY <1>1 DEF Fetch
  <2>2. Goto(f, IF q.forced THEN AskPage(q) ELSE AskHome([q EXCEPT !.forced = TRUE]))
    BY <1>8 DEF RefuseRoute
  <2> HIDE DEF q
  <2>3. [q EXCEPT !.forced = TRUE] \in Fetch
    BY <2>1 DEF Fetch
  <2>4. Allowed(AskPage(q)) /\ Allowed(AskHome([q EXCEPT !.forced = TRUE]))
    BY <1>1, <2>1, <2>3, AskIsAllowed
  <2>5. QED
    BY <1>3, <2>2, <2>4
<1>9. CASE ServeHome(f)
  <2>1. fetch'[f].pc = "read"
    BY <1>1, <1>9 DEF ServeHome, Goto, Typed, Fetch
  <2>2. QED
    BY <2>1 DEF Passes
<1>10. CASE AnswerRoute(f) \/ AnswerPage(f) \/ FailPage(f) \/ Escape(f)
  <2>1. PICK out \in {"json_api", "not_modified", "hydration", "html", "failed", "escaped"} :
          Goto(f, Ended(r, out)) \/ Goto(f, Spoiled(Ended(r, out)))
    BY <1>10 DEF AnswerRoute, AnswerPage, FailPage, Escape
  <2> DEFINE e == Ended(r, out)
  <2>2. e \in Fetch /\ e.pc = "idle"
    BY <1>1, EndedTyped
  <2>3. fetch'[f] = e \/ fetch'[f] = Spoiled(e)
    BY <1>3, <2>1
  <2> HIDE DEF e
  <2>4. fetch'[f].pc = "idle"
    BY <2>2, <2>3 DEF Spoiled, Fetch
  <2>5. QED
    BY <2>4 DEF Passes
<1>11. QED
  BY <1>5, <1>6, <1>7, <1>8, <1>9, <1>10 DEF Answer

LEMMA ReadRobotsPassesAllowed ==
    ASSUME IInv, NEW f \in Fetches, Passes(f), StoreRobots(f) \/ Unreachable(f)
    PROVE  forbidden'[fetch'[f].want] <= RobotsTTL + RobotsDelay
<1> DEFINE r == fetch[f]
           q == [r EXCEPT !.reading = {}, !.late = 0]
<1>1. r \in Fetch /\ r.want \in Requests /\ fetch \in [Fetches -> Fetch]
  BY DEF IInv, Typed, Fetch
<1>2. q \in Fetch
  <2>1. 0 \in 0..RobotsDelay /\ {} \in SUBSET Requests
    BY PageFetchAssumption
  <2>2. QED
    BY <1>1, <2>1 DEF Fetch
<1>3. PICK allows \in SUBSET Requests :
        /\ Obeys(f, allows)
        /\ \A k \in allows : forbidden'[k] <= RobotsDelay
        /\ forbidden' \in [Requests -> Forbidden]
  BY ObeyedIsRecent
<1>4. Goto(f, Gated(q, r.want, allows))
  BY <1>3 DEF Obeys
<1> HIDE DEF q
<1> DEFINE s == Gated(q, r.want, allows)
<1>5. s.pc = "sent" => s.want \in allows
  BY <1>1, <1>2, GatedIsAsked
<1>6. fetch'[f] = s
  BY <1>1, <1>4 DEF Goto
<1> HIDE DEF s
<1>7. s.want \in allows
  BY <1>5, <1>6 DEF Passes
<1>8. forbidden'[s.want] \in Nat /\ forbidden'[s.want] <= RobotsDelay
  BY <1>3, <1>7, PageFetchAssumption DEF Forbidden
<1>9. QED
  BY <1>6, <1>8, PageFetchAssumption

LEMMA StepPassesAllowed ==
    ASSUME IInv, [Next]_vars, NEW f \in Fetches, Passes(f)
    PROVE  forbidden'[fetch'[f].want] <= RobotsTTL + RobotsDelay
<1>1. fetch \in [Fetches -> Fetch]
  BY DEF IInv, Typed
<1>2. CASE Deploy \/ ChangeRobots \/ Tick \/ UNCHANGED vars
  <2>1. fetch'[f].pc = fetch[f].pc /\ fetch'[f].want = fetch[f].want
    <3>1. CASE Tick
      <4> DEFINE r == fetch[f]
                 waited == IF Asking(r) THEN Later(r.waited, BuildIdTTL) ELSE r.waited
                 behind == IF r.pc = "reading" THEN r.late + 1 ELSE r.late
      <4>1. fetch'[f] = [r EXCEPT !.waited = waited, !.late = behind] /\ r \in Fetch
        BY <1>1, <3>1 DEF Tick
      <4> HIDE DEF r, waited, behind
      <4>2. fetch'[f].pc = r.pc /\ fetch'[f].want = r.want
        BY <4>1 DEF Fetch
      <4>3. QED
        BY <4>2 DEF r
    <3>2. CASE Deploy \/ ChangeRobots \/ UNCHANGED vars
      BY <1>1, <3>2 DEF Deploy, ChangeRobots, vars, Fetch
    <3>3. QED
      BY <1>2, <3>1, <3>2
  <2>2. QED
    BY <2>1 DEF Passes
<1>3. ASSUME NEW g \in Fetches,
             \/ Start(g) \/ StoreBuildId(g) \/ Answer(g)
             \/ ServeRobots(g) \/ StoreRobots(g) \/ Unreachable(g)
      PROVE  forbidden'[fetch'[f].want] <= RobotsTTL + RobotsDelay
  <2>1. CASE g = f
    <3>1. CASE ServeRobots(g)
      <4>1. fetch'[f].pc = "reading"
        BY <1>1, <2>1, <3>1 DEF ServeRobots, Goto, Fetch
      <4>2. QED
        BY <4>1 DEF Passes
    <3>2. QED
      BY <1>3, <2>1, <3>1, OwnStepPassesAllowed, ReadRobotsPassesAllowed
  <2>2. CASE g # f
    <3>1. PICK s : Goto(g, s)
      BY <1>3 DEF Start, ServeRobots, StoreRobots, Unreachable, Obeys, StoreBuildId, Answer, ServeHome, LeaveTier1,
                  AnswerRoute, RefuseRoute, AnswerPage, FailPage, Escape
    <3>2. fetch'[f] = fetch[f]
      BY <1>1, <2>2, <3>1 DEF Goto
    <3>3. QED
      BY <3>2 DEF Passes
  <2>3. QED
    BY <2>1, <2>2
<1>4. QED
  BY <1>2, <1>3 DEF Next

(* Whatever else reads robots.txt at the same time, and whichever reading   *)
(* arrives last, the gate lets nothing pass that a reachable robots.txt has *)
(* forbidden for longer than its rules are kept and a reading is on its way. *)
THEOREM DisallowedPathsFailClosed == Spec => NothingLongForbidden
<1>1. IInv /\ [Next]_vars =>
        [\A f \in Fetches :
            Passes(f) => forbidden'[fetch'[f].want] <= RobotsTTL + RobotsDelay]_vars
  BY StepPassesAllowed
<1>2. QED
  BY <1>1, Invariance, PTL DEF Spec, NothingLongForbidden

-----------------------------------------------------------------------------
(***************************************************************************)
(* The facade.  Of the refreshes under way when the database is closed,     *)
(* only those are lost that were spawned while aclose was already waiting.  *)
(***************************************************************************)

(* While aclose waits, what it need not wait for came late; once it has     *)
(* waited, everything under way did.                                        *)
Draining ==
    /\ aclose = "waiting" => refreshing \subseteq drained \cup late
    /\ aclose \in {"leaving", "over"} => refreshing \subseteq late

(* The database is closed by aclose, at its end. *)
ClosedLast == db = "closed" => aclose = "over"

(* The losses so far were of refreshes that came late. *)
LateLosses == \A l \in lost : l[2] = "late"

(* close asks for aclose, once. *)
Unasked == closer = "away" => aclose = "none"

FInv == FacadeTypeOK /\ Unasked /\ Draining /\ ClosedLast /\ LateLosses

LEMMA InitFInv == FacadeInit => FInv
  BY DEF FacadeInit, FInv, FacadeTypeOK, Unasked, Draining, ClosedLast, LateLosses

-----------------------------------------------------------------------------
(* The steps of callers and of the constructor leave the shutdown alone. *)

USE DEF loopVars, shutdown, InLoop, Over

LEMMA CallerStep ==
    ASSUME NEW t \in Threads, FInv, Caller(t)
    PROVE  FInv'
<1>1. UNCHANGED <<loopVars, refreshing, shutdown, late, lost>>
  BY DEF Caller, Check, Schedule
<1>2. call' \in [Threads -> {"idle", "checked"} \cup InLoop \cup Over]
  BY DEF FInv, FacadeTypeOK, Caller, Check, Schedule, Go
<1>3. QED
  BY <1>1, <1>2 DEF FInv, FacadeTypeOK, Unasked, Draining, ClosedLast, LateLosses

LEMMA CoroutineStep ==
    ASSUME NEW t \in Threads, FInv, Coroutine(t)
    PROVE  FInv'
<1>1. CASE AnswerAtOnce(t) \/ Miss(t) \/ FetchEnds(t)
  <2>1. UNCHANGED <<loopVars, refreshing, shutdown, late, lost>>
    BY <1>1 DEF AnswerAtOnce, Miss, FetchEnds
  <2>2. call' \in [Threads -> {"idle", "checked"} \cup InLoop \cup Over]
    BY <1>1 DEF FInv, FacadeTypeOK, AnswerAtOnce, Miss, FetchEnds, Go
  <2>3. QED
    BY <2>1, <2>2 DEF FInv, FacadeTypeOK, Unasked, Draining, ClosedLast, LateLosses
<1>2. CASE \E k \in Keys : AnswerStale(t, k)
  <2>1. PICK k \in Keys : AnswerStale(t, k)
    BY <1>2
  <2>2. call' \in [Threads -> {"idle", "checked"} \cup InLoop \cup Over]
    BY <2>1 DEF FInv, FacadeTypeOK, AnswerStale, Go
  <2>3. FacadeTypeOK'
    BY <2>1, <2>2 DEF FInv, FacadeTypeOK, AnswerStale
  <2>4. Unasked' /\ Draining'
    BY <2>1 DEF FInv, FacadeTypeOK, Unasked, Draining, AnswerStale
  <2>5. ClosedLast' /\ LateLosses'
    BY <2>1 DEF FInv, ClosedLast, LateLosses, AnswerStale
  <2>6. QED
    BY <2>3, <2>4, <2>5 DEF FInv
<1>3. QED
  BY <1>1, <1>2 DEF Coroutine

(* A refresh that ends is lost only if it came late. *)
LEMMA RefreshStep ==
    ASSUME NEW k \in Keys, FInv, RefreshEnds(k)
    PROVE  FInv'
<1>1. db = "closed" => k \in late
  BY DEF FInv, Draining, ClosedLast, RefreshEnds
<1>2. LateLosses'
  BY <1>1 DEF FInv, LateLosses, RefreshEnds, Spawned
<1>3. FacadeTypeOK'
  BY DEF FInv, FacadeTypeOK, RefreshEnds, Spawned
<1>4. Unasked' /\ Draining' /\ ClosedLast'
  BY DEF FInv, Unasked, Draining, ClosedLast, RefreshEnds
<1>5. QED
  BY <1>2, <1>3, <1>4 DEF FInv

-----------------------------------------------------------------------------
(* Every step of aclose leaves fewer refreshes to wait for. *)
LEMMA ShutdownStep ==
    ASSUME FInv, Close \/ Shutdown
    PROVE  FInv'
<1>1. CASE Close
  BY <1>1 DEF Close, Closer, FInv, FacadeTypeOK, Unasked, Draining, ClosedLast, LateLosses
<1>2. CASE AcloseStarts
  BY <1>2 DEF AcloseStarts, FInv, FacadeTypeOK, Unasked, Draining, ClosedLast, LateLosses
<1>3. CASE Drained
  BY <1>3 DEF Drained, FInv, FacadeTypeOK, Unasked, Draining, ClosedLast, LateLosses
<1>4. CASE AcloseEnds
  BY <1>4 DEF AcloseEnds, FInv, FacadeTypeOK, Unasked, Draining, ClosedLast, LateLosses
<1>5. CASE StopLoop \/ LoopStops
  BY <1>5 DEF StopLoop, LoopStops, Closer, FInv, FacadeTypeOK, Unasked, Draining, ClosedLast,
              LateLosses
<1>6. CASE CloseLoop \/ JoinTimesOut
  BY <1>6 DEF CloseLoop, JoinTimesOut, Closer, FInv, FacadeTypeOK, Unasked, Draining, ClosedLast,
              LateLosses
<1>7. QED
  BY <1>1, <1>2, <1>3, <1>4, <1>5, <1>6 DEF Shutdown

LEMMA NextFInv ==
    ASSUME FInv, [FacadeNext]_facadeVars
    PROVE  FInv'
<1>1. CASE LoopStarts \/ Make
  BY <1>1 DEF LoopStarts, Make, FInv, FacadeTypeOK, Unasked, Draining, ClosedLast, LateLosses
<1>2. CASE \E t \in Threads : Caller(t) \/ Coroutine(t)
  BY <1>2, CallerStep, CoroutineStep
<1>3. CASE \E k \in Keys : RefreshEnds(k)
  BY <1>3, RefreshStep
<1>4. CASE UNCHANGED facadeVars
  BY <1>4 DEF facadeVars, FInv, FacadeTypeOK, Unasked, Draining, ClosedLast, LateLosses
<1>5. QED
  BY <1>1, <1>2, <1>3, <1>4, ShutdownStep DEF FacadeNext

(***************************************************************************)
(* The facade with its strengthening, in every behaviour.                   *)
(***************************************************************************)
THEOREM FacadeInvariance == FacadeSpec => []FInv
<1>1. FacadeInit => FInv
  BY InitFInv
<1>2. FInv /\ [FacadeNext]_facadeVars => FInv'
  BY NextFInv
<1>3. QED
  BY <1>1, <1>2, PTL DEF FacadeSpec

(* Every variable of the facade holds a value of its type. *)
THEOREM FacadeTypeCorrect == FacadeSpec => []FacadeTypeOK
<1>1. FInv => FacadeTypeOK
  BY DEF FInv
<1>2. QED
  BY <1>1, FacadeInvariance, PTL

(***************************************************************************)
(* Whatever aclose knew of has stored what it fetched when the database     *)
(* closes: for any threads, any keys, and refreshes of any length (aclose). *)
(***************************************************************************)
THEOREM LatecomersOnly == FacadeSpec => []OnlyLatecomersAreLost
<1>1. FInv => OnlyLatecomersAreLost
  BY DEF FInv, Draining, ClosedLast, LateLosses, OnlyLatecomersAreLost
<1>2. QED
  BY <1>1, FacadeInvariance, PTL
=============================================================================
