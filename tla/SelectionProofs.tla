---------------------------- MODULE SelectionProofs ----------------------------
(***************************************************************************)
(* Safety of Selection for any processes, files, schools, requests and any  *)
(* cap.                                                                     *)
(***************************************************************************)
EXTENDS Selection, PlaceProofs

-----------------------------------------------------------------------------
(* Items that occur once *)

OneOfEach(seq) == \A i, j \in DOMAIN seq : seq[i] = seq[j] => i = j

LEMMA DistinctItems ==
    ASSUME NEW S, NEW seq \in Seq(S)
    PROVE  Distinct(seq) \in Seq(S) /\ OneOfEach(Distinct(seq))
<1> DEFINE firsts == {i \in DOMAIN seq : \A j \in 1..(i - 1) : seq[j] # seq[i]}
           items == Distinct(seq)
<1>1. items = Picked(seq, firsts)
  BY DEF Distinct
<1>2. DOMAIN seq = 1..Len(seq) /\ Len(seq) \in Nat
  OBVIOUS
<1>3. \A i, k \in firsts : i < k => seq[i] # seq[k]
  BY <1>2
<1>4. \A i, k \in firsts : seq[i] = seq[k] => i = k
  <2>1. \A i, k \in firsts : i # k => i < k \/ k < i
    BY <1>2
  <2>2. QED
    BY <1>3, <2>1
<1> HIDE DEF firsts
<1>5. firsts \in SUBSET (DOMAIN seq)
  BY DEF firsts
<1>6. /\ items \in Seq(S) /\ Len(items) = Cardinality(firsts)
      /\ \A n \in 1..Cardinality(firsts) :
            \E i \in firsts : Rank(firsts, i) = n /\ items[n] = seq[i]
  BY <1>1, <1>5, PickedItems
<1> HIDE DEF items
<1>7. DOMAIN items = 1..Cardinality(firsts)
  BY <1>6
<1>8. ASSUME NEW m \in DOMAIN items, NEW n \in DOMAIN items, items[m] = items[n]
      PROVE  m = n
  <2>1. PICK i \in firsts : Rank(firsts, i) = m /\ items[m] = seq[i]
    BY <1>6, <1>7
  <2>2. PICK k \in firsts : Rank(firsts, k) = n /\ items[n] = seq[k]
    BY <1>6, <1>7
  <2>3. i = k
    BY <1>4, <1>8, <2>1, <2>2
  <2>4. QED
    BY <2>1, <2>2, <2>3
<1>9. QED
  BY <1>6, <1>8 DEF OneOfEach, items

LEMMA DistinctAlready ==
    ASSUME NEW S, NEW seq \in Seq(S), OneOfEach(seq)
    PROVE  Distinct(seq) = seq
<1> DEFINE firsts == {i \in DOMAIN seq : \A j \in 1..(i - 1) : seq[j] # seq[i]}
<1>1. DOMAIN seq = 1..Len(seq) /\ Len(seq) \in Nat
  OBVIOUS
<1>2. \A i \in DOMAIN seq : \A j \in 1..(i - 1) : j \in DOMAIN seq /\ j # i
  BY <1>1
<1>3. firsts = 1..Len(seq)
  BY <1>1, <1>2 DEF OneOfEach
<1>4. Distinct(seq) = Picked(seq, 1..Len(seq))
  BY <1>3 DEF Distinct
<1>5. Cardinality(1..Len(seq)) = Len(seq)
  BY <1>1, FS_Interval
<1>6. \A i \in 1..Len(seq) : Rank(1..Len(seq), i) = i
  <2>1. ASSUME NEW i \in 1..Len(seq)
        PROVE  Rank(1..Len(seq), i) = i
    <3>1. {j \in 1..Len(seq) : j <= i} = 1..i
      BY <1>1
    <3>2. Cardinality(1..i) = i
      BY <1>1, FS_Interval
    <3>3. QED
      BY <3>1, <3>2 DEF Rank
  <2>2. QED
    BY <2>1
<1>7. /\ Distinct(seq) \in Seq(S) /\ Len(Distinct(seq)) = Len(seq)
      /\ \A n \in 1..Len(seq) :
            \E i \in 1..Len(seq) : /\ Rank(1..Len(seq), i) = n
                                   /\ Distinct(seq)[n] = seq[i]
  BY <1>1, <1>4, <1>5, PickedItems
<1>8. \A n \in 1..Len(seq) : Distinct(seq)[n] = seq[n]
  BY <1>6, <1>7
<1>9. QED
  BY <1>7, <1>8, SeqEqual

-----------------------------------------------------------------------------
(* The catalogue and the rules of a selection *)

(* The catalogue is its four parts, one behind the other. *)
LEMMA CatalogueParts ==
    /\ Catalogue \in Seq({Catalogue[i] : i \in DOMAIN Catalogue}) /\ DOMAIN Catalogue = 1..26
    /\ \A i \in 1..7 : Catalogue[i] = FallSports[i]
    /\ \A i \in 1..6 : Catalogue[7 + i] = WinterSports[i]
    /\ \A i \in 1..9 : Catalogue[13 + i] = SpringSports[i]
    /\ \A i \in 1..4 : Catalogue[22 + i] = Variants[i]
<1> DEFINE Rows == {FallSports[i] : i \in 1..7} \cup {WinterSports[i] : i \in 1..6}
                     \cup {SpringSports[i] : i \in 1..9} \cup {Variants[i] : i \in 1..4}
           a == FallSports \o WinterSports
           b == a \o SpringSports
<1>1. FallSports \in Seq(Rows) /\ Len(FallSports) = 7
  BY DEF FallSports
<1>2. WinterSports \in Seq(Rows) /\ Len(WinterSports) = 6
  BY DEF WinterSports
<1>3. SpringSports \in Seq(Rows) /\ Len(SpringSports) = 9
  <2>1. SpringSports = [i \in 1..9 |-> SpringSports[i]]
    BY DEF SpringSports
  <2>2. QED
    BY <2>1
<1>4. Variants \in Seq(Rows) /\ Len(Variants) = 4
  BY DEF Variants
<1> HIDE DEF Rows
<1>5. a \in Seq(Rows) /\ Follows(a, FallSports, 7, WinterSports, 6)
  <2>1. a \in Seq(Rows) /\ Follows(a, FallSports, Len(FallSports), WinterSports, Len(WinterSports))
    BY <1>1, <1>2, ConcatFollows
  <2>2. QED
    BY <1>1, <1>2, <2>1
<1> HIDE DEF a
<1>6. b \in Seq(Rows) /\ Follows(b, a, 13, SpringSports, 9)
  <2>1. Len(a) = 13
    BY <1>5 DEF Follows
  <2>2. b \in Seq(Rows) /\ Follows(b, a, Len(a), SpringSports, Len(SpringSports))
    BY <1>3, <1>5, ConcatFollows
  <2>3. QED
    BY <1>3, <2>1, <2>2
<1>7. Catalogue = b \o Variants
  BY DEF Catalogue, a, b
<1> HIDE DEF b
<1>8. Catalogue \in Seq(Rows) /\ Follows(Catalogue, b, 22, Variants, 4)
  <2>1. Len(b) = 22
    BY <1>6 DEF Follows
  <2>2. Catalogue \in Seq(Rows) /\ Follows(Catalogue, b, Len(b), Variants, Len(Variants))
    BY <1>4, <1>6, <1>7, ConcatFollows
  <2>3. QED
    BY <1>4, <2>1, <2>2
<1>9. Catalogue \in Seq({Catalogue[i] : i \in DOMAIN Catalogue}) /\ DOMAIN Catalogue = 1..26
  <2>1. Len(Catalogue) = 26
    BY <1>8 DEF Follows
  <2>2. DOMAIN Catalogue = 1..26 /\ Catalogue = [i \in 1..26 |-> Catalogue[i]]
    BY <1>8, <2>1
  <2>3. [i \in 1..26 |-> Catalogue[i]] \in Seq({Catalogue[i] : i \in 1..26})
    OBVIOUS
  <2>4. QED
    BY <2>2, <2>3
<1>10. /\ \A i \in 1..7 : Catalogue[i] = FallSports[i]
       /\ \A i \in 1..6 : Catalogue[7 + i] = WinterSports[i]
       /\ \A i \in 1..9 : Catalogue[13 + i] = SpringSports[i]
  <2>1. /\ \A i \in 1..22 : Catalogue[i] = b[i]
        /\ \A i \in 1..13 : b[i] = a[i]
        /\ \A i \in 1..9 : b[13 + i] = SpringSports[i]
        /\ \A i \in 1..7 : a[i] = FallSports[i]
        /\ \A i \in 1..6 : a[7 + i] = WinterSports[i]
    BY <1>5, <1>6, <1>8 DEF Follows
  <2>2. /\ \A i \in 1..7 : i \in 1..13 /\ i \in 1..22
        /\ \A i \in 1..6 : 7 + i \in 1..13 /\ 7 + i \in 1..22
        /\ \A i \in 1..9 : 13 + i \in 1..22
    OBVIOUS
  <2>3. QED
    BY <2>1, <2>2
<1>11. \A i \in 1..4 : Catalogue[22 + i] = Variants[i]
  BY <1>8 DEF Follows
<1>12. QED
  BY <1>9, <1>10, <1>11

LEMMA PlacesOfParts ==
    ASSUME NEW i \in 1..26
    PROVE  \/ \E k \in 1..7 : i = k
           \/ \E k \in 1..6 : i = 7 + k
           \/ \E k \in 1..9 : i = 13 + k
           \/ \E k \in 1..4 : i = 22 + k
<1>1. i \in 1..7 \/ i - 7 \in 1..6 \/ i - 13 \in 1..9 \/ i - 22 \in 1..4
  OBVIOUS
<1>2. i = 7 + (i - 7) /\ i = 13 + (i - 13) /\ i = 22 + (i - 22)
  OBVIOUS
<1>3. QED
  BY <1>1, <1>2

LEMMA CatalogueIsSeq ==
    /\ Catalogue \in Seq({Catalogue[i] : i \in DOMAIN Catalogue})
    /\ DOMAIN Catalogue \subseteq Nat
    /\ 1 \in DOMAIN Catalogue /\ Catalogue[1].key = "football"
<1>1. FallSports[1].key = "football"
  BY DEF FallSports, Row, Sport
<1>2. 1 \in 1..7 /\ 1 \in 1..26 /\ 1..26 \subseteq Nat
  OBVIOUS
<1>3. QED
  BY <1>1, <1>2, CatalogueParts

Alike(a, b) == a.slug = b.slug /\ a.gender = b.gender

(* Two sports differ in slug or gender, within the parts and across them.   *)
LEMMA SportsApart ==
    \A i, j \in DOMAIN Catalogue : Alike(Catalogue[i], Catalogue[j]) => i = j
<1>1. \A i, j \in 1..7 : Alike(FallSports[i], FallSports[j]) => i = j
  BY DEF FallSports, Row, Sport, Alike
<1>2. \A i \in 1..7, j \in 1..6 : ~Alike(FallSports[i], WinterSports[j])
  BY DEF FallSports, WinterSports, Row, Sport, Alike
<1>3. \A i \in 1..7, j \in 1..9 : ~Alike(FallSports[i], SpringSports[j])
  BY DEF FallSports, SpringSports, Row, Sport, Alike
<1>4. \A i \in 1..7, j \in 1..4 : ~Alike(FallSports[i], Variants[j])
  BY DEF FallSports, Variants, Row, Variant, Sport, Alike
<1>5. \A i, j \in 1..6 : Alike(WinterSports[i], WinterSports[j]) => i = j
  BY DEF WinterSports, Row, Sport, Alike
<1>6. \A i \in 1..6, j \in 1..9 : ~Alike(WinterSports[i], SpringSports[j])
  BY DEF WinterSports, SpringSports, Row, Sport, Alike
<1>7. \A i \in 1..6, j \in 1..4 : ~Alike(WinterSports[i], Variants[j])
  BY DEF WinterSports, Variants, Row, Variant, Sport, Alike
<1>8. \A i, j \in 1..9 : Alike(SpringSports[i], SpringSports[j]) => i = j
  BY DEF SpringSports, Row, Sport, Alike
<1>9. \A i \in 1..9, j \in 1..4 : ~Alike(SpringSports[i], Variants[j])
  BY DEF SpringSports, Variants, Row, Variant, Sport, Alike
<1>10. \A i, j \in 1..4 : Alike(Variants[i], Variants[j]) => i = j
  BY DEF Variants, Variant, Sport, Alike
<1>11. \A a, b : Alike(a, b) => Alike(b, a)
  BY DEF Alike
<1>12. /\ \A i \in 1..7 : Catalogue[i] = FallSports[i]
       /\ \A i \in 1..6 : Catalogue[7 + i] = WinterSports[i]
       /\ \A i \in 1..9 : Catalogue[13 + i] = SpringSports[i]
       /\ \A i \in 1..4 : Catalogue[22 + i] = Variants[i]
  BY CatalogueParts
<1>13. ASSUME NEW i \in 1..26, NEW j \in 1..26, Alike(Catalogue[i], Catalogue[j])
       PROVE  i = j
  <2>1. /\ \/ \E k \in 1..7 : i = k
           \/ \E k \in 1..6 : i = 7 + k
           \/ \E k \in 1..9 : i = 13 + k
           \/ \E k \in 1..4 : i = 22 + k
        /\ \/ \E k \in 1..7 : j = k
           \/ \E k \in 1..6 : j = 7 + k
           \/ \E k \in 1..9 : j = 13 + k
           \/ \E k \in 1..4 : j = 22 + k
    BY PlacesOfParts
  <2>2. QED
    BY <1>1, <1>2, <1>3, <1>4, <1>5, <1>6, <1>7, <1>8, <1>9, <1>10, <1>11, <1>12, <1>13, <2>1
<1>14. QED
  BY <1>13, CatalogueParts

(* The segments of a sport's page. *)
IsSport(sport) == sport.gender \in Genders \cup {"none"} /\ sport.season \in Seasons

LEMMA SportsHaveSegments == \A i \in DOMAIN Catalogue : IsSport(Catalogue[i])
<1>1. \A k \in 1..7 : IsSport(FallSports[k])
  BY DEF FallSports, Row, Sport, IsSport, Genders, Seasons
<1>2. \A k \in 1..6 : IsSport(WinterSports[k])
  BY DEF WinterSports, Row, Sport, IsSport, Genders, Seasons
<1>3. \A k \in 1..9 : IsSport(SpringSports[k])
  BY DEF SpringSports, Row, Sport, IsSport, Genders, Seasons
<1>4. \A k \in 1..4 : IsSport(Variants[k])
  BY DEF Variants, Variant, Sport, IsSport, Genders, Seasons
<1>5. /\ \A k \in 1..7 : IsSport(Catalogue[k])
      /\ \A k \in 1..6 : IsSport(Catalogue[7 + k])
      /\ \A k \in 1..9 : IsSport(Catalogue[13 + k])
      /\ \A k \in 1..4 : IsSport(Catalogue[22 + k])
  <2>1. /\ \A k \in 1..7 : Catalogue[k] = FallSports[k]
        /\ \A k \in 1..6 : Catalogue[7 + k] = WinterSports[k]
        /\ \A k \in 1..9 : Catalogue[13 + k] = SpringSports[k]
        /\ \A k \in 1..4 : Catalogue[22 + k] = Variants[k]
    BY CatalogueParts
  <2>2. QED
    BY <1>1, <1>2, <1>3, <1>4, <2>1
<1>6. ASSUME NEW i \in 1..26
      PROVE  IsSport(Catalogue[i])
  <2>1. \/ \E k \in 1..7 : i = k
        \/ \E k \in 1..6 : i = 7 + k
        \/ \E k \in 1..9 : i = 13 + k
        \/ \E k \in 1..4 : i = 22 + k
    BY PlacesOfParts
  <2>2. QED
    BY <1>5, <2>1
<1>7. QED
  BY <1>6, CatalogueParts

LEMMA FirstIsThere ==
    ASSUME NEW places, places \subseteq DOMAIN Catalogue, places # {}
    PROVE  FirstAt(places) \in {Catalogue[i] : i \in places}
<1>1. \E i \in places : \A j \in places : i <= j
  BY CatalogueIsSeq, LeastExists
<1>2. QED
  BY <1>1 DEF FirstAt

(* A key is the key of the sport it finds; any known name finds one. *)
LEMMA GetFindsKeys ==
    /\ \A key \in Keys : Known(key) /\ Get(key).key = key
    /\ \A name : Known(name) => Get(name).key \in Keys
<1>1. ASSUME NEW key \in Keys
      PROVE  Known(key) /\ Get(key).key = key
  <2> DEFINE places == {i \in DOMAIN Catalogue : Catalogue[i].key = key}
  <2>1. FirstAt(places) \in {Catalogue[i] : i \in places}
    BY FirstIsThere DEF Keys
  <2>2. Get(key) = FirstAt(places)
    BY DEF Get, BY_KEY
  <2>3. QED
    BY <2>1, <2>2 DEF Known
<1>2. ASSUME NEW name, Known(name)
      PROVE  Get(name).key \in Keys
  <2>1. CASE name \in Keys
    BY <1>1, <2>1
  <2>2. CASE name \notin Keys
    <3> DEFINE places == {i \in DOMAIN Catalogue : Catalogue[i].spoken = name}
    <3>1. FirstAt(places) \in {Catalogue[i] : i \in places}
      BY <1>2, <2>2, FirstIsThere DEF Known, Spoken
    <3>2. Get(name) = FirstAt(places)
      BY <1>2, <2>2 DEF Known, Get, BySpoken
    <3>3. QED
      BY <3>1, <3>2 DEF Keys
  <2>3. QED
    BY <2>1, <2>2
<1>3. QED
  BY <1>1, <1>2

Valid(keys) == ResolveMany(keys) = [error |-> "none", keys |-> keys]

(* What resolve_many returns are keys of the catalogue, each once, and      *)
(* given those it returns them unchanged (resolve_many, the config          *)
(* validator, a restart).                                                   *)
THEOREM ResolvingIsFinal ==
    ASSUME NEW names, names \in Seq(Names)
    PROVE  /\ ResolveMany(names).keys \in Seq(Keys) /\ OneOfEach(ResolveMany(names).keys)
           /\ ResolveMany(names).error = "none" => Valid(ResolveMany(names).keys)
<1> DEFINE found == [i \in DOMAIN names |-> Get(names[i]).key]
           keys == Distinct(found)
<1>1. CASE \E i \in DOMAIN names : ~Known(names[i])
  <2>1. OneOfEach(<<>>)
    BY DEF OneOfEach
  <2>2. QED
    BY <1>1, <2>1 DEF ResolveMany
<1>2. CASE \A i \in DOMAIN names : Known(names[i])
  <2>1. found \in Seq(Keys)
    <3>1. DOMAIN names = 1..Len(names) /\ Len(names) \in Nat
      OBVIOUS
    <3>2. \A i \in 1..Len(names) : Get(names[i]).key \in Keys
      BY <1>2, <3>1, GetFindsKeys
    <3>3. QED
      BY <3>1, <3>2
  <2>2. keys \in Seq(Keys) /\ OneOfEach(keys)
    BY <2>1, DistinctItems
  <2>3. ResolveMany(names) = IF Len(keys) > MaxActiveSports
                             THEN [error |-> "TooManySportsError", keys |-> <<>>]
                             ELSE [error |-> "none", keys |-> keys]
    BY <1>2 DEF ResolveMany
  <2> HIDE DEF keys
  <2>4. ASSUME ~(Len(keys) > MaxActiveSports)
        PROVE  Valid(keys)
    <3>1. [i \in DOMAIN keys |-> Get(keys[i]).key] = keys
      <4>1. DOMAIN keys = 1..Len(keys) /\ keys = [i \in DOMAIN keys |-> keys[i]]
        BY <2>2
      <4>2. \A i \in DOMAIN keys : keys[i] \in Keys
        BY <2>2
      <4>3. \A i \in DOMAIN keys : Get(keys[i]).key = keys[i]
        BY <4>2, GetFindsKeys
      <4>4. QED
        BY <4>1, <4>3
    <3>2. \A i \in DOMAIN keys : Known(keys[i])
      BY <2>2, GetFindsKeys
    <3>3. Distinct(keys) = keys
      BY <2>2, DistinctAlready
    <3>4. QED
      BY <2>4, <3>1, <3>2, <3>3 DEF Valid, ResolveMany
  <2>5. OneOfEach(<<>>)
    BY DEF OneOfEach
  <2>6. QED
    BY <2>2, <2>3, <2>4, <2>5
<1>3. QED
  BY <1>1, <1>2

-----------------------------------------------------------------------------
(* What a command makes of the settings *)

LEMMA ActiveIsSeq ==
    ASSUME NEW settings \in Docs
    PROVE  ActiveSports(settings) \in Seq(Names)
<1>1. settings.active \in Seq(Names)
  BY DEF Docs
<1>2. ASSUME Known(settings.sport)
      PROVE  Get(settings.sport).key \in Names
  BY <1>2, GetFindsKeys DEF Names
<1>3. QED
  BY <1>1, <1>2 DEF ActiveSports

(* A command changes its own section and leaves a valid selection valid. *)
Makes(before, after, sect) ==
    /\ Valid(before.active) => Valid(after.active)
    /\ sect = "sports" => after = [before EXCEPT !.active = after.active]
    /\ sect = "primary" => after = [before EXCEPT !.school = after.school,
                                                  !.sport = after.sport,
                                                  !.year = after.year]
    /\ sect = "opponents" => after = [before EXCEPT !.names = after.names]

LEMMA SelectedMakes ==
    ASSUME NEW settings \in Docs, NEW names \in Seq(Names)
    PROVE  /\ Selected(settings, names).cfg \in Docs
           /\ Makes(settings, Selected(settings, names).cfg, "sports")
           /\ Selected(settings, names).error # "none"
                 => Selected(settings, names).cfg = settings
<1> DEFINE r == ResolveMany(names)
<1>1. /\ r.keys \in Seq(Keys)
      /\ r.error = "none" => Valid(r.keys)
  BY ResolvingIsFinal
<1>2. r.keys \in Seq(Names)
  BY <1>1 DEF Names
<1> HIDE DEF r
<1>3. Selected(settings, names) =
        [error |-> r.error,
         cfg |-> IF r.error = "none" THEN [settings EXCEPT !.active = r.keys] ELSE settings]
  BY DEF Selected, r
<1>4. ASSUME r.error = "none"
      PROVE  /\ Selected(settings, names).cfg \in Docs
             /\ Makes(settings, Selected(settings, names).cfg, "sports")
             /\ Selected(settings, names).error = "none"
  <2>1. /\ Selected(settings, names).error = "none"
        /\ Selected(settings, names).cfg = [settings EXCEPT !.active = r.keys]
    BY <1>3, <1>4
  <2>2. [settings EXCEPT !.active = r.keys] \in Docs
    BY <1>2 DEF Docs
  <2>3. [settings EXCEPT !.active = r.keys].active = r.keys
    BY DEF Docs
  <2>4. Makes(settings, [settings EXCEPT !.active = r.keys], "sports")
    BY <1>1, <1>4, <2>3 DEF Makes
  <2>5. QED
    BY <2>1, <2>2, <2>4
<1>5. CASE r.error # "none"
  BY <1>3, <1>5 DEF Makes, Docs
<1>6. QED
  BY <1>4, <1>5

LEMMA PresetKeys ==
    ASSUME NEW season
    PROVE  KeysOf(Preset(season)) \in Seq(Names)
<1> DEFINE S == {Catalogue[i] : i \in DOMAIN Catalogue}
           places == {i \in DOMAIN Catalogue :
                         Catalogue[i].season = season /\ Catalogue[i].inPreset}
           sports == Picked(Catalogue, places)
           n == IF Len(sports) < MaxActiveSports THEN Len(sports) ELSE MaxActiveSports
<1>1. sports \in Seq(S)
  BY CatalogueIsSeq, PickedItems
<1>2. Preset(season) = SubSeq(sports, 1, n)
  BY DEF Preset
<1> HIDE DEF sports
<1>3. n \in Nat /\ n <= Len(sports)
  BY <1>1, SportsAssumption
<1>4. \A s \in S : s.key \in Names
  BY DEF Names, Keys
<1> HIDE DEF S, n
<1>5. Preset(season) \in Seq(S)
  BY <1>1, <1>2, <1>3
<1>6. QED
  BY <1>4, <1>5 DEF KeysOf

LEMMA SchoolIsKept ==
    ASSUME NEW school, NEW name, NEW year
    PROVE  SchoolTeam(school, name, year).school = school
<1>1. FromUrl(<<school, "football">>).school = school
  BY DEF FromUrl
<1>2. QED
  BY <1>1 DEF SchoolTeam, ForSport, FromUrl

LEMMA OutcomesMake ==
    ASSUME NEW settings \in Docs, NEW o \in Outcomes(settings), o[1].error = "none"
    PROVE  o[1].cfg \in Docs /\ o[2] \in Sections /\ Makes(settings, o[1].cfg, o[2])
<1>1. CASE \E names \in Requests : o = <<Selected(settings, names), "sports">>
  BY <1>1, SelectedMakes, SelectionAssumption DEF Sections
<1>2. CASE \E names \in Requests : o = <<SportsAdd(settings, names), "sports">>
  <2>1. PICK names \in Requests : o = <<SportsAdd(settings, names), "sports">>
    BY <1>2
  <2>2. ActiveSports(settings) \o names \in Seq(Names)
    BY ActiveIsSeq, SelectionAssumption
  <2>3. QED
    BY <2>1, <2>2, SelectedMakes DEF SportsAdd, Sections
<1>3. CASE \E names \in Requests : o = <<SportsRemove(settings, names), "sports">>
  <2>1. PICK names \in Requests : o = <<SportsRemove(settings, names), "sports">>
    BY <1>3
  <2>2. \A i \in DOMAIN names : Known(names[i])
    BY <2>1 DEF SportsRemove, Failing
  <2> DEFINE active == ActiveSports(settings)
             drop == {Get(names[i]).key : i \in DOMAIN names}
             left == Picked(active, {i \in DOMAIN active : active[i] \notin drop})
  <2>3. left \in Seq(Names)
    BY ActiveIsSeq, PickedItems
  <2>4. SportsRemove(settings, names) = Selected(settings, left)
    BY <2>2 DEF SportsRemove
  <2>5. QED
    BY <2>1, <2>3, <2>4, SelectedMakes DEF Sections
<1>4. CASE \E season \in Terms : o = <<SportsSeason(settings, season), "sports">>
  BY <1>4, PresetKeys, SelectedMakes DEF SportsSeason, Sections
<1>5. CASE \E school \in Schools, sport \in SportNames, year \in SeasonYears :
             o = <<InitSchool(settings, school, sport, year), "primary">>
  <2>1. PICK school \in Schools, sport \in SportNames, year \in SeasonYears :
          o = <<InitSchool(settings, school, sport, year), "primary">>
    BY <1>5
  <2>2. o[1].cfg = [settings EXCEPT !.school = school, !.sport = sport, !.year = year]
    <3>1. SchoolTeam(school, sport, year).school = school
      BY SchoolIsKept
    <3>2. o[1] = Same([settings EXCEPT !.school = school, !.sport = sport, !.year = year])
      BY <2>1, <3>1 DEF InitSchool
    <3>3. QED
      BY <3>2 DEF Same
  <2>3. sport \in Names
    BY SelectionAssumption
  <2>4. QED
    BY <2>1, <2>2, <2>3 DEF Makes, Docs, Sections
<1>6. CASE \E opponent \in Opponents : o = <<Override(settings, opponent), "opponents">>
  <2>1. PICK opponent \in Opponents : o = <<Override(settings, opponent), "opponents">>
    BY <1>6
  <2>2. o[1].cfg = [settings EXCEPT !.names = settings.names \cup {opponent}]
    BY <2>1 DEF Override, Same
  <2>3. QED
    BY <2>1, <2>2 DEF Makes, Docs, Sections
<1>7. QED
  BY <1>1, <1>2, <1>3, <1>4, <1>5, <1>6 DEF Outcomes

-----------------------------------------------------------------------------
(* The steps of a process, by what they do to the file *)

Running(p) == proc[p].at # "off"

(* A command or a PUT that is carried out and saves. *)
Opens(p) ==
    /\ proc[p].at = "ready"
    /\ \E settings \in Docs, sect \in Sections :
          /\ Open(p, settings, sect)
          /\ Makes(proc[p].cfg, settings, sect)
          /\ p = serve => sect = "sports"
    /\ UNCHANGED <<answered, acked>>

(* A command that is refused, or cannot open the file. *)
Ends(p) ==
    /\ p \in Clis /\ proc[p].at = "ready"
    /\ proc' = [proc EXCEPT ![p] = Off]
    /\ stale' = Rest(stale)
    /\ UNCHANGED <<file, answered, saves, acked, slipped>>

(* A PUT that is refused, or cannot open the file. *)
Keeps ==
    /\ proc[serve].at = "ready"
    /\ \E settings \in Docs :
          /\ Makes(proc[serve].cfg, settings, "sports")
          /\ proc' = [proc EXCEPT ![serve].cfg = settings]
          /\ answered' = "failed" \/ (answered' = answered /\ settings = proc[serve].cfg)
    /\ stale' \subseteq stale
    /\ \A p \in stale : Running(p) => p \in stale'
    /\ UNCHANGED <<file, saves, acked, slipped>>

LEMMA CommandSteps ==
    ASSUME TypeOK, NEW p \in Procs, Command(p)
    PROVE  Opens(p) \/ Ends(p)
<1>1. p \in Clis /\ p # serve /\ proc[p].at = "ready" /\ proc[p].cfg \in Docs
  BY SelectionAssumption DEF Command, TypeOK
<1>2. PICK o \in Outcomes(proc[p].cfg) :
        IF o[1].error # "none" THEN Refused(p)
        ELSE Open(p, o[1].cfg, o[2]) \/ OpenFails(p, o[1].cfg)
  BY DEF Command
<1>3. UNCHANGED <<answered, acked>>
  BY DEF Command
<1>4. CASE Refused(p)
  BY <1>1, <1>3, <1>4 DEF Refused, Returns, Ends
<1>5. CASE o[1].error = "none" /\ Open(p, o[1].cfg, o[2])
  <2>1. o[1].cfg \in Docs /\ o[2] \in Sections /\ Makes(proc[p].cfg, o[1].cfg, o[2])
    BY <1>1, <1>5, OutcomesMake
  <2>2. QED
    BY <1>1, <1>3, <1>5, <2>1 DEF Opens
<1>6. CASE OpenFails(p, o[1].cfg)
  <2>1. [Off EXCEPT !.cfg = @] = Off
    BY DEF Off
  <2>2. QED
    BY <1>1, <1>3, <1>6, <2>1 DEF OpenFails, Returns, Ends
<1>7. QED
  BY <1>2, <1>4, <1>5, <1>6

LEMMA PutSteps ==
    ASSUME TypeOK, PutActive
    PROVE  Opens(serve) \/ Keeps
<1>1. /\ serve \in Procs /\ proc[serve].at = "ready" /\ proc[serve].cfg \in Docs
      /\ proc \in [Procs -> [at : {"off", "ready", "saving"}, cfg : Docs,
                             path : Paths, section : Sections]]
      /\ stale \subseteq Procs
  BY DEF PutActive, TypeOK, Procs
<1>2. PICK names \in Requests :
          LET r == Selected(proc[serve].cfg, names)
          IN  IF r.error # "none"
              THEN /\ proc' = [proc EXCEPT ![serve].cfg = r.cfg]
                   /\ UNCHANGED <<file, saves, stale, slipped, answered>>
              ELSE \/ Open(serve, r.cfg, "sports") /\ UNCHANGED answered
                   \/ OpenFails(serve, r.cfg) /\ answered' = "failed"
  BY DEF PutActive
<1> DEFINE r == Selected(proc[serve].cfg, names)
<1>3. /\ r.cfg \in Docs /\ Makes(proc[serve].cfg, r.cfg, "sports")
      /\ r.error # "none" => r.cfg = proc[serve].cfg
  BY <1>1, SelectedMakes, SelectionAssumption
<1>4. UNCHANGED acked
  BY DEF PutActive
<1> HIDE DEF r
<1>5. CASE r.error # "none"
  <2>1. proc' = [proc EXCEPT ![serve].cfg = r.cfg] /\ UNCHANGED <<file, saves, stale, slipped, answered>>
    BY <1>2, <1>5 DEF r
  <2>2. QED
    BY <1>1, <1>3, <1>4, <1>5, <2>1 DEF Keeps
<1>6. CASE Open(serve, r.cfg, "sports") /\ UNCHANGED answered
  BY <1>1, <1>3, <1>4, <1>6 DEF Opens, Sections
<1>7. CASE OpenFails(serve, r.cfg) /\ answered' = "failed"
  <2>1. proc' = [proc EXCEPT ![serve].cfg = r.cfg]
    BY <1>1, <1>7 DEF OpenFails, Returns
  <2>2. \A p \in Procs : proc'[p].at = proc[p].at
    BY <1>1, <2>1
  <2>3. stale' \subseteq stale /\ \A p \in stale : Running(p) => p \in stale'
    BY <1>1, <1>7, <2>2 DEF OpenFails, Rest, Running
  <2>4. QED
    BY <1>1, <1>3, <1>4, <1>7, <2>1, <2>3 DEF OpenFails, Keeps
<1>8. QED
  BY <1>2, <1>5, <1>6, <1>7 DEF r

(* Every step is one of these. *)
Steps ==
    \/ \E p \in Procs :
          \/ \E f \in Paths : Start(p, f)
          \/ Opens(p) \/ Ends(p) \/ Write(p) \/ WriteFails(p) \/ Stop(p)
    \/ Keeps
    \/ \E f \in Paths : HandEdit(f)
    \/ UNCHANGED vars

LEMMA StepsCover == TypeOK /\ [Next]_vars => Steps
  BY CommandSteps, PutSteps DEF Next, Steps, Procs

-----------------------------------------------------------------------------
(* Types *)

LEMMA DefaultsAreDocs == Defaults \in Docs
<1>1. "football" \in Names
  BY CatalogueIsSeq DEF Names, Keys
<1>2. <<>> \in Seq(Names)
  OBVIOUS
<1>3. QED
  BY <1>1, <1>2 DEF Defaults, Docs

LEMMA OffIsTyped ==
    Off \in [at : {"off", "ready", "saving"}, cfg : Docs, path : Paths, section : Sections]
  BY DefaultsAreDocs, SelectionAssumption DEF Off, Sections

LEMMA WithEnvIsTyped ==
    ASSUME NEW p \in Procs, NEW doc \in Docs
    PROVE  WithEnv(p, doc) \in Docs
<1>1. EnvSchool[p] \in Schools \cup {"none"}
  BY SelectionAssumption
<1>2. QED
  BY <1>1 DEF WithEnv, Docs

LEMMA LoadIsTyped ==
    ASSUME NEW p \in Procs, NEW text \in Docs \cup {Garbled}, Loads(text)
    PROVE  text \in Docs /\ Load(p, text) \in Docs /\ Valid(Load(p, text).active)
<1>1. text \in Docs /\ text.active \in Seq(Names) /\ ResolveMany(text.active).error = "none"
  BY DEF Loads, Docs
<1>2. ResolveMany(text.active).keys \in Seq(Names) /\ Valid(ResolveMany(text.active).keys)
  BY <1>1, ResolvingIsFinal DEF Names
<1>3. EnvSchool[p] \in Schools \cup {"none"}
  BY SelectionAssumption
<1>4. text.active = WithEnv(p, text).active /\ WithEnv(p, text) \in Docs
  BY <1>1, WithEnvIsTyped DEF WithEnv, Docs
<1>5. QED
  BY <1>1, <1>2, <1>4 DEF Load, Docs

LEMMA PutIsTyped ==
    ASSUME NEW doc \in Docs, NEW from \in Docs, NEW sect \in Sections
    PROVE  Put(doc, from, sect) \in Docs
<1>1. CASE sect = "primary"
  BY <1>1 DEF Put, Docs
<1>2. CASE sect = "sports"
  BY <1>2 DEF Put, Docs
<1>3. CASE sect = "opponents"
  BY <1>3 DEF Put, Docs
<1>4. QED
  BY <1>1, <1>2, <1>3 DEF Sections

LEMMA CutsAreTyped ==
    ASSUME NEW doc \in Docs
    PROVE  Cuts(doc) \subseteq Docs \cup {Garbled}
<1>1. [doc EXCEPT !.names = {}] \in Docs
  BY DEF Docs
<1>2. [doc EXCEPT !.names = {}, !.active = <<>>] \in Docs
  <2>1. <<>> \in Seq(Names)
    OBVIOUS
  <2>2. QED
    BY <2>1 DEF Docs
<1>3. QED
  BY <1>1, <1>2, DefaultsAreDocs DEF Cuts

LEMMA SaveFileIsPath ==
    ASSUME TypeOK, NEW p \in Procs
    PROVE  SaveFile(p) \in Paths /\ Misdirected(p) \subseteq Paths
  BY SelectionAssumption DEF TypeOK, SaveFile, Misdirected

LEMMA TypeOKInit == Init => TypeOK
<1> SUFFICES ASSUME Init PROVE TypeOK
  OBVIOUS
<1>2. file \in [Paths -> Docs]
  <2>1. PICK doc \in FirstDocs : file = [f \in Paths |-> doc]
    BY DEF Init
  <2>2. doc \in Docs
    BY SelectionAssumption
  <2>3. QED
    BY <2>1, <2>2
<1>3. proc \in [Procs -> [at : {"off", "ready", "saving"}, cfg : Docs,
                         path : Paths, section : Sections]]
  <2>1. proc = [p \in Procs |-> Off]
    BY DEF Init
  <2>2. QED
    BY <2>1, OffIsTyped
<1>4. /\ answered = "ok" /\ saves = 0 /\ acked = file
      /\ stale = {} /\ slipped = {}
  BY DEF Init
<1>5. saves \in 0..MaxSaves
  BY <1>4, SelectionAssumption
<1>6. acked \in [Paths -> Docs] /\ file \in [Paths -> Docs \cup {Garbled}]
  BY <1>2, <1>4
<1>7. QED
  BY <1>3, <1>4, <1>5, <1>6 DEF TypeOK

LEMMA TypeOKStep == TypeOK /\ [Next]_vars => TypeOK'
<1> SUFFICES ASSUME TypeOK, Steps PROVE TypeOK'
  BY StepsCover
<1> USE DEF TypeOK
<1>1. ASSUME NEW p \in Procs, NEW f \in Paths, Start(p, f)
      PROVE  TypeOK'
  <2>1. Load(p, file[f]) \in Docs
    BY <1>1, LoadIsTyped DEF Start
  <2>2. [Off EXCEPT !.at = "ready", !.path = f, !.cfg = Load(p, file[f])]
          \in [at : {"off", "ready", "saving"}, cfg : Docs, path : Paths, section : Sections]
    BY <2>1, OffIsTyped
  <2>3. QED
    BY <1>1, <2>2 DEF Start
<1>2. ASSUME NEW p \in Procs, Opens(p)
      PROVE  TypeOK'
  <2>1. PICK settings \in Docs, sect \in Sections : Open(p, settings, sect)
    BY <1>2 DEF Opens
  <2>2. SaveFile(p) \in Paths /\ Misdirected(p) \subseteq Paths
    BY SaveFileIsPath
  <2>3. [proc[p] EXCEPT !.at = "saving", !.cfg = settings, !.section = sect]
          \in [at : {"off", "ready", "saving"}, cfg : Docs, path : Paths, section : Sections]
    OBVIOUS
  <2>4. /\ proc' = [proc EXCEPT ![p] = [proc[p] EXCEPT !.at = "saving", !.cfg = settings,
                                                      !.section = sect]]
        /\ file' = [file EXCEPT ![SaveFile(p)] = Defaults]
        /\ saves < MaxSaves /\ saves' = saves + 1
        /\ stale' \subseteq Procs
        /\ slipped' \subseteq Paths
    BY <2>1, <2>2 DEF Open, Others
  <2>5. saves' \in 0..MaxSaves
    BY <2>4, SelectionAssumption
  <2>6. UNCHANGED <<answered, acked>>
    BY <1>2 DEF Opens
  <2>7. file' \in [Paths -> Docs \cup {Garbled}]
    BY <2>4, DefaultsAreDocs
  <2>8. QED
    BY <2>3, <2>4, <2>5, <2>6, <2>7
<1>3. ASSUME NEW p \in Procs, Ends(p)
      PROVE  TypeOK'
  BY <1>3, OffIsTyped DEF Ends, Rest
<1>4. ASSUME NEW p \in Procs, NEW text \in Docs \cup {Garbled}, NEW a \in {"ok", "failed"},
             Saved(p, text, a)
      PROVE  /\ file' \in [Paths -> Docs \cup {Garbled}]
             /\ proc' \in [Procs -> [at : {"off", "ready", "saving"}, cfg : Docs,
                                    path : Paths, section : Sections]]
             /\ answered' \in {"ok", "failed"}
             /\ saves' \in 0..MaxSaves
             /\ stale' \subseteq Procs
  <2>1. Returns(p) \in [at : {"off", "ready", "saving"}, cfg : Docs,
                        path : Paths, section : Sections]
    BY OffIsTyped DEF Returns
  <2>2. stale' \subseteq Procs
    BY <1>4 DEF Saved, Rest, Others
  <2>3. QED
    BY <1>4, <2>1, <2>2 DEF Saved
<1>5. ASSUME NEW p \in Procs, Write(p)
      PROVE  TypeOK'
  <2>1. PICK text \in Texts(p) : Saved(p, text, "ok")
    BY <1>5 DEF Write
  <2>2. text \in Docs \cup {Garbled}
    BY DEF Texts
  <2> DEFINE merged == Put(WithEnv(p, acked[proc[p].path]), proc[p].cfg, proc[p].section)
  <2>3. merged \in Docs
    BY WithEnvIsTyped, PutIsTyped
  <2>4. acked' \in [Paths -> Docs]
    <3>1. acked' = [acked EXCEPT ![proc[p].path] = merged]
      BY <1>5 DEF Write
    <3>2. QED
      BY <2>3, <3>1
  <2>5. slipped' \subseteq Paths
    BY <1>5, SaveFileIsPath DEF Write
  <2>6. QED
    BY <1>4, <2>1, <2>2, <2>4, <2>5
<1>6. ASSUME NEW p \in Procs, WriteFails(p)
      PROVE  TypeOK'
  <2>1. PICK text \in Cuts(proc[p].cfg) : Saved(p, text, "failed")
    BY <1>6 DEF WriteFails
  <2>2. text \in Docs \cup {Garbled}
    BY CutsAreTyped
  <2>3. slipped' \subseteq Paths /\ UNCHANGED acked
    BY <1>6, SaveFileIsPath DEF WriteFails
  <2>4. QED
    BY <1>4, <2>1, <2>2, <2>3
<1>7. ASSUME NEW p \in Procs, Stop(p)
      PROVE  TypeOK'
  BY <1>7, OffIsTyped, SaveFileIsPath DEF Stop
<1>8. CASE Keeps
  <2>1. PICK settings \in Docs : /\ proc' = [proc EXCEPT ![serve].cfg = settings]
                                 /\ answered' \in {"ok", "failed"}
    BY <1>8 DEF Keeps
  <2>2. QED
    BY <1>8, <2>1 DEF Keeps
<1>9. ASSUME NEW f \in Paths, HandEdit(f)
      PROVE  TypeOK'
  <2>1. PICK doc \in HandEdits : file' = [file EXCEPT ![f] = doc] /\ acked' = [acked EXCEPT ![f] = doc]
    BY <1>9 DEF HandEdit
  <2>2. doc \in Docs
    BY SelectionAssumption
  <2>3. saves' \in 0..MaxSaves
    BY <1>9, SelectionAssumption DEF HandEdit
  <2>4. QED
    BY <1>9, <2>1, <2>2, <2>3 DEF HandEdit
<1>10. CASE UNCHANGED vars
  BY <1>10 DEF vars
<1>11. QED
  BY <1>1, <1>2, <1>3, <1>5, <1>6, <1>7, <1>8, <1>9, <1>10 DEF Steps

(* Every variable holds a value of its type. *)
THEOREM TypeCorrect == Spec => []TypeOK
<1>1. QED
  BY TypeOKInit, TypeOKStep, PTL DEF Spec

-----------------------------------------------------------------------------
(* What a running process covers *)

AllValid == \A p \in Procs : Valid(proc[p].cfg.active)

LEMMA NothingIsValid == Valid(<<>>)
<1>1. <<>> \in Seq(Names)
  OBVIOUS
<1> DEFINE found == [i \in DOMAIN <<>> |-> Get(<<>>[i]).key]
<1>2. found = <<>>
  OBVIOUS
<1>3. Distinct(<<>>) = <<>>
  <2>1. OneOfEach(<<>>)
    BY DEF OneOfEach
  <2>2. QED
    BY <1>1, <2>1, DistinctAlready
<1>4. QED
  BY <1>2, <1>3, SportsAssumption DEF Valid, ResolveMany

LEMMA OffIsValid == Valid(Off.cfg.active)
  BY NothingIsValid DEF Off, Defaults

LEMMA AllValidInit == Init => AllValid
  BY OffIsValid DEF Init, AllValid

LEMMA AllValidStep == TypeOK /\ AllValid /\ [Next]_vars => AllValid'
<1> SUFFICES ASSUME TypeOK, AllValid, Steps PROVE AllValid'
  BY StepsCover
<1> USE DEF AllValid
<1>0. proc \in [Procs -> [at : {"off", "ready", "saving"}, cfg : Docs,
                         path : Paths, section : Sections]]
  BY DEF TypeOK
<1>1. ASSUME NEW p \in Procs, NEW f \in Paths, Start(p, f)
      PROVE  AllValid'
  <2>1. Valid(Load(p, file[f]).active)
    BY <1>1, LoadIsTyped DEF Start, TypeOK
  <2>2. proc'[p].cfg = Load(p, file[f]) /\ \A q \in Procs \ {p} : proc'[q] = proc[q]
    BY <1>0, <1>1 DEF Start, Off
  <2>3. QED
    BY <2>1, <2>2
<1>2. ASSUME NEW p \in Procs, Opens(p)
      PROVE  AllValid'
  <2>1. PICK settings \in Docs, sect \in Sections :
          Open(p, settings, sect) /\ Makes(proc[p].cfg, settings, sect)
    BY <1>2 DEF Opens
  <2>2. proc'[p].cfg = settings /\ \A q \in Procs \ {p} : proc'[q] = proc[q]
    BY <1>0, <2>1 DEF Open
  <2>3. Valid(settings.active)
    BY <2>1 DEF Makes
  <2>4. QED
    BY <2>2, <2>3
<1>3. ASSUME NEW p \in Procs, Ends(p) \/ Stop(p)
      PROVE  AllValid'
  <2>1. proc' = [proc EXCEPT ![p] = Off]
    BY <1>3 DEF Ends, Stop
  <2>2. QED
    BY <1>0, <2>1, OffIsValid
<1>4. ASSUME NEW p \in Procs, Write(p) \/ WriteFails(p)
      PROVE  AllValid'
  <2>1. proc' = [proc EXCEPT ![p] = Returns(p)]
    BY <1>4 DEF Write, WriteFails, Saved
  <2>2. Valid(Returns(p).cfg.active)
    BY <1>0, OffIsValid DEF Returns
  <2>3. QED
    BY <1>0, <2>1, <2>2
<1>5. CASE Keeps
  <2>1. PICK settings \in Docs : /\ Makes(proc[serve].cfg, settings, "sports")
                                 /\ proc' = [proc EXCEPT ![serve].cfg = settings]
    BY <1>5 DEF Keeps
  <2>2. serve \in Procs
    BY DEF Procs
  <2>3. Valid(settings.active)
    BY <2>1, <2>2 DEF Makes
  <2>4. QED
    BY <1>0, <2>1, <2>2, <2>3
<1>6. ASSUME NEW f \in Paths, HandEdit(f)
      PROVE  AllValid'
  BY <1>6 DEF HandEdit
<1>7. CASE UNCHANGED vars
  BY <1>7 DEF vars
<1> HIDE DEF AllValid
<1>8. QED
  BY <1>1, <1>2, <1>3, <1>4, <1>5, <1>6, <1>7 DEF Steps

LEMMA AlwaysValid == Spec => [](TypeOK /\ AllValid)
<1>1. QED
  BY TypeOKInit, TypeOKStep, AllValidInit, AllValidStep, PTL DEF Spec

(* A process that runs covers valid sports: resolve_many would return the   *)
(* selection as it is (config.py, service/app.py put_active).               *)
THEOREM CoversValidSports == Spec => []SelectionsAreValid
<1>1. AllValid => SelectionsAreValid
  BY DEF AllValid, Valid, SelectionsAreValid, ActiveSports
<1>2. QED
  BY <1>1, AlwaysValid, PTL

-----------------------------------------------------------------------------
(* What was acknowledged *)

(* The service changes what it covers and saves nothing else. *)
ServiceSaves == proc[serve].section = "sports"

(* A process has what was acknowledged; of a service, all but the selection. *)
Knows(p, settings, text) ==
    /\ Loads(text)
    /\ settings = IF p = serve THEN [Load(p, text) EXCEPT !.active = settings.active]
                               ELSE Load(p, text)

Knowing ==
    \A p \in Procs :
        proc[p].at \in (IF p = serve THEN {"ready", "saving"} ELSE {"ready"})
          /\ p \notin stale /\ proc[p].path \notin slipped
            => Knows(p, proc[p].cfg, acked[proc[p].path])

(* A text that loads as these settings, the environment apart. *)
Reads(text, settings) == Loads(text) /\ Resolved(text) = settings

(* A save under way will leave what it acknowledges. *)
SavesTheTruth(p) ==
    LET f == SaveFile(p)
    IN  /\ proc[p].path = f
        /\ Reads(Put(WithEnv(p, acked[f]), proc[p].cfg, proc[p].section), proc[p].cfg)

(* Nobody else saves the file, or has it as it was. *)
SavesAlone(p) ==
    LET f == SaveFile(p)
    IN  /\ file[f] = Defaults
        /\ p \notin stale
        /\ Others(p, f) \subseteq stale
        /\ \A q \in Procs \ {p} : ~Saving(q, f)

SavesAreSound ==
    \A p \in Procs :
        proc[p].at = "saving" /\ SaveFile(p) \notin slipped
            => SavesTheTruth(p) /\ SavesAlone(p)

History == ServiceSaves /\ AcknowledgedStays /\ Knowing /\ SavesAreSound

LEMMA ResolvedIsLoaded ==
    ASSUME NEW x \in Docs \cup {Garbled}, NEW y \in Docs, Resolved(x) = Resolved(y), Loads(x),
           NEW p \in Procs
    PROVE  Loads(y) /\ Load(p, x) = Load(p, y)
<1>1. /\ x \in Docs /\ x.active \in Seq(Names) /\ ResolveMany(x.active).error = "none"
      /\ Resolved(x) = [x EXCEPT !.active = ResolveMany(x.active).keys]
  BY DEF Loads, Docs, Resolved
<1>2. Valid(ResolveMany(x.active).keys)
  BY <1>1, ResolvingIsFinal
<1>3. Resolved(x).active = ResolveMany(x.active).keys
  BY <1>1 DEF Docs
<1>4. y # Garbled
  BY SelectionAssumption
<1>5. Loads(y)
  <2>1. CASE Loads(y)
    BY <2>1
  <2>2. CASE ~Loads(y)
    <3>1. Resolved(y) = y
      BY <2>2 DEF Resolved
    <3>2. ResolveMany(y.active).error = "none"
      BY <1>2, <1>3, <3>1 DEF Valid
    <3>3. QED
      BY <1>4, <3>2 DEF Loads
  <2>3. QED
    BY <2>1, <2>2
<1>6. Resolved(y) = [y EXCEPT !.active = ResolveMany(y.active).keys]
  BY <1>5 DEF Resolved
<1>7. Load(p, x) = WithEnv(p, Resolved(x)) /\ Load(p, y) = WithEnv(p, Resolved(y))
  <2>1. \A d \in Docs : Load(p, d) = WithEnv(p, [d EXCEPT !.active = ResolveMany(d.active).keys])
    BY DEF Load, WithEnv, Docs
  <2>2. QED
    BY <1>1, <1>6, <2>1
<1>8. QED
  BY <1>5, <1>7

(* Settings that are valid read back as they are. *)
LEMMA ValidReads ==
    ASSUME NEW settings \in Docs, Valid(settings.active)
    PROVE  Reads(settings, settings)
<1>1. settings # Garbled
  BY SelectionAssumption
<1>2. ResolveMany(settings.active).error = "none" /\ ResolveMany(settings.active).keys = settings.active
  BY DEF Valid
<1>3. [settings EXCEPT !.active = settings.active] = settings
  BY DEF Docs
<1>4. QED
  BY <1>1, <1>2, <1>3 DEF Reads, Resolved, Loads

(* One that knows the file and changes a section saves what it says it does. *)
LEMMA ChangesItsSection ==
    ASSUME NEW p \in Procs, NEW before \in Docs, NEW text \in Docs, NEW after \in Docs,
           NEW sect \in Sections, Knows(p, before, text), Makes(before, after, sect),
           Valid(before.active), p = serve => sect = "sports"
    PROVE  Reads(Put(WithEnv(p, text), after, sect), after)
<1> DEFINE keys == ResolveMany(text.active).keys
           new == Put(WithEnv(p, text), after, sect)
<1>1. /\ text # Garbled /\ ResolveMany(text.active).error = "none"
      /\ Valid(after.active)
  BY DEF Knows, Loads, Makes
<1>2. WithEnv(p, text) \in Docs /\ WithEnv(p, text).active = text.active
  BY WithEnvIsTyped DEF WithEnv, Docs
<1>3. Load(p, text) = [WithEnv(p, text) EXCEPT !.active = keys]
  BY <1>2 DEF Load
<1> HIDE DEF keys
<1>4. CASE sect = "sports"
  <2>1. new = [WithEnv(p, text) EXCEPT !.active = after.active]
    BY <1>4 DEF Put
  <2>2. after = [before EXCEPT !.active = after.active]
    BY <1>4 DEF Makes
  <2>3. [before EXCEPT !.active = after.active] = [Load(p, text) EXCEPT !.active = after.active]
    <3>1. CASE p = serve
      <4>1. before = [Load(p, text) EXCEPT !.active = before.active]
        BY <3>1 DEF Knows
      <4>2. QED
        BY <1>2, <1>3, <4>1 DEF Docs
    <3>2. CASE p # serve
      BY <3>2 DEF Knows
    <3>3. QED
      BY <3>1, <3>2
  <2>4. after = new
    BY <1>2, <1>3, <2>1, <2>2, <2>3 DEF Docs
  <2>5. QED
    BY <1>1, <2>4, ValidReads
<1>5. CASE sect # "sports"
  <2>1. before = [WithEnv(p, text) EXCEPT !.active = keys]
    BY <1>3, <1>5 DEF Knows
  <2> DEFINE env == WithEnv(p, text)
  <2>0. env \in Docs /\ before = [env EXCEPT !.active = keys] /\ env.active = text.active
    BY <1>2, <2>1
  <2> HIDE DEF env
  <2>2. new.active = text.active /\ after = [new EXCEPT !.active = keys] /\ new \in Docs
    <3>1. CASE sect = "primary"
      <4>1. new = [env EXCEPT !.school = after.school, !.sport = after.sport,
                              !.year = after.year]
        BY <3>1 DEF Put, env
      <4>2. after = [before EXCEPT !.school = after.school, !.sport = after.sport,
                                   !.year = after.year]
        BY <3>1 DEF Makes
      <4>3. new \in Docs /\ new.active = text.active
        BY <2>0, <4>1 DEF Docs
      <4>4. after = [[env EXCEPT !.active = keys] EXCEPT !.school = after.school,
                                                        !.sport = after.sport,
                                                        !.year = after.year]
        BY <2>0, <4>2
      <4>5. after = [new EXCEPT !.active = keys]
        BY <2>0, <4>1, <4>4 DEF Docs
      <4>6. QED
        BY <4>3, <4>5
    <3>2. CASE sect = "opponents"
      <4>1. new = [env EXCEPT !.names = after.names]
        BY <3>2 DEF Put, env
      <4>2. after = [before EXCEPT !.names = after.names]
        BY <3>2 DEF Makes
      <4>3. new \in Docs /\ new.active = text.active
        BY <2>0, <4>1 DEF Docs
      <4>4. after = [[env EXCEPT !.active = keys] EXCEPT !.names = after.names]
        BY <2>0, <4>2
      <4>5. after = [new EXCEPT !.active = keys]
        BY <2>0, <4>1, <4>4 DEF Docs
      <4>6. QED
        BY <4>3, <4>5
    <3>3. QED
      BY <1>5, <3>1, <3>2 DEF Sections
  <2>3. Loads(new)
    BY <1>1, <2>2, SelectionAssumption DEF Loads
  <2>4. QED
    BY <2>2, <2>3 DEF Reads, Resolved, keys
<1>6. QED
  BY <1>4, <1>5

(* What each step does to the process, the file and the histories. *)
OthersKeep(p) == \A q \in Procs \ {p} : proc'[q] = proc[q]

LEMMA StartDoes ==
    ASSUME TypeOK, NEW p \in Procs, NEW f \in Paths, Start(p, f)
    PROVE  /\ proc[p].at = "off" /\ Loads(file[f])
           /\ proc'[p].at = "ready" /\ proc'[p].path = f /\ proc'[p].section = "sports"
           /\ proc'[p].cfg = Load(p, file[f])
           /\ OthersKeep(p)
           /\ \/ stale' = stale \cup {p}
              \/ stale' = stale /\ \A q \in Procs : ~Saving(q, f)
           /\ UNCHANGED <<file, acked, slipped>>
           /\ p = serve => answered' = "ok"
           /\ p # serve => answered' = answered
<1>1. proc'[p] = [Off EXCEPT !.at = "ready", !.path = f, !.cfg = Load(p, file[f])]
  BY DEF TypeOK, Start
<1>2. proc'[p].at = "ready" /\ proc'[p].path = f /\ proc'[p].section = "sports"
        /\ proc'[p].cfg = Load(p, file[f])
  BY <1>1 DEF Off
<1>3. OthersKeep(p)
  BY DEF TypeOK, Start, OthersKeep
<1>4. QED
  BY <1>2, <1>3 DEF Start

LEMMA OpensDoes ==
    ASSUME TypeOK, NEW p \in Procs, Opens(p)
    PROVE  LET f == SaveFile(p)
           IN  /\ f \in Paths /\ proc[p].at = "ready"
               /\ proc'[p].at = "saving" /\ proc'[p].path = proc[p].path
               /\ proc'[p].cfg \in Docs /\ proc'[p].section \in Sections
               /\ p = serve => proc'[p].section = "sports"
               /\ Makes(proc[p].cfg, proc'[p].cfg, proc'[p].section)
               /\ OthersKeep(p)
               /\ file'[f] = Defaults /\ \A g \in Paths \ {f} : file'[g] = file[g]
               /\ stale' = stale \cup Others(p, f)
               /\ slipped \subseteq slipped'
               /\ f \notin slipped' => p \notin stale /\ proc[p].path = f
               /\ UNCHANGED <<acked, answered>>
<1> DEFINE f == SaveFile(p)
<1>1. PICK settings \in Docs, sect \in Sections :
        /\ Open(p, settings, sect)
        /\ Makes(proc[p].cfg, settings, sect)
        /\ p = serve => sect = "sports"
  BY DEF Opens
<1>2. f \in Paths
  BY SaveFileIsPath
<1>3. proc'[p] = [proc[p] EXCEPT !.at = "saving", !.cfg = settings, !.section = sect]
  BY <1>1 DEF Open, TypeOK
<1>4. /\ proc'[p].at = "saving" /\ proc'[p].path = proc[p].path
      /\ proc'[p].cfg = settings /\ proc'[p].section = sect
  BY <1>3 DEF TypeOK
<1>5. OthersKeep(p)
  BY <1>1 DEF Open, OthersKeep, TypeOK
<1>6. file'[f] = Defaults /\ \A g \in Paths \ {f} : file'[g] = file[g]
  BY <1>1, <1>2 DEF Open, TypeOK
<1>7. /\ stale' = stale \cup Others(p, f)
      /\ slipped' = slipped \cup (IF p \in stale THEN {f} ELSE {}) \cup Misdirected(p)
  BY <1>1 DEF Open
<1>8. f \notin slipped' => p \notin stale /\ proc[p].path = f
  BY <1>7 DEF Misdirected, SaveFile
<1>9. UNCHANGED <<acked, answered>> /\ proc[p].at = "ready"
  BY DEF Opens
<1> HIDE DEF f
<1>10. slipped \subseteq slipped'
  BY <1>7
<1>11. QED
  BY <1>1, <1>2, <1>4, <1>5, <1>6, <1>7, <1>8, <1>9, <1>10 DEF f

(* The end of a command line, or of its command. *)
LEMMA LeavesDoes ==
    ASSUME TypeOK, NEW p \in Procs, Ends(p) \/ Stop(p)
    PROVE  /\ proc'[p].at = "off" /\ proc'[p].section = "sports" /\ OthersKeep(p)
           /\ stale' \subseteq stale /\ p \notin stale'
           /\ \A q \in stale : q # p /\ Running(q) => q \in stale'
           /\ slipped \subseteq slipped'
           /\ proc[p].at = "saving" => SaveFile(p) \in slipped'
           /\ UNCHANGED <<file, acked, answered>>
<1>1. proc' = [proc EXCEPT ![p] = Off]
  BY DEF Ends, Stop
<1>2. proc'[p].at = "off" /\ proc'[p].section = "sports" /\ OthersKeep(p)
  BY <1>1 DEF TypeOK, Off, OthersKeep
<1>3. /\ stale' \subseteq stale /\ p \notin stale'
      /\ \A q \in stale : q # p /\ Running(q) => q \in stale'
  BY <1>2 DEF Ends, Stop, Rest, Running, OthersKeep, TypeOK
<1>4. QED
  BY <1>2, <1>3 DEF Ends, Stop

LEMMA KeepsDoes ==
    ASSUME TypeOK, Keeps
    PROVE  /\ serve \in Procs /\ proc[serve].at = "ready"
           /\ proc'[serve].at = "ready" /\ proc'[serve].path = proc[serve].path
           /\ proc'[serve].section = proc[serve].section
           /\ proc'[serve].cfg = [proc[serve].cfg EXCEPT !.active = proc'[serve].cfg.active]
           /\ proc'[serve].cfg \in Docs
           /\ answered' = "failed"
                 \/ (answered' = answered /\ proc'[serve].cfg = proc[serve].cfg)
           /\ OthersKeep(serve)
           /\ stale' \subseteq stale /\ \A q \in stale : Running(q) => q \in stale'
           /\ UNCHANGED <<file, acked, slipped>>
<1>1. PICK settings \in Docs :
          /\ Makes(proc[serve].cfg, settings, "sports")
          /\ proc' = [proc EXCEPT ![serve].cfg = settings]
          /\ answered' = "failed" \/ (answered' = answered /\ settings = proc[serve].cfg)
  BY DEF Keeps
<1>2. serve \in Procs /\ proc[serve].at = "ready"
  BY DEF Keeps, Procs
<1>3. /\ proc'[serve].cfg = settings /\ proc'[serve].at = proc[serve].at
      /\ proc'[serve].path = proc[serve].path
      /\ proc'[serve].section = proc[serve].section /\ OthersKeep(serve)
  BY <1>1, <1>2 DEF TypeOK, OthersKeep
<1>4. settings = [proc[serve].cfg EXCEPT !.active = settings.active]
  BY <1>1 DEF Makes
<1>5. /\ stale' \subseteq stale /\ \A q \in stale : Running(q) => q \in stale'
      /\ UNCHANGED <<file, acked, slipped>>
  BY DEF Keeps
<1>6. QED
  BY <1>1, <1>2, <1>3, <1>4, <1>5

LEMMA SavedDoes ==
    ASSUME TypeOK, NEW p \in Procs, NEW text, NEW a, Saved(p, text, a)
    PROVE  LET f == SaveFile(p)
           IN  /\ f \in Paths /\ proc[p].at = "saving"
               /\ p # serve => proc'[p].at = "off" /\ answered' = answered
               /\ p = serve => /\ proc'[p].at = "ready" /\ proc'[p].path = proc[p].path
                               /\ proc'[p].section = proc[p].section
                               /\ proc'[p].cfg = proc[p].cfg
                               /\ p \in stale => p \in stale'
                               /\ answered' = a
               /\ OthersKeep(p)
               /\ file'[f] = text /\ \A g \in Paths \ {f} : file'[g] = file[g]
               /\ stale' \subseteq stale \cup Others(p, f)
               /\ \A q \in stale \cup Others(p, f) : q # p /\ Running(q) => q \in stale'
<1> DEFINE f == SaveFile(p)
<1>1. f \in Paths
  BY SaveFileIsPath
<1>2. proc'[p] = Returns(p) /\ OthersKeep(p) /\ proc[p].at = "saving"
  BY DEF Saved, TypeOK, OthersKeep
<1>3. p # serve => proc'[p].at = "off"
  BY <1>2 DEF Returns, Off
<1>4. p = serve => /\ proc'[p].at = "ready" /\ proc'[p].path = proc[p].path
                   /\ proc'[p].section = proc[p].section /\ proc'[p].cfg = proc[p].cfg
  BY <1>2 DEF Returns, TypeOK
<1>5. stale' = Rest(stale \cup Others(p, f)) /\ Others(p, f) \subseteq Procs
  BY DEF Saved, Others
<1>6. /\ stale' \subseteq stale \cup Others(p, f)
      /\ \A q \in stale \cup Others(p, f) : q # p /\ Running(q) => q \in stale'
      /\ p = serve /\ p \in stale => p \in stale'
  BY <1>2, <1>4, <1>5 DEF Rest, Running, OthersKeep, TypeOK
<1>7. file'[f] = text /\ \A g \in Paths \ {f} : file'[g] = file[g]
  BY <1>1 DEF Saved, TypeOK
<1>8. (p = serve => answered' = a) /\ (p # serve => answered' = answered)
  BY DEF Saved
<1> HIDE DEF f
<1>9. QED
  BY <1>1, <1>2, <1>3, <1>4, <1>6, <1>7, <1>8 DEF f

(* Who is saving which file, after a step of p. *)
LEMMA SavingKept ==
    ASSUME NEW p \in Procs, OthersKeep(p), NEW q \in Procs \ {p}, NEW f
    PROVE  Saving(q, f)' <=> Saving(q, f)
  BY DEF OthersKeep, Saving, SaveFile

LEMMA ServiceSavesStep == TypeOK /\ ServiceSaves /\ [Next]_vars => ServiceSaves'
<1> SUFFICES ASSUME TypeOK, ServiceSaves, Steps PROVE ServiceSaves'
  BY StepsCover
<1>0. serve \in Procs
  BY DEF Procs
<1> USE DEF ServiceSaves
<1>1. ASSUME NEW p \in Procs, NEW f \in Paths, Start(p, f)
      PROVE  ServiceSaves'
  BY <1>0, <1>1, StartDoes DEF OthersKeep
<1>2. ASSUME NEW p \in Procs, Opens(p)
      PROVE  ServiceSaves'
  BY <1>0, <1>2, OpensDoes DEF OthersKeep
<1>3. ASSUME NEW p \in Procs, Ends(p) \/ Stop(p)
      PROVE  ServiceSaves'
  BY <1>0, <1>3, LeavesDoes DEF OthersKeep
<1>4. ASSUME NEW p \in Procs, Write(p) \/ WriteFails(p)
      PROVE  ServiceSaves'
  <2>1. PICK text \in Texts(p) \cup Cuts(proc[p].cfg), a \in {"ok", "failed"} : Saved(p, text, a)
    BY <1>4 DEF Write, WriteFails
  <2>2. QED
    BY <1>0, <2>1, SavedDoes DEF OthersKeep
<1>5. CASE Keeps
  BY <1>5, KeepsDoes
<1>6. ASSUME NEW f \in Paths, HandEdit(f)
      PROVE  ServiceSaves'
  BY <1>6 DEF HandEdit
<1>7. CASE UNCHANGED vars
  BY <1>7 DEF vars
<1> HIDE DEF ServiceSaves
<1>8. QED
  BY <1>1, <1>2, <1>3, <1>4, <1>5, <1>6, <1>7 DEF Steps

(* What a save that is sound leaves, and what it acknowledges. *)
LEMMA WriteDoes ==
    ASSUME TypeOK, NEW p \in Procs, Write(p)
    PROVE  LET f == SaveFile(p)
           IN  /\ \E text \in Texts(p) : Saved(p, text, "ok")
               /\ acked'[proc[p].path] =
                     Put(WithEnv(p, acked[proc[p].path]), proc[p].cfg, proc[p].section)
               /\ \A g \in Paths \ {proc[p].path} : acked'[g] = acked[g]
               /\ slipped \subseteq slipped'
               /\ proc[p].path \notin slipped' \/ f \notin slipped' => proc[p].path = f
<1>1. acked' = [acked EXCEPT ![proc[p].path] =
                   Put(WithEnv(p, acked[proc[p].path]), proc[p].cfg, proc[p].section)]
  BY DEF Write
<1>2. slipped' = slipped \cup Misdirected(p)
  BY DEF Write
<1>3. proc[p].path \notin slipped' \/ SaveFile(p) \notin slipped' => proc[p].path = SaveFile(p)
  BY <1>2 DEF Misdirected, SaveFile
<1>4. proc[p].path \in Paths /\ acked \in [Paths -> Docs]
  BY DEF TypeOK
<1>5. \E text \in Texts(p) : Saved(p, text, "ok")
  BY DEF Write
<1>6. QED
  BY <1>1, <1>2, <1>3, <1>4, <1>5

LEMMA AcknowledgedInit == Init => AcknowledgedStays
  BY DEF Init, AcknowledgedStays

LEMMA AcknowledgedStep ==
    TypeOK /\ AllValid /\ AcknowledgedStays /\ SavesAreSound /\ [Next]_vars
      => AcknowledgedStays'
<1> SUFFICES ASSUME TypeOK, AllValid, AcknowledgedStays, SavesAreSound, Steps,
                    NEW g \in Paths, g \notin slipped', \A q \in Procs : ~Saving(q, g)'
             PROVE  (Resolved(file[g]) = Resolved(acked[g]))'
  BY StepsCover DEF AcknowledgedStays, Saving, SaveFile
<1> DEFINE Goal == Resolved(file'[g]) = Resolved(acked'[g])
<1>0. /\ (g \notin slipped /\ \A q \in Procs : ~Saving(q, g))
           => Resolved(file[g]) = Resolved(acked[g])
      /\ Goal => (Resolved(file[g]) = Resolved(acked[g]))'
  BY DEF AcknowledgedStays, Resolved, Loads
<1>1. ASSUME NEW p \in Procs, NEW f \in Paths, Start(p, f)
      PROVE  Goal
  <2>1. /\ UNCHANGED <<file, acked, slipped>> /\ OthersKeep(p)
        /\ ~Saving(p, g)
    BY <1>1, StartDoes DEF Saving
  <2>2. \A q \in Procs : ~Saving(q, g)
    BY <2>1, SavingKept
  <2>3. QED
    BY <1>0, <2>1, <2>2
<1>2. ASSUME NEW p \in Procs, Opens(p)
      PROVE  Goal
  <2>1. /\ OthersKeep(p) /\ ~Saving(p, g) /\ slipped \subseteq slipped' /\ acked' = acked
        /\ g # SaveFile(p) => file'[g] = file[g]
        /\ proc'[p].at = "saving" /\ proc'[p].path = proc[p].path
    BY <1>2, OpensDoes DEF Saving
  <2>2. g # SaveFile(p)
    BY <2>1 DEF Saving, SaveFile
  <2>3. \A q \in Procs : ~Saving(q, g)
    BY <2>1, SavingKept
  <2>4. QED
    BY <1>0, <2>1, <2>2, <2>3
<1>3. ASSUME NEW p \in Procs, Ends(p) \/ Stop(p)
      PROVE  Goal
  <2>1. /\ OthersKeep(p) /\ slipped \subseteq slipped' /\ UNCHANGED <<file, acked>>
        /\ ~Saving(p, g)
    BY <1>3, LeavesDoes DEF Saving
  <2>2. \A q \in Procs : ~Saving(q, g)
    BY <2>1, SavingKept
  <2>3. QED
    BY <1>0, <2>1, <2>2
<1>4. ASSUME NEW p \in Procs, Write(p)
      PROVE  Goal
  <2> DEFINE f == SaveFile(p)
  <2>1. PICK text \in Texts(p) : Saved(p, text, "ok")
    BY <1>4, WriteDoes
  <2>2. /\ f \in Paths /\ proc[p].at = "saving" /\ OthersKeep(p)
        /\ file'[f] = text /\ \A h \in Paths \ {f} : file'[h] = file[h]
    BY <2>1, SavedDoes
  <2>3. /\ acked'[proc[p].path] =
              Put(WithEnv(p, acked[proc[p].path]), proc[p].cfg, proc[p].section)
        /\ \A h \in Paths \ {proc[p].path} : acked'[h] = acked[h]
        /\ slipped \subseteq slipped'
        /\ proc[p].path \notin slipped' \/ f \notin slipped' => proc[p].path = f
    BY <1>4, WriteDoes
  <2>4. CASE g = f
    <3>1. SavesTheTruth(p) /\ SavesAlone(p)
      BY <2>2, <2>3, <2>4 DEF SavesAreSound
    <3>2. text = proc[p].cfg
      BY <2>1, <3>1 DEF SavesAlone, Texts
    <3>3. Reads(acked'[g], proc[p].cfg)
      BY <2>3, <2>4, <3>1 DEF SavesTheTruth
    <3>4. Reads(proc[p].cfg, proc[p].cfg)
      BY ValidReads DEF AllValid, TypeOK
    <3>5. QED
      BY <2>2, <2>4, <3>2, <3>3, <3>4 DEF Reads
  <2>5. CASE g # f
    <3>1. ~Saving(p, g)
      BY <2>5 DEF Saving
    <3>2. \A q \in Procs : ~Saving(q, g)
      BY <2>2, <3>1, SavingKept
    <3>3. g # proc[p].path
      BY <2>3, <2>5
    <3>4. QED
      BY <1>0, <2>2, <2>3, <2>5, <3>2, <3>3
  <2>6. QED
    BY <2>4, <2>5
<1>5. ASSUME NEW p \in Procs, WriteFails(p)
      PROVE  Goal
  <2> DEFINE f == SaveFile(p)
  <2>1. PICK text \in Cuts(proc[p].cfg) : Saved(p, text, "failed")
    BY <1>5 DEF WriteFails
  <2>2. /\ f \in Paths /\ OthersKeep(p) /\ \A h \in Paths \ {f} : file'[h] = file[h]
    BY <2>1, SavedDoes
  <2>3. slipped' = slipped \cup {f} /\ acked' = acked
    BY <1>5 DEF WriteFails
  <2>4. g # f /\ g \notin slipped
    BY <2>3
  <2>5. ~Saving(p, g)
    BY <2>4 DEF Saving
  <2>6. \A q \in Procs : ~Saving(q, g)
    BY <2>2, <2>5, SavingKept
  <2>7. QED
    BY <1>0, <2>2, <2>3, <2>4, <2>6
<1>6. CASE Keeps
  <2>1. /\ OthersKeep(serve) /\ UNCHANGED <<file, acked, slipped>>
        /\ serve \in Procs /\ ~Saving(serve, g)
    BY <1>6, KeepsDoes DEF Saving
  <2>2. \A q \in Procs : ~Saving(q, g)
    BY <2>1, SavingKept
  <2>3. QED
    BY <1>0, <2>1, <2>2
<1>7. ASSUME NEW f \in Paths, HandEdit(f)
      PROVE  Goal
  <2>1. PICK doc \in HandEdits :
          file' = [file EXCEPT ![f] = doc] /\ acked' = [acked EXCEPT ![f] = doc]
    BY <1>7 DEF HandEdit
  <2>2. proc' = proc /\ slipped' = slipped \ {f}
    BY <1>7 DEF HandEdit
  <2>3. CASE g = f
    BY <2>1, <2>3 DEF TypeOK
  <2>4. CASE g # f
    <3>1. file'[g] = file[g] /\ acked'[g] = acked[g] /\ g \notin slipped
      BY <2>1, <2>2, <2>4 DEF TypeOK
    <3>2. \A q \in Procs : ~Saving(q, g)
      BY <2>2 DEF Saving, SaveFile
    <3>3. QED
      BY <1>0, <3>1, <3>2
  <2>5. QED
    BY <2>3, <2>4
<1>8. CASE UNCHANGED vars
  <2>1. \A q \in Procs : ~Saving(q, g)
    BY <1>8 DEF Saving, SaveFile, vars
  <2>2. QED
    BY <1>0, <1>8, <2>1 DEF vars
<1>9. Goal
  BY <1>1, <1>2, <1>3, <1>4, <1>5, <1>6, <1>7, <1>8 DEF Steps
<1>10. QED
  BY <1>0, <1>9

(* Loading the acknowledged settings is loading the file nobody is saving. *)
LEMMA LoadIsKnown ==
    ASSUME TypeOK, NEW p \in Procs, NEW f \in Paths, Loads(file[f]),
           Resolved(file[f]) = Resolved(acked[f])
    PROVE  Knows(p, Load(p, file[f]), acked[f])
<1>1. file[f] \in Docs \cup {Garbled} /\ acked[f] \in Docs
  BY DEF TypeOK
<1>2. Loads(acked[f]) /\ Load(p, file[f]) = Load(p, acked[f]) /\ Load(p, file[f]) \in Docs
  BY <1>1, ResolvedIsLoaded, LoadIsTyped
<1>3. [Load(p, file[f]) EXCEPT !.active = Load(p, file[f]).active] = Load(p, file[f])
  BY <1>2 DEF Docs
<1>4. QED
  BY <1>2, <1>3 DEF Knows

(* The service knows the rest, whatever it covers now. *)
LEMMA ServiceKnows ==
    ASSUME NEW before \in Docs, NEW after \in Docs, NEW text, Knows(serve, before, text),
           after = [before EXCEPT !.active = after.active]
    PROVE  Knows(serve, after, text)
<1> DEFINE loaded == Load(serve, text)
<1>1. Loads(text) /\ before = [loaded EXCEPT !.active = before.active]
  BY DEF Knows
<1>2. after = [[loaded EXCEPT !.active = before.active] EXCEPT !.active = after.active]
  BY <1>1
<1>3. [[loaded EXCEPT !.active = before.active] EXCEPT !.active = after.active]
        = [loaded EXCEPT !.active = after.active]
  OBVIOUS
<1>4. QED
  BY <1>1, <1>2, <1>3 DEF Knows

(* And knows it still when it has saved its selection. *)
LEMMA ServiceKnowsWhatItSaved ==
    ASSUME NEW settings \in Docs, NEW text \in Docs, Knows(serve, settings, text),
           Valid(settings.active)
    PROVE  Knows(serve, settings, Put(WithEnv(serve, text), settings, "sports"))
<1> DEFINE env == WithEnv(serve, text)
           new == Put(env, settings, "sports")
<1>1. serve \in Procs
  BY DEF Procs
<1>2. env \in Docs
  BY <1>1, WithEnvIsTyped
<1>3. new = [env EXCEPT !.active = settings.active]
  BY DEF Put
<1>4. ResolveMany(settings.active).error = "none"
        /\ ResolveMany(settings.active).keys = settings.active
  BY DEF Valid
<1>5. new \in Docs /\ new.active = settings.active
  BY <1>2, <1>3 DEF Docs
<1>6. Loads(new)
  BY <1>4, <1>5, SelectionAssumption DEF Loads
<1>7. settings = [Load(serve, text) EXCEPT !.active = settings.active]
  BY DEF Knows
<1>8. settings = [env EXCEPT !.active = settings.active]
  BY <1>2, <1>7 DEF Load, Docs
<1>9. settings = new
  BY <1>3, <1>8
<1>10. WithEnv(serve, new) = new
  <2>1. CASE EnvSchool[serve] = "none"
    BY <1>5, <2>1 DEF WithEnv, Docs
  <2>2. CASE EnvSchool[serve] # "none"
    <3>1. env.school = EnvSchool[serve]
      BY <2>2 DEF WithEnv, Docs
    <3>2. new.school = EnvSchool[serve]
      BY <1>2, <1>3, <3>1 DEF Docs
    <3>3. QED
      BY <1>5, <2>2, <3>2 DEF WithEnv, Docs
  <2>3. QED
    BY <2>1, <2>2
<1> HIDE DEF new
<1>11. [Load(serve, new) EXCEPT !.active = settings.active] = new
  <2>1. Load(serve, new) = [new EXCEPT !.active = ResolveMany(new.active).keys]
    BY <1>10 DEF Load
  <2>2. QED
    BY <1>4, <1>5, <2>1 DEF Docs
<1>12. QED
  BY <1>6, <1>9, <1>11 DEF Knows, new

Hands(p) == IF p = serve THEN {"ready", "saving"} ELSE {"ready"}

KnowingOf(p) ==
    proc[p].at \in Hands(p) /\ p \notin stale /\ proc[p].path \notin slipped
        => Knows(p, proc[p].cfg, acked[proc[p].path])

LEMMA KnowingInit == Init => Knowing
  BY DEF Init, Off, Knowing

LEMMA KnowingStep ==
    TypeOK /\ AllValid /\ History /\ [Next]_vars => Knowing'
<1> SUFFICES ASSUME TypeOK, AllValid, History, Steps, NEW q \in Procs,
                    proc'[q].at \in Hands(q), q \notin stale', proc'[q].path \notin slipped'
             PROVE  Knows(q, proc'[q].cfg, acked'[proc'[q].path])
  BY StepsCover DEF Knowing, Knows, Load, Loads, WithEnv, Hands
<1> DEFINE Goal == Knows(q, proc'[q].cfg, acked'[proc'[q].path])
<1>0. KnowingOf(q) /\ ServiceSaves /\ AcknowledgedStays /\ SavesAreSound
  BY DEF History, Knowing, KnowingOf, Hands
<1>1. proc[q].cfg \in Docs /\ proc[q].path \in Paths /\ acked[proc[q].path] \in Docs
        /\ Valid(proc[q].cfg.active)
  BY DEF TypeOK, AllValid
<1>2. ASSUME NEW p \in Procs, NEW f \in Paths, Start(p, f)
      PROVE  Goal
  <2>1. /\ Loads(file[f]) /\ proc'[p].path = f /\ proc'[p].cfg = Load(p, file[f])
        /\ OthersKeep(p) /\ UNCHANGED <<acked, slipped>>
        /\ \/ stale' = stale \cup {p}
           \/ stale' = stale /\ \A r \in Procs : ~Saving(r, f)
    BY <1>2, StartDoes
  <2>2. CASE q = p
    <3>1. \A r \in Procs : ~Saving(r, f)
      BY <2>1, <2>2
    <3>2. f \notin slipped
      BY <2>1, <2>2
    <3>3. Resolved(file[f]) = Resolved(acked[f])
      BY <1>0, <3>1, <3>2 DEF AcknowledgedStays
    <3>4. QED
      BY <2>1, <2>2, <3>3, LoadIsKnown
  <2>3. CASE q # p
    BY <1>0, <2>1, <2>3 DEF KnowingOf, OthersKeep
  <2>4. QED
    BY <2>2, <2>3
<1>3. ASSUME NEW p \in Procs, Opens(p)
      PROVE  Goal
  <2>1. /\ proc[p].at = "ready" /\ proc'[p].at = "saving" /\ proc'[p].path = proc[p].path
        /\ proc'[p].cfg \in Docs
        /\ p = serve => proc'[p].section = "sports"
        /\ Makes(proc[p].cfg, proc'[p].cfg, proc'[p].section)
        /\ OthersKeep(p) /\ acked' = acked
        /\ stale \subseteq stale' /\ slipped \subseteq slipped'
    BY <1>3, OpensDoes
  <2>2. CASE q = p
    <3>1. q = serve
      BY <2>1, <2>2 DEF Hands
    <3>2. Knows(q, proc[q].cfg, acked[proc[q].path])
      BY <1>0, <2>1, <2>2, <3>1 DEF KnowingOf, Hands
    <3>3. proc'[q].cfg = [proc[q].cfg EXCEPT !.active = proc'[q].cfg.active]
      BY <2>1, <2>2, <3>1 DEF Makes
    <3>4. QED
      BY <1>1, <2>1, <2>2, <3>1, <3>2, <3>3, ServiceKnows
  <2>3. CASE q # p
    BY <1>0, <2>1, <2>3 DEF KnowingOf, OthersKeep
  <2>4. QED
    BY <2>2, <2>3
<1>4. ASSUME NEW p \in Procs, Ends(p) \/ Stop(p)
      PROVE  Goal
  <2>1. /\ proc'[p].at = "off" /\ OthersKeep(p)
        /\ \A r \in stale : r # p /\ Running(r) => r \in stale'
        /\ slipped \subseteq slipped' /\ acked' = acked
    BY <1>4, LeavesDoes
  <2>2. q # p
    BY <2>1 DEF Hands
  <2>3. proc'[q] = proc[q] /\ Running(q)
    BY <2>1, <2>2 DEF OthersKeep, Running, Hands
  <2>4. QED
    BY <1>0, <2>1, <2>2, <2>3 DEF KnowingOf
<1>5. ASSUME NEW p \in Procs, NEW text, NEW a, Saved(p, text, a), q # p
      PROVE  /\ proc'[q] = proc[q] /\ q \notin stale /\ proc[q].path # SaveFile(p)
  <2>1. /\ OthersKeep(p)
        /\ \A r \in stale \cup Others(p, SaveFile(p)) : r # p /\ Running(r) => r \in stale'
    BY <1>5, SavedDoes
  <2>2. proc'[q] = proc[q] /\ Running(q)
    BY <1>5, <2>1 DEF OthersKeep, Running, Hands
  <2>3. q \notin stale /\ q \notin Others(p, SaveFile(p))
    BY <1>5, <2>1, <2>2
  <2>4. QED
    BY <1>5, <2>2, <2>3 DEF Others, Running
<1>6. ASSUME NEW text, NEW a, Saved(q, text, a)
      PROVE  /\ q = serve /\ proc[q].at = "saving" /\ q \notin stale
             /\ proc'[q].path = proc[q].path /\ proc'[q].cfg = proc[q].cfg
    BY <1>6, SavedDoes DEF Hands
<1>7. ASSUME NEW p \in Procs, Write(p)
      PROVE  Goal
  <2>1. PICK text \in Texts(p) : Saved(p, text, "ok")
    BY <1>7, WriteDoes
  <2>2. /\ acked'[proc[p].path] =
              Put(WithEnv(p, acked[proc[p].path]), proc[p].cfg, proc[p].section)
        /\ \A h \in Paths \ {proc[p].path} : acked'[h] = acked[h]
        /\ slipped \subseteq slipped'
        /\ proc[p].path \notin slipped' => proc[p].path = SaveFile(p)
    BY <1>7, WriteDoes
  <2>3. CASE q = p
    <3>1. /\ q = serve /\ proc[q].at = "saving" /\ q \notin stale
          /\ proc'[q].path = proc[q].path /\ proc'[q].cfg = proc[q].cfg
      BY <1>6, <2>1, <2>3
    <3>2. Knows(serve, proc[q].cfg, acked[proc[q].path])
      BY <1>0, <2>2, <3>1 DEF KnowingOf, Hands
    <3>3. proc[q].section = "sports"
      BY <1>0, <3>1 DEF ServiceSaves
    <3>4. QED
      BY <1>1, <2>2, <2>3, <3>1, <3>2, <3>3, ServiceKnowsWhatItSaved
  <2>4. CASE q # p
    <3>1. proc'[q] = proc[q] /\ q \notin stale /\ proc[q].path # SaveFile(p)
      BY <1>5, <2>1, <2>4
    <3>2. proc[q].path # proc[p].path
      BY <2>2, <3>1
    <3>3. QED
      BY <1>0, <1>1, <2>2, <3>1, <3>2 DEF KnowingOf
  <2>5. QED
    BY <2>3, <2>4
<1>8. ASSUME NEW p \in Procs, WriteFails(p)
      PROVE  Goal
  <2>1. PICK text \in Cuts(proc[p].cfg) : Saved(p, text, "failed")
    BY <1>8 DEF WriteFails
  <2>2. slipped \subseteq slipped' /\ acked' = acked
    BY <1>8 DEF WriteFails
  <2>3. CASE q = p
    <3>1. /\ q = serve /\ proc[q].at = "saving" /\ q \notin stale
          /\ proc'[q].path = proc[q].path /\ proc'[q].cfg = proc[q].cfg
      BY <1>6, <2>1, <2>3
    <3>2. QED
      BY <1>0, <2>2, <3>1 DEF KnowingOf, Hands
  <2>4. CASE q # p
    BY <1>0, <1>5, <2>1, <2>2, <2>4 DEF KnowingOf
  <2>5. QED
    BY <2>3, <2>4
<1>9. CASE Keeps
  <2>1. /\ proc[serve].at = "ready" /\ proc'[serve].path = proc[serve].path
        /\ proc'[serve].cfg = [proc[serve].cfg EXCEPT !.active = proc'[serve].cfg.active]
        /\ proc'[serve].cfg \in Docs
        /\ OthersKeep(serve)
        /\ \A r \in stale : Running(r) => r \in stale'
        /\ UNCHANGED <<acked, slipped>>
    BY <1>9, KeepsDoes
  <2>2. CASE q = serve
    <3>1. Knows(serve, proc[serve].cfg, acked[proc[serve].path])
      BY <1>0, <2>1, <2>2 DEF KnowingOf, Hands, Running
    <3>2. QED
      BY <1>1, <2>1, <2>2, <3>1, ServiceKnows
  <2>3. CASE q # serve
    <3>1. proc'[q] = proc[q] /\ Running(q)
      BY <2>1, <2>3 DEF OthersKeep, Running, Hands
    <3>2. QED
      BY <1>0, <2>1, <3>1 DEF KnowingOf
  <2>4. QED
    BY <2>2, <2>3
<1>10. ASSUME NEW f \in Paths, HandEdit(f)
       PROVE  Goal
  <2>1. PICK doc \in HandEdits : acked' = [acked EXCEPT ![f] = doc]
    BY <1>10 DEF HandEdit
  <2>2. /\ proc' = proc /\ slipped' = slipped \ {f}
        /\ stale' = stale \cup {p \in Procs : proc[p].at # "off" /\ proc[p].path = f}
    BY <1>10 DEF HandEdit
  <2>3. proc[q].path # f /\ q \notin stale /\ proc[q].path \notin slipped
    BY <2>2 DEF Hands
  <2>4. acked'[proc[q].path] = acked[proc[q].path]
    BY <1>1, <2>1, <2>3 DEF TypeOK
  <2>5. QED
    BY <1>0, <2>2, <2>3, <2>4 DEF KnowingOf
<1>11. CASE UNCHANGED vars
  BY <1>0, <1>11 DEF KnowingOf, vars
<1>12. QED
  BY <1>2, <1>3, <1>4, <1>7, <1>8, <1>9, <1>10, <1>11 DEF Steps

LEMMA SavesInit == Init => SavesAreSound
  BY DEF Init, Off, SavesAreSound

(* A save that is sound stays so while nothing touches its file or its      *)
(* process, nobody new has the file without being stale, or opens it.       *)
LEMMA SavesKept ==
    ASSUME TypeOK, NEW q \in Procs, NEW g, g = SaveFile(q),
           SavesTheTruth(q), SavesAlone(q), proc'[q] = proc[q],
           file'[g] = file[g], acked'[g] = acked[g], q \notin stale',
           \A r \in Procs \ {q} : r \in Others(q, g)' => r \in stale',
           \A r \in Procs \ {q} : ~Saving(r, g)'
    PROVE  SavesTheTruth(q)' /\ SavesAlone(q)'
<1>1. SaveFile(q)' = g
  BY DEF SaveFile
<1>2. SavesTheTruth(q)'
  BY <1>1 DEF SavesTheTruth, Reads, Resolved, Loads, WithEnv, Put
<1>3. Others(q, g)' \subseteq stale'
  BY DEF Others
<1>4. SavesAlone(q)'
  BY <1>1, <1>3 DEF SavesAlone, Others, Saving
<1>5. QED
  BY <1>2, <1>4

LEMMA SavesStep ==
    TypeOK /\ AllValid /\ History /\ [Next]_vars => SavesAreSound'
<1> SUFFICES ASSUME TypeOK, AllValid, History, Steps, NEW q \in Procs,
                    proc'[q].at = "saving", SaveFile(q)' \notin slipped',
                    NEW g \in Paths, g = SaveFile(q)
             PROVE  SavesTheTruth(q)' /\ SavesAlone(q)'
  BY StepsCover, SaveFileIsPath DEF SavesAreSound
<1> DEFINE Goal == SavesTheTruth(q)' /\ SavesAlone(q)'
<1>0. ServiceSaves /\ AcknowledgedStays /\ Knowing /\ SavesAreSound
  BY DEF History
<1>2. ASSUME NEW p \in Procs, NEW f \in Paths, Start(p, f)
      PROVE  Goal
  <2>1. /\ proc'[p].at = "ready" /\ proc'[p].path = f
        /\ OthersKeep(p) /\ UNCHANGED <<file, acked, slipped>>
        /\ \/ stale' = stale \cup {p}
           \/ stale' = stale /\ \A r \in Procs : ~Saving(r, f)
    BY <1>2, StartDoes
  <2>2. q # p /\ proc'[q] = proc[q]
    BY <2>1 DEF OthersKeep
  <2>3. Saving(q, g) /\ SaveFile(q)' = g
    BY <2>2 DEF Saving, SaveFile
  <2>4. SavesTheTruth(q) /\ SavesAlone(q)
    BY <1>0, <2>1, <2>3 DEF SavesAreSound, Saving
  <2>5. q \notin stale'
    BY <2>1, <2>2, <2>4 DEF SavesAlone
  <2>6. ASSUME NEW r \in Procs \ {q}, r \in Others(q, g)'
        PROVE  r \in stale'
    <3>1. CASE r = p
      <4>1. f = g
        BY <2>1, <2>6, <3>1 DEF Others
      <4>2. QED
        BY <2>1, <2>3, <3>1, <4>1
    <3>2. CASE r # p
      <4>1. r \in Others(q, g)
        BY <2>1, <2>6, <3>2 DEF Others, OthersKeep
      <4>2. QED
        BY <2>1, <2>4, <4>1 DEF SavesAlone
    <3>3. QED
      BY <3>1, <3>2
  <2>7. \A r \in Procs \ {q} : ~Saving(r, g)'
    <3>1. ~Saving(p, g)'
      BY <2>1 DEF Saving
    <3>2. QED
      BY <2>1, <2>4, <3>1, SavingKept DEF SavesAlone
  <2>8. QED
    BY <2>1, <2>2, <2>4, <2>5, <2>6, <2>7, SavesKept
<1>3. ASSUME NEW p \in Procs, Opens(p)
      PROVE  Goal
  <2>0. PICK f \in Paths : f = SaveFile(p)
    BY SaveFileIsPath
  <2>1. /\ f \in Paths /\ proc[p].at = "ready"
        /\ proc'[p].at = "saving" /\ proc'[p].path = proc[p].path
        /\ proc'[p].cfg \in Docs /\ proc'[p].section \in Sections
        /\ p = serve => proc'[p].section = "sports"
        /\ Makes(proc[p].cfg, proc'[p].cfg, proc'[p].section)
        /\ OthersKeep(p)
        /\ file'[f] = Defaults /\ \A h \in Paths \ {f} : file'[h] = file[h]
        /\ stale' = stale \cup Others(p, f)
        /\ slipped \subseteq slipped'
        /\ f \notin slipped' => p \notin stale /\ proc[p].path = f
        /\ acked' = acked
    BY <1>3, <2>0, OpensDoes
  <2>2. SaveFile(p)' = f /\ ~Saving(p, f)
    BY <2>0, <2>1 DEF SaveFile, Saving
  <2>3. ASSUME NEW r \in Procs, r # p, Saving(r, f), f \notin slipped'
        PROVE  FALSE
    <3>1. SavesAlone(r)
      BY <1>0, <2>1, <2>3 DEF SavesAreSound, Saving
    <3>2. p \in Others(r, f)
      BY <2>1, <2>3 DEF Others
    <3>3. QED
      BY <2>1, <2>3, <3>1, <3>2 DEF SavesAlone, Saving
  <2>4. CASE q = p
    <3>1. f \notin slipped' /\ f \notin slipped /\ p \notin stale /\ proc[p].path = f
      BY <2>1, <2>2, <2>4
    <3>2. Knows(p, proc[p].cfg, acked[f])
      BY <1>0, <2>1, <3>1 DEF Knowing
    <3>3. proc[p].cfg \in Docs /\ acked[f] \in Docs /\ Valid(proc[p].cfg.active)
      BY <2>1 DEF TypeOK, AllValid
    <3>4. Reads(Put(WithEnv(p, acked[f]), proc'[p].cfg, proc'[p].section), proc'[p].cfg)
      BY <2>1, <3>2, <3>3, ChangesItsSection
    <3>5. SavesTheTruth(p)'
      BY <2>1, <2>2, <3>1, <3>4 DEF SavesTheTruth, Reads, Resolved, Loads, WithEnv, Put
    <3>6. \A r \in Procs \ {p} : ~Saving(r, f)'
      BY <2>1, <2>3, <3>1, SavingKept
    <3>7. Others(p, f)' \subseteq stale' /\ p \notin stale'
      BY <2>1, <3>1 DEF Others, OthersKeep
    <3>8. SavesAlone(p)'
      BY <2>1, <2>2, <3>6, <3>7 DEF SavesAlone, Others, Saving
    <3>9. QED
      BY <2>4, <3>5, <3>8
  <2>5. CASE q # p
    <3>1. proc'[q] = proc[q] /\ Saving(q, g) /\ SaveFile(q)' = g
      BY <2>1, <2>5 DEF OthersKeep, Saving, SaveFile
    <3>2. SavesTheTruth(q) /\ SavesAlone(q)
      BY <1>0, <2>1, <3>1 DEF SavesAreSound, Saving
    <3>3. g # f
      BY <2>3, <2>5, <3>1
    <3>4. file'[g] = file[g] /\ acked'[g] = acked[g]
      BY <2>1, <3>3
    <3>5. q \notin stale'
      BY <2>1, <3>2, <3>3 DEF SavesTheTruth, SavesAlone, Others
    <3>6. ASSUME NEW r \in Procs \ {q}, r \in Others(q, g)'
          PROVE  r \in stale'
      <4>1. r \in Others(q, g)
        BY <2>1, <3>6 DEF Others, OthersKeep
      <4>2. QED
        BY <2>1, <3>2, <4>1 DEF SavesAlone
    <3>7. \A r \in Procs \ {q} : ~Saving(r, g)'
      <4>1. ~Saving(p, g)'
        BY <2>2, <3>3 DEF Saving
      <4>2. QED
        BY <2>1, <3>2, <4>1, SavingKept DEF SavesAlone
    <3>8. QED
      BY <3>1, <3>2, <3>4, <3>5, <3>6, <3>7, SavesKept
  <2>6. QED
    BY <2>4, <2>5
<1>4. ASSUME NEW p \in Procs, proc'[p].at # "saving", OthersKeep(p),
             file'[g] = file[g], acked'[g] = acked[g],
             slipped \subseteq slipped', q # p,
             \A r \in Others(q, g)' : r \in Others(q, g),
             SavesTheTruth(q) /\ SavesAlone(q) =>
                 /\ q \notin stale'
                 /\ \A r \in stale : r \in Others(q, g)' => r \in stale'
      PROVE  Goal
  <2>1. proc'[q] = proc[q] /\ Saving(q, g) /\ SaveFile(q)' = g
    BY <1>4 DEF OthersKeep, Saving, SaveFile
  <2>2. SavesTheTruth(q) /\ SavesAlone(q)
    BY <1>0, <1>4, <2>1 DEF SavesAreSound, Saving
  <2>3. \A r \in Procs \ {q} : r \in Others(q, g)' => r \in stale'
    BY <1>4, <2>2 DEF SavesAlone
  <2>4. \A r \in Procs \ {q} : ~Saving(r, g)'
    <3>1. ~Saving(p, g)'
      BY <1>4 DEF Saving
    <3>2. QED
      BY <1>4, <2>2, <3>1, SavingKept DEF SavesAlone
  <2>5. QED
    BY <1>4, <2>1, <2>2, <2>3, <2>4, SavesKept
<1>5. ASSUME NEW p \in Procs, Ends(p) \/ Stop(p)
      PROVE  Goal
  <2>1. /\ proc'[p].at = "off" /\ OthersKeep(p)
        /\ stale' \subseteq stale
        /\ \A r \in stale : r # p /\ Running(r) => r \in stale'
        /\ slipped \subseteq slipped' /\ UNCHANGED <<file, acked>>
    BY <1>5, LeavesDoes
  <2>2. q # p
    BY <2>1
  <2>3. \A r \in Others(q, g)' : r \in Others(q, g) /\ r # p /\ Running(r)
    BY <2>1 DEF Others, OthersKeep, Running
  <2>4. QED
    BY <1>4, <2>1, <2>2, <2>3 DEF SavesAlone
<1>6. ASSUME NEW p \in Procs, NEW text, NEW a, Saved(p, text, a), slipped \subseteq slipped',
             g \notin slipped' => acked'[g] = acked[g]
      PROVE  Goal
  <2>0. PICK f \in Paths : f = SaveFile(p)
    BY SaveFileIsPath
  <2>1. /\ f \in Paths /\ proc[p].at = "saving" /\ proc'[p].at # "saving"
        /\ proc'[p].at = "off" \/ proc'[p].path = proc[p].path
        /\ OthersKeep(p)
        /\ \A h \in Paths \ {f} : file'[h] = file[h]
        /\ stale' \subseteq stale \cup Others(p, f)
        /\ \A r \in stale \cup Others(p, f) : r # p /\ Running(r) => r \in stale'
        /\ p = serve /\ p \in stale => p \in stale'
        /\ p # serve => proc'[p].at = "off"
    BY <1>6, <2>0, SavedDoes
  <2>2. q # p /\ proc'[q] = proc[q]
    BY <2>1 DEF OthersKeep
  <2>3. SaveFile(q)' = g /\ proc[q].at = "saving"
    BY <2>2 DEF SaveFile
  <2>4. g \notin slipped /\ acked'[g] = acked[g]
    BY <1>6, <2>3
  <2>5. SavesTheTruth(q) /\ SavesAlone(q)
    BY <1>0, <2>3, <2>4 DEF SavesAreSound
  <2>6. g # f
    BY <2>0, <2>1, <2>2, <2>5 DEF SavesAlone, Saving
  <2>7. \A r \in Others(q, g)' : r \in Others(q, g) /\ Running(r)
    BY <2>1 DEF Others, OthersKeep, Running
  <2>8. q \notin stale'
    BY <2>1, <2>5, <2>6 DEF SavesTheTruth, SavesAlone, Others
  <2>9. \A r \in stale : r \in Others(q, g)' => r \in stale'
    <3>1. p \in stale /\ p \in Others(q, g)' => p \in stale'
      BY <2>1 DEF Others
    <3>2. QED
      BY <2>1, <2>7, <3>1
  <2>10. QED
    BY <1>4, <1>6, <2>1, <2>2, <2>4, <2>6, <2>7, <2>8, <2>9
<1>7. ASSUME NEW p \in Procs, Write(p)
      PROVE  Goal
  <2>1. PICK text \in Texts(p) : Saved(p, text, "ok")
    BY <1>7, WriteDoes
  <2>2. /\ \A h \in Paths \ {proc[p].path} : acked'[h] = acked[h]
        /\ slipped \subseteq slipped'
        /\ proc[p].path \notin slipped' => proc[p].path = SaveFile(p)
    BY <1>7, WriteDoes
  <2>3. OthersKeep(p) /\ proc'[p].at # "saving" /\ proc[p].at = "saving"
    BY <2>1, SavedDoes
  <2>4. q # p /\ SaveFile(q)' = g /\ proc[q].at = "saving"
    BY <2>3 DEF OthersKeep, SaveFile
  <2>5. g # SaveFile(p)
    <3>1. SavesAlone(q)
      BY <1>0, <2>2, <2>4 DEF SavesAreSound
    <3>2. QED
      BY <2>3, <2>4, <3>1 DEF SavesAlone, Saving
  <2>6. acked'[g] = acked[g]
    BY <2>2, <2>4, <2>5
  <2>7. QED
    BY <1>6, <2>1, <2>2, <2>6
<1>8. ASSUME NEW p \in Procs, WriteFails(p)
      PROVE  Goal
  <2>1. PICK text \in Cuts(proc[p].cfg) : Saved(p, text, "failed")
    BY <1>8 DEF WriteFails
  <2>2. slipped \subseteq slipped' /\ acked' = acked
    BY <1>8 DEF WriteFails
  <2>3. QED
    BY <1>6, <2>1, <2>2
<1>9. CASE Keeps
  <2>1. /\ serve \in Procs /\ proc'[serve].at = "ready" /\ proc[serve].at = "ready"
        /\ proc'[serve].path = proc[serve].path
        /\ OthersKeep(serve) /\ stale' \subseteq stale
        /\ \A r \in stale : Running(r) => r \in stale'
        /\ UNCHANGED <<file, acked, slipped>>
    BY <1>9, KeepsDoes
  <2>2. q # serve
    BY <2>1
  <2>3. \A r \in Others(q, g)' : r \in Others(q, g) /\ Running(r)
    BY <2>1 DEF Others, OthersKeep, Running
  <2>4. QED
    BY <1>4, <2>1, <2>2, <2>3 DEF SavesAlone
<1>10. ASSUME NEW f \in Paths, HandEdit(f)
       PROVE  Goal
  <2>1. PICK doc \in HandEdits :
          file' = [file EXCEPT ![f] = doc] /\ acked' = [acked EXCEPT ![f] = doc]
    BY <1>10 DEF HandEdit
  <2>2. /\ proc' = proc /\ slipped' = slipped \ {f}
        /\ \A p \in Procs : ~Saving(p, f)
        /\ stale' = stale \cup {p \in Procs : proc[p].at # "off" /\ proc[p].path = f}
    BY <1>10 DEF HandEdit
  <2>3. SaveFile(q)' = g /\ Saving(q, g) /\ g # f
    BY <2>2 DEF SaveFile, Saving
  <2>4. SavesTheTruth(q) /\ SavesAlone(q)
    BY <1>0, <2>2, <2>3 DEF SavesAreSound, Saving
  <2>5. file'[g] = file[g] /\ acked'[g] = acked[g]
    BY <2>1, <2>3 DEF TypeOK
  <2>6. q \notin stale'
    BY <2>2, <2>3, <2>4 DEF SavesTheTruth, SavesAlone
  <2>7. \A r \in Procs \ {q} : r \in Others(q, g)' => r \in stale'
    BY <2>2, <2>4 DEF SavesAlone, Others
  <2>8. \A r \in Procs \ {q} : ~Saving(r, g)'
    BY <2>2, <2>4 DEF SavesAlone, Saving, SaveFile
  <2>9. QED
    BY <2>2, <2>4, <2>5, <2>6, <2>7, <2>8, SavesKept
<1>11. CASE UNCHANGED vars
  <2>1. SavesTheTruth(q) /\ SavesAlone(q) /\ g \notin slipped
    BY <1>0, <1>11 DEF SavesAreSound, SaveFile, vars
  <2>2. \A r \in Procs \ {q} : ~Saving(r, g)'
    BY <1>11, <2>1 DEF SavesAlone, Saving, SaveFile, vars
  <2>3. \A r \in Procs \ {q} : r \in Others(q, g)' => r \in stale'
    BY <1>11, <2>1 DEF SavesAlone, Others, vars
  <2>4. QED
    BY <1>11, <2>1, <2>2, <2>3, SavesKept DEF vars, SavesAlone
<1>12. QED
  BY <1>2, <1>3, <1>5, <1>7, <1>8, <1>9, <1>10, <1>11 DEF Steps

LEMMA ServiceSavesInit == Init => ServiceSaves
  BY DEF Init, Off, Procs, ServiceSaves

LEMMA AlwaysHistory == Spec => [](TypeOK /\ AllValid /\ History)
<1>1. Init => History
  BY ServiceSavesInit, AcknowledgedInit, KnowingInit, SavesInit DEF History
<1>2. TypeOK /\ AllValid /\ History /\ [Next]_vars => History'
  BY ServiceSavesStep, AcknowledgedStep, KnowingStep, SavesStep DEF History
<1>3. QED
  BY <1>1, <1>2, TypeOKInit, TypeOKStep, AllValidInit, AllValidStep, PTL DEF Spec

(* What was acknowledged is in the file, until a lost update, a cut or a    *)
(* misdirected save (save_settings, cli.py _save, service/app.py).          *)
THEOREM WhatIsAcknowledgedStays == Spec => []AcknowledgedStays
<1>1. History => AcknowledgedStays
  BY DEF History
<1>2. QED
  BY <1>1, AlwaysHistory, PTL

-----------------------------------------------------------------------------
(* A restart of the service *)

(* A service that saves, and that nobody overtook, finds the file empty. *)
FindsItEmpty ==
    proc[serve].at = "saving" /\ proc[serve].path = Default /\ serve \notin stale
        => file[Default] = Defaults

(* The environment's school is the service's as long as it runs. *)
KeepsItsSchool ==
    Running(serve) /\ EnvSchool[serve] # "none" => proc[serve].cfg.school = EnvSchool[serve]

Restarting == FindsItEmpty /\ KeepsItsSchool /\ RestartKeepsTheSelection

(* Settings that are valid and have the environment's school load as they are. *)
LEMMA LoadsAsItIs ==
    ASSUME NEW p \in Procs, NEW settings \in Docs, Valid(settings.active),
           EnvSchool[p] # "none" => settings.school = EnvSchool[p]
    PROVE  Loads(settings) /\ Load(p, settings) = settings
<1>1. Loads(settings)
  BY SelectionAssumption DEF Valid, Loads
<1>2. WithEnv(p, settings) = settings
  BY DEF WithEnv, Docs
<1>3. [settings EXCEPT !.active = ResolveMany(settings.active).keys] = settings
  BY DEF Valid, Docs
<1>4. Load(p, settings) = settings
  BY <1>2, <1>3 DEF Load
<1>5. QED
  BY <1>1, <1>4

LEMMA RestartingInit == Init => Restarting
  BY DEF Init, Off, Procs, Restarting, FindsItEmpty, KeepsItsSchool, Running,
         RestartKeepsTheSelection

(* Another process leaves the service's file alone, or leaves it stale. *)
LEMMA RestartingKept ==
    ASSUME Restarting, proc'[serve] = proc[serve], answered' = answered,
           serve \notin stale' /\ Running(serve) /\ proc[serve].path = Default
               => serve \notin stale /\ file'[Default] = file[Default]
    PROVE  Restarting'
<1>1. FindsItEmpty'
  BY DEF Restarting, FindsItEmpty, Running
<1>2. KeepsItsSchool'
  BY DEF Restarting, KeepsItsSchool, Running
<1>3. RestartKeepsTheSelection'
  BY DEF Restarting, RestartKeepsTheSelection, Running, Loads, Load, WithEnv
<1>4. QED
  BY <1>1, <1>2, <1>3 DEF Restarting

(* What is left to show when it is the service that takes the step. *)
LEMMA RestartingAgain ==
    ASSUME proc'[serve].at = "saving" /\ proc'[serve].path = Default /\ serve \notin stale'
               => file'[Default] = Defaults,
           proc'[serve].at # "off" /\ EnvSchool[serve] # "none"
               => proc'[serve].cfg.school = EnvSchool[serve],
           proc'[serve].at = "ready" /\ proc'[serve].path = Default /\ answered' = "ok"
             /\ serve \notin stale'
               => Loads(file'[Default]) /\ Load(serve, file'[Default]) = proc'[serve].cfg
    PROVE  Restarting'
<1>1. FindsItEmpty' /\ KeepsItsSchool'
  BY DEF FindsItEmpty, KeepsItsSchool, Running
<1>2. RestartKeepsTheSelection'
  BY DEF RestartKeepsTheSelection, Loads, Load, WithEnv
<1>3. QED
  BY <1>1, <1>2 DEF Restarting

LEMMA RestartingStep == TypeOK /\ AllValid /\ Restarting /\ [Next]_vars => Restarting'
<1> SUFFICES ASSUME TypeOK, AllValid, Restarting, Steps PROVE Restarting'
  BY StepsCover
<1>0. /\ serve \in Procs /\ Default \in Paths
      /\ proc[serve].cfg \in Docs /\ Valid(proc[serve].cfg.active)
  BY SelectionAssumption DEF TypeOK, AllValid, Procs
<1>1. ASSUME NEW p \in Procs, NEW f \in Paths, Start(p, f)
      PROVE  Restarting'
  <2>1. /\ Loads(file[f])
        /\ proc'[p].at = "ready" /\ proc'[p].path = f /\ proc'[p].cfg = Load(p, file[f])
        /\ OthersKeep(p) /\ file' = file
        /\ stale' = stale \cup {p} \/ stale' = stale
        /\ p # serve => answered' = answered
    BY <1>1, StartDoes
  <2>2. CASE p = serve
    <3>1. EnvSchool[serve] # "none" => Load(serve, file[f]).school = EnvSchool[serve]
      <4>1. file[f] \in Docs
        BY <2>1, <2>2, LoadIsTyped DEF TypeOK
      <4>2. QED
        BY <4>1 DEF Load, WithEnv, Docs
    <3>2. QED
      BY <2>1, <2>2, <3>1, RestartingAgain
  <2>3. CASE p # serve
    BY <1>0, <2>1, <2>3, RestartingKept DEF OthersKeep
  <2>4. QED
    BY <2>2, <2>3
<1>2. ASSUME NEW p \in Procs, Opens(p)
      PROVE  Restarting'
  <2>1. /\ proc[p].at = "ready" /\ proc'[p].at = "saving" /\ proc'[p].path = proc[p].path
        /\ proc'[p].cfg \in Docs
        /\ p = serve => proc'[p].section = "sports"
        /\ Makes(proc[p].cfg, proc'[p].cfg, proc'[p].section)
        /\ OthersKeep(p)
        /\ file'[SaveFile(p)] = Defaults
        /\ \A g \in Paths \ {SaveFile(p)} : file'[g] = file[g]
        /\ stale' = stale \cup Others(p, SaveFile(p))
        /\ answered' = answered
    BY <1>2, OpensDoes
  <2>2. CASE p = serve
    <3>1. proc'[serve].cfg = [proc[serve].cfg EXCEPT !.active = proc'[serve].cfg.active]
      BY <2>1, <2>2 DEF Makes
    <3>2. proc'[serve].cfg.school = proc[serve].cfg.school
      BY <1>0, <3>1 DEF Docs
    <3>3. EnvSchool[serve] # "none" => proc'[serve].cfg.school = EnvSchool[serve]
      BY <2>1, <2>2, <3>2 DEF Restarting, KeepsItsSchool, Running
    <3>4. file'[Default] = Defaults
      BY <2>1, <2>2 DEF SaveFile
    <3>5. QED
      BY <2>1, <2>2, <3>3, <3>4, RestartingAgain
  <2>3. CASE p # serve
    <3>1. proc'[serve] = proc[serve] /\ stale \subseteq stale'
      BY <1>0, <2>1, <2>3 DEF OthersKeep
    <3>2. ASSUME serve \notin stale', Running(serve), proc[serve].path = Default
          PROVE  file'[Default] = file[Default]
      <4>1. SaveFile(p) # Default
        BY <1>0, <2>1, <2>3, <3>2 DEF Others, Running
      <4>2. QED
        BY <1>0, <2>1, <4>1
    <3>3. QED
      BY <2>1, <3>1, <3>2, RestartingKept
  <2>4. QED
    BY <2>2, <2>3
<1>3. ASSUME NEW p \in Procs, Ends(p) \/ Stop(p)
      PROVE  Restarting'
  <2>1. /\ proc'[p].at = "off" /\ OthersKeep(p)
        /\ \A q \in stale : q # p /\ Running(q) => q \in stale'
        /\ UNCHANGED <<file, answered>>
    BY <1>3, LeavesDoes
  <2>2. CASE p = serve
    BY <2>1, <2>2, RestartingAgain
  <2>3. CASE p # serve
    BY <1>0, <2>1, <2>3, RestartingKept DEF OthersKeep
  <2>4. QED
    BY <2>2, <2>3
<1>4. ASSUME NEW p \in Procs, p # serve, NEW text, NEW a, Saved(p, text, a)
      PROVE  Restarting'
  <2>1. /\ answered' = answered /\ OthersKeep(p)
        /\ \A g \in Paths \ {SaveFile(p)} : file'[g] = file[g]
        /\ \A q \in stale \cup Others(p, SaveFile(p)) : q # p /\ Running(q) => q \in stale'
    BY <1>4, SavedDoes
  <2>2. proc'[serve] = proc[serve]
    BY <1>0, <1>4, <2>1 DEF OthersKeep
  <2>3. ASSUME serve \notin stale', Running(serve), proc[serve].path = Default
        PROVE  serve \notin stale /\ file'[Default] = file[Default]
    <3>1. serve \notin stale /\ serve \notin Others(p, SaveFile(p))
      BY <1>4, <2>1, <2>3
    <3>2. SaveFile(p) # Default
      BY <1>0, <1>4, <2>3, <3>1 DEF Others, Running
    <3>3. QED
      BY <1>0, <2>1, <3>1, <3>2
  <2>4. QED
    BY <2>1, <2>2, <2>3, RestartingKept
<1>5. ASSUME Write(serve)
      PROVE  Restarting'
  <2>1. PICK text \in Texts(serve) : Saved(serve, text, "ok")
    BY <1>5 DEF Write
  <2>2. /\ proc[serve].at = "saving" /\ proc'[serve].at = "ready"
        /\ proc'[serve].path = proc[serve].path /\ proc'[serve].cfg = proc[serve].cfg
        /\ serve \in stale => serve \in stale'
        /\ file'[SaveFile(serve)] = text
    BY <1>0, <2>1, SavedDoes
  <2>3. EnvSchool[serve] # "none" => proc[serve].cfg.school = EnvSchool[serve]
    BY <2>2 DEF Restarting, KeepsItsSchool, Running
  <2>4. ASSUME proc[serve].path = Default, serve \notin stale'
        PROVE  file'[Default] = proc[serve].cfg
    <3>1. file[Default] = Defaults
      BY <2>2, <2>4 DEF Restarting, FindsItEmpty
    <3>2. SaveFile(serve) = Default
      BY DEF SaveFile
    <3>3. QED
      BY <2>1, <2>2, <3>1, <3>2 DEF Texts
  <2>5. Loads(proc[serve].cfg) /\ Load(serve, proc[serve].cfg) = proc[serve].cfg
    BY <1>0, <2>3, LoadsAsItIs
  <2>6. QED
    BY <2>2, <2>3, <2>4, <2>5, RestartingAgain
<1>6. ASSUME WriteFails(serve)
      PROVE  Restarting'
  <2>1. PICK text \in Cuts(proc[serve].cfg) : Saved(serve, text, "failed")
    BY <1>6 DEF WriteFails
  <2>2. /\ proc[serve].at = "saving" /\ proc'[serve].at = "ready"
        /\ proc'[serve].cfg = proc[serve].cfg /\ answered' = "failed"
    BY <1>0, <2>1, SavedDoes
  <2>3. EnvSchool[serve] # "none" => proc[serve].cfg.school = EnvSchool[serve]
    BY <2>2 DEF Restarting, KeepsItsSchool, Running
  <2>4. QED
    BY <2>2, <2>3, RestartingAgain
<1>7. CASE Keeps
  <2>1. /\ proc[serve].at = "ready" /\ proc'[serve].at = "ready"
        /\ proc'[serve].path = proc[serve].path
        /\ proc'[serve].cfg = [proc[serve].cfg EXCEPT !.active = proc'[serve].cfg.active]
        /\ answered' = "failed"
              \/ (answered' = answered /\ proc'[serve].cfg = proc[serve].cfg)
        /\ \A q \in stale : Running(q) => q \in stale'
        /\ file' = file
    BY <1>7, KeepsDoes
  <2>2. proc'[serve].cfg.school = proc[serve].cfg.school
    BY <1>0, <2>1 DEF Docs
  <2>3. EnvSchool[serve] # "none" => proc'[serve].cfg.school = EnvSchool[serve]
    BY <2>1, <2>2 DEF Restarting, KeepsItsSchool, Running
  <2>4. ASSUME proc'[serve].path = Default, answered' = "ok", serve \notin stale'
        PROVE  Loads(file'[Default]) /\ Load(serve, file'[Default]) = proc'[serve].cfg
    <3>1. serve \notin stale /\ answered = "ok" /\ proc'[serve].cfg = proc[serve].cfg
      BY <2>1, <2>4 DEF Running
    <3>2. QED
      BY <2>1, <2>4, <3>1 DEF Restarting, RestartKeepsTheSelection
  <2>5. QED
    BY <2>1, <2>3, <2>4, RestartingAgain
<1>8. ASSUME NEW f \in Paths, HandEdit(f)
      PROVE  Restarting'
  <2>1. PICK doc \in HandEdits : file' = [file EXCEPT ![f] = doc]
    BY <1>8 DEF HandEdit
  <2>2. /\ UNCHANGED <<proc, answered>>
        /\ stale' = stale \cup {p \in Procs : proc[p].at # "off" /\ proc[p].path = f}
    BY <1>8 DEF HandEdit
  <2>3. ASSUME serve \notin stale', Running(serve), proc[serve].path = Default
        PROVE  serve \notin stale /\ file'[Default] = file[Default]
    <3>1. serve \notin stale /\ f # Default
      BY <1>0, <2>2, <2>3 DEF Running
    <3>2. QED
      BY <1>0, <2>1, <3>1 DEF TypeOK
  <2>4. QED
    BY <2>2, <2>3, RestartingKept
<1>9. CASE UNCHANGED vars
  BY <1>9, RestartingKept DEF vars
<1>10. ASSUME NEW p \in Procs, Write(p) \/ WriteFails(p)
       PROVE  Restarting'
  <2>1. CASE p = serve
    BY <1>5, <1>6, <1>10, <2>1
  <2>2. CASE p # serve
    <3>1. PICK text \in Texts(p) \cup Cuts(proc[p].cfg), a \in {"ok", "failed"} : Saved(p, text, a)
      BY <1>10 DEF Write, WriteFails
    <3>2. QED
      BY <1>4, <2>2, <3>1
  <2>3. QED
    BY <2>1, <2>2
<1>11. QED
  BY <1>1, <1>2, <1>3, <1>7, <1>8, <1>9, <1>10 DEF Steps

(* Loading the standard file again gives the settings the service has, but  *)
(* for a PUT that failed, another one's save, or another file (create_app). *)
THEOREM ARestartKeepsTheSelection == Spec => []RestartKeepsTheSelection
<1>1. Restarting => RestartKeepsTheSelection
  BY DEF Restarting
<1>2. QED
  BY <1>1, RestartingInit, RestartingStep, AllValidInit, AllValidStep, TypeOKInit, TypeOKStep,
     PTL DEF Spec


-----------------------------------------------------------------------------
(* The pages of the sports covered *)

LEMMA SegmentsDiffer ==
    /\ \A x \in Genders : x \notin Levels \cup Seasons \cup Tabs \cup Years \cup {"none"}
    /\ \A x \in Levels : x \notin Genders \cup Seasons \cup Tabs \cup Years \cup {"none"}
    /\ \A x \in Seasons : x \notin Genders \cup Levels \cup Tabs \cup Years \cup {"none"}
    /\ "schedule" \in Tabs
  BY DEF Genders, Levels, Seasons, Tabs, Years

(* A sequence of n items and one more. *)
OneMore(more, seq, n, x) ==
    Len(more) = n + 1 /\ more[n + 1] = x /\ \A i \in 1..n : more[i] = seq[i]

LEMMA NothingMore ==
    ASSUME NEW S, NEW seq \in Seq(S), NEW x, x = "none"
    PROVE  seq \o Maybe(x) = seq
  BY DEF Maybe

LEMMA MaybeAdds ==
    ASSUME NEW S, NEW seq \in Seq(S), NEW x \in S, x # "none"
    PROVE  seq \o Maybe(x) \in Seq(S) /\ OneMore(seq \o Maybe(x), seq, Len(seq), x)
<1>1. Maybe(x) \in Seq(S) /\ Len(Maybe(x)) = 1 /\ Maybe(x)[1] = x
  BY DEF Maybe
<1>2. seq \o Maybe(x) \in Seq(S) /\ Follows(seq \o Maybe(x), seq, Len(seq), Maybe(x), Len(Maybe(x)))
  BY <1>1, ConcatFollows
<1>3. QED
  BY <1>1, <1>2 DEF Follows, OneMore

(* What stands between the sport and the tab. *)
Behind(g, l, s) ==
    IF g = "none" THEN IF l = "none" THEN <<s>> ELSE <<l, s>>
                  ELSE IF l = "none" THEN <<g, s>> ELSE <<g, l, s>>

Laid(page, school, slug, rest) ==
    /\ Len(page) = Len(rest) + 3
    /\ page[1] = school /\ page[2] = slug /\ page[Len(rest) + 3] = "schedule"
    /\ \A i \in 1..Len(rest) : page[i + 2] = rest[i]

LEMMA PageItems ==
    ASSUME NEW school, NEW slug, NEW g, NEW l, NEW s, s # "none"
    PROVE  LET page == <<school, slug>> \o Maybe(g) \o Maybe(l) \o Maybe(s) \o Maybe("schedule")
           IN  /\ page \in Seq({school, slug, g, l, s, "schedule"})
               /\ Laid(page, school, slug, Behind(g, l, s))
<1> DEFINE S == {school, slug, g, l, s, "schedule"}
           sport == <<school, slug>>
           gender == sport \o Maybe(g)
           level == gender \o Maybe(l)
           season == level \o Maybe(s)
           page == season \o Maybe("schedule")
<1>1. g \in S /\ l \in S /\ s \in S /\ "schedule" \in S /\ "schedule" # "none"
  OBVIOUS
<1>2. sport \in Seq(S) /\ Len(sport) = 2 /\ sport[1] = school /\ sport[2] = slug
  OBVIOUS
<1> HIDE DEF S, sport
<1>3. /\ gender \in Seq(S)
      /\ g = "none" => gender = sport
      /\ g # "none" => OneMore(gender, sport, 2, g)
  BY <1>1, <1>2, NothingMore, MaybeAdds
<1> HIDE DEF gender
<1>4. /\ level \in Seq(S)
      /\ l = "none" => level = gender
      /\ l # "none" => OneMore(level, gender, Len(gender), l)
  BY <1>1, <1>3, NothingMore, MaybeAdds
<1> HIDE DEF level
<1>5. season \in Seq(S) /\ OneMore(season, level, Len(level), s)
  BY <1>1, <1>4, MaybeAdds
<1> HIDE DEF season
<1>6. page \in Seq(S) /\ OneMore(page, season, Len(season), "schedule")
  BY <1>1, <1>5, MaybeAdds
<1> HIDE DEF page
<1>7. /\ gender[1] = school /\ gender[2] = slug
      /\ g = "none" => Len(gender) = 2
      /\ g # "none" => Len(gender) = 3 /\ gender[3] = g
  BY <1>2, <1>3 DEF OneMore
<1>8. ASSUME g # "none" /\ l # "none"
      PROVE  Laid(page, school, slug, Behind(g, l, s))
  <2>1. level[1] = school /\ level[2] = slug /\ level[3] = g /\ level[4] = l /\ Len(level) = 4
    <3>1. Len(gender) = 3 /\ gender[3] = g /\ OneMore(level, gender, 3, l)
      BY <1>4, <1>7, <1>8
    <3>2. QED
      BY <1>7, <3>1 DEF OneMore
  <2>2. /\ Len(page) = 6 /\ page[6] = "schedule" /\ page[5] = s
        /\ \A i \in 1..4 : page[i] = level[i]
    BY <1>5, <1>6, <2>1 DEF OneMore
  <2>3. Behind(g, l, s) = <<g, l, s>>
    BY <1>8 DEF Behind
  <2>4. QED
    BY <2>1, <2>2, <2>3 DEF Laid
<1>9. ASSUME g # "none" /\ l = "none"
      PROVE  Laid(page, school, slug, Behind(g, l, s))
  <2>1. level[1] = school /\ level[2] = slug /\ level[3] = g /\ Len(level) = 3
    BY <1>4, <1>7, <1>9
  <2>2. /\ Len(page) = 5 /\ page[5] = "schedule" /\ page[4] = s
        /\ \A i \in 1..3 : page[i] = level[i]
    BY <1>5, <1>6, <2>1 DEF OneMore
  <2>3. Behind(g, l, s) = <<g, s>>
    BY <1>9 DEF Behind
  <2>4. QED
    BY <2>1, <2>2, <2>3 DEF Laid
<1>10. ASSUME g = "none" /\ l # "none"
       PROVE  Laid(page, school, slug, Behind(g, l, s))
  <2>1. level[1] = school /\ level[2] = slug /\ level[3] = l /\ Len(level) = 3
    <3>1. Len(gender) = 2 /\ OneMore(level, gender, 2, l)
      BY <1>4, <1>7, <1>10
    <3>2. QED
      BY <1>7, <3>1 DEF OneMore
  <2>2. /\ Len(page) = 5 /\ page[5] = "schedule" /\ page[4] = s
        /\ \A i \in 1..3 : page[i] = level[i]
    BY <1>5, <1>6, <2>1 DEF OneMore
  <2>3. Behind(g, l, s) = <<l, s>>
    BY <1>10 DEF Behind
  <2>4. QED
    BY <2>1, <2>2, <2>3 DEF Laid
<1>11. ASSUME g = "none" /\ l = "none"
       PROVE  Laid(page, school, slug, Behind(g, l, s))
  <2>1. level[1] = school /\ level[2] = slug /\ Len(level) = 2
    BY <1>4, <1>7, <1>11
  <2>2. /\ Len(page) = 4 /\ page[4] = "schedule" /\ page[3] = s
        /\ \A i \in 1..2 : page[i] = level[i]
    BY <1>5, <1>6, <2>1 DEF OneMore
  <2>3. Behind(g, l, s) = <<s>>
    BY <1>11 DEF Behind
  <2>4. QED
    BY <2>1, <2>2, <2>3 DEF Laid
<1>12. Laid(page, school, slug, Behind(g, l, s))
  BY <1>8, <1>9, <1>10, <1>11
<1>13. QED
  BY <1>6, <1>12 DEF page, season, level, gender, sport, S

(* One of these n segments is of the class. *)
OnlyAt(segments, n, class, k) ==
    /\ n \in Nat /\ DOMAIN segments = 1..n /\ k \in 1..n
    /\ \A i \in 1..n : segments[i] \in class <=> i = k

LEMMA LastOfPlace ==
    ASSUME NEW segments, NEW n, NEW class, NEW k, OnlyAt(segments, n, class, k)
    PROVE  LastOf(segments, class) = segments[k]
<1> DEFINE hits == {i \in DOMAIN segments : segments[i] \in class}
<1>1. hits = {k} /\ k \in Nat
  BY DEF OnlyAt
<1>2. (CHOOSE i \in hits : \A j \in hits : j <= i) = k
  BY <1>1
<1>3. QED
  BY <1>1, <1>2 DEF LastOf

LEMMA LastOfNone ==
    ASSUME NEW segments, NEW class, \A i \in DOMAIN segments : segments[i] \notin class
    PROVE  LastOf(segments, class) = "none"
  BY DEF LastOf

LEMMA RestOfPage ==
    ASSUME NEW S, NEW page \in Seq(S), NEW school, NEW slug, NEW n \in Nat,
           NEW rest, Len(rest) = n, Laid(page, school, slug, rest),
           \A i \in 1..n : rest[i] \notin Tabs
    PROVE  LET found == BeforeTab(SubSeq(page, 3, Len(page)))
           IN  DOMAIN found = 1..n /\ \A i \in 1..n : found[i] = rest[i]
<1> DEFINE tail == SubSeq(page, 3, Len(page))
           tabs == {i \in DOMAIN tail : tail[i] \in Tabs}
<1>1. /\ Len(page) = n + 3 /\ page[n + 3] = "schedule"
      /\ \A i \in 1..n : page[i + 2] = rest[i]
  BY DEF Laid
<1>2. /\ tail \in Seq(S) /\ Len(tail) = n + 1 /\ DOMAIN tail = 1..(n + 1)
      /\ \A i \in 1..(n + 1) : tail[i] = page[i + 2]
  BY <1>1
<1> HIDE DEF tail
<1>3. tail[n + 1] \in Tabs /\ \A i \in 1..n : tail[i] = rest[i]
  BY <1>1, <1>2, SegmentsDiffer
<1>4. tabs = {n + 1}
  <2>1. \A i \in 1..(n + 1) : i = n + 1 \/ i \in 1..n
    OBVIOUS
  <2>2. QED
    BY <1>2, <1>3, <2>1
<1>5. (CHOOSE i \in tabs : \A j \in tabs : i <= j) = n + 1
  BY <1>4
<1>6. BeforeTab(tail) = SubSeq(tail, 1, n)
  BY <1>4, <1>5 DEF BeforeTab
<1>7. DOMAIN SubSeq(tail, 1, n) = 1..n /\ \A i \in 1..n : SubSeq(tail, 1, n)[i] = tail[i]
  BY <1>2
<1>8. QED
  BY <1>3, <1>6, <1>7 DEF tail

LEMMA BehindIsNoTab ==
    ASSUME NEW g \in Genders \cup {"none"}, NEW l \in Levels \cup {"none"}, NEW s \in Seasons
    PROVE  /\ Len(Behind(g, l, s)) \in Nat
           /\ \A i \in 1..Len(Behind(g, l, s)) : Behind(g, l, s)[i] \notin Tabs \cup Years
<1>1. ASSUME g # "none", l # "none"
      PROVE  Behind(g, l, s) = <<g, l, s>> /\ g \in Genders /\ l \in Levels
  BY <1>1 DEF Behind
<1>2. ASSUME g # "none", l = "none"
      PROVE  Behind(g, l, s) = <<g, s>> /\ g \in Genders
  BY <1>2 DEF Behind
<1>3. ASSUME g = "none", l # "none"
      PROVE  Behind(g, l, s) = <<l, s>> /\ l \in Levels
  BY <1>3 DEF Behind
<1>4. ASSUME g = "none", l = "none"
      PROVE  Behind(g, l, s) = <<s>>
  BY <1>4 DEF Behind
<1>5. QED
  BY <1>1, <1>2, <1>3, <1>4, SegmentsDiffer

Items(found, rest) ==
    DOMAIN found = 1..Len(rest) /\ \A i \in 1..Len(rest) : found[i] = rest[i]

(* Read back, each segment is the last of its class. *)
LEMMA BehindIsRead ==
    ASSUME NEW g \in Genders \cup {"none"}, NEW l \in Levels \cup {"none"}, NEW s \in Seasons,
           NEW rest, Items(rest, Behind(g, l, s))
    PROVE  /\ LastOf(rest, Genders) = g /\ LastOf(rest, Levels) = l
           /\ LastOf(rest, Seasons) = s /\ LastOf(rest, Years) = "none"
<1>1. LastOf(rest, Years) = "none"
  BY BehindIsNoTab, LastOfNone DEF Items
<1>2. ASSUME g # "none", l # "none"
      PROVE  LastOf(rest, Genders) = g /\ LastOf(rest, Levels) = l /\ LastOf(rest, Seasons) = s
  <2>1. DOMAIN rest = 1..3 /\ rest[1] = g /\ rest[2] = l /\ rest[3] = s
    BY <1>2 DEF Behind, Items
  <2>2. \A i \in 1..3 : i = 1 \/ i = 2 \/ i = 3
    OBVIOUS
  <2>3. /\ OnlyAt(rest, 3, Genders, 1)
        /\ OnlyAt(rest, 3, Levels, 2)
        /\ OnlyAt(rest, 3, Seasons, 3)
    BY <1>2, <2>1, <2>2, SegmentsDiffer DEF OnlyAt
  <2>4. LastOf(rest, Genders) = rest[1]
    BY <2>1, <2>3, LastOfPlace
  <2>5. LastOf(rest, Levels) = rest[2]
    BY <2>1, <2>3, LastOfPlace
  <2>6. LastOf(rest, Seasons) = rest[3]
    BY <2>1, <2>3, LastOfPlace
  <2>7. QED
    BY <2>1, <2>4, <2>5, <2>6
<1>3. ASSUME g # "none", l = "none"
      PROVE  LastOf(rest, Genders) = g /\ LastOf(rest, Levels) = l /\ LastOf(rest, Seasons) = s
  <2>1. DOMAIN rest = 1..2 /\ rest[1] = g /\ rest[2] = s
    BY <1>3 DEF Behind, Items
  <2>2. \A i \in 1..2 : i = 1 \/ i = 2
    OBVIOUS
  <2>3. /\ OnlyAt(rest, 2, Genders, 1)
        /\ \A i \in 1..2 : rest[i] \notin Levels
        /\ OnlyAt(rest, 2, Seasons, 2)
    BY <1>3, <2>1, <2>2, SegmentsDiffer DEF OnlyAt
  <2>4. QED
    BY <1>3, <2>1, <2>3, LastOfPlace, LastOfNone
<1>4. ASSUME g = "none", l # "none"
      PROVE  LastOf(rest, Genders) = g /\ LastOf(rest, Levels) = l /\ LastOf(rest, Seasons) = s
  <2>1. DOMAIN rest = 1..2 /\ rest[1] = l /\ rest[2] = s
    BY <1>4 DEF Behind, Items
  <2>2. \A i \in 1..2 : i = 1 \/ i = 2
    OBVIOUS
  <2>3. /\ \A i \in 1..2 : rest[i] \notin Genders
        /\ OnlyAt(rest, 2, Levels, 1)
        /\ OnlyAt(rest, 2, Seasons, 2)
    BY <1>4, <2>1, <2>2, SegmentsDiffer DEF OnlyAt
  <2>4. QED
    BY <1>4, <2>1, <2>3, LastOfPlace, LastOfNone
<1>5. ASSUME g = "none", l = "none"
      PROVE  LastOf(rest, Genders) = g /\ LastOf(rest, Levels) = l /\ LastOf(rest, Seasons) = s
  <2>1. DOMAIN rest = 1..1 /\ rest[1] = s
    BY <1>5 DEF Behind, Items
  <2>2. \A i \in 1..1 : i = 1
    OBVIOUS
  <2>3. /\ \A i \in 1..1 : rest[i] \notin Genders /\ rest[i] \notin Levels
        /\ OnlyAt(rest, 1, Seasons, 1)
    BY <2>1, <2>2, SegmentsDiffer DEF OnlyAt
  <2>4. QED
    BY <1>5, <2>1, <2>3, LastOfPlace, LastOfNone
<1>6. QED
  BY <1>1, <1>2, <1>3, <1>4, <1>5

(* The sport of a key is a row, and the only one with its segments. *)
LEMMA GetIsSport ==
    ASSUME NEW key \in Keys
    PROVE  /\ Get(key).key = key /\ IsSport(Get(key))
           /\ \E i \in DOMAIN Catalogue : Get(key) = Catalogue[i]
<1> DEFINE places == {i \in DOMAIN Catalogue : Catalogue[i].key = key}
<1>1. Get(key) = FirstAt(places)
  BY DEF Get, BY_KEY
<1>2. FirstAt(places) \in {Catalogue[i] : i \in places}
  BY FirstIsThere DEF Keys
<1>3. QED
  BY <1>1, <1>2, SportsHaveSegments

LEMMA KeyIsReadBack ==
    ASSUME NEW key \in Keys
    PROVE  KeyForUrl(Get(key).slug, Get(key).gender) = key
<1> DEFINE slug == Get(key).slug
           gender == Get(key).gender
           hits == {i \in DOMAIN Catalogue :
                       Catalogue[i].slug = slug /\ Catalogue[i].gender = gender}
<1>1. PICK i \in DOMAIN Catalogue : Get(key) = Catalogue[i] /\ Catalogue[i].key = key
  BY GetIsSport
<1>2. i \in hits
  BY <1>1
<1>3. \A j \in hits : j = i
  BY <1>1, SportsApart DEF Alike
<1>4. FirstAt(hits) = Catalogue[i]
  <2>1. FirstAt(hits) \in {Catalogue[j] : j \in hits}
    BY <1>2, FirstIsThere
  <2>2. QED
    BY <1>3, <2>1
<1>5. KeyForUrl(slug, gender) = FirstAt(hits).key
  BY <1>2 DEF KeyForUrl
<1>6. QED
  BY <1>1, <1>4, <1>5

(* A team with its level and year replaced. *)
Replaced(ref, level, year) == [ref EXCEPT !.level = level, !.season = year]

Fields(ref) ==
    ref = [school |-> ref.school, sport |-> ref.sport, gender |-> ref.gender,
           level |-> ref.level, seasonName |-> ref.seasonName, season |-> ref.season,
           sportKey |-> ref.sportKey, ids |-> ref.ids]

LEMMA LevelAndYear ==
    ASSUME NEW ref, NEW level, NEW year, Fields(ref)
    PROVE  Replaced(ref, level, year) =
               [school |-> ref.school, sport |-> ref.sport, gender |-> ref.gender,
                level |-> level, seasonName |-> ref.seasonName, season |-> year,
                sportKey |-> ref.sportKey, ids |-> ref.ids]
<1> DEFINE S == {ref.school, ref.sport, ref.gender, ref.level, ref.seasonName, ref.season,
                 ref.sportKey, ref.ids, level, year}
           Refs == [school : S, sport : S, gender : S, level : S, seasonName : S, season : S,
                    sportKey : S, ids : S]
           new == [ref EXCEPT !.level = level, !.season = year]
<1>1. ref \in Refs
  BY DEF Fields
<1>2. level \in S /\ year \in S
  OBVIOUS
<1> HIDE DEF S
<1>3. new \in Refs
  BY <1>1, <1>2
<1>4. /\ new.school = ref.school /\ new.sport = ref.sport /\ new.gender = ref.gender
      /\ new.level = level /\ new.seasonName = ref.seasonName /\ new.season = year
      /\ new.sportKey = ref.sportKey /\ new.ids = ref.ids
  BY <1>1
<1>5. Replaced(ref, level, year) = new
  BY DEF Replaced
<1> HIDE DEF new
<1>6. new = [school |-> new.school, sport |-> new.sport, gender |-> new.gender,
             level |-> new.level, seasonName |-> new.seasonName, season |-> new.season,
             sportKey |-> new.sportKey, ids |-> new.ids]
  BY <1>3
<1>7. QED
  BY <1>4, <1>5, <1>6

LEMMA ForSportIs ==
    ASSUME NEW school, NEW slug, NEW level, NEW year, NEW sport
    PROVE  ForSport([school |-> school, sport |-> slug, gender |-> "none", level |-> level,
                     seasonName |-> "none", season |-> year, sportKey |-> "none",
                     ids |-> "none"], sport, "none") =
               [school |-> school, sport |-> sport.slug, gender |-> sport.gender, level |-> level,
                seasonName |-> sport.season, season |-> year, sportKey |-> sport.key,
                ids |-> "none"]
<1> DEFINE S == {school, slug, level, year, sport.slug, sport.gender, sport.season, sport.key, "none"}
           Refs == [school : S, sport : S, gender : S, level : S, seasonName : S, season : S,
                    sportKey : S, ids : S]
           ref == [school |-> school, sport |-> slug, gender |-> "none", level |-> level,
                   seasonName |-> "none", season |-> year, sportKey |-> "none",
                   ids |-> "none"]
           team == ForSport(ref, sport, "none")
<1>1. ref \in Refs
  OBVIOUS
<1>2. /\ school \in S /\ level \in S /\ year \in S /\ sport.slug \in S /\ sport.gender \in S
      /\ sport.season \in S /\ sport.key \in S /\ "none" \in S
  OBVIOUS
<1>3. /\ ref.school = school /\ ref.level = level /\ ref.season = year
  OBVIOUS
<1>4. team = [ref EXCEPT !.sport = sport.slug, !.gender = sport.gender,
                         !.seasonName = sport.season, !.sportKey = sport.key,
                         !.season = ref.season, !.ids = "none"]
  BY DEF ForSport
<1> HIDE DEF ref, S, team
<1>5. team \in Refs
  BY <1>1, <1>2, <1>3, <1>4
<1>6. /\ team.school = school /\ team.sport = sport.slug /\ team.gender = sport.gender
      /\ team.level = level /\ team.seasonName = sport.season /\ team.season = year
      /\ team.sportKey = sport.key /\ team.ids = "none"
  BY <1>1, <1>3, <1>4
<1>7. team = [school |-> team.school, sport |-> team.sport, gender |-> team.gender,
              level |-> team.level, seasonName |-> team.seasonName, season |-> team.season,
              sportKey |-> team.sportKey, ids |-> team.ids]
  BY <1>5
<1>8. QED
  BY <1>6, <1>7 DEF team, ref

LEMMA TeamIs ==
    ASSUME NEW settings \in Docs, NEW key \in Keys
    PROVE  Team(settings, key) =
               [school |-> settings.school, sport |-> Get(key).slug, gender |-> Get(key).gender,
                level |-> settings.level, seasonName |-> Get(key).season, season |-> settings.year,
                sportKey |-> key, ids |-> "none"]
<1> DEFINE sport == Get(key)
           base == [school |-> settings.school, sport |-> settings.sport, gender |-> "none",
                    level |-> settings.level, seasonName |-> "none", season |-> settings.year,
                    sportKey |-> "none", ids |-> "none"]
<1>1. [Ref(settings.school, settings.sport) EXCEPT
             !.level = settings.level, !.season = settings.year] = base
  <2>1. Ref(settings.school, settings.sport) =
          [school |-> settings.school, sport |-> settings.sport, gender |-> "none",
           level |-> "none", seasonName |-> "none", season |-> "none",
           sportKey |-> "none", ids |-> "none"]
    BY DEF Ref
  <2> DEFINE ref == Ref(settings.school, settings.sport)
  <2>2. /\ Fields(ref) /\ ref.school = settings.school /\ ref.sport = settings.sport
        /\ ref.gender = "none" /\ ref.seasonName = "none" /\ ref.sportKey = "none"
        /\ ref.ids = "none"
    BY <2>1 DEF Fields
  <2> HIDE DEF ref
  <2>3. Replaced(ref, settings.level, settings.year) = base
    BY <2>2, LevelAndYear
  <2>4. QED
    BY <2>3 DEF Replaced, ref
<1>2. Team(settings, key) = ForSport(base, sport, "none")
  BY <1>1 DEF Team
<1>3. sport.key = key
  BY GetIsSport
<1>4. QED
  BY <1>2, <1>3, ForSportIs

LEMMA PageIsLaid ==
    ASSUME NEW settings \in Docs, NEW key \in Keys
    PROVE  LET l == Shown(settings.level)
               sport == Get(key)
           IN  /\ Page(settings, key) \in
                    Seq({settings.school, sport.slug, sport.gender, l, sport.season, "schedule"})
               /\ Laid(Page(settings, key), settings.school, sport.slug,
                       Behind(sport.gender, l, sport.season))
<1> DEFINE team == Team(settings, key)
           l == Shown(settings.level)
<1>1. /\ team.school = settings.school /\ team.sport = Get(key).slug
      /\ team.gender = Get(key).gender /\ team.level = settings.level
      /\ team.seasonName = Get(key).season
  BY TeamIs
<1> HIDE DEF team
<1>2. Page(settings, key) = <<team.school, team.sport>> \o Maybe(team.gender) \o Maybe(l)
                               \o Maybe(team.seasonName) \o Maybe("schedule")
  BY <1>1 DEF Page, Path, Shown, team
<1>3. Get(key).season # "none"
  BY GetIsSport, SegmentsDiffer DEF IsSport
<1> HIDE DEF l
<1>4. QED
  BY <1>1, <1>2, <1>3, PageItems DEF l

LEMMA TheTeamIsReadBack ==
    ASSUME NEW settings \in Docs, NEW key \in Keys
    PROVE  FromUrl(Page(settings, key)) =
               [Team(settings, key) EXCEPT !.level = Shown(settings.level), !.season = "none"]
<1> DEFINE l == Shown(settings.level)
           page == Page(settings, key)
           sport == Get(key)
           behind == Behind(sport.gender, l, sport.season)
           rest == BeforeTab(SubSeq(page, 3, Len(page)))
<1>1. sport.gender \in Genders \cup {"none"} /\ sport.season \in Seasons
  BY GetIsSport DEF IsSport
<1>2. l \in Levels \cup {"none"}
  BY DEF Docs, Shown
<1>3. /\ page \in Seq({settings.school, sport.slug, sport.gender, l, sport.season, "schedule"})
      /\ Laid(page, settings.school, sport.slug, behind)
  BY PageIsLaid
<1>4. KeyForUrl(sport.slug, sport.gender) = key
  BY KeyIsReadBack
<1> HIDE DEF l, page, sport
<1>5. Len(behind) \in Nat /\ \A i \in 1..Len(behind) : behind[i] \notin Tabs
  BY <1>1, <1>2, BehindIsNoTab
<1> HIDE DEF behind
<1>6. Items(rest, behind)
  BY <1>3, <1>5, RestOfPage DEF Items
<1> HIDE DEF rest
<1>7. /\ LastOf(rest, Genders) = sport.gender /\ LastOf(rest, Levels) = l
      /\ LastOf(rest, Seasons) = sport.season /\ LastOf(rest, Years) = "none"
  BY <1>1, <1>2, <1>6, BehindIsRead DEF behind
<1>8. page[1] = settings.school /\ page[2] = sport.slug
  BY <1>3 DEF Laid
<1>9. FromUrl(page) =
        [school |-> settings.school, sport |-> sport.slug, gender |-> sport.gender, level |-> l,
         seasonName |-> sport.season, season |-> "none", sportKey |-> key, ids |-> "none"]
  BY <1>4, <1>7, <1>8 DEF FromUrl, rest
<1>10. [Team(settings, key) EXCEPT !.level = l, !.season = "none"] =
        [school |-> settings.school, sport |-> sport.slug, gender |-> sport.gender, level |-> l,
         seasonName |-> sport.season, season |-> "none", sportKey |-> key, ids |-> "none"]
  <2>1. Team(settings, key) =
          [school |-> settings.school, sport |-> sport.slug, gender |-> sport.gender,
           level |-> settings.level, seasonName |-> sport.season, season |-> settings.year,
           sportKey |-> key, ids |-> "none"]
    BY TeamIs DEF sport
  <2> DEFINE team == Team(settings, key)
  <2>2. /\ Fields(team) /\ team.school = settings.school /\ team.sport = sport.slug
        /\ team.gender = sport.gender /\ team.seasonName = sport.season
        /\ team.sportKey = key /\ team.ids = "none"
    BY <2>1 DEF Fields
  <2> HIDE DEF team
  <2>3. Replaced(team, l, "none") =
          [school |-> settings.school, sport |-> sport.slug, gender |-> sport.gender, level |-> l,
           seasonName |-> sport.season, season |-> "none", sportKey |-> key, ids |-> "none"]
    BY <2>2, LevelAndYear
  <2>4. QED
    BY <2>3 DEF Replaced, team
<1>11. QED
  BY <1>9, <1>10 DEF page, l

LEMMA CoveredAreKeys ==
    ASSUME NEW settings \in Docs, Valid(settings.active)
    PROVE  ActiveSports(settings) \in Seq(Keys) /\ OneOfEach(ActiveSports(settings))
<1>1. CASE settings.active # <<>>
  <2>1. settings.active \in Seq(Names) /\ ResolveMany(settings.active).keys = settings.active
    BY DEF Docs, Valid
  <2>2. settings.active \in Seq(Keys) /\ OneOfEach(settings.active)
    BY <2>1, ResolvingIsFinal
  <2>3. QED
    BY <1>1, <2>2 DEF ActiveSports
<1>2. CASE settings.active = <<>> /\ Known(settings.sport)
  <2>1. Get(settings.sport).key \in Keys
    BY <1>2, GetFindsKeys
  <2>2. OneOfEach(<<Get(settings.sport).key>>)
    BY DEF OneOfEach
  <2>3. QED
    BY <1>2, <2>1, <2>2 DEF ActiveSports
<1>3. CASE settings.active = <<>> /\ ~Known(settings.sport)
  <2>1. OneOfEach(<<>>) /\ <<>> \in Seq(Keys)
    BY DEF OneOfEach
  <2>2. QED
    BY <1>3, <2>1 DEF ActiveSports
<1>4. QED
  BY <1>1, <1>2, <1>3

LEMMA TheTeamIsShown ==
    ASSUME NEW settings \in Docs, NEW key \in Keys
    PROVE  /\ FromUrl(Page(settings, key)).school = settings.school
           /\ FromUrl(Page(settings, key)).sportKey = key
           /\ FromUrl(Page(settings, key)).level = Shown(settings.level)
<1> DEFINE team == Team(settings, key)
<1>1. Fields(team) /\ team.school = settings.school /\ team.sportKey = key
  BY TeamIs DEF Fields
<1> HIDE DEF team
<1>2. FromUrl(Page(settings, key)) = Replaced(team, Shown(settings.level), "none")
  BY TheTeamIsReadBack DEF team, Replaced
<1>3. /\ Replaced(team, Shown(settings.level), "none").school = team.school
      /\ Replaced(team, Shown(settings.level), "none").sportKey = team.sportKey
      /\ Replaced(team, Shown(settings.level), "none").level = Shown(settings.level)
  BY <1>1, LevelAndYear
<1>4. QED
  BY <1>1, <1>2, <1>3

LEMMA PageOfTheTeam ==
    ASSUME NEW one \in Docs, NEW other \in Docs, NEW key \in Keys,
           one.school = other.school, Shown(one.level) = Shown(other.level)
    PROVE  Page(one, key) = Page(other, key)
<1>1. /\ Team(one, key).school = one.school /\ Team(one, key).sport = Get(key).slug
      /\ Team(one, key).gender = Get(key).gender /\ Team(one, key).level = one.level
      /\ Team(one, key).seasonName = Get(key).season
  BY TeamIs
<1>2. /\ Team(other, key).school = other.school /\ Team(other, key).sport = Get(key).slug
      /\ Team(other, key).gender = Get(key).gender /\ Team(other, key).level = other.level
      /\ Team(other, key).seasonName = Get(key).season
  BY TeamIs
<1>3. QED
  BY <1>1, <1>2 DEF Page, Path

LEMMA TheYearIsAsked ==
    ASSUME NEW settings \in Docs, NEW key \in Keys, NEW year
    PROVE  Query(Team(settings, key), year) = YearOf(settings, year)
<1>1. Team(settings, key).season = settings.year
  BY TeamIs
<1>2. QED
  BY <1>1 DEF Query, YearOf

LEMMA EntriesTellApart ==
    ASSUME NEW one \in Docs, NEW i \in Keys, NEW asked,
           NEW other \in Docs, NEW j \in Keys, NEW wanted
    PROVE  CacheKey(one, i, asked) = CacheKey(other, j, wanted)
             <=> <<one.school, i, Shown(one.level), YearOf(one, asked)>>
                   = <<other.school, j, Shown(other.level), YearOf(other, wanted)>>
<1>1. /\ CacheKey(one, i, asked) = <<Page(one, i), YearOf(one, asked)>>
      /\ CacheKey(other, j, wanted) = <<Page(other, j), YearOf(other, wanted)>>
  BY TheYearIsAsked DEF CacheKey
<1>2. ASSUME CacheKey(one, i, asked) = CacheKey(other, j, wanted)
      PROVE  /\ one.school = other.school /\ i = j /\ Shown(one.level) = Shown(other.level)
             /\ YearOf(one, asked) = YearOf(other, wanted)
  <2>1. Page(one, i) = Page(other, j) /\ YearOf(one, asked) = YearOf(other, wanted)
    BY <1>1, <1>2
  <2>2. QED
    BY <2>1, TheTeamIsShown
<1>3. ASSUME one.school = other.school, i = j, Shown(one.level) = Shown(other.level),
             YearOf(one, asked) = YearOf(other, wanted)
      PROVE  CacheKey(one, i, asked) = CacheKey(other, j, wanted)
  BY <1>1, <1>3, PageOfTheTeam
<1>4. QED
  BY <1>2, <1>3

(* Two schedules share a cache entry exactly when they are of one school,   *)
(* sport, level and year, asked or configured, and a page read back is the  *)
(* team it is of but for the year (TeamRef.path, query, from_url,           *)
(* key_for_url, _qs_key), for any processes, settings and valid selections. *)
THEOREM UrlsTell == Spec => []UrlsTellTeamsApart
<1>1. TypeOK /\ AllValid => UrlsTellTeamsApart
  <2> DEFINE having == {p \in Procs : HasTeam(proc[p].cfg)}
             entries == UNION {Entries(proc[p].cfg) : p \in having}
  <2>1. SUFFICES ASSUME TypeOK, AllValid
                 PROVE  /\ \A x, y \in entries : x.key = y.key <=> x.team = y.team
                        /\ \A p \in having :
                              LET settings == proc[p].cfg
                                  covered == ActiveSports(settings)
                              IN  \A i \in DOMAIN covered :
                                     FromUrl(Page(settings, covered[i])) =
                                         [Team(settings, covered[i]) EXCEPT
                                             !.level = Shown(@), !.season = "none"]
    BY DEF UrlsTellTeamsApart
  <2>2. ASSUME NEW p \in Procs
        PROVE  /\ proc[p].cfg \in Docs
               /\ \A i \in DOMAIN ActiveSports(proc[p].cfg) : ActiveSports(proc[p].cfg)[i] \in Keys
    <3>1. proc[p].cfg \in Docs /\ Valid(proc[p].cfg.active)
      BY <2>1 DEF TypeOK, AllValid
    <3>2. QED
      BY <3>1, CoveredAreKeys
  <2>3. ASSUME NEW x \in entries
        PROVE  \E settings \in Docs, key \in Keys, year \in Years \cup {"none"} :
                  /\ x.key = CacheKey(settings, key, year)
                  /\ x.team = <<settings.school, key, Shown(settings.level),
                                YearOf(settings, year)>>
    <3>1. PICK p \in having : x \in Entries(proc[p].cfg)
      OBVIOUS
    <3> DEFINE settings == proc[p].cfg
               covered == ActiveSports(settings)
    <3>2. PICK i \in DOMAIN covered, year \in Years \cup {"none"} :
            x = [key  |-> CacheKey(settings, covered[i], year),
                 team |-> <<settings.school, covered[i], Shown(settings.level),
                            YearOf(settings, year)>>]
      BY <3>1 DEF Entries
    <3>3. settings \in Docs /\ covered[i] \in Keys
      BY <2>2, <3>1, <3>2
    <3>4. /\ x.key = CacheKey(settings, covered[i], year)
          /\ x.team = <<settings.school, covered[i], Shown(settings.level),
                        YearOf(settings, year)>>
      BY <3>2
    <3> HIDE DEF settings, covered
    <3>5. QED
      BY <3>2, <3>3, <3>4
  <2>4. ASSUME NEW x \in entries, NEW y \in entries
        PROVE  x.key = y.key <=> x.team = y.team
    <3>1. PICK one \in Docs, i \in Keys, asked \in Years \cup {"none"} :
            /\ x.key = CacheKey(one, i, asked)
            /\ x.team = <<one.school, i, Shown(one.level), YearOf(one, asked)>>
      BY <2>3
    <3>2. PICK other \in Docs, j \in Keys, wanted \in Years \cup {"none"} :
            /\ y.key = CacheKey(other, j, wanted)
            /\ y.team = <<other.school, j, Shown(other.level), YearOf(other, wanted)>>
      BY <2>3
    <3>3. QED
      BY <3>1, <3>2, EntriesTellApart
  <2>5. ASSUME NEW p \in having, NEW i \in DOMAIN ActiveSports(proc[p].cfg)
        PROVE  FromUrl(Page(proc[p].cfg, ActiveSports(proc[p].cfg)[i])) =
                   [Team(proc[p].cfg, ActiveSports(proc[p].cfg)[i]) EXCEPT
                       !.level = Shown(@), !.season = "none"]
    <3> DEFINE settings == proc[p].cfg
               key == ActiveSports(settings)[i]
    <3>1. settings \in Docs /\ key \in Keys
      BY <2>2
    <3> HIDE DEF settings, key
    <3>2. Team(settings, key).level = settings.level
      BY <3>1, TeamIs
    <3>3. FromUrl(Page(settings, key)) =
              [Team(settings, key) EXCEPT !.level = Shown(settings.level), !.season = "none"]
      BY <3>1, TheTeamIsReadBack
    <3>4. QED
      BY <3>2, <3>3 DEF settings, key
  <2>6. QED
    BY <2>4, <2>5
<1>2. QED
  BY <1>1, AlwaysValid, PTL
=============================================================================
