-------------------------------- MODULE Sports --------------------------------
(***************************************************************************)
(* The sport catalogue and the rules of a selection (sports.py).  The table *)
(* is the program's own.  A name is what _normalize makes of what was       *)
(* typed; names that collapse alike are one name here.                      *)
(***************************************************************************)
EXTENDS Places

CONSTANTS
    MaxActiveSports,    \* MAX_ACTIVE_SPORTS
    OtherNames          \* what may be typed besides the names of the sports

ASSUME SportsAssumption == MaxActiveSports \in Nat \ {0}

Seasons == {"fall", "winter", "spring"}

(* gender "none": the variant is the bare slug.  spoken: the display name. *)
Sport(key, spoken, slug, season, gender, inPreset) ==
    [key |-> key, spoken |-> spoken, slug |-> slug, season |-> season,
     gender |-> gender, inPreset |-> inPreset]

(* A sport whose display name normalizes to its key, assumed of a school. *)
Row(key, slug, season, gender) == Sport(key, key, slug, season, gender, TRUE)

(* A girls' variant that no season assumes. *)
Variant(key, spoken, slug, season) == Sport(key, spoken, slug, season, "girls", FALSE)

FallSports == <<
    Row("football", "football", "fall", "none"),
    Row("girls-volleyball", "volleyball", "fall", "none"),
    Row("boys-water-polo", "water-polo", "fall", "none"),
    Row("cross-country", "cross-country", "fall", "none"),
    Row("girls-tennis", "tennis", "fall", "girls"),
    Row("girls-golf", "golf", "fall", "girls"),
    Row("girls-flag-football", "flag-football", "fall", "girls") >>

WinterSports == <<
    Row("boys-basketball", "basketball", "winter", "none"),
    Row("girls-basketball", "basketball", "winter", "girls"),
    Row("boys-soccer", "soccer", "winter", "none"),
    Row("girls-soccer", "soccer", "winter", "girls"),
    Row("girls-water-polo", "water-polo", "winter", "girls"),
    Row("wrestling", "wrestling", "winter", "none") >>

SpringSports == <<
    Row("baseball", "baseball", "spring", "none"),
    Row("softball", "softball", "spring", "none"),
    Row("boys-volleyball", "volleyball", "spring", "boys"),
    Row("boys-lacrosse", "lacrosse", "spring", "none"),
    Row("girls-lacrosse", "lacrosse", "spring", "girls"),
    Row("boys-tennis", "tennis", "spring", "none"),
    Row("boys-golf", "golf", "spring", "none"),
    Sport("track-field", "track-and-field", "track-field", "spring", "none", TRUE),
    Row("swimming", "swimming", "spring", "none") >>

Variants == <<
    Variant("girls-cross-country", "girls-cross-country", "cross-country", "fall"),
    Variant("girls-wrestling", "girls-wrestling", "wrestling", "winter"),
    Variant("girls-track-field", "girls-track-and-field", "track-field", "spring"),
    Variant("girls-swimming", "girls-swimming", "swimming", "spring") >>

Catalogue == FallSports \o WinterSports \o SpringSports \o Variants

(* The first sport at these places of the catalogue. *)
FirstAt(places) == Catalogue[CHOOSE i \in places : \A j \in places : i <= j]

Keys == {Catalogue[i].key : i \in DOMAIN Catalogue}
Spoken == {Catalogue[i].spoken : i \in DOMAIN Catalogue}
Names == Keys \cup Spoken \cup OtherNames

BY_KEY == [key \in Keys |-> FirstAt({i \in DOMAIN Catalogue : Catalogue[i].key = key})]
BySpoken == [name \in Spoken |-> FirstAt({i \in DOMAIN Catalogue : Catalogue[i].spoken = name})]

KeysOf(sports) == [i \in DOMAIN sports |-> sports[i].key]

(* get: by key first, else the first sport of that display name. *)
Known(name) == name \in Keys \cup Spoken

Get(name) == IF name \in Keys THEN BY_KEY[name] ELSE BySpoken[name]

(* preset_for: a season's default sports, cut at the cap. *)
Preset(season) ==
    LET sports == Picked(Catalogue, {i \in DOMAIN Catalogue :
                                        Catalogue[i].season = season /\ Catalogue[i].inPreset})
    IN  SubSeq(sports, 1, IF Len(sports) < MaxActiveSports THEN Len(sports)
                                                            ELSE MaxActiveSports)

(* The items of a sequence at their first places. *)
Distinct(seq) == Picked(seq, {i \in DOMAIN seq : \A j \in 1..(i - 1) : seq[j] # seq[i]})

(***************************************************************************)
(* resolve_many: the keys of the sports named, each once and in the order   *)
(* of the caller.  An unknown name is told before a list that is too long.  *)
(***************************************************************************)
ResolveMany(names) ==
    IF \E i \in DOMAIN names : ~Known(names[i])
    THEN [error |-> "UnknownSportError", keys |-> <<>>]
    ELSE LET keys == Distinct([i \in DOMAIN names |-> Get(names[i]).key])
         IN  IF Len(keys) > MaxActiveSports
             THEN [error |-> "TooManySportsError", keys |-> <<>>]
             ELSE [error |-> "none", keys |-> keys]

(* key_for_url: the first sport of these URL segments, if there is one. *)
KeyForUrl(slug, gender) ==
    LET hits == {i \in DOMAIN Catalogue : Catalogue[i].slug = slug /\ Catalogue[i].gender = gender}
    IN  IF hits = {} THEN "none" ELSE FirstAt(hits).key
=============================================================================
