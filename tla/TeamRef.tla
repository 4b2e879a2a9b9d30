-------------------------------- MODULE TeamRef -------------------------------
(***************************************************************************)
(* The identity of a team (models/team.py): what a reference holds, the     *)
(* page it stands for, and how it is read back from a URL.  state, city and *)
(* school are one value.  A URL path is the sequence of its segments.       *)
(***************************************************************************)
EXTENDS Sports

Tabs == {"schedule", "roster", "stats", "scores", "standings", "rankings"}
Levels == {"varsity", "jv", "freshman", "sophomore", "js"}
Genders == {"boys", "girls", "coed"}
Years == {"25-26", "26-27"}         \* what _SEASON_RE matches

Ref(school, sport) ==
    [school |-> school, sport |-> sport, gender |-> "none", level |-> "none",
     seasonName |-> "none", season |-> "none", sportKey |-> "none", ids |-> "none"]

(* A segment that may be missing. *)
Maybe(segment) == IF segment = "none" THEN <<>> ELSE <<segment>>

(* The varsity's page is the one that names no level. *)
Shown(level) == IF level = "varsity" THEN "none" ELSE level

(* The page of a team; the season year is not in it. *)
Path(ref, tab) ==
    <<ref.school, ref.sport>>
        \o Maybe(ref.gender)
        \o Maybe(Shown(ref.level))
        \o Maybe(ref.seasonName)
        \o Maybe(tab)

(* The season year goes out as ?year=, the one asked for before the team's own. *)
Query(ref, year) == IF year # "none" THEN year ELSE ref.season

(* Mutant: the year asked for replaces the team's own, asked or not.        *)
ForSportAnew(ref, sport, season) ==
    [ref EXCEPT !.sport = sport.slug, !.gender = sport.gender,
                !.seasonName = sport.season, !.sportKey = sport.key,
                !.season = season, !.ids = "none"]

(* The same school's team of another sport; what names the old team goes. *)
ForSport(ref, sport, season) ==
    [ref EXCEPT !.sport = sport.slug,
                !.gender = sport.gender,
                !.seasonName = sport.season,
                !.sportKey = sport.key,
                !.season = IF season # "none" THEN season ELSE @,
                !.ids = "none"]

(* The last segment of a class; "none" if there is none. *)
LastOf(segments, class) ==
    LET hits == {i \in DOMAIN segments : segments[i] \in class}
    IN  IF hits = {} THEN "none" ELSE segments[CHOOSE i \in hits : \A j \in hits : j <= i]

(* What stands before the first tab. *)
BeforeTab(segments) ==
    LET tabs == {i \in DOMAIN segments : segments[i] \in Tabs}
    IN  SubSeq(segments, 1, IF tabs = {} THEN Len(segments)
                            ELSE (CHOOSE i \in tabs : \A j \in tabs : i <= j) - 1)

(* The first two segments (the school's three and the sport) are required. *)
FromUrl(path) ==
    LET rest == BeforeTab(SubSeq(path, 3, Len(path)))
        gender == LastOf(rest, Genders)
    IN  [school |-> path[1], sport |-> path[2], gender |-> gender,
         level |-> LastOf(rest, Levels), seasonName |-> LastOf(rest, Seasons),
         season |-> LastOf(rest, Years), sportKey |-> KeyForUrl(path[2], gender),
         ids |-> "none"]

(* School.team_ref: a name the catalogue does not know is a raw segment. *)
SchoolTeam(school, name, season) ==
    LET base == FromUrl(<<school, "football">>)
        ref == IF Known(name) THEN ForSport(base, Get(name), season)
               ELSE [base EXCEPT !.sport = name, !.season = season]
    IN  [ref EXCEPT !.ids = school]
=============================================================================
