------------------------------- MODULE Selection ------------------------------
(***************************************************************************)
(* The settings and the selection of sports (config.py), changed by the     *)
(* command line (cli.py: init, override, sports set|add|remove|season) and  *)
(* by PUT /sports/active of a running service (service/app.py).  Every      *)
(* process loads the file once, when it starts, changes its own copy and    *)
(* saves all of it: open("wb") truncates, and the text is flushed by the    *)
(* close.  A step is what one process does between two system calls on the  *)
(* file.                                                                    *)
(*                                                                          *)
(* A file that is absent or empty reads as the defaults.  Of the settings   *)
(* the school with its sport, level and year, the selection and the         *)
(* opponents' names are kept; the other sections are loaded and saved       *)
(* alike.                                                                   *)
(***************************************************************************)
EXTENDS TeamRef

CONSTANTS
    Clis, serve,        \* the command lines, each one command at a time, and the service
    Paths, Default,     \* config files, and the one no --config names
    Schools,            \* what init may find
    SportNames,         \* what init may be told of the sport
    SeasonYears,        \* and of the year, well-shaped (Years), ill-shaped or "none" (blank)
    Requests,           \* lists of names a user may type or PUT
    Terms,              \* the seasons a user may ask for
    Opponents,
    EnvSchool,          \* process -> MAXPREPS_PRIMARY_*, or "none"
    FirstDocs, HandEdits,   \* what is in a file at first, what an editor leaves in it
    Garbled,            \* a file tomllib cannot read
    MaxSaves            \* the model stops saving here

Procs == Clis \cup {serve}

Defaults == [school |-> "none", sport |-> "football", level |-> "none", year |-> "none",
             active |-> <<>>, names |-> {}]

Docs == [school : Schools \cup {"none"}, sport : Names, level : Levels \cup {"none"},
         year : SeasonYears \cup {"none"}, active : Seq(Names), names : SUBSET Opponents]

Sections == {"primary", "sports", "opponents"}

ASSUME SelectionAssumption ==
    /\ serve \notin Clis
    /\ Default \in Paths
    /\ EnvSchool \in [Procs -> Schools \cup {"none"}]
    /\ Garbled \notin Docs
    /\ FirstDocs \subseteq Docs /\ HandEdits \subseteq Docs
    /\ SportNames \subseteq Names /\ Requests \subseteq Seq(Names)
    /\ Terms \subseteq Seasons
    /\ MaxSaves \in Nat

VARIABLES
    file,       \* path -> a document, or Garbled
    proc,       \* process -> its memory
    answered,   \* the last PUT: "ok" or "failed"
    saves,      \* saves started
    acked,      \* history: path -> the settings as last acknowledged, section by section
    stale,      \* history: the processes whose file another one has changed since
    slipped     \* history: the paths with a lost update, a cut or a misdirected save

vars == <<file, proc, answered, saves, acked, stale, slipped>>

(***************************************************************************)
(*   at       "off", "ready" (loaded) or "saving" (opened, not written)     *)
(*   cfg      the Settings                                                  *)
(*   path     the file the process was told to use                          *)
(*   section  the section its command is about                              *)
(***************************************************************************)
Off == [at |-> "off", cfg |-> Defaults, path |-> Default, section |-> "sports"]

-----------------------------------------------------------------------------
(* Settings.active_sports: the selection, else the primary sport alone. *)
ActiveSports(settings) ==
    IF settings.active # <<>> THEN settings.active
    ELSE IF Known(settings.sport) THEN <<Get(settings.sport).key>> ELSE <<>>

(* PrimaryConfig.team_ref, re-pointed at a sport of the catalogue. *)
Team(settings, key) ==
    ForSport([Ref(settings.school, settings.sport) EXCEPT
                 !.level = settings.level, !.season = settings.year],
             Get(key), "none")

(* Mutant: the selection is replaced before it is resolved.                 *)
SelectedFirst(settings, names) ==
    [error |-> ResolveMany(names).error, cfg |-> [settings EXCEPT !.active = names]]

(* Mutant: the selection is kept as it was typed.                           *)
SelectedAsTyped(settings, names) ==
    LET r == ResolveMany(names)
    IN  [error |-> r.error,
         cfg |-> IF r.error = "none" THEN [settings EXCEPT !.active = names] ELSE settings]

(* Settings.set_active_sports: an error leaves the settings as they were. *)
Selected(settings, names) ==
    LET r == ResolveMany(names)
    IN  [error |-> r.error,
         cfg |-> IF r.error = "none" THEN [settings EXCEPT !.active = r.keys] ELSE settings]

Same(settings) == [error |-> "none", cfg |-> settings]

Failing(settings) == [error |-> "UnknownSportError", cfg |-> settings]

SportsAdd(settings, names) == Selected(settings, ActiveSports(settings) \o names)

SportsRemove(settings, names) ==
    IF \E i \in DOMAIN names : ~Known(names[i]) THEN Failing(settings)
    ELSE LET drop == {Get(names[i]).key : i \in DOMAIN names}
             active == ActiveSports(settings)
         IN  Selected(settings, Picked(active, {i \in DOMAIN active : active[i] \notin drop}))

SportsSeason(settings, season) == Selected(settings, KeysOf(Preset(season)))

(* init takes the year as typed; what it does not ask for stays: level, selection. *)
InitSchool(settings, school, sport, year) ==
    Same([settings EXCEPT !.school = SchoolTeam(school, sport, year).school,
                          !.sport = sport, !.year = year])

Override(settings, opponent) == Same([settings EXCEPT !.names = @ \cup {opponent}])

(* What a command makes of the settings, and the section it is about. *)
Outcomes(settings) ==
    {<<Selected(settings, names), "sports">> : names \in Requests}
        \cup {<<SportsAdd(settings, names), "sports">> : names \in Requests}
        \cup {<<SportsRemove(settings, names), "sports">> : names \in Requests}
        \cup {<<SportsSeason(settings, season), "sports">> : season \in Terms}
        \cup {<<InitSchool(settings, school, sport, year), "primary">> :
                 school \in Schools, sport \in SportNames, year \in SeasonYears}
        \cup {<<Override(settings, opponent), "opponents">> : opponent \in Opponents}

(* One section of one document in another. *)
Put(doc, from, sect) ==
    CASE sect = "primary"   -> [doc EXCEPT !.school = from.school, !.sport = from.sport,
                                             !.year = from.year]
      [] sect = "sports"    -> [doc EXCEPT !.active = from.active]
      [] sect = "opponents" -> [doc EXCEPT !.names = from.names]

-----------------------------------------------------------------------------
Init ==
    /\ \E doc \in FirstDocs : file = [f \in Paths |-> doc]
    /\ proc = [p \in Procs |-> Off]
    /\ answered = "ok"
    /\ saves = 0
    /\ acked = file
    /\ stale = {}
    /\ slipped = {}

(* Mutant: every save goes to the standard file.                            *)
StandardFile(p) == Default

(***************************************************************************)
(* The file a process saves to: the command line, _save, the one it loaded; *)
(* the service, which calls save_settings with no path, the standard one.   *)
(***************************************************************************)
SaveFile(p) == IF p = serve THEN Default ELSE proc[p].path

Saving(p, f) == proc[p].at = "saving" /\ SaveFile(p) = f

(* The files that are wrong once a service with --config has saved. *)
Misdirected(p) ==
    IF p = serve /\ proc[p].path # Default THEN {Default, proc[p].path} ELSE {}

(* The other processes that have loaded a file. *)
Others(p, f) == {q \in Procs \ {p} : proc[q].at # "off" /\ proc[q].path = f}

(* load_settings raises where tomllib does, or the validator of the names. *)
Loads(text) == text # Garbled /\ ResolveMany(text.active).error = "none"

(* _env_overrides: what the environment says of the school goes over the file. *)
WithEnv(p, doc) ==
    [doc EXCEPT !.school = IF EnvSchool[p] # "none" THEN EnvSchool[p] ELSE @]

(* load_settings: the environment over the file, the selection resolved. *)
Load(p, text) == [WithEnv(p, text) EXCEPT !.active = ResolveMany(@).keys]

(* cli main: the options name a file or do not; if it loads the process runs. *)
Start(p, f) ==
    /\ proc[p].at = "off"
    /\ Loads(file[f])
    /\ proc' = [proc EXCEPT ![p] = [Off EXCEPT !.at = "ready", !.path = f,
                                               !.cfg = Load(p, file[f])]]
    /\ stale' = IF \E q \in Procs : Saving(q, f) THEN stale \cup {p} ELSE stale
    /\ answered' = IF p = serve THEN "ok" ELSE answered
    /\ UNCHANGED <<file, saves, acked, slipped>>

(* The command line ends; the service goes on. *)
Returns(p) == IF p = serve THEN [proc[p] EXCEPT !.at = "ready"] ELSE Off

Rest(procs) == {p \in procs : proc'[p].at # "off"}

(***************************************************************************)
(* save_settings opens the file, which empties it: every other process that *)
(* loaded it now has an old copy, and one that saves an old copy undoes     *)
(* what was saved since.                                                    *)
(***************************************************************************)
Open(p, settings, sect) ==
    LET f == SaveFile(p)
    IN  /\ saves < MaxSaves
        /\ saves' = saves + 1
        /\ proc' = [proc EXCEPT ![p] = [@ EXCEPT !.at = "saving", !.cfg = settings,
                                                 !.section = sect]]
        /\ file' = [file EXCEPT ![f] = Defaults]
        /\ stale' = stale \cup Others(p, f)
        /\ slipped' = slipped
              \cup (IF p \in stale THEN {f} ELSE {})
              \cup Misdirected(p)

(* The directory or the file refuses: an OSError, the file untouched. *)
OpenFails(p, settings) ==
    /\ proc' = [proc EXCEPT ![p] = [Returns(p) EXCEPT
                                      !.cfg = IF p = serve THEN settings ELSE @]]
    /\ stale' = Rest(stale)
    /\ UNCHANGED <<file, saves, slipped>>

(* A command that is refused ends with its error. *)
Refused(p) ==
    /\ proc' = [proc EXCEPT ![p] = Returns(p)]
    /\ stale' = Rest(stale)
    /\ UNCHANGED <<file, saves, slipped>>

(* A command of the command line. *)
Command(p) ==
    /\ p \in Clis
    /\ proc[p].at = "ready"
    /\ \E o \in Outcomes(proc[p].cfg) :
          IF o[1].error # "none" THEN Refused(p)
          ELSE Open(p, o[1].cfg, o[2]) \/ OpenFails(p, o[1].cfg)
    /\ UNCHANGED <<answered, acked>>

(***************************************************************************)
(* PUT /sports/active: refused (422) before anything changes, else in       *)
(* effect at once; a save that fails is a 500.                              *)
(***************************************************************************)
PutActive ==
    /\ proc[serve].at = "ready"
    /\ \E names \in Requests :
          LET r == Selected(proc[serve].cfg, names)
          IN  IF r.error # "none"
              THEN /\ proc' = [proc EXCEPT ![serve].cfg = r.cfg]
                   /\ UNCHANGED <<file, saves, stale, slipped, answered>>
              ELSE \/ Open(serve, r.cfg, "sports") /\ UNCHANGED answered
                   \/ OpenFails(serve, r.cfg) /\ answered' = "failed"
    /\ UNCHANGED acked

(* What the file holds now, and what the last answer says of it. *)
Saved(p, text, answer) ==
    /\ proc[p].at = "saving"
    /\ proc' = [proc EXCEPT ![p] = Returns(p)]
    /\ file' = [file EXCEPT ![SaveFile(p)] = text]
    /\ stale' = Rest(stale \cup Others(p, SaveFile(p)))
    /\ answered' = IF p = serve THEN answer ELSE answered
    /\ UNCHANGED saves

(* The whole text, unless another process wrote since this one truncated. *)
Texts(p) ==
    {proc[p].cfg} \cup (IF file[SaveFile(p)] = Defaults THEN {} ELSE {Garbled})

(***************************************************************************)
(* The text is flushed and the command, or the PUT, has succeeded.  What    *)
(* the environment said of the school is saved with the rest.               *)
(***************************************************************************)
Write(p) ==
    /\ \E text \in Texts(p) : Saved(p, text, "ok")
    /\ acked' = [acked EXCEPT ![proc[p].path] =
                    Put(WithEnv(p, @), proc[p].cfg, proc[p].section)]
    /\ slipped' = slipped \cup Misdirected(p)

(* Sections are written in the order of the class; the last may be cut. *)
Cuts(doc) ==
    {Garbled, Defaults, [doc EXCEPT !.names = {}],
     [doc EXCEPT !.names = {}, !.active = <<>>]}

(* The disk is full: an OSError, and a file that is cut or empty. *)
WriteFails(p) ==
    /\ \E text \in Cuts(proc[p].cfg) : Saved(p, text, "failed")
    /\ slipped' = slipped \cup {SaveFile(p)}
    /\ UNCHANGED acked

(* The process is killed or ended; a file it had opened stays truncated. *)
Stop(p) ==
    /\ proc[p].at # "off"
    /\ proc' = [proc EXCEPT ![p] = Off]
    /\ stale' = stale \ {p}
    /\ slipped' = IF proc[p].at = "saving" THEN slipped \cup {SaveFile(p)} ELSE slipped
    /\ UNCHANGED <<file, answered, saves, acked>>

(* Somebody puts a file in place by hand, while nobody saves it. *)
HandEdit(f) ==
    /\ \A p \in Procs : ~Saving(p, f)
    /\ saves < MaxSaves
    /\ saves' = saves + 1
    /\ \E doc \in HandEdits :
          /\ file' = [file EXCEPT ![f] = doc]
          /\ acked' = [acked EXCEPT ![f] = doc]
    /\ stale' = stale \cup {p \in Procs : proc[p].at # "off" /\ proc[p].path = f}
    /\ slipped' = slipped \ {f}
    /\ UNCHANGED <<proc, answered>>

Next ==
    \/ \E p \in Procs :
          \/ \E f \in Paths : Start(p, f)
          \/ Command(p) \/ Write(p) \/ WriteFails(p) \/ Stop(p)
    \/ PutActive
    \/ \E f \in Paths : HandEdit(f)

Spec == Init /\ [][Next]_vars

-----------------------------------------------------------------------------
(* What a load makes of a file, the environment apart. *)
Resolved(text) ==
    IF Loads(text) THEN [text EXCEPT !.active = ResolveMany(@).keys] ELSE text

(* Every variable holds a value of its type. *)
TypeOK ==
    /\ file \in [Paths -> Docs \cup {Garbled}]
    /\ proc \in [Procs -> [at : {"off", "ready", "saving"}, cfg : Docs,
                           path : Paths, section : Sections]]
    /\ answered \in {"ok", "failed"}
    /\ saves \in 0..MaxSaves
    /\ acked \in [Paths -> Docs]
    /\ stale \subseteq Procs
    /\ slipped \subseteq Paths

(***************************************************************************)
(* Whatever was typed, put, edited or cut, a process that runs covers at    *)
(* most MaxActiveSports sports, each of the catalogue and once, and some    *)
(* sport unless nothing is selected and the primary one is unknown          *)
(* (resolve_many; "a rejected API call leaves state intact").               *)
(***************************************************************************)
SelectionsAreValid ==
    \A p \in Procs :
        LET settings == proc[p].cfg
        IN  /\ ResolveMany(settings.active) = [error |-> "none", keys |-> settings.active]
            /\ ActiveSports(settings) = <<>> => ~Known(settings.sport)

(***************************************************************************)
(* What a command or a PUT has acknowledged is in the file it was told to   *)
(* use, whatever the others changed since, until one saves an old copy, a   *)
(* save is cut short, or the service was started with --config (_save:      *)
(* "writing without threading --config through would edit the wrong file"). *)
(***************************************************************************)
AcknowledgedStays ==
    \A f \in Paths :
        f \notin slipped /\ (\A p \in Procs : ~Saving(p, f))
            => Resolved(file[f]) = Resolved(acked[f])

(***************************************************************************)
(* A restart keeps what the service has: loading the standard file again    *)
(* gives the settings in memory, unless the last PUT failed, somebody else  *)
(* saved, or it was started with another file (create_app: "so a restart    *)
(* keeps them").                                                            *)
(***************************************************************************)
RestartKeepsTheSelection ==
    proc[serve].at = "ready" /\ proc[serve].path = Default /\ answered = "ok"
      /\ serve \notin stale
        => Loads(file[Default]) /\ Load(serve, file[Default]) = proc[serve].cfg

Page(settings, key) == Path(Team(settings, key), "schedule")

(* get_team_schedule caches a page under its path and its query. *)
CacheKey(settings, key, year) ==
    <<Page(settings, key), Query(Team(settings, key), year)>>

(* PrimaryConfig.team_ref: no school, no team; an ill-shaped year is a ValidationError. *)
HasTeam(settings) == settings.school # "none" /\ settings.year \in Years \cup {"none"}

(* The year a schedule is of: the one asked for, else the configured one. *)
YearOf(settings, year) == IF year # "none" THEN year ELSE settings.year

(***************************************************************************)
(* The entries the schedules of the sports covered are cached under, for    *)
(* any year asked or none, each with the team, level and year it is of.     *)
(***************************************************************************)
Entries(settings) ==
    LET covered == ActiveSports(settings)
    IN  {[key  |-> CacheKey(settings, covered[i], year),
          team |-> <<settings.school, covered[i], Shown(settings.level),
                     YearOf(settings, year)>>] :
            i \in DOMAIN covered, year \in Years \cup {"none"}}

(***************************************************************************)
(* Processes with settings of their own share a cache: two schedules share  *)
(* an entry exactly when they are of the same school, sport, level and      *)
(* year, whether the year was asked for or configured.  A page read back    *)
(* names the team it stands for, but for the year, which is not in it, and  *)
(* a level that is the varsity (TeamRef.path, query, for_sport, from_url,   *)
(* key_for_url, _qs_key: "two years of the same schedule are two entries"). *)
(***************************************************************************)
UrlsTellTeamsApart ==
    LET having == {p \in Procs : HasTeam(proc[p].cfg)}
        entries == UNION {Entries(proc[p].cfg) : p \in having}
    IN  /\ \A x, y \in entries : x.key = y.key <=> x.team = y.team
        /\ \A p \in having :
              LET settings == proc[p].cfg
                  covered == ActiveSports(settings)
              IN  \A i \in DOMAIN covered :
                     FromUrl(Page(settings, covered[i])) =
                         [Team(settings, covered[i]) EXCEPT !.level = Shown(@),
                                                            !.season = "none"]
=============================================================================
