-------------------------------- MODULE Export --------------------------------
(***************************************************************************)
(* One-shot exports into one flat directory (cli.py: export, render), each  *)
(* a process of its own, over the atomic writes of export/atomic.py: a      *)
(* temporary file in the same directory, synced, then renamed.  Runs are    *)
(* numbered as they begin, and a file holds the number of the run it is     *)
(* from.  A run may be killed at any point, a fetch or a write may fail.    *)
(***************************************************************************)
EXTENDS Naturals, Sequences, FiniteSets

CONSTANTS
    Active,         \* the active sports, in rotation order
    Wanted,         \* the sets of formats that may be asked for
    NoFile, Torn,   \* no such file; a file with part of its text
    MaxRuns         \* the model begins no more runs

Formats == {"json", "mgjson", "csv", "tsv", "xml"}

SportSet == {Active[i] : i \in DOMAIN Active}

ASSUME ExportAssumption ==
    /\ Active \in Seq(SportSet)
    /\ Wanted \subseteq SUBSET Formats
    /\ MaxRuns \in Nat
    /\ NoFile # Torn /\ {NoFile, Torn} \cap Nat = {}

(* The views a format is written for, in the order of _export_one. *)
Stems(format) ==
    CASE format \in {"json", "xml"} -> <<"live", "schedule", "roster">>
      [] format = "mgjson"          -> <<"live">>
      [] format \in {"csv", "tsv"}  -> <<"schedule", "roster">>

(* sport_filename: live.girls-volleyball.json. *)
FileNames(sport, format) ==
    [i \in DOMAIN Stems(format) |-> <<Stems(format)[i], sport, format>>]

Written(sport, format, wanted) ==
    IF format \in wanted THEN FileNames(sport, format) ELSE <<>>

(* The files of a sport, in the order they are written. *)
SportFiles(sport, wanted) ==
    Written(sport, "json", wanted) \o Written(sport, "mgjson", wanted)
        \o Written(sport, "csv", wanted) \o Written(sport, "tsv", wanted)
        \o Written(sport, "xml", wanted)

Index == <<"sports", "json">>
Render == <<"scorebug", "render.json">>

AllFiles ==
    {Index, Render} \cup UNION {
        {SportFiles(s, w)[i] : i \in DOMAIN SportFiles(s, w)} : s \in SportSet, w \in Wanted}

VARIABLES
    disk,       \* file -> the run it is from, NoFile or Torn
    index,      \* what sports.json lists, in order
    temps,      \* the temporary files there are: <<file, run>>
    runs,       \* the runs begun, in order
    ended       \* history: run -> the runs that had ended when it began

vars == <<disk, index, temps, runs, ended>>

Runs == DOMAIN runs

(***************************************************************************)
(*   at        "fetching" the next sport, "writing" its files, "indexing",  *)
(*             or how the run ended: "done", "failed", "killed"             *)
(*   todo      the sports to come, the present one first                    *)
(*   queue     the files of the present sport to come                       *)
(*   exported  the sports whose files are all written                       *)
(***************************************************************************)
Over == {"done", "failed", "killed"}

RunStates ==
    [at : {"fetching", "writing", "indexing"} \cup Over,
     sports : Seq(SportSet), todo : Seq(SportSet), wanted : SUBSET Formats,
     listed : BOOLEAN, queue : Seq(AllFiles), exported : Seq(SportSet)]

NewRun(sports, wanted, listed) ==
    [at |-> "fetching", sports |-> sports, todo |-> sports, wanted |-> wanted,
     listed |-> listed, queue |-> <<>>, exported |-> <<>>]

Init ==
    /\ disk = [f \in AllFiles |-> NoFile]
    /\ index = <<>>
    /\ temps = {}
    /\ runs = <<>>
    /\ ended = <<>>

Begin(run) ==
    /\ Len(runs) < MaxRuns
    /\ runs' = Append(runs, run)
    /\ ended' = Append(ended, {r \in Runs : runs[r].at \in Over})
    /\ UNCHANGED <<disk, index, temps>>

(***************************************************************************)
(* export: all active sports or the one of --sport, with sports.json unless *)
(* --no-index.                                                              *)
(***************************************************************************)
BeginExport ==
    \E sports \in {Active} \cup {<<s>> : s \in SportSet}, wanted \in Wanted, listed \in BOOLEAN :
        Begin(NewRun(sports, wanted, listed))

(* render: one view and one file of layers; a fetch that fails ends it. *)
BeginRender ==
    \/ Begin([NewRun(<<>>, {}, FALSE) EXCEPT !.at = "writing", !.queue = <<Render>>])
    \/ Begin([NewRun(<<>>, {}, FALSE) EXCEPT !.at = "failed"])

Goes(r, run) == runs' = [runs EXCEPT ![r] = run]

(* Mutant: a sport that is skipped is listed all the same.                  *)
SkipSportListed(r) ==
    /\ runs[r].at = "fetching" /\ runs[r].todo # <<>>
    /\ Goes(r, [runs[r] EXCEPT !.todo = Tail(@), !.exported = Append(@, Head(runs[r].todo))])
    /\ UNCHANGED <<disk, index, temps, ended>>

(* One of the three fetches raises an error of the package: the next sport. *)
SkipSport(r) ==
    /\ runs[r].at = "fetching" /\ runs[r].todo # <<>>
    /\ Goes(r, [runs[r] EXCEPT !.todo = Tail(@)])
    /\ UNCHANGED <<disk, index, temps, ended>>

(* Mutant: the live view is written as soon as it is fetched.               *)
FetchSportEagerly(r) ==
    /\ runs[r].at = "fetching" /\ runs[r].todo # <<>>
    /\ LET files == SportFiles(Head(runs[r].todo), runs[r].wanted)
       IN  /\ disk' = [disk EXCEPT ![Head(files)] = r]
           /\ \/ Goes(r, [runs[r] EXCEPT !.at = "writing", !.queue = Tail(files)])
              \/ Goes(r, [runs[r] EXCEPT !.todo = Tail(@)])
    /\ UNCHANGED <<index, temps, ended>>

(* Score, schedule and roster have arrived; then the files are written. *)
FetchSport(r) ==
    /\ runs[r].at = "fetching" /\ runs[r].todo # <<>>
    /\ Goes(r, [runs[r] EXCEPT !.at = "writing",
                               !.queue = SportFiles(Head(runs[r].todo), runs[r].wanted)])
    /\ UNCHANGED <<disk, index, temps, ended>>

(* The last file of a sport is there. *)
SportDone(r) ==
    /\ runs[r].at = "writing" /\ runs[r].queue = <<>> /\ runs[r].todo # <<>>
    /\ Goes(r, [runs[r] EXCEPT !.at = "fetching", !.todo = Tail(@),
                               !.exported = Append(@, Head(runs[r].todo))])
    /\ UNCHANGED <<disk, index, temps, ended>>

(* Behind the last sport the index is written, an empty one too. *)
SportsDone(r) ==
    /\ runs[r].at = "fetching" /\ runs[r].todo = <<>>
    /\ Goes(r, IF runs[r].listed
               THEN [runs[r] EXCEPT !.at = "indexing", !.queue = <<Index>>]
               ELSE [runs[r] EXCEPT !.at = "done"])
    /\ UNCHANGED <<disk, index, temps, ended>>

Writing(r) == runs[r].at \in {"writing", "indexing"} /\ runs[r].queue # <<>>

Target(r) == Head(runs[r].queue)

(* Mutant: the text is written in place.                                    *)
MakeTempInPlace(r) ==
    /\ Writing(r)
    /\ <<Target(r), r>> \notin temps
    /\ temps' = temps \cup {<<Target(r), r>>}
    /\ disk' = [disk EXCEPT ![Target(r)] = Torn]
    /\ UNCHANGED <<index, runs, ended>>

(* mkstemp, and the text on its way to the disk. *)
MakeTemp(r) ==
    /\ Writing(r)
    /\ <<Target(r), r>> \notin temps
    /\ temps' = temps \cup {<<Target(r), r>>}
    /\ UNCHANGED <<disk, index, runs, ended>>

(* The text is synced and the file renamed over the old one. *)
Replace(r) ==
    /\ Writing(r)
    /\ <<Target(r), r>> \in temps
    /\ temps' = temps \ {<<Target(r), r>>}
    /\ disk' = [disk EXCEPT ![Target(r)] = r]
    /\ index' = IF Target(r) = Index THEN runs[r].exported ELSE index
    /\ Goes(r, IF Target(r) \in {Index, Render}
               THEN [runs[r] EXCEPT !.at = "done", !.queue = <<>>]
               ELSE [runs[r] EXCEPT !.queue = Tail(@)])
    /\ UNCHANGED ended

(***************************************************************************)
(* An OSError of a write, a view that cannot be built, or a fetch that      *)
(* raises an error of another kind: the temporary file is unlinked, and the *)
(* error ends the run, with no index.                                       *)
(***************************************************************************)
WriteFails(r) ==
    /\ Writing(r)
    /\ temps' = temps \ {<<Target(r), r>>}
    /\ Goes(r, [runs[r] EXCEPT !.at = "failed", !.queue = <<>>])
    /\ UNCHANGED <<disk, index, ended>>

(* Power or a kill: what is on the disk stays there. *)
Kill(r) ==
    /\ runs[r].at \notin Over
    /\ Goes(r, [runs[r] EXCEPT !.at = "killed", !.queue = <<>>])
    /\ UNCHANGED <<disk, index, temps, ended>>

Next ==
    \/ BeginExport \/ BeginRender
    \/ \E r \in Runs :
          \/ SkipSport(r) \/ FetchSport(r) \/ SportDone(r) \/ SportsDone(r)
          \/ MakeTemp(r) \/ Replace(r) \/ WriteFails(r) \/ Kill(r)

Spec == Init /\ [][Next]_vars

-----------------------------------------------------------------------------
(* Every variable holds a value of its type. *)
TypeOK ==
    /\ runs \in Seq(RunStates)
    /\ disk \in [AllFiles -> Runs \cup {NoFile, Torn}]
    /\ index \in Seq(SportSet)
    /\ temps \subseteq AllFiles \X Runs
    /\ ended \in Seq(SUBSET Runs)
    /\ Len(ended) = Len(runs)

(* A run could not yet know of another: they overlap, or it came later. *)
NotBefore(r, s) == r \notin ended[s]

(***************************************************************************)
(* A reader never sees part of a file, and a run that ends by itself, well  *)
(* or not, leaves no temporary file behind (atomic.py: "never a             *)
(* half-written one, which on air means a corrupt frame").                  *)
(***************************************************************************)
ReadersSeeWholeFiles ==
    /\ \A f \in AllFiles : disk[f] # Torn
    /\ \A t \in temps : runs[t[2]].at \notin {"done", "failed"}

(***************************************************************************)
(* What sports.json lists is there, whole, and no older than the run that   *)
(* listed it, whatever runs failed, died or overlapped since; where the     *)
(* formats asked for leave json out nothing is said (_write_sports_index:   *)
(* "naming every sport that exported, and its filenames").                  *)
(***************************************************************************)
IndexNamesWhatIsThere ==
    LET run == disk[Index]
    IN  run # NoFile => \A i \in DOMAIN index : \A format \in runs[run].wanted :
            \A j \in DOMAIN FileNames(index[i], format) :
                LET f == FileNames(index[i], format)[j]
                IN  disk[f] \in Runs /\ NotBefore(disk[f], run)

Complete(r) == runs[r].at = "done"

(***************************************************************************)
(* The files of a sport in one format are of one run, unless the last run   *)
(* to write one of them is under way or was cut short, or two runs          *)
(* overlapped: a sport whose fetches fail keeps its old files, all of them  *)
(* (_export_one).                                                           *)
(***************************************************************************)
SportFilesAgree ==
    \A s \in SportSet, format \in Formats :
        LET files == {FileNames(s, format)[i] : i \in DOMAIN Stems(format)} \cap AllFiles
            writers == {disk[f] : f \in files} \cap Runs
        IN  \/ \A f, g \in files : disk[f] = disk[g]
            \/ \E r \in writers : ~Complete(r) /\ \A q \in writers : q <= r
            \/ \E q, r \in writers : q < r /\ NotBefore(q, r)
=============================================================================
