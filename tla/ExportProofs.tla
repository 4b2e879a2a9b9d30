----------------------------- MODULE ExportProofs -----------------------------
(***************************************************************************)
(* What a reader of the output directory may rely on, for any sports, sets  *)
(* of formats and number of runs that overlap, fail or are killed: whole    *)
(* files, and an index that names files that are there and not from before  *)
(* the run that wrote it.                                                   *)
(***************************************************************************)
EXTENDS Export, SequenceTheorems, TLAPS

-----------------------------------------------------------------------------
(* The names of a sport's files *)

Names == {"live", "schedule", "roster"} \X SportSet \X Formats

LEMMA FileNamesAreSeqs ==
    ASSUME NEW s \in SportSet, NEW format \in Formats
    PROVE  FileNames(s, format) \in Seq(Names)
<1> DEFINE T == {"live", "schedule", "roster"}
<1>1. <<"live", "schedule", "roster">> \in Seq(T)
  OBVIOUS
<1>2. <<"live">> \in Seq(T) /\ <<"schedule", "roster">> \in Seq(T)
  OBVIOUS
<1>3. Stems(format) \in Seq(T)
  BY <1>1, <1>2 DEF Stems, Formats
<1>4. QED
  BY <1>3 DEF FileNames, Names

LEMMA WrittenAreSeqs ==
    ASSUME NEW s \in SportSet, NEW format \in Formats, NEW wanted
    PROVE  Written(s, format, wanted) \in Seq(Names)
  BY FileNamesAreSeqs DEF Written

Holds(seq, f) == \E k \in DOMAIN seq : seq[k] = f

(* What is in one of two sequences is in both of them together. *)
LEMMA ConcatHolds ==
    ASSUME NEW S, NEW a \in Seq(S), NEW b \in Seq(S)
    PROVE  /\ a \o b \in Seq(S)
           /\ \A i \in DOMAIN a : Holds(a \o b, a[i])
           /\ \A i \in DOMAIN b : Holds(a \o b, b[i])
<1>1. /\ a \o b \in Seq(S) /\ Len(a \o b) = Len(a) + Len(b)
      /\ \A i \in 1..Len(a) + Len(b) :
            (a \o b)[i] = IF i <= Len(a) THEN a[i] ELSE b[i - Len(a)]
  BY ConcatProperties
<1>2. /\ Len(a) \in Nat /\ DOMAIN a = 1..Len(a)
      /\ Len(b) \in Nat /\ DOMAIN b = 1..Len(b)
      /\ DOMAIN (a \o b) = 1..Len(a \o b)
  BY <1>1, LenProperties
<1>3. ASSUME NEW i \in DOMAIN a
      PROVE  Holds(a \o b, a[i])
  <2>1. i \in 1..Len(a) + Len(b) /\ i <= Len(a)
    BY <1>2, <1>3
  <2>2. QED
    BY <1>1, <1>2, <2>1 DEF Holds
<1>4. ASSUME NEW i \in DOMAIN b
      PROVE  Holds(a \o b, b[i])
  <2>1. i + Len(a) \in 1..Len(a) + Len(b) /\ ~(i + Len(a) <= Len(a))
    BY <1>2, <1>4
  <2>2. (a \o b)[i + Len(a)] = b[(i + Len(a)) - Len(a)]
    BY <1>1, <2>1
  <2>3. (i + Len(a)) - Len(a) = i
    BY <1>2, <1>4
  <2>4. QED
    BY <1>1, <1>2, <2>1, <2>2, <2>3 DEF Holds
<1>5. QED
  BY <1>1, <1>3, <1>4

LEMMA SportFilesHold ==
    ASSUME NEW s \in SportSet, NEW wanted \in SUBSET Formats
    PROVE  /\ SportFiles(s, wanted) \in Seq(Names)
           /\ \A format \in wanted : \A j \in DOMAIN FileNames(s, format) :
                 Holds(SportFiles(s, wanted), FileNames(s, format)[j])
<1> DEFINE a == Written(s, "json", wanted)
           b == Written(s, "mgjson", wanted)
           c == Written(s, "csv", wanted)
           d == Written(s, "tsv", wanted)
           e == Written(s, "xml", wanted)
<1>1. a \in Seq(Names) /\ b \in Seq(Names) /\ c \in Seq(Names) /\ d \in Seq(Names)
        /\ e \in Seq(Names)
  BY WrittenAreSeqs DEF Formats
<1>2. SportFiles(s, wanted) = (((a \o b) \o c) \o d) \o e
  BY DEF SportFiles
<1>3. \A format \in wanted :
          FileNames(s, format) \in {a, b, c, d, e}
  BY DEF Written, Formats
<1> HIDE DEF a, b, c, d, e
<1>4. /\ a \o b \in Seq(Names)
      /\ \A i \in DOMAIN a : Holds(a \o b, a[i])
      /\ \A i \in DOMAIN b : Holds(a \o b, b[i])
  BY <1>1, ConcatHolds
<1> DEFINE ab == a \o b
<1> HIDE DEF ab
<1>5. /\ ab \o c \in Seq(Names)
      /\ \A i \in DOMAIN ab : Holds(ab \o c, ab[i])
      /\ \A i \in DOMAIN c : Holds(ab \o c, c[i])
  BY <1>1, <1>4, ConcatHolds DEF ab
<1> DEFINE abc == ab \o c
<1> HIDE DEF abc
<1>6. /\ abc \o d \in Seq(Names)
      /\ \A i \in DOMAIN abc : Holds(abc \o d, abc[i])
      /\ \A i \in DOMAIN d : Holds(abc \o d, d[i])
  BY <1>1, <1>5, ConcatHolds DEF abc
<1> DEFINE abcd == abc \o d
<1> HIDE DEF abcd
<1>7. /\ abcd \o e \in Seq(Names)
      /\ \A i \in DOMAIN abcd : Holds(abcd \o e, abcd[i])
      /\ \A i \in DOMAIN e : Holds(abcd \o e, e[i])
  BY <1>1, <1>6, ConcatHolds DEF abcd
<1>8. SportFiles(s, wanted) = abcd \o e
  BY <1>2 DEF abcd, abc, ab
<1>9. /\ \A i \in DOMAIN a : Holds(ab, a[i])
      /\ \A i \in DOMAIN b : Holds(ab, b[i])
  BY <1>4 DEF ab
<1>10. /\ \A f : Holds(ab, f) => Holds(abc, f)
       /\ \A i \in DOMAIN c : Holds(abc, c[i])
  BY <1>5 DEF Holds, abc
<1>11. /\ \A f : Holds(abc, f) => Holds(abcd, f)
       /\ \A i \in DOMAIN d : Holds(abcd, d[i])
  BY <1>6 DEF Holds, abcd
<1>12. /\ \A f : Holds(abcd, f) => Holds(SportFiles(s, wanted), f)
       /\ \A i \in DOMAIN e : Holds(SportFiles(s, wanted), e[i])
  BY <1>7, <1>8 DEF Holds
<1>13. \A x \in {a, b, c, d, e} : \A j \in DOMAIN x : Holds(SportFiles(s, wanted), x[j])
  BY <1>9, <1>10, <1>11, <1>12
<1>14. QED
  BY <1>3, <1>7, <1>8, <1>13

(* The files of a sport, as a queue: a sequence of names of files. *)
LEMMA QueueOfSport ==
    ASSUME NEW s \in SportSet, NEW wanted \in Wanted
    PROVE  SportFiles(s, wanted) \in Seq(AllFiles)
<1> DEFINE files == SportFiles(s, wanted)
<1>1. files \in Seq(Names)
  BY SportFilesHold, ExportAssumption
<1>2. ASSUME NEW i \in DOMAIN files
      PROVE  files[i] \in AllFiles
  <2> DEFINE own == {files[k] : k \in DOMAIN files}
  <2>1. files[i] \in own
    OBVIOUS
  <2>2. own \in {{SportFiles(x, w)[k] : k \in DOMAIN SportFiles(x, w)} :
                    x \in SportSet, w \in Wanted}
    OBVIOUS
  <2>3. own \subseteq AllFiles
    <3> HIDE DEF own
    <3>1. QED
      BY <2>2 DEF AllFiles
  <2>4. QED
    BY <2>1, <2>3
<1> HIDE DEF files
<1>3. files = [i \in 1..Len(files) |-> files[i]] /\ Len(files) \in Nat
        /\ DOMAIN files = 1..Len(files)
  BY <1>1, LenProperties
<1>4. files \in Seq(AllFiles)
  BY <1>2, <1>3
<1>5. QED
  BY <1>4 DEF files

-----------------------------------------------------------------------------
(* The invariant *)

(* A file of a run's own time: there, whole, not from before the run. *)
Present(f, r) == f \in AllFiles /\ disk[f] \in Runs /\ NotBefore(disk[f], r)

NothingTorn == \A f \in AllFiles : disk[f] # Torn

(* What had ended when a run began has ended. *)
EndedIsOver == \A r \in Runs : \A q \in ended[r] : q \in Runs /\ runs[q].at \in Over

(* A temporary file is the one its run writes, or what a kill left. *)
TempsAreHeld ==
    \A t \in temps : runs[t[2]].at = "killed" \/ (Writing(t[2]) /\ Target(t[2]) = t[1])

(* A run that has sports to come was asked for formats. *)
Asked == \A r \in Runs : runs[r].todo # <<>> => runs[r].wanted \in Wanted

SportPresent(s, wanted, r) ==
    \A format \in wanted : \A j \in DOMAIN FileNames(s, format) :
        Present(FileNames(s, format)[j], r)

(* The sports a run has exported are there ... *)
ExportedPresent ==
    \A r \in Runs : \A i \in DOMAIN runs[r].exported :
        SportPresent(runs[r].exported[i], runs[r].wanted, r)

(* ... and of the one under way, what is not in the queue. *)
UnderWay(run, r) ==
    \A format \in run.wanted : \A j \in DOMAIN FileNames(Head(run.todo), format) :
        \/ Holds(run.queue, FileNames(Head(run.todo), format)[j])
        \/ Present(FileNames(Head(run.todo), format)[j], r)

RestIsQueued ==
    \A r \in Runs : runs[r].at = "writing" /\ runs[r].todo # <<>> => UnderWay(runs[r], r)

(* The index is what the run that wrote it exported, and that run is over. *)
IndexIsOfItsRun ==
    disk[Index] \in Runs =>
        runs[disk[Index]].at \in Over /\ index = runs[disk[Index]].exported

IInv ==
    /\ TypeOK /\ NothingTorn /\ EndedIsOver /\ TempsAreHeld /\ Asked
    /\ ExportedPresent /\ RestIsQueued /\ IndexIsOfItsRun

LEMMA InitIInv == Init => IInv
<1>1. Index \in AllFiles
  BY DEF AllFiles
<1>2. NoFile # Torn /\ NoFile \notin Nat
  BY ExportAssumption
<1>3. QED
  BY <1>1, <1>2
     DEF Init, IInv, TypeOK, Runs, NothingTorn, EndedIsOver, TempsAreHeld, Asked,
         ExportedPresent, RestIsQueued, IndexIsOfItsRun

-----------------------------------------------------------------------------
(* What a step of one run leaves as it is *)

LEMMA RunsAreNumbered ==
    ASSUME TypeOK
    PROVE  /\ Len(runs) \in Nat /\ Runs = 1..Len(runs)
           /\ \A r \in Runs : runs[r] \in RunStates
           /\ Len(ended) = Len(runs) /\ DOMAIN ended = Runs
           /\ \A r \in Runs : ended[r] \subseteq Runs
  BY LenProperties DEF TypeOK, Runs

LEMMA GoesParts ==
    ASSUME TypeOK, NEW r \in Runs, NEW run \in RunStates, Goes(r, run)
    PROVE  /\ runs' \in Seq(RunStates) /\ Len(runs') = Len(runs) /\ Runs' = Runs
           /\ runs'[r] = run /\ \A q \in Runs \ {r} : runs'[q] = runs[q]
  BY RunsAreNumbered, ExceptSeq, LenProperties DEF Goes, TypeOK, Runs

Running(run) == run.at \in {"writing", "indexing"} /\ run.queue # <<>>

(* What one run may become while the files stay as they are. *)
Sound(run, r) ==
    /\ run \in RunStates
    /\ run.todo # <<>> => run.wanted \in Wanted
    /\ \A i \in DOMAIN run.exported : SportPresent(run.exported[i], run.wanted, r)
    /\ run.at = "writing" /\ run.todo # <<>> => UnderWay(run, r)

LEMMA RunsAreSound ==
    ASSUME IInv, NEW r \in Runs
    PROVE  Sound(runs[r], r)
  BY RunsAreNumbered DEF IInv, Asked, ExportedPresent, RestIsQueued, Sound

(* A step of one run that is not over, and at most drops its own temporary  *)
(* file.                                                                    *)
LEMMA OwnStep ==
    ASSUME IInv, NEW r \in Runs, NEW run, Sound(run, r), Goes(r, run),
           runs[r].at \notin Over,
           temps' \subseteq temps, UNCHANGED <<disk, index, ended>>,
           \A t \in temps' : t[2] = r =>
               run.at = "killed" \/ (Running(run) /\ Head(run.queue) = t[1])
    PROVE  IInv'
<1>1. /\ runs' \in Seq(RunStates) /\ Len(runs') = Len(runs) /\ Runs' = Runs
      /\ runs'[r] = run /\ \A q \in Runs \ {r} : runs'[q] = runs[q]
  BY GoesParts DEF IInv, Sound
<1>2. /\ \A f, q : Present(f, q)' <=> Present(f, q)
      /\ \A s, wanted, q : SportPresent(s, wanted, q)' <=> SportPresent(s, wanted, q)
      /\ \A x, q : UnderWay(x, q)' <=> UnderWay(x, q)
  BY <1>1 DEF Present, NotBefore, SportPresent, UnderWay
<1>3. TypeOK' /\ NothingTorn'
  BY <1>1 DEF IInv, TypeOK, NothingTorn
<1>4. EndedIsOver'
  BY <1>1 DEF IInv, EndedIsOver
<1>5. TempsAreHeld'
  <2>1. \A t \in temps : t[2] \in Runs
    BY DEF IInv, TypeOK
  <2>2. QED
    BY <1>1, <2>1 DEF IInv, TempsAreHeld, Writing, Target, Running
<1>6. Asked'
  BY <1>1 DEF IInv, Asked, Sound
<1>7. ExportedPresent'
  BY <1>1, <1>2 DEF IInv, ExportedPresent, Sound
<1>8. RestIsQueued'
  BY <1>1, <1>2 DEF IInv, RestIsQueued, Sound
<1>9. IndexIsOfItsRun'
  BY <1>1 DEF IInv, IndexIsOfItsRun
<1>10. QED
  BY <1>3, <1>4, <1>5, <1>6, <1>7, <1>8, <1>9 DEF IInv

(* No temporary file is held by a run that is not at a file. *)
LEMMA NoTempsOutside ==
    ASSUME IInv, NEW r \in Runs, ~Writing(r), runs[r].at # "killed"
    PROVE  \A t \in temps : t[2] # r
  BY DEF IInv, TempsAreHeld

LEMMA SkipStep ==
    ASSUME IInv, NEW r \in Runs, SkipSport(r)
    PROVE  IInv'
<1> DEFINE run == [runs[r] EXCEPT !.todo = Tail(@)]
<1>1. /\ runs[r] \in RunStates /\ runs[r].at = "fetching" /\ runs[r].todo # <<>>
      /\ Goes(r, run) /\ UNCHANGED <<disk, index, temps, ended>>
  BY RunsAreNumbered DEF SkipSport, IInv
<1>2. Tail(runs[r].todo) \in Seq(SportSet)
  BY <1>1 DEF RunStates
<1>3. Sound(run, r)
  BY <1>1, <1>2, RunsAreSound DEF Sound, RunStates
<1>4. \A t \in temps : t[2] # r
  BY <1>1, NoTempsOutside DEF Writing
<1>5. runs[r].at \notin Over
  BY <1>1 DEF Over
<1> HIDE DEF run
<1>6. QED
  BY <1>1, <1>3, <1>4, <1>5, OwnStep

LEMMA FetchStep ==
    ASSUME IInv, NEW r \in Runs, FetchSport(r)
    PROVE  IInv'
<1> DEFINE queue == SportFiles(Head(runs[r].todo), runs[r].wanted)
           run == [runs[r] EXCEPT !.at = "writing", !.queue = queue]
<1>1. /\ runs[r] \in RunStates /\ runs[r].at = "fetching" /\ runs[r].todo # <<>>
      /\ Goes(r, run) /\ UNCHANGED <<disk, index, temps, ended>>
  BY RunsAreNumbered DEF FetchSport, IInv
<1>2. runs[r].wanted \in Wanted /\ Head(runs[r].todo) \in SportSet
  BY <1>1 DEF IInv, Asked, RunStates
<1>3. queue \in Seq(AllFiles)
  BY <1>2, QueueOfSport
<1>4. \A format \in runs[r].wanted :
          \A j \in DOMAIN FileNames(Head(runs[r].todo), format) :
              Holds(queue, FileNames(Head(runs[r].todo), format)[j])
  BY <1>2, SportFilesHold, ExportAssumption
<1> HIDE DEF queue
<1>5. /\ run \in RunStates /\ run.at = "writing" /\ run.queue = queue
      /\ run.todo = runs[r].todo /\ run.wanted = runs[r].wanted
      /\ run.exported = runs[r].exported
  BY <1>1, <1>3 DEF RunStates
<1>6. UnderWay(run, r)
  BY <1>4, <1>5 DEF UnderWay
<1> HIDE DEF run
<1>7. Sound(run, r)
  BY <1>2, <1>5, <1>6, RunsAreSound DEF Sound
<1>8. \A t \in temps : t[2] # r
  BY <1>1, NoTempsOutside DEF Writing
<1>9. runs[r].at \notin Over
  BY <1>1 DEF Over
<1>10. QED
  BY <1>1, <1>7, <1>8, <1>9, OwnStep

(* The queue is empty, so every file of the sport is there. *)
LEMMA DoneStep ==
    ASSUME IInv, NEW r \in Runs, SportDone(r)
    PROVE  IInv'
<1> DEFINE done == Append(runs[r].exported, Head(runs[r].todo))
           run == [runs[r] EXCEPT !.at = "fetching", !.todo = Tail(@), !.exported = done]
<1>1. /\ runs[r] \in RunStates /\ runs[r].at = "writing" /\ runs[r].todo # <<>>
      /\ runs[r].queue = <<>>
      /\ Goes(r, run) /\ UNCHANGED <<disk, index, temps, ended>>
  BY RunsAreNumbered DEF SportDone, IInv
<1>2. /\ Tail(runs[r].todo) \in Seq(SportSet) /\ Head(runs[r].todo) \in SportSet
      /\ runs[r].exported \in Seq(SportSet)
  BY <1>1 DEF RunStates
<1>3. SportPresent(Head(runs[r].todo), runs[r].wanted, r)
  <2>1. UnderWay(runs[r], r)
    BY <1>1, RunsAreSound DEF Sound
  <2>2. \A f : ~Holds(runs[r].queue, f)
    BY <1>1 DEF Holds
  <2>3. QED
    BY <2>1, <2>2 DEF UnderWay, SportPresent
<1>4. /\ done \in Seq(SportSet)
      /\ \A i \in DOMAIN done :
            done[i] = Head(runs[r].todo) \/ \E k \in DOMAIN runs[r].exported :
                                               done[i] = runs[r].exported[k]
  BY <1>2
<1> HIDE DEF done
<1>5. /\ run \in RunStates /\ run.at = "fetching" /\ run.wanted = runs[r].wanted
      /\ run.exported = done
  BY <1>1, <1>2, <1>4 DEF RunStates
<1>6. runs[r].todo # <<>> => runs[r].wanted \in Wanted
  BY RunsAreSound DEF Sound
<1> HIDE DEF run
<1>7. Sound(run, r)
  BY <1>1, <1>3, <1>4, <1>5, <1>6, RunsAreSound DEF Sound
<1>8. \A t \in temps : t[2] # r
  BY <1>1, NoTempsOutside DEF Writing
<1>9. runs[r].at \notin Over
  BY <1>1 DEF Over
<1>10. QED
  BY <1>1, <1>7, <1>8, <1>9, OwnStep

LEMMA AllDoneStep ==
    ASSUME IInv, NEW r \in Runs, SportsDone(r)
    PROVE  IInv'
<1> DEFINE run == IF runs[r].listed
                  THEN [runs[r] EXCEPT !.at = "indexing", !.queue = <<Index>>]
                  ELSE [runs[r] EXCEPT !.at = "done"]
<1>1. /\ runs[r] \in RunStates /\ runs[r].at = "fetching" /\ runs[r].todo = <<>>
      /\ Goes(r, run) /\ UNCHANGED <<disk, index, temps, ended>>
  BY RunsAreNumbered DEF SportsDone, IInv
<1>2. <<Index>> \in Seq(AllFiles)
  BY DEF AllFiles
<1>3. /\ run \in RunStates /\ run.todo = <<>> /\ run.wanted = runs[r].wanted
      /\ run.exported = runs[r].exported
  BY <1>1, <1>2 DEF RunStates, Over
<1> HIDE DEF run
<1>4. Sound(run, r)
  BY <1>3, RunsAreSound DEF Sound
<1>5. \A t \in temps : t[2] # r
  BY <1>1, NoTempsOutside DEF Writing
<1>6. runs[r].at \notin Over
  BY <1>1 DEF Over
<1>7. QED
  BY <1>1, <1>4, <1>5, <1>6, OwnStep

LEMMA EndStep ==
    ASSUME IInv, NEW r \in Runs, WriteFails(r) \/ Kill(r)
    PROVE  IInv'
<1> DEFINE Ended(how) == [runs[r] EXCEPT !.at = how, !.queue = <<>>]
<1>1. runs[r] \in RunStates
  BY RunsAreNumbered DEF IInv
<1>2. \A how \in {"failed", "killed"} :
          /\ Ended(how) \in RunStates /\ Ended(how).at = how
          /\ Ended(how).todo = runs[r].todo /\ Ended(how).wanted = runs[r].wanted
          /\ Ended(how).exported = runs[r].exported
  <2>1. ASSUME NEW how \in {"failed", "killed"}
        PROVE  /\ Ended(how).at = how
               /\ Ended(how).todo = runs[r].todo /\ Ended(how).wanted = runs[r].wanted
               /\ Ended(how).exported = runs[r].exported
    BY <1>1 DEF RunStates
  <2>2. ASSUME NEW how \in {"failed", "killed"}
        PROVE  Ended(how) \in RunStates
    <3>1. how \in {"fetching", "writing", "indexing"} \cup Over /\ <<>> \in Seq(AllFiles)
      BY DEF Over
    <3>2. QED
      BY <1>1, <3>1 DEF RunStates
  <2>3. QED
    BY <2>1, <2>2
<1> HIDE DEF Ended
<1>3. \A how \in {"failed", "killed"} : Sound(Ended(how), r)
  BY <1>2, RunsAreSound DEF Sound
<1>4. CASE WriteFails(r)
  <2>1. /\ Writing(r) /\ temps' = temps \ {<<Target(r), r>>}
        /\ Goes(r, Ended("failed")) /\ UNCHANGED <<disk, index, ended>>
    BY <1>4 DEF WriteFails, Ended
  <2>2. \A t \in temps : t = <<t[1], t[2]>>
    BY DEF IInv, TypeOK
  <2>3. runs[r].at # "killed" /\ runs[r].at \notin Over
    BY <2>1 DEF Writing, Over
  <2>4. \A t \in temps' : t[2] # r
    BY <2>1, <2>2, <2>3 DEF IInv, TempsAreHeld
  <2>5. QED
    BY <1>3, <2>1, <2>3, <2>4, OwnStep
<1>5. CASE Kill(r)
  <2>1. /\ Goes(r, Ended("killed")) /\ UNCHANGED <<disk, index, temps, ended>>
        /\ runs[r].at \notin Over
    BY <1>5 DEF Kill, Ended
  <2>2. QED
    BY <1>2, <1>3, <2>1, OwnStep
<1>6. QED
  BY <1>4, <1>5

LEMMA TempStep ==
    ASSUME IInv, NEW r \in Runs, MakeTemp(r)
    PROVE  IInv'
<1>1. /\ Writing(r) /\ temps' = temps \cup {<<Target(r), r>>}
      /\ UNCHANGED <<disk, index, runs, ended>>
  BY DEF MakeTemp
<1>2. Target(r) \in AllFiles
  BY <1>1, RunsAreNumbered DEF IInv, Writing, Target, RunStates
<1>3. TypeOK'
  BY <1>1, <1>2 DEF IInv, TypeOK, Runs
<1>4. TempsAreHeld'
  BY <1>1 DEF IInv, TempsAreHeld, Writing, Target
<1>5. NothingTorn' /\ EndedIsOver' /\ Asked' /\ IndexIsOfItsRun'
  BY <1>1 DEF IInv, NothingTorn, EndedIsOver, Asked, IndexIsOfItsRun, Runs
<1>6. ExportedPresent' /\ RestIsQueued'
  <2>1. /\ \A s, wanted, q : SportPresent(s, wanted, q)' <=> SportPresent(s, wanted, q)
        /\ \A x, q : UnderWay(x, q)' <=> UnderWay(x, q)
    BY <1>1 DEF Present, NotBefore, SportPresent, UnderWay, Runs
  <2>2. QED
    BY <1>1, <2>1 DEF IInv, ExportedPresent, RestIsQueued, Runs
<1>7. QED
  BY <1>3, <1>4, <1>5, <1>6 DEF IInv

(* What a run writes is present to every run there is: the writer is not    *)
(* over, so none of them began behind its end.                              *)
LEMMA WriterIsPresent ==
    ASSUME IInv, NEW r \in Runs, runs[r].at \notin Over, NEW q \in Runs
    PROVE  NotBefore(r, q)
  BY DEF IInv, EndedIsOver, NotBefore

LEMMA ReplaceParts ==
    ASSUME IInv, NEW r \in Runs, Replace(r),
           NEW f, f = Target(r),
           NEW run, run = IF f \in {Index, Render}
                          THEN [runs[r] EXCEPT !.at = "done", !.queue = <<>>]
                          ELSE [runs[r] EXCEPT !.queue = Tail(@)]
    PROVE  IInv'
<1>1. /\ runs[r] \in RunStates /\ runs[r].at \in {"writing", "indexing"}
      /\ runs[r].queue # <<>> /\ f = Head(runs[r].queue)
      /\ temps' = temps \ {<<f, r>>} /\ disk' = [disk EXCEPT ![f] = r]
      /\ index' = IF f = Index THEN runs[r].exported ELSE index
      /\ Goes(r, run) /\ ended' = ended
  BY RunsAreNumbered DEF Replace, Writing, Target, IInv
<1>2. f \in AllFiles /\ Tail(runs[r].queue) \in Seq(AllFiles)
  BY <1>1 DEF RunStates
<1>3. /\ run \in RunStates /\ run.todo = runs[r].todo /\ run.wanted = runs[r].wanted
      /\ run.exported = runs[r].exported
      /\ f \in {Index, Render} => run.at = "done"
      /\ f \notin {Index, Render} => run.at = runs[r].at /\ run.queue = Tail(runs[r].queue)
  <2>1. <<>> \in Seq(AllFiles) /\ "done" \in {"fetching", "writing", "indexing"} \cup Over
    BY DEF Over
  <2>2. CASE f \in {Index, Render}
    BY <1>1, <2>1, <2>2 DEF RunStates
  <2>3. CASE f \notin {Index, Render}
    BY <1>1, <1>2, <2>3 DEF RunStates
  <2>4. QED
    BY <2>2, <2>3
<1>4. /\ runs' \in Seq(RunStates) /\ Len(runs') = Len(runs) /\ Runs' = Runs
      /\ runs'[r] = run /\ \A q \in Runs \ {r} : runs'[q] = runs[q]
  BY <1>1, <1>3, GoesParts DEF IInv
<1>5. runs[r].at \notin Over
  BY <1>1 DEF Over
<1>6. /\ disk \in [AllFiles -> Runs \cup {NoFile, Torn}]
      /\ disk'[f] = r /\ \A g \in AllFiles \ {f} : disk'[g] = disk[g]
      /\ disk' \in [AllFiles -> Runs \cup {NoFile, Torn}]
  BY <1>1, <1>2 DEF IInv, TypeOK
<1>7. /\ \A q \in Runs : Present(f, q)'
      /\ \A g, q : q \in Runs /\ Present(g, q) => Present(g, q)'
  BY <1>1, <1>2, <1>4, <1>5, <1>6, WriterIsPresent DEF Present, NotBefore
<1>8. \A s, wanted, q : q \in Runs /\ SportPresent(s, wanted, q) => SportPresent(s, wanted, q)'
  BY <1>7 DEF SportPresent
<1>9. TypeOK'
  <2>1. index' \in Seq(SportSet)
    BY <1>1 DEF IInv, TypeOK, RunStates
  <2>2. QED
    BY <1>1, <1>4, <1>6, <2>1 DEF IInv, TypeOK
<1>10. NothingTorn'
  <2>1. Torn \notin Nat /\ r \in Nat
    BY ExportAssumption, RunsAreNumbered DEF IInv
  <2>2. QED
    BY <1>6, <2>1 DEF IInv, NothingTorn
<1>11. EndedIsOver'
  BY <1>1, <1>4, <1>5 DEF IInv, EndedIsOver
<1>12. TempsAreHeld'
  <2>1. \A t \in temps : t = <<t[1], t[2]>> /\ t[2] \in Runs
    BY DEF IInv, TypeOK
  <2>2. \A t \in temps' : t[2] # r
    BY <1>1, <1>5, <2>1 DEF IInv, TempsAreHeld, Over
  <2>3. QED
    BY <1>1, <1>4, <2>1, <2>2 DEF IInv, TempsAreHeld, Writing, Target
<1>13. Asked'
  BY <1>3, <1>4 DEF IInv, Asked
<1>14. ExportedPresent'
  <2>1. \A q \in Runs : runs'[q].exported = runs[q].exported /\ runs'[q].wanted = runs[q].wanted
    BY <1>3, <1>4
  <2>2. ASSUME NEW q \in Runs, NEW i \in DOMAIN runs[q].exported
        PROVE  SportPresent(runs[q].exported[i], runs[q].wanted, q)'
    <3> DEFINE s == runs[q].exported[i]
               wanted == runs[q].wanted
    <3>1. SportPresent(s, wanted, q)
      BY <2>2 DEF IInv, ExportedPresent
    <3>2. PICK x, w : x = s /\ w = wanted
      OBVIOUS
    <3>3. SportPresent(x, w, q)'
      BY <1>8, <3>1, <3>2
    <3>4. s' = x /\ wanted' = w
      BY <2>1, <3>2
    <3>5. QED
      BY <3>3, <3>4
  <2>3. QED
    BY <1>4, <2>1, <2>2 DEF ExportedPresent
<1>15. RestIsQueued'
  <2>1. \A g : Holds(runs[r].queue, g) => g = f \/ Holds(Tail(runs[r].queue), g)
    <3> DEFINE queue == runs[r].queue
    <3>1. queue \in Seq(AllFiles) /\ queue # <<>>
      BY <1>1 DEF RunStates
    <3>2. /\ Len(queue) \in Nat \ {0} /\ DOMAIN queue = 1..Len(queue)
          /\ Len(Tail(queue)) = Len(queue) - 1 /\ DOMAIN Tail(queue) = 1..Len(queue) - 1
          /\ \A i \in 1..Len(queue) - 1 : Tail(queue)[i] = queue[i + 1]
          /\ Head(queue) = queue[1]
      BY <3>1, HeadTailProperties, LenProperties, EmptySeq
    <3>3. ASSUME NEW g, NEW k \in DOMAIN queue, queue[k] = g, k # 1
          PROVE  Holds(Tail(queue), g)
      <4>1. k - 1 \in 1..Len(queue) - 1 /\ Tail(queue)[k - 1] = g
        BY <3>2, <3>3
      <4>2. QED
        BY <3>2, <4>1 DEF Holds
    <3>4. QED
      BY <1>1, <3>2, <3>3 DEF Holds
  <2>2. \A x, q : q \in Runs /\ UnderWay(x, q) => UnderWay(x, q)'
    BY <1>7 DEF UnderWay
  <2>3. f \notin {Index, Render} /\ UnderWay(runs[r], r) => UnderWay(run, r)'
    BY <1>3, <1>7, <2>1 DEF UnderWay
  <2>4. run.at = "writing" /\ run.todo # <<>> => UnderWay(run, r)'
    BY <1>1, <1>3, <2>3 DEF IInv, RestIsQueued
  <2>5. QED
    BY <1>4, <2>2, <2>4 DEF IInv, RestIsQueued
<1>16. IndexIsOfItsRun'
  <2>1. Index \in AllFiles
    BY DEF AllFiles
  <2>2. CASE f = Index
    <3>1. disk'[Index] = r /\ index' = runs[r].exported
      BY <1>1, <1>6, <2>2
    <3>2. runs'[r].at = "done" /\ runs'[r].exported = runs[r].exported
      BY <1>3, <1>4, <2>2
    <3>3. QED
      BY <3>1, <3>2 DEF IndexIsOfItsRun, Over
  <2>3. CASE f # Index
    BY <1>1, <1>4, <1>5, <1>6, <2>1, <2>3 DEF IInv, IndexIsOfItsRun
  <2>4. QED
    BY <2>2, <2>3
<1>17. QED
  BY <1>9, <1>10, <1>11, <1>12, <1>13, <1>14, <1>15, <1>16 DEF IInv

LEMMA ReplaceStep ==
    ASSUME IInv, NEW r \in Runs, Replace(r)
    PROVE  IInv'
  BY ReplaceParts

(* A run that begins has nothing to answer for. *)
LEMMA BeginParts ==
    ASSUME IInv, NEW run \in RunStates, Begin(run), run.exported = <<>>,
           run.at = "writing" => run.todo = <<>>,
           run.todo # <<>> => run.wanted \in Wanted
    PROVE  IInv'
<1> DEFINE n == Len(runs) + 1
           over == {q \in Runs : runs[q].at \in Over}
<1>1. /\ runs' = Append(runs, run) /\ ended' = Append(ended, over)
      /\ UNCHANGED <<disk, index, temps>>
  BY DEF Begin
<1>2. /\ Len(runs) \in Nat /\ Runs = 1..Len(runs)
      /\ Len(ended) = Len(runs) /\ runs \in Seq(RunStates) /\ ended \in Seq(SUBSET Runs)
      /\ \A r \in Runs : ended[r] \subseteq Runs
  BY RunsAreNumbered DEF IInv, TypeOK
<1> HIDE DEF over
<1>3. /\ runs' \in Seq(RunStates) /\ Runs' = Runs \cup {n} /\ n \notin Runs
      /\ runs'[n] = run /\ \A r \in Runs : runs'[r] = runs[r]
      /\ Len(runs') = n
  BY <1>1, <1>2 DEF Runs
<1>4. over \subseteq Runs
  BY DEF over
<1>5. /\ Len(ended') = n /\ ended'[n] = over /\ \A r \in Runs : ended'[r] = ended[r]
      /\ ended' \in Seq(SUBSET Runs)
  BY <1>1, <1>2, <1>4
<1>6. TypeOK'
  <2>1. ended' \in Seq(SUBSET Runs')
    BY <1>3, <1>5, SeqMonotonic
  <2>2. QED
    BY <1>1, <1>3, <1>5, <2>1 DEF IInv, TypeOK
<1>7. NothingTorn'
  BY <1>1 DEF IInv, NothingTorn
<1>8. EndedIsOver'
  BY <1>3, <1>5 DEF IInv, EndedIsOver, over
<1>9. TempsAreHeld'
  <2>1. \A t \in temps : t[2] \in Runs
    BY DEF IInv, TypeOK
  <2>2. QED
    BY <1>1, <1>3, <2>1 DEF IInv, TempsAreHeld, Writing, Target
<1>10. Asked'
  BY <1>3 DEF IInv, Asked
<1>11. \A f, q : q \in Runs /\ Present(f, q) => Present(f, q)'
  BY <1>1, <1>3, <1>5 DEF Present, NotBefore
<1>12. /\ \A s, wanted, q : q \in Runs /\ SportPresent(s, wanted, q)
                                => SportPresent(s, wanted, q)'
       /\ \A x, q : q \in Runs /\ UnderWay(x, q) => UnderWay(x, q)'
  BY <1>11 DEF SportPresent, UnderWay
<1>13. ExportedPresent'
  BY <1>3, <1>12 DEF IInv, ExportedPresent
<1>14. RestIsQueued'
  BY <1>3, <1>12 DEF IInv, RestIsQueued
<1>15. IndexIsOfItsRun'
  <2>1. disk[Index] \in Runs \cup {NoFile, Torn} /\ n \in Nat
    BY <1>2 DEF IInv, TypeOK, AllFiles
  <2>2. disk[Index] # n
    BY <1>3, <2>1, ExportAssumption
  <2>3. QED
    BY <1>1, <1>3, <2>2 DEF IInv, IndexIsOfItsRun
<1>16. QED
  BY <1>6, <1>7, <1>8, <1>9, <1>10, <1>13, <1>14, <1>15 DEF IInv

LEMMA BeginStep ==
    ASSUME IInv, BeginExport \/ BeginRender
    PROVE  IInv'
<1>1. /\ <<>> \in Seq(SportSet) /\ <<>> \in Seq(AllFiles) /\ <<Render>> \in Seq(AllFiles)
      /\ Active \in Seq(SportSet) /\ \A s \in SportSet : <<s>> \in Seq(SportSet)
  BY ExportAssumption DEF AllFiles
<1>2. CASE BeginExport
  <2>1. PICK sports \in {Active} \cup {<<s>> : s \in SportSet}, wanted \in Wanted,
             listed \in BOOLEAN : Begin(NewRun(sports, wanted, listed))
    BY <1>2 DEF BeginExport
  <2>2. sports \in Seq(SportSet) /\ wanted \in SUBSET Formats
    BY <1>1, ExportAssumption
  <2>3. NewRun(sports, wanted, listed) \in RunStates
    BY <1>1, <2>2 DEF NewRun, RunStates
  <2>4. /\ NewRun(sports, wanted, listed).at = "fetching"
        /\ NewRun(sports, wanted, listed).wanted = wanted
        /\ NewRun(sports, wanted, listed).exported = <<>>
    BY DEF NewRun
  <2>5. QED
    BY <2>1, <2>3, <2>4, BeginParts
<1>3. CASE BeginRender
  <2> DEFINE none == NewRun(<<>>, {}, FALSE)
             writing == [none EXCEPT !.at = "writing", !.queue = <<Render>>]
             failed == [none EXCEPT !.at = "failed"]
  <2>1. none \in RunStates /\ none.todo = <<>> /\ none.exported = <<>>
    BY <1>1 DEF NewRun, RunStates
  <2>2. Begin(writing) \/ Begin(failed)
    BY <1>3 DEF BeginRender
  <2> HIDE DEF none
  <2>3. /\ writing \in RunStates /\ writing.todo = <<>> /\ writing.exported = <<>>
        /\ failed \in RunStates /\ failed.todo = <<>> /\ failed.exported = <<>>
    BY <1>1, <2>1 DEF RunStates, Over
  <2> HIDE DEF writing, failed
  <2>4. QED
    BY <2>2, <2>3, BeginParts
<1>4. QED
  BY <1>2, <1>3

LEMMA NextIInv ==
    ASSUME IInv, [Next]_vars
    PROVE  IInv'
<1>1. CASE UNCHANGED vars
  <2>1. /\ \A s, wanted, q : SportPresent(s, wanted, q)' <=> SportPresent(s, wanted, q)
        /\ \A x, q : UnderWay(x, q)' <=> UnderWay(x, q)
    BY <1>1 DEF vars, Present, NotBefore, SportPresent, UnderWay, Runs
  <2>2. QED
    BY <1>1, <2>1
       DEF vars, IInv, TypeOK, NothingTorn, EndedIsOver, TempsAreHeld, Asked, ExportedPresent,
           RestIsQueued, IndexIsOfItsRun, Runs, Writing, Target
<1>2. QED
  BY <1>1, BeginStep, SkipStep, FetchStep, DoneStep, AllDoneStep, TempStep, ReplaceStep, EndStep
     DEF Next

(***************************************************************************)
(* The exports with their strengthening, in every behaviour.                *)
(***************************************************************************)
THEOREM Invariance == Spec => []IInv
<1>1. Init => IInv
  BY InitIInv
<1>2. IInv /\ [Next]_vars => IInv'
  BY NextIInv
<1>3. QED
  BY <1>1, <1>2, PTL DEF Spec

(* Every variable of the exports holds a value of its type. *)
THEOREM TypeCorrect == Spec => []TypeOK
<1>1. IInv => TypeOK
  BY DEF IInv
<1>2. QED
  BY <1>1, Invariance, PTL

(***************************************************************************)
(* However many runs share the directory, a reader sees whole files, and    *)
(* only a run that was killed leaves a temporary one behind (atomic.py).    *)
(***************************************************************************)
THEOREM WholeFiles == Spec => []ReadersSeeWholeFiles
<1>1. IInv => ReadersSeeWholeFiles
  BY DEF IInv, NothingTorn, TempsAreHeld, Writing, ReadersSeeWholeFiles
<1>2. QED
  BY <1>1, Invariance, PTL

(***************************************************************************)
(* The sports of sports.json have their files, whole and not from before    *)
(* the run that listed them, whatever other runs do (_write_sports_index).  *)
(***************************************************************************)
THEOREM IndexIsTrue == Spec => []IndexNamesWhatIsThere
<1>1. ASSUME IInv, disk[Index] # NoFile,
             NEW i \in DOMAIN index, NEW format \in runs[disk[Index]].wanted,
             NEW j \in DOMAIN FileNames(index[i], format)
      PROVE  Present(FileNames(index[i], format)[j], disk[Index])
  <2>1. Index \in AllFiles
    BY DEF AllFiles
  <2>2. disk[Index] \in Runs
    BY <1>1, <2>1 DEF IInv, TypeOK, NothingTorn
  <2>3. index = runs[disk[Index]].exported
    BY <1>1, <2>2 DEF IInv, IndexIsOfItsRun
  <2>4. SportPresent(index[i], runs[disk[Index]].wanted, disk[Index])
    BY <1>1, <2>2, <2>3 DEF IInv, ExportedPresent
  <2>5. QED
    BY <1>1, <2>4 DEF SportPresent
<1>2. IInv => IndexNamesWhatIsThere
  BY <1>1 DEF IndexNamesWhatIsThere, Present
<1>3. QED
  BY <1>2, Invariance, PTL

-----------------------------------------------------------------------------
(***************************************************************************)
(* The files of a sport.  A run answers for every file that is from it: it  *)
(* was asked for the format, and has exported the sport or was cut short    *)
(* while it wrote it.                                                       *)
(***************************************************************************)
Own(s, wanted) == {"live", "schedule", "roster"} \X {s} \X wanted

LEMMA SportFilesAreOwn ==
    ASSUME NEW s \in SportSet, NEW wanted \in SUBSET Formats
    PROVE  SportFiles(s, wanted) \in Seq(Own(s, wanted))
<1>1. ASSUME NEW format \in Formats
      PROVE  Written(s, format, wanted) \in Seq(Own(s, wanted))
  <2> DEFINE T == {"live", "schedule", "roster"}
  <2>1. Stems(format) \in Seq(T)
    <3>1. <<"live", "schedule", "roster">> \in Seq(T)
      OBVIOUS
    <3>2. <<"live">> \in Seq(T) /\ <<"schedule", "roster">> \in Seq(T)
      OBVIOUS
    <3>3. QED
      BY <3>1, <3>2 DEF Stems, Formats
  <2>2. CASE format \in wanted
    BY <2>1, <2>2 DEF Written, FileNames, Own
  <2>3. CASE format \notin wanted
    BY <2>3 DEF Written
  <2>4. QED
    BY <2>2, <2>3
<1>2. \A x, y \in Seq(Own(s, wanted)) : x \o y \in Seq(Own(s, wanted))
  BY ConcatProperties
<1>3. QED
  BY <1>1, <1>2 DEF SportFiles, Formats

LEMMA OwnAreNames ==
    ASSUME NEW s \in SportSet, NEW wanted \in SUBSET Formats, NEW f \in Own(s, wanted)
    PROVE  f \in Names /\ f[2] = s /\ f[3] \in wanted /\ f \notin {Index, Render}
<1>1. f \in Names /\ f[2] = s /\ f[3] \in wanted /\ DOMAIN f = 1..3
  BY DEF Own, Names
<1>2. DOMAIN Index = 1..2 /\ DOMAIN Render = 1..2
  BY DEF Index, Render
<1>3. 3 \in 1..3 /\ 3 \notin 1..2
  OBVIOUS
<1>4. QED
  BY <1>1, <1>2, <1>3

LEMMA IndexIsNoName == Index \notin Names /\ Render \notin Names
<1>1. \A f \in Names : DOMAIN f = 1..3
  BY DEF Names
<1>2. DOMAIN Index = 1..2 /\ DOMAIN Render = 1..2
  BY DEF Index, Render
<1>3. 3 \in 1..3 /\ 3 \notin 1..2
  OBVIOUS
<1>4. QED
  BY <1>1, <1>2, <1>3

(* What a run has yet to write: files of its sport, or a last one.          *)
Neat(run) ==
    /\ run.at = "indexing" => run.todo = <<>>
    /\ run.at \in {"writing", "indexing"} =>
         IF run.todo # <<>>
         THEN run.queue \in Seq(Own(Head(run.todo), run.wanted))
         ELSE \A k \in DOMAIN run.queue : run.queue[k] \in {Index, Render}

Answers(f, run) ==
    /\ f[3] \in run.wanted
    /\ \/ Holds(run.exported, f[2])
       \/ run.at \in {"writing", "failed", "killed"} /\ run.todo # <<>> /\ Head(run.todo) = f[2]

RunsAreNeat == \A r \in Runs : Neat(runs[r])

FilesAreOwned ==
    \A f \in AllFiles \cap Names : disk[f] \in Runs => Answers(f, runs[disk[f]])

AInv == RunsAreNeat /\ FilesAreOwned

LEMMA AppendHolds ==
    ASSUME NEW S, NEW seq \in Seq(S), NEW e \in S
    PROVE  /\ Append(seq, e) \in Seq(S) /\ Holds(Append(seq, e), e)
           /\ \A x : Holds(seq, x) => Holds(Append(seq, e), x)
<1>1. /\ Append(seq, e) \in Seq(S) /\ Len(Append(seq, e)) = Len(seq) + 1
      /\ \A i \in 1..Len(seq) : Append(seq, e)[i] = seq[i]
      /\ Append(seq, e)[Len(seq) + 1] = e
  BY AppendProperties
<1>2. Len(seq) \in Nat /\ DOMAIN seq = 1..Len(seq)
  BY LenProperties
<1>3. DOMAIN Append(seq, e) = 1..Len(seq) + 1
  BY <1>1, LenProperties
<1>4. QED
  BY <1>1, <1>2, <1>3 DEF Holds

LEMMA PartsOfQueue ==
    ASSUME NEW S, NEW seq \in Seq(S), seq # <<>>
    PROVE  Head(seq) \in S /\ Tail(seq) \in Seq(S)
  BY HeadTailProperties

(* A step of one run that leaves the files alone. *)
LEMMA OwnStepAnswers ==
    ASSUME IInv, AInv, NEW r \in Runs, NEW run \in RunStates, Goes(r, run), UNCHANGED disk,
           Neat(run), \A f : Answers(f, runs[r]) => Answers(f, run)
    PROVE  AInv'
<1>1. /\ Runs' = Runs /\ runs'[r] = run /\ \A q \in Runs \ {r} : runs'[q] = runs[q]
  BY GoesParts DEF IInv
<1>2. RunsAreNeat'
  BY <1>1 DEF AInv, RunsAreNeat, Neat
<1>3. FilesAreOwned'
  <2>1. ASSUME NEW f \in AllFiles \cap Names, disk[f] \in Runs
        PROVE  Answers(f, runs'[disk[f]])
    BY <1>1, <2>1 DEF AInv, FilesAreOwned
  <2>2. QED
    BY <1>1, <2>1 DEF FilesAreOwned, Answers, Holds
<1>4. QED
  BY <1>2, <1>3 DEF AInv

LEMMA QuietStepAInv ==
    ASSUME IInv, AInv, NEW r \in Runs,
           SkipSport(r) \/ FetchSport(r) \/ SportDone(r) \/ SportsDone(r)
    PROVE  AInv'
<1>1. /\ runs[r] \in RunStates /\ runs[r].wanted \in SUBSET Formats /\ UNCHANGED disk
      /\ runs[r].todo \in Seq(SportSet) /\ runs[r].exported \in Seq(SportSet)
  BY RunsAreNumbered DEF IInv, RunStates, SkipSport, FetchSport, SportDone, SportsDone
<1>2. CASE SkipSport(r)
  <2> DEFINE run == [runs[r] EXCEPT !.todo = Tail(@)]
  <2>1. Goes(r, run) /\ runs[r].at = "fetching" /\ runs[r].todo # <<>>
    BY <1>2 DEF SkipSport
  <2>2. Tail(runs[r].todo) \in Seq(SportSet)
    BY <1>1, <2>1
  <2>3. /\ run \in RunStates /\ run.at = "fetching" /\ run.wanted = runs[r].wanted
        /\ run.exported = runs[r].exported
    BY <1>1, <2>1, <2>2 DEF RunStates
  <2> HIDE DEF run
  <2>4. Neat(run) /\ \A f : Answers(f, runs[r]) => Answers(f, run)
    BY <2>1, <2>3 DEF Neat, Answers
  <2>5. QED
    BY <1>1, <2>1, <2>3, <2>4, OwnStepAnswers
<1>3. CASE FetchSport(r)
  <2> DEFINE queue == SportFiles(Head(runs[r].todo), runs[r].wanted)
             run == [runs[r] EXCEPT !.at = "writing", !.queue = queue]
  <2>1. Goes(r, run) /\ runs[r].at = "fetching" /\ runs[r].todo # <<>>
    BY <1>3 DEF FetchSport
  <2>2. /\ Head(runs[r].todo) \in SportSet /\ runs[r].wanted \in Wanted
    BY <1>1, <2>1 DEF IInv, Asked
  <2>3. queue \in Seq(AllFiles) /\ queue \in Seq(Own(Head(runs[r].todo), runs[r].wanted))
    BY <1>1, <2>2, QueueOfSport, SportFilesAreOwn
  <2> HIDE DEF queue
  <2>4. /\ run \in RunStates /\ run.at = "writing" /\ run.wanted = runs[r].wanted
        /\ run.exported = runs[r].exported /\ run.todo = runs[r].todo /\ run.queue = queue
    BY <1>1, <2>1, <2>3 DEF RunStates
  <2> HIDE DEF run
  <2>5. Neat(run) /\ \A f : Answers(f, runs[r]) => Answers(f, run)
    BY <2>1, <2>3, <2>4 DEF Neat, Answers
  <2>6. QED
    BY <1>1, <2>1, <2>4, <2>5, OwnStepAnswers
<1>4. CASE SportDone(r)
  <2> DEFINE done == Append(runs[r].exported, Head(runs[r].todo))
             run == [runs[r] EXCEPT !.at = "fetching", !.todo = Tail(@), !.exported = done]
  <2>1. Goes(r, run) /\ runs[r].at = "writing" /\ runs[r].todo # <<>>
    BY <1>4 DEF SportDone
  <2>2. /\ done \in Seq(SportSet) /\ Tail(runs[r].todo) \in Seq(SportSet)
        /\ Holds(done, Head(runs[r].todo))
        /\ \A s : Holds(runs[r].exported, s) => Holds(done, s)
    <3>1. Head(runs[r].todo) \in SportSet /\ Tail(runs[r].todo) \in Seq(SportSet)
      BY <1>1, <2>1
    <3>2. QED
      BY <1>1, <3>1, AppendHolds
  <2> HIDE DEF done
  <2>3. /\ run \in RunStates /\ run.at = "fetching" /\ run.wanted = runs[r].wanted
        /\ run.exported = done
    BY <1>1, <2>1, <2>2 DEF RunStates
  <2> HIDE DEF run
  <2>4. Neat(run) /\ \A f : Answers(f, runs[r]) => Answers(f, run)
    BY <2>2, <2>3 DEF Neat, Answers
  <2>5. QED
    BY <1>1, <2>1, <2>3, <2>4, OwnStepAnswers
<1>5. CASE SportsDone(r)
  <2> DEFINE run == IF runs[r].listed
                    THEN [runs[r] EXCEPT !.at = "indexing", !.queue = <<Index>>]
                    ELSE [runs[r] EXCEPT !.at = "done"]
  <2>1. Goes(r, run) /\ runs[r].at = "fetching" /\ runs[r].todo = <<>>
    BY <1>5 DEF SportsDone
  <2>2. <<Index>> \in Seq(AllFiles)
    BY DEF AllFiles
  <2>3. /\ run \in RunStates /\ run.todo = <<>> /\ run.wanted = runs[r].wanted
        /\ run.exported = runs[r].exported
        /\ run.at = "done" \/ (run.at = "indexing" /\ run.queue = <<Index>>)
    BY <1>1, <2>1, <2>2 DEF RunStates, Over
  <2> HIDE DEF run
  <2>4. Neat(run) /\ \A f : Answers(f, runs[r]) => Answers(f, run)
    BY <2>1, <2>3 DEF Neat, Answers
  <2>5. QED
    BY <1>1, <2>1, <2>3, <2>4, OwnStepAnswers
<1>6. QED
  BY <1>2, <1>3, <1>4, <1>5

LEMMA EndStepAInv ==
    ASSUME IInv, AInv, NEW r \in Runs, WriteFails(r) \/ Kill(r)
    PROVE  AInv'
<1>1. PICK how \in {"failed", "killed"} : Goes(r, [runs[r] EXCEPT !.at = how, !.queue = <<>>])
  BY DEF WriteFails, Kill
<1> DEFINE run == [runs[r] EXCEPT !.at = how, !.queue = <<>>]
<1>2. runs[r] \in RunStates /\ UNCHANGED disk /\ runs[r].at \notin Over
  BY RunsAreNumbered DEF IInv, WriteFails, Kill, Writing, Over
<1>3. how \in {"fetching", "writing", "indexing"} \cup Over /\ <<>> \in Seq(AllFiles)
  BY DEF Over
<1>4. /\ run \in RunStates /\ run.at = how /\ run.wanted = runs[r].wanted
      /\ run.exported = runs[r].exported /\ run.todo = runs[r].todo
  BY <1>2, <1>3 DEF RunStates
<1>5. Goes(r, run)
  BY <1>1
<1> HIDE DEF run
<1>6. Neat(run) /\ \A f : Answers(f, runs[r]) => Answers(f, run)
  BY <1>4 DEF Neat, Answers
<1>7. QED
  BY <1>2, <1>4, <1>5, <1>6, OwnStepAnswers

(* A file that is replaced is of the sport under way, or the run's last.    *)
LEMMA ReplaceStepAInv ==
    ASSUME IInv, AInv, NEW r \in Runs, Replace(r)
    PROVE  AInv'
<1>1. PICK f : f = Target(r)
  OBVIOUS
<1>2. PICK run : run = IF f \in {Index, Render}
                      THEN [runs[r] EXCEPT !.at = "done", !.queue = <<>>]
                      ELSE [runs[r] EXCEPT !.queue = Tail(@)]
  OBVIOUS
<1>3. /\ runs[r] \in RunStates /\ runs[r].at \in {"writing", "indexing"}
      /\ runs[r].queue # <<>> /\ f = Head(runs[r].queue)
      /\ disk' = [disk EXCEPT ![f] = r] /\ Goes(r, run)
      /\ run = IF f \in {Index, Render}
                 THEN [runs[r] EXCEPT !.at = "done", !.queue = <<>>]
                 ELSE [runs[r] EXCEPT !.queue = Tail(@)]
  BY <1>1, <1>2, RunsAreNumbered DEF Replace, Writing, Target, IInv
<1>4. /\ f \in AllFiles /\ Tail(runs[r].queue) \in Seq(AllFiles)
      /\ runs[r].wanted \in SUBSET Formats /\ runs[r].todo \in Seq(SportSet)
      /\ runs[r].queue \in Seq(AllFiles)
  BY <1>3 DEF RunStates
<1>5. CASE runs[r].todo # <<>>
  <2>1. /\ runs[r].at = "writing"
        /\ runs[r].queue \in Seq(Own(Head(runs[r].todo), runs[r].wanted))
    BY <1>3, <1>5 DEF AInv, RunsAreNeat, Neat
  <2>2. /\ f \in Own(Head(runs[r].todo), runs[r].wanted)
        /\ Tail(runs[r].queue) \in Seq(Own(Head(runs[r].todo), runs[r].wanted))
    BY <1>3, <2>1, PartsOfQueue
  <2>3. /\ f[2] = Head(runs[r].todo) /\ f[3] \in runs[r].wanted /\ f \notin {Index, Render}
    <3>1. Head(runs[r].todo) \in SportSet
      BY <1>4, <1>5, PartsOfQueue
    <3>2. QED
      BY <1>4, <2>2, <3>1, OwnAreNames
  <2>4. /\ run \in RunStates /\ run.at = "writing" /\ run.todo = runs[r].todo
        /\ run.wanted = runs[r].wanted /\ run.exported = runs[r].exported
        /\ run.queue = Tail(runs[r].queue)
    BY <1>3, <1>4, <2>1, <2>3 DEF RunStates
  <2>5. /\ Runs' = Runs /\ runs'[r] = run /\ \A q \in Runs \ {r} : runs'[q] = runs[q]
    BY <1>3, <2>4, GoesParts DEF IInv
  <2>6. Neat(run) /\ Answers(f, run) /\ \A g : Answers(g, runs[r]) => Answers(g, run)
    BY <1>5, <2>1, <2>2, <2>3, <2>4 DEF Neat, Answers
  <2>7. RunsAreNeat'
    BY <2>5, <2>6 DEF AInv, RunsAreNeat, Neat
  <2>8. /\ disk'[f] = r /\ \A g \in AllFiles \ {f} : disk'[g] = disk[g]
    BY <1>3, <1>4 DEF IInv, TypeOK
  <2>9. ASSUME NEW g \in AllFiles \cap Names, disk'[g] \in Runs
        PROVE  Answers(g, runs'[disk'[g]])
    BY <2>5, <2>6, <2>8, <2>9 DEF AInv, FilesAreOwned
  <2>10. FilesAreOwned'
    BY <2>5, <2>9 DEF FilesAreOwned, Answers, Holds
  <2>11. QED
    BY <2>7, <2>10 DEF AInv
<1>6. CASE runs[r].todo = <<>>
  <2>1. f \in {Index, Render}
    <3>1. 1 \in DOMAIN runs[r].queue /\ f = runs[r].queue[1]
      BY <1>3, <1>4
    <3>2. QED
      BY <1>3, <1>6, <3>1 DEF AInv, RunsAreNeat, Neat
  <2>2. "done" \in {"fetching", "writing", "indexing"} \cup Over /\ <<>> \in Seq(AllFiles)
    BY DEF Over
  <2>3. /\ run \in RunStates /\ run.at = "done" /\ run.wanted = runs[r].wanted
        /\ run.exported = runs[r].exported
    BY <1>3, <2>1, <2>2 DEF RunStates
  <2>4. /\ Runs' = Runs /\ runs'[r] = run /\ \A q \in Runs \ {r} : runs'[q] = runs[q]
    BY <1>3, <2>3, GoesParts DEF IInv
  <2>5. Neat(run) /\ \A g : Answers(g, runs[r]) => Answers(g, run)
    BY <1>6, <2>3 DEF Neat, Answers
  <2>6. RunsAreNeat'
    BY <2>4, <2>5 DEF AInv, RunsAreNeat, Neat
  <2>7. \A g \in AllFiles \cap Names : disk'[g] = disk[g]
    BY <1>3, <1>4, <2>1, IndexIsNoName DEF IInv, TypeOK
  <2>8. ASSUME NEW g \in AllFiles \cap Names, disk'[g] \in Runs
        PROVE  Answers(g, runs'[disk'[g]])
    BY <2>4, <2>5, <2>7, <2>8 DEF AInv, FilesAreOwned
  <2>9. FilesAreOwned'
    BY <2>4, <2>8 DEF FilesAreOwned, Answers, Holds
  <2>10. QED
    BY <2>6, <2>9 DEF AInv
<1>7. QED
  BY <1>5, <1>6

(* A run that begins has written nothing. *)
LEMMA BeginAInv ==
    ASSUME IInv, AInv, NEW run, Begin(run), Neat(run)
    PROVE  AInv'
<1> DEFINE n == Len(runs) + 1
<1>1. runs' = Append(runs, run) /\ UNCHANGED disk
  BY DEF Begin
<1>2. Len(runs) \in Nat /\ Runs = 1..Len(runs) /\ runs \in Seq(RunStates)
  BY RunsAreNumbered DEF IInv, TypeOK
<1>3. /\ Runs' = Runs \cup {n} /\ n \in Nat /\ n \notin Runs
      /\ runs'[n] = run /\ \A r \in Runs : runs'[r] = runs[r]
  BY <1>1, <1>2 DEF Runs
<1>4. RunsAreNeat'
  BY <1>3 DEF AInv, RunsAreNeat, Neat
<1>5. \A f \in AllFiles : disk[f] # n
  BY <1>3, ExportAssumption DEF IInv, TypeOK
<1>6. FilesAreOwned'
  <2>1. ASSUME NEW f \in AllFiles \cap Names, disk[f] \in Runs'
        PROVE  Answers(f, runs'[disk[f]])
    BY <1>3, <1>5, <2>1 DEF AInv, FilesAreOwned
  <2>2. QED
    BY <1>1, <2>1 DEF FilesAreOwned, Answers, Holds
<1>7. QED
  BY <1>4, <1>6 DEF AInv

LEMMA NextAInv ==
    ASSUME IInv, AInv, [Next]_vars
    PROVE  AInv'
<1>1. CASE UNCHANGED vars \/ \E r \in Runs : MakeTemp(r)
  BY <1>1 DEF vars, MakeTemp, AInv, RunsAreNeat, FilesAreOwned, Neat, Answers, Holds, Runs
<1>2. CASE BeginExport
  <2>1. PICK sports \in {Active} \cup {<<s>> : s \in SportSet}, wanted \in Wanted,
             listed \in BOOLEAN : Begin(NewRun(sports, wanted, listed))
    BY <1>2 DEF BeginExport
  <2>2. Neat(NewRun(sports, wanted, listed))
    BY DEF NewRun, Neat
  <2>3. QED
    BY <2>1, <2>2, BeginAInv
<1>3. CASE BeginRender
  <2> DEFINE none == NewRun(<<>>, {}, FALSE)
             writing == [none EXCEPT !.at = "writing", !.queue = <<Render>>]
             failed == [none EXCEPT !.at = "failed"]
  <2>1. Begin(writing) \/ Begin(failed)
    BY <1>3 DEF BeginRender
  <2>2. /\ writing.at = "writing" /\ writing.todo = <<>> /\ writing.queue = <<Render>>
        /\ failed.at = "failed"
    BY DEF NewRun
  <2> HIDE DEF writing, failed
  <2>3. Neat(writing) /\ Neat(failed)
    BY <2>2 DEF Neat
  <2>4. QED
    BY <2>1, <2>3, BeginAInv
<1>4. QED
  BY <1>1, <1>2, <1>3, QuietStepAInv, EndStepAInv, ReplaceStepAInv DEF Next

(* The newest of the at most three runs that the files of a sport are from. *)
LEMMA NewestOfThree ==
    ASSUME NEW a, NEW b, NEW c, NEW S \in SUBSET {a, b, c}, S # {}, S \subseteq Nat
    PROVE  \E m \in S : \A q \in S : q <= m
<1>1. \A x \in S : x \in Nat /\ (x = a \/ x = b \/ x = c)
  OBVIOUS
<1>2. PICK x \in S : TRUE
  OBVIOUS
<1>3. QED
  BY <1>1, <1>2

(***************************************************************************)
(* The files of a sport in one format are of one run, or the newest of the  *)
(* runs they are from did not get to its end, or two of those runs          *)
(* overlapped: for any number of runs and sports (_export_one).             *)
(***************************************************************************)
THEOREM FilesOfASportAgree == Spec => []SportFilesAgree
<1>1. Init => IInv /\ AInv
  BY InitIInv DEF Init, AInv, RunsAreNeat, FilesAreOwned, Runs, IInv, TypeOK
<1>2. IInv /\ AInv /\ [Next]_vars => IInv' /\ AInv'
  BY NextIInv, NextAInv
<1>3. ASSUME IInv, AInv, NEW s \in SportSet, NEW format \in Formats
      PROVE  LET files == {FileNames(s, format)[i] : i \in DOMAIN Stems(format)} \cap AllFiles
                 writers == {disk[f] : f \in files} \cap Runs
             IN  \/ \A f, g \in files : disk[f] = disk[g]
                 \/ \E r \in writers : ~Complete(r) /\ \A q \in writers : q <= r
                 \/ \E q, r \in writers : q < r /\ NotBefore(q, r)
  <2>1. PICK files : files = {FileNames(s, format)[i] : i \in DOMAIN Stems(format)} \cap AllFiles
    OBVIOUS
  <2>2. PICK writers : writers = {disk[f] : f \in files} \cap Runs
    OBVIOUS
  <2>3. SUFFICES \/ \A f, g \in files : disk[f] = disk[g]
                 \/ \E r \in writers : ~Complete(r) /\ \A q \in writers : q <= r
                 \/ \E q, r \in writers : q < r /\ NotBefore(q, r)
    BY <2>1, <2>2
  <2>4. /\ files \subseteq {<<"live", s, format>>, <<"schedule", s, format>>,
                            <<"roster", s, format>>}
        /\ files \subseteq AllFiles \cap Names
        /\ \A f \in files : f[2] = s /\ f[3] = format
    <3>1. \A i \in DOMAIN Stems(format) : Stems(format)[i] \in {"live", "schedule", "roster"}
      BY DEF Stems, Formats
    <3>2. \A f \in files : \E i \in DOMAIN Stems(format) : f = <<Stems(format)[i], s, format>>
      BY <1>3, <2>1, <2>2 DEF FileNames
    <3>3. files \subseteq AllFiles
      BY <1>3, <2>1, <2>2
    <3>4. QED
      BY <3>1, <3>2, <3>3 DEF Names
  <2>5. writers \subseteq Runs /\ Runs \subseteq Nat
    BY <1>3, <2>1, <2>2, RunsAreNumbered DEF IInv
  <2>6. CASE writers = {}
    <3>1. \A f \in files : disk[f] = NoFile
      BY <1>3, <2>1, <2>2, <2>4, <2>6 DEF IInv, TypeOK, NothingTorn
    <3>2. QED
      BY <3>1
  <2>7. CASE writers # {}
    <3>1. writers \subseteq {disk[<<"live", s, format>>], disk[<<"schedule", s, format>>],
                             disk[<<"roster", s, format>>]}
      BY <1>3, <2>1, <2>2, <2>4
    <3>2. PICK r \in writers : \A q \in writers : q <= r
      BY <2>5, <2>7, <3>1, NewestOfThree
    <3>3. CASE Complete(r)
      <4>1. PICK g \in files : disk[g] = r
        BY <1>3, <2>1, <2>2
      <4>2. format \in runs[r].wanted /\ Holds(runs[r].exported, s)
        BY <1>3, <2>1, <2>2, <2>4, <2>5, <3>3, <4>1 DEF AInv, FilesAreOwned, Answers, Complete
      <4>3. SportPresent(s, runs[r].wanted, r)
        <5>1. PICK i \in DOMAIN runs[r].exported : runs[r].exported[i] = s
          BY <4>2 DEF Holds
        <5>2. SportPresent(runs[r].exported[i], runs[r].wanted, r)
          BY <1>3, <2>1, <2>2, <2>5, <5>1 DEF IInv, ExportedPresent
        <5>3. QED
          BY <5>1, <5>2
      <4>4. \A f \in files : disk[f] \in Runs /\ NotBefore(disk[f], r)
        BY <1>3, <2>1, <2>2, <4>2, <4>3 DEF SportPresent, Present, FileNames
      <4>5. \A f \in files : disk[f] \in writers
        BY <1>3, <2>1, <2>2, <4>4
      <4>6. CASE \A f \in files : disk[f] = r
        BY <4>6
      <4>7. CASE \E f \in files : disk[f] # r
        <5>1. PICK f \in files : disk[f] # r
          BY <4>7
        <5>2. PICK q \in writers : q = disk[f]
          BY <4>5
        <5>3. q \in Nat /\ r \in Nat /\ q <= r /\ q # r
          BY <2>5, <3>2, <5>1, <5>2
        <5>4. q < r /\ NotBefore(q, r)
          BY <4>4, <5>2, <5>3
        <5>5. QED
          BY <5>4
      <4>8. QED
        BY <4>6, <4>7
    <3>4. QED
      BY <3>2, <3>3
  <2>8. QED
    BY <2>6, <2>7
<1>4. ASSUME IInv, AInv
      PROVE  SportFilesAgree
  BY <1>3, <1>4 DEF SportFilesAgree
<1>5. QED
  BY <1>1, <1>2, <1>4, PTL DEF Spec
=============================================================================
