-------------------------------- MODULE Mgjson --------------------------------
(***************************************************************************)
(* The document After Effects imports (export/mgjson.py): how the builder   *)
(* declares each stream and lists its samples, and what validate_mgjson     *)
(* finds wrong with the result.  Numbers are whole, as scores and periods   *)
(* are; a text is its length; the times of the samples are left out.        *)
(***************************************************************************)
EXTENDS Integers, FiniteSetsExt, Places

(* The decimal digits of a whole number: n \div 10 + 2 are always enough. *)
Digits(n) == Max({1} \cup {d \in 2..(n \div 10 + 2) : 10^(d - 1) \in 1..n})

Abs(n) == IF n < 0 THEN -n ELSE n

(***************************************************************************)
(* _number_props: as many digits as the largest sample needs, the range     *)
(* that occurs, and a legal one as wide again on either side.               *)
(***************************************************************************)
NumberProps(values) ==
    LET all == IF values = <<>> THEN {0} ELSE {values[i] : i \in DOMAIN values}
        span == Max({1, Max(all) - Min(all)})
    IN  [digits |-> Max({Digits(Abs(v)) : v \in {Min(all), Max(all), 0}}),
         signed |-> Min(all) < 0,
         min |-> Min(all), max |-> Max(all),
         legal |-> <<Min(all) - span, Max(all) + span>>]

(* A field of the view: a number, or a text; a boolean is the text of it. *)
Static(name, field) ==
    IF field.kind = "number"
    THEN [object |-> "dataStatic", type |-> "number", name |-> name,
          value |-> field.value, props |-> NumberProps(<<field.value>>)]
    ELSE LET length == IF field.kind = "boolean" THEN IF field.value THEN 4 ELSE 5
                                                 ELSE field.value
         IN  [object |-> "dataStatic", type |-> "paddedString", name |-> name,
              length |-> length, maxLen |-> Max({1, length})]

(* A stream, declared by its name with the count of its samples. *)
Dynamic(series) ==
    [object |-> "dataDynamic", type |-> "numberString", name |-> series.name,
     props |-> NumberProps(series.samples), interpolation |-> "hold",
     count |-> Len(series.samples)]

(* add_series: a stream without samples is not declared. *)
Added(streams) == Picked(streams, {i \in DOMAIN streams : streams[i].samples # <<>>})

(* MgjsonBuilder.build, of the names and fields of a view and its streams. *)
Build(names, view, streams) ==
    LET dynamics == Added(streams)
    IN  [outline |-> [i \in DOMAIN names |-> Static(names[i], view[names[i]])]
                        \o [i \in DOMAIN dynamics |-> Dynamic(dynamics[i])],
         sets |-> [i \in DOMAIN dynamics |->
                      [id |-> dynamics[i].name, samples |-> dynamics[i].samples]],
         present |-> dynamics # <<>>]

(* Where the outline declares streams. *)
Declared(doc) == {i \in DOMAIN doc.outline : doc.outline[i].object = "dataDynamic"}

(* The count the outline declares for a stream; the last one counts. *)
CountOf(doc, id) == doc.outline[Max({i \in Declared(doc) : doc.outline[i].name = id})].count

(***************************************************************************)
(* validate_mgjson: what is declared is there, with as many samples, what   *)
(* is there is declared, no text is longer than its padding, and the flag   *)
(* tells whether there are samples.                                         *)
(***************************************************************************)
Problems(doc) ==
    LET entries == {doc.outline[i] : i \in DOMAIN doc.outline}
        sets == {doc.sets[i] : i \in DOMAIN doc.sets}
        declared == {doc.outline[i].name : i \in Declared(doc)}
        seen == {s.id : s \in sets}
        Found(bad, problem) == IF bad THEN {problem} ELSE {}
    IN  Found(\E e \in entries : e.type = "paddedString" /\ e.length > e.maxLen, "long")
        \cup Found(\E e \in entries : e.object = "dataDynamic"
                       /\ e.interpolation \notin {"linear", "hold"}, "interpolation")
        \cup Found(declared # {} /\ sets = {}, "no samples")
        \cup Found(seen \ declared # {}, "not declared")
        \cup Found(\E s \in sets : s.id \in declared /\ CountOf(doc, s.id) # Len(s.samples),
                   "count")
        \cup Found(declared \ seen # {}, "no samples")
        \cup Found(doc.present # (sets # {}), "flag")
=============================================================================
