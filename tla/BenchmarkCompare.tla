-------------------------- MODULE BenchmarkCompare --------------------------
(***************************************************************************)
(* BenchmarkCompare.java: joins two files of JMH results, row by row, and  *)
(* tabulates how much the patch changes each score.  One action per file   *)
(* labelled, row read and row joined.                                      *)
(*                                                                         *)
(* A row keeps its benchmark, its mode (known, or not to deepValueOf), the *)
(* values of its "Param:" columns and a whole score; a blank line is       *)
(* Blank.  Error columns, units and the layout of the table are left out.  *)
(***************************************************************************)
EXTENDS Integers, FiniteSets, Sequences, SequencesExt

CONSTANTS Directories,  \* the directories considered: sets of files
          BenchOrder    \* the benchmarks in the order of their names

Labels == {"BASE", "PATCH"}
Blank  == <<>>
NoFile == <<>>

Modes  == <<"thrpt", "avgt", "sample", "ss">>

\* A file of JMH results: a score is a positive number, and the rows have the
\* columns of the heading.
IsResults(f) ==
  /\ f # NoFile
  /\ f.rows \in Seq(ToSet(f.rows))
  /\ \A row \in ToSet(f.rows) \ {Blank} :
       /\ row.score \in Nat \ {0}
       /\ row.benchmark \in ToSet(BenchOrder)
       /\ row.mode \in ToSet(Modes) \cup {"?"}
       /\ row.params \in Seq(ToSet(row.params))
  /\ \A row1, row2 \in ToSet(f.rows) \ {Blank} : Len(row1.params) = Len(row2.params)

ASSUME DirectoriesAssumption == \A D \in Directories : \A f \in D : IsResults(f)

ASSUME BenchOrderAssumption == BenchOrder \in Seq(ToSet(BenchOrder))

VARIABLES order,        \* the order asked for
          unlabelled,   \* the csv files of the directory still to label
          labelCsvPaths,
          label,        \* the one being read
          lines,        \* its lines left
          valueId,
          fileData,     \* by label: the rows read, by their key
          todo,         \* the keys of the base file still to join
          results,
          out,          \* the rows of the table written
          pc            \* "label", "read", "join", "done" or "failed"

vars == <<order, unlabelled, labelCsvPaths, label, lines, valueId, fileData, todo,
          results, out, pc>>

Init ==
  /\ order \in {"ALPHA", "ASCENDING", "DESCENDING"}
  /\ unlabelled \in Directories
  /\ labelCsvPaths = [l \in Labels |-> NoFile]
  /\ label = "BASE" /\ lines = <<>> /\ valueId = 0
  /\ fileData = [l \in Labels |-> <<>>]
  /\ todo = {} /\ results = {} /\ out = <<>>
  /\ pc = "label"

LabelOf(f) == IF f.prefix = "base-" THEN "BASE" ELSE "PATCH"

\* The directory is listed in no particular order; a later file takes over the
\* label of an earlier one.
LabelFile(f) ==
  /\ pc = "label" /\ f \in unlabelled
  /\ unlabelled' = unlabelled \ {f}
  /\ labelCsvPaths' = [labelCsvPaths EXCEPT ![LabelOf(f)] = f]
  /\ UNCHANGED <<label, lines, valueId, fileData, todo, results, out, pc>>

\* readCsv on a label no file has throws.
Read(l) ==
  /\ label' = l /\ valueId' = 0
  /\ lines' = IF labelCsvPaths[l] = NoFile THEN <<>> ELSE labelCsvPaths[l].rows
  /\ pc' = IF labelCsvPaths[l] = NoFile THEN "failed" ELSE "read"
  /\ UNCHANGED <<unlabelled, labelCsvPaths, fileData, todo, results, out>>

Open ==
  \/ pc = "label" /\ unlabelled = {} /\ Read("BASE")
  \/ pc = "read" /\ label = "BASE" /\ lines = <<>> /\ Read("PATCH")

\* Mutant: the parameters are not part of the key.
KeyWithoutParams(row) ==
  [benchmark |-> row.benchmark, mode |-> row.mode, params |-> <<>>, order |-> 0]

\* BenchmarkParams: equal when everything is, the order included in which the
\* parameter values were read.
Key(row) ==
  [benchmark |-> row.benchmark, mode |-> row.mode, params |-> row.params,
   order |-> IF row.params = <<>> THEN 0 ELSE valueId]

\* A map's put.
Put(map, key, row) ==
  [k \in DOMAIN map \cup {key} |-> IF k = key THEN row ELSE map[k]]

\* A blank line is skipped, a mode that is not known throws, and a row with the
\* key of an earlier one replaces it.
ReadRow ==
  /\ pc = "read" /\ lines # <<>>
  /\ lines' = Tail(lines)
  /\ LET row == Head(lines) IN
       IF row = Blank THEN UNCHANGED <<valueId, fileData, pc>>
       ELSE IF row.mode = "?" THEN pc' = "failed" /\ UNCHANGED <<valueId, fileData>>
       ELSE /\ fileData' = [fileData EXCEPT ![label] = Put(@, Key(row), row)]
            /\ valueId' = valueId + Len(row.params)
            /\ UNCHANGED pc
  /\ UNCHANGED <<unlabelled, labelCsvPaths, label, todo, results, out>>

StartJoin ==
  /\ pc = "read" /\ label = "PATCH" /\ lines = <<>>
  /\ todo' = DOMAIN fileData["BASE"]
  /\ pc' = "join"
  /\ UNCHANGED <<unlabelled, labelCsvPaths, label, lines, valueId, fileData,
                 results, out>>

\* Math.round((patch - base) / base * 100.0), for a positive base.
Diff(base, patch) == (200 * (patch - base) + base) \div (2 * base)

BenchIndex(b) == CHOOSE i \in 1..Len(BenchOrder) : BenchOrder[i] = b
ModeIndex(m) == CHOOSE i \in 1..Len(Modes) : Modes[i] = m

\* Mutant: the parameters are not compared.
BeforeByName(a, b) ==
  \/ ModeIndex(a.mode) < ModeIndex(b.mode)
  \/ a.mode = b.mode /\ BenchIndex(a.benchmark) < BenchIndex(b.benchmark)

\* BenchmarkParams.compareTo: mode, benchmark, then the place in the file.
Before(a, b) ==
  \/ ModeIndex(a.mode) < ModeIndex(b.mode)
  \/ /\ a.mode = b.mode
     /\ \/ BenchIndex(a.benchmark) < BenchIndex(b.benchmark)
        \/ a.benchmark = b.benchmark /\ a.order < b.order

\* The base file's rows in the order of a hash map.  A row without a counterpart
\* ends the program (the lookup's null is used); a row that compares as equal to
\* one already there is not added.
Join(k) ==
  /\ pc = "join" /\ k \in todo
  /\ todo' = todo \ {k}
  /\ IF k \notin DOMAIN fileData["PATCH"]
     THEN pc' = "failed" /\ UNCHANGED results
     ELSE LET base  == fileData["BASE"][k]
              patch == fileData["PATCH"][k]
              result == [params |-> k, base |-> base, patch |-> patch,
                         diff |-> Diff(base.score, patch.score)]
          IN  /\ results' =
                   IF \A r \in results : Before(r.params, k) \/ Before(k, r.params)
                   THEN results \cup {result} ELSE results
              /\ UNCHANGED pc
  /\ UNCHANGED <<unlabelled, labelCsvPaths, label, lines, valueId, fileData, out>>

\* S in the order R, a set of pairs: an element comes where as many are before it.
Sorted(S, R) ==
  [k \in 1..Cardinality(S) |->
     CHOOSE x \in S : Cardinality({y \in S : <<y, x>> \in R}) = k - 1]

Rising(rows) ==
  {p \in (DOMAIN rows) \X (DOMAIN rows) :
     \/ rows[p[1]].diff < rows[p[2]].diff
     \/ rows[p[1]].diff = rows[p[2]].diff /\ p[1] < p[2]}

Falling(rows) ==
  {p \in (DOMAIN rows) \X (DOMAIN rows) :
     \/ rows[p[1]].diff > rows[p[2]].diff
     \/ rows[p[1]].diff = rows[p[2]].diff /\ p[1] < p[2]}

\* Mutant: descending is not reversed.
ReorderAscending(rows) ==
  IF order = "ALPHA" THEN [i \in DOMAIN rows |-> i] ELSE Sorted(DOMAIN rows, Rising(rows))

\* A stable sort by the difference, of the rows in the order of the tree set.
\* What is returned are the places of the rows.
Reorder(rows) ==
  CASE order = "ALPHA"      -> [i \in DOMAIN rows |-> i]
    [] order = "ASCENDING"  -> Sorted(DOMAIN rows, Rising(rows))
    [] order = "DESCENDING" -> Sorted(DOMAIN rows, Falling(rows))

\* The order of the tree set.
InTree(rs) == {p \in rs \X rs : Before(p[1].params, p[2].params)}

WriteOut ==
  /\ pc = "join" /\ todo = {}
  /\ LET rows == Sorted(results, InTree(results))
     IN  out' = [i \in DOMAIN rows |-> rows[Reorder(rows)[i]]]
  /\ pc' = "done"
  /\ UNCHANGED <<unlabelled, labelCsvPaths, label, lines, valueId, fileData,
                 todo, results>>

Next ==
  /\ UNCHANGED order
  /\ \/ (\E f \in unlabelled : LabelFile(f)) \/ Open \/ ReadRow \/ StartJoin
     \/ (\E k \in todo : Join(k)) \/ WriteOut

Spec == Init /\ [][Next]_vars
-----------------------------------------------------------------------------
Same(row1, row2) ==
  row1.benchmark = row2.benchmark /\ row1.mode = row2.mode /\ row1.params = row2.params

\* "When the patch has bigger number, use a positive percentage difference; when
\* the patch has lower number, use a negative" (plan.md:20): past half a percent
\* the sign is there.
HasSign(r) ==
  /\ r.patch.score > r.base.score => r.diff >= 0
  /\ r.patch.score < r.base.score => r.diff <= 0
  /\ 200 * (r.patch.score - r.base.score) > r.base.score => r.diff > 0
  /\ -200 * (r.patch.score - r.base.score) > r.base.score => r.diff < 0

\* A line of the table compares a row of the base file with the row of the patch
\* file that measured the same thing, whatever order the lookups happen in
\* (BenchmarkCompare.java:348), and its difference has the sign of the change.
ComparesCounterparts ==
  \A r \in results :
    /\ Same(r.base, r.patch) /\ Same(r.base, r.params)
    /\ r.base \in ToSet(labelCsvPaths["BASE"].rows)
    /\ r.patch \in ToSet(labelCsvPaths["PATCH"].rows)
    /\ HasSign(r)

\* What the rows of a file measured, in their order.
Measured(f) ==
  [i \in DOMAIN f.rows |-> <<f.rows[i].benchmark, f.rows[i].mode, f.rows[i].params>>]

\* One file per label, without blank lines or unknown modes.
WellFormed ==
  /\ \A l \in Labels : labelCsvPaths[l] # NoFile
  /\ \A l \in Labels : \A i \in DOMAIN labelCsvPaths[l].rows :
       labelCsvPaths[l].rows[i] # Blank /\ labelCsvPaths[l].rows[i].mode # "?"

SameRuns == WellFormed /\ Measured(labelCsvPaths["BASE"]) = Measured(labelCsvPaths["PATCH"])

\* Two files of the same runs, in the same order, are compared to the end: the
\* order that is part of the key counts alike in both (BenchmarkCompare.java:408,
\* :445).  And the comparator of the tree set takes no two rows for the same:
\* every row of the base file is in the table, and once (:242, :395).
NothingDropped ==
  /\ pc \in {"read", "join", "done", "failed"} /\ SameRuns => pc # "failed"
  /\ pc = "done" =>
       /\ Len(out) = Cardinality(DOMAIN fileData["BASE"])
       /\ {out[i].params : i \in DOMAIN out} = DOMAIN fileData["BASE"]

\* The table is in the order asked for, and rows it does not tell apart keep the
\* order of the benchmarks' names (BenchmarkCompare.java:301-318).
TableInOrder ==
  pc = "done" =>
    \A i, j \in DOMAIN out : i < j =>
      CASE order = "ALPHA"      -> Before(out[i].params, out[j].params)
        [] order = "ASCENDING"  ->
             /\ out[i].diff <= out[j].diff
             /\ out[i].diff = out[j].diff => Before(out[i].params, out[j].params)
        [] order = "DESCENDING" ->
             /\ out[i].diff >= out[j].diff
             /\ out[i].diff = out[j].diff => Before(out[i].params, out[j].params)
=============================================================================
