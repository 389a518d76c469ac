----------------------- MODULE BenchmarkCompareProofs -----------------------
(***************************************************************************)
(* BenchmarkCompare for every directory of result files: a line of the     *)
(* table is about one measurement, its two scores come from the two files, *)
(* and the difference has the sign of the change.                          *)
(***************************************************************************)
EXTENDS BenchmarkCompare, FiniteSetTheorems, SequenceTheorems, TLAPS

\* What \div does for a positive divisor.
LEMMA DivBounds ==
  ASSUME NEW n \in Int, NEW m \in Nat \ {0}
  PROVE  n \div m \in Int /\ m * (n \div m) <= n /\ n < m * (n \div m) + m
OBVIOUS

\* The sign of a quotient, from its product with a positive number.
LEMMA ProductSign ==
  ASSUME NEW m \in Nat \ {0}, NEW d \in Int
  PROVE  /\ m * d + m > 0 => d >= 0
         /\ m * d < m => d <= 0
         /\ m * d + m > m => d > 0
         /\ m * d < 0 => d < 0
OBVIOUS

\* A rounded percentage has the sign of the difference, zero near zero.
LEMMA DiffSign ==
  ASSUME NEW b \in Nat \ {0}, NEW p \in Nat \ {0}
  PROVE  /\ p > b => Diff(b, p) >= 0
         /\ p < b => Diff(b, p) <= 0
         /\ 200 * (p - b) > b => Diff(b, p) > 0
         /\ -200 * (p - b) > b => Diff(b, p) < 0
<1> DEFINE n == 200 * (p - b) + b
           m == 2 * b
           d == Diff(b, p)
<1>1. n \in Int /\ m \in Nat \ {0} /\ d = n \div m
  BY DEF Diff
<1> HIDE DEF n, m, d
<1>2. d \in Int /\ m * d <= n /\ n < m * d + m
  BY <1>1, DivBounds
<1>3. /\ d >= 0 \/ m * d + m <= 0
      /\ d <= 0 \/ m * d >= m
      /\ d > 0 \/ m * d + m <= m
      /\ d < 0 \/ m * d >= 0
  BY <1>1, <1>2, ProductSign
<1>4. \E x \in Int :
        /\ x <= n /\ n < x + m
        /\ d >= 0 \/ x + m <= 0
        /\ d <= 0 \/ x >= m
        /\ d > 0 \/ x <= 0
        /\ d < 0 \/ x >= 0
  <2>1. m * d \in Int
    BY <1>1, <1>2
  <2>2. WITNESS m * d \in Int
  <2>3. QED
    BY <1>1, <1>2, <1>3
<1>5. QED
  BY <1>1, <1>2, <1>4 DEF n, m, d

\* The rows of the file that has a label.
Rows(l) == ToSet(labelCsvPaths[l].rows)

\* Nothing is stored or joined before the files are known; a row is stored under
\* a key with its own benchmark, mode and parameters, in the map of the label of
\* the file it comes from.
CInv ==
  /\ label \in Labels
  /\ \A f \in unlabelled : IsResults(f)
  /\ DOMAIN labelCsvPaths = Labels
  /\ \A l \in Labels : labelCsvPaths[l] = NoFile \/ IsResults(labelCsvPaths[l])
  /\ pc = "read" => labelCsvPaths[label] # NoFile /\ lines \in Seq(Rows(label))
  /\ DOMAIN fileData = Labels
  /\ pc = "label" => results = {} /\ \A l \in Labels : DOMAIN fileData[l] = {}
  /\ \A l \in Labels : \A k \in DOMAIN fileData[l] :
       LET row == fileData[l][k] IN
         /\ labelCsvPaths[l] # NoFile
         /\ row \in Rows(l) /\ row # Blank /\ Same(row, k)
  /\ pc = "join" => todo \subseteq DOMAIN fileData["BASE"]
  /\ ComparesCounterparts

LEMMA InitCInv == Init => CInv
<1> SUFFICES ASSUME Init PROVE CInv
  OBVIOUS
<1>1. \A l \in Labels : DOMAIN fileData[l] = {}
  BY DEF Init
<1>2. \A f \in unlabelled : IsResults(f)
  BY DirectoriesAssumption DEF Init
<1>3. QED
  BY <1>1, <1>2 DEF Init, CInv, Labels, ComparesCounterparts

\* A file takes a label while nothing depends on it yet.
LEMMA LabelCInv ==
  ASSUME CInv, NEW f \in unlabelled, LabelFile(f) PROVE CInv'
<1>1. /\ pc = "label" /\ pc' = "label"
      /\ unlabelled' = unlabelled \ {f}
      /\ labelCsvPaths' = [labelCsvPaths EXCEPT ![LabelOf(f)] = f]
      /\ UNCHANGED <<label, lines, valueId, fileData, todo, results, out>>
  BY DEF LabelFile
<1>2. IsResults(f)
  BY DEF CInv
<1>3. \A l \in Labels :
        labelCsvPaths'[l] = NoFile \/ IsResults(labelCsvPaths'[l])
  BY <1>1, <1>2 DEF CInv
<1>4. results' = {} /\ \A l \in Labels : DOMAIN fileData'[l] = {}
  BY <1>1 DEF CInv
<1>5. ComparesCounterparts'
  BY <1>4 DEF ComparesCounterparts
<1>6. QED
  BY <1>1, <1>3, <1>4, <1>5 DEF CInv

\* Opening a file, or failing to.
LEMMA ReadCInv ==
  ASSUME CInv, NEW l \in Labels, Read(l) PROVE CInv'
<1>1. /\ label' = l
      /\ labelCsvPaths[l] = NoFile => pc' = "failed"
      /\ labelCsvPaths[l] # NoFile => pc' = "read" /\ lines' = labelCsvPaths[l].rows
      /\ UNCHANGED <<unlabelled, labelCsvPaths, fileData, todo, results, out>>
  BY DEF Read
<1>2. labelCsvPaths[l] # NoFile => lines' \in Seq(Rows(l))
  BY <1>1 DEF CInv, IsResults, Rows
<1>3. pc' # "label" /\ pc' # "join"
  BY <1>1
<1>4. Rows(l)' = Rows(l) /\ \A x \in Labels : Rows(x)' = Rows(x)
  BY <1>1 DEF Rows
<1>5. ComparesCounterparts'
  BY <1>1 DEF CInv, ComparesCounterparts
<1>6. QED
  BY <1>1, <1>2, <1>3, <1>4, <1>5 DEF CInv

\* A row goes under its key.
LEMMA ReadRowCInv == CInv /\ ReadRow => CInv'
<1> SUFFICES ASSUME CInv, ReadRow PROVE CInv'
  OBVIOUS
<1> DEFINE row == Head(lines)
<1>1. /\ pc = "read" /\ lines # <<>> /\ lines' = Tail(lines)
      /\ pc' \in {"read", "failed"}
      /\ UNCHANGED <<unlabelled, labelCsvPaths, label, todo, results, out>>
  BY DEF ReadRow
<1>2. /\ labelCsvPaths[label] # NoFile /\ label \in Labels
      /\ row \in Rows(label)
      /\ lines' \in Seq(Rows(label))
  BY <1>1, HeadTailProperties DEF CInv
<1>3. \A l \in Labels : Rows(l)' = Rows(l)
  BY <1>1 DEF Rows
<1>4. ComparesCounterparts'
  BY <1>1 DEF CInv, ComparesCounterparts
<1>5. CASE UNCHANGED fileData
  BY <1>1, <1>2, <1>3, <1>4, <1>5 DEF CInv
<1>6. CASE row # Blank /\ fileData' = [fileData EXCEPT ![label] = Put(@, Key(row), row)]
  <2> DEFINE new == Put(fileData[label], Key(row), row)
  <2>1. /\ DOMAIN new = {Key(row)} \cup DOMAIN fileData[label]
        /\ \A k \in DOMAIN new :
             new[k] = IF k = Key(row) THEN row ELSE fileData[label][k]
    BY DEF Put
  <2>2. /\ DOMAIN fileData' = Labels
        /\ \A l \in Labels : fileData'[l] = IF l = label THEN new ELSE fileData[l]
    BY <1>2, <1>6 DEF CInv
  <2>3. Same(row, Key(row))
    BY DEF Same, Key
  <2>4. ASSUME NEW l \in Labels, NEW k \in DOMAIN fileData'[l]
        PROVE  /\ labelCsvPaths[l] # NoFile
               /\ fileData'[l][k] \in Rows(l) /\ fileData'[l][k] # Blank
               /\ Same(fileData'[l][k], k)
    <3>1. CASE l = label /\ k = Key(row)
      BY <1>2, <1>6, <2>1, <2>2, <2>3, <3>1
    <3>2. CASE ~(l = label /\ k = Key(row))
      <4>1. k \in DOMAIN fileData[l] /\ fileData'[l][k] = fileData[l][k]
        BY <2>1, <2>2, <2>4, <3>2
      <4>2. QED
        BY <4>1 DEF CInv
    <3>3. QED
      BY <3>1, <3>2
  <2>5. QED
    BY <1>1, <1>2, <1>3, <1>4, <2>2, <2>4 DEF CInv
<1>7. QED
  BY <1>5, <1>6 DEF ReadRow

\* Joining a row: its counterpart has the same key, so it measures the same.
LEMMA JoinCInv == ASSUME CInv, NEW k \in todo, Join(k) PROVE CInv'
<1> DEFINE base  == fileData["BASE"][k]
           patch == fileData["PATCH"][k]
           result == [params |-> k, base |-> base, patch |-> patch,
                      diff |-> Diff(base.score, patch.score)]
<1>1. /\ pc = "join" /\ pc' \in {"join", "failed"}
      /\ todo' = todo \ {k}
      /\ UNCHANGED <<unlabelled, labelCsvPaths, label, lines, valueId, fileData, out>>
  BY DEF Join
<1>2. \/ results' = results
      \/ /\ k \in DOMAIN fileData["PATCH"]
         /\ results' = results \cup {result}
  BY DEF Join
<1>3. k \in DOMAIN fileData["BASE"] /\ "BASE" \in Labels /\ "PATCH" \in Labels
  BY <1>1 DEF CInv, Labels
<1>4. ASSUME k \in DOMAIN fileData["PATCH"]
      PROVE  /\ Same(base, patch) /\ Same(base, k)
             /\ base \in Rows("BASE") /\ patch \in Rows("PATCH")
             /\ HasSign(result)
  <2>1. /\ base \in Rows("BASE") /\ base # Blank /\ Same(base, k)
        /\ patch \in Rows("PATCH") /\ patch # Blank /\ Same(patch, k)
        /\ IsResults(labelCsvPaths["BASE"]) /\ IsResults(labelCsvPaths["PATCH"])
    BY <1>3, <1>4 DEF CInv
  <2>2. base.score \in Nat \ {0} /\ patch.score \in Nat \ {0}
    BY <2>1 DEF IsResults, Rows
  <2>3. HasSign(result)
    BY <2>2, DiffSign DEF HasSign
  <2>4. QED
    BY <2>1, <2>3 DEF Same
<1>5. ComparesCounterparts'
  BY <1>1, <1>2, <1>4 DEF CInv, ComparesCounterparts, Rows
<1>6. \A l \in Labels : Rows(l)' = Rows(l)
  BY <1>1 DEF Rows
<1>7. QED
  BY <1>1, <1>5, <1>6 DEF CInv

LEMMA StepCInv == CInv /\ [Next]_vars => CInv'
<1> SUFFICES ASSUME CInv, [Next]_vars PROVE CInv'
  OBVIOUS
<1>1. ASSUME NEW f \in unlabelled, LabelFile(f) PROVE CInv'
  BY <1>1, LabelCInv
<1>2. CASE Open
  BY <1>2, ReadCInv DEF Open, Labels
<1>3. CASE ReadRow
  BY <1>3, ReadRowCInv
<1>4. CASE StartJoin
  BY <1>4 DEF StartJoin, CInv, ComparesCounterparts, Rows
<1>5. ASSUME NEW k \in todo, Join(k) PROVE CInv'
  BY <1>5, JoinCInv
<1>6. CASE WriteOut
  BY <1>6 DEF WriteOut, CInv, ComparesCounterparts, Rows
<1>7. CASE UNCHANGED vars
  BY <1>7 DEF vars, CInv, ComparesCounterparts, Rows
<1>8. QED
  BY <1>1, <1>2, <1>3, <1>4, <1>5, <1>6, <1>7 DEF Next

\* For every directory and every order of its files and of the map's entries, a
\* line of the table compares two measurements of the same thing, one of each
\* file, and its percentage has the sign of the change.
THEOREM CounterpartsTheorem == Spec => []ComparesCounterparts
<1>1. CInv => ComparesCounterparts
  BY DEF CInv
<1>2. QED
  BY <1>1, InitCInv, StepCInv, PTL DEF Spec
-----------------------------------------------------------------------------
\* A finite set sorted by a strict total order lists each of its elements once,
\* in that order.
LEMMA SortedFacts ==
  ASSUME NEW S, IsFiniteSet(S), NEW R,
         \A x \in S : <<x, x>> \notin R,
         \A x, y, z \in S : <<x, y>> \in R /\ <<y, z>> \in R => <<x, z>> \in R,
         \A x, y \in S : x # y => <<x, y>> \in R \/ <<y, x>> \in R
  PROVE  /\ Cardinality(S) \in Nat
         /\ DOMAIN Sorted(S, R) = 1..Cardinality(S)
         /\ \A k \in 1..Cardinality(S) : Sorted(S, R)[k] \in S
         /\ \A x \in S : \E k \in 1..Cardinality(S) : Sorted(S, R)[k] = x
         /\ \A i, j \in 1..Cardinality(S) :
              i < j => <<Sorted(S, R)[i], Sorted(S, R)[j]>> \in R
<1> DEFINE n == Cardinality(S)
           Lower(x) == {y \in S : <<y, x>> \in R}
           Place(x) == Cardinality(Lower(x)) + 1
           place == [x \in S |-> Place(x)]
           At(k) == CHOOSE x \in S : Cardinality(Lower(x)) = k - 1
<1>1. n \in Nat
  BY FS_CardinalityType
<1>2. ASSUME NEW x \in S
      PROVE  IsFiniteSet(Lower(x)) /\ Cardinality(Lower(x)) \in Nat /\ Place(x) \in 1..n
  <2>1. x \in S /\ x \notin Lower(x) /\ Lower(x) \in SUBSET S
    OBVIOUS
  <2>2. /\ IsFiniteSet(Lower(x)) /\ Cardinality(Lower(x)) <= n
        /\ Cardinality(Lower(x)) # n
    BY <2>1, FS_Subset
  <2>3. Cardinality(Lower(x)) \in Nat
    BY <2>2, FS_CardinalityType
  <2> QED BY <1>1, <2>2, <2>3
<1>3. ASSUME NEW x \in S, NEW y \in S, <<x, y>> \in R
      PROVE  Place(x) < Place(y)
  <2>1. Lower(x) \subseteq Lower(y) /\ x \in Lower(y) /\ x \notin Lower(x)
    BY <1>3
  <2>2. /\ Cardinality(Lower(x)) <= Cardinality(Lower(y))
        /\ Cardinality(Lower(x)) # Cardinality(Lower(y))
    BY <1>2, <2>1, FS_Subset
  <2>3. Cardinality(Lower(x)) \in Nat /\ Cardinality(Lower(y)) \in Nat
    BY <1>2
  <2> HIDE DEF Lower
  <2> QED BY <2>2, <2>3
<1> HIDE DEF n, Lower, Place
<1>4. \A x, y \in S : Place(x) = Place(y) => x = y
  <2> SUFFICES ASSUME NEW x \in S, NEW y \in S, x # y PROVE Place(x) # Place(y)
    OBVIOUS
  <2>1. Place(x) \in Nat /\ Place(y) \in Nat
    BY <1>1, <1>2
  <2>2. Place(x) < Place(y) \/ Place(y) < Place(x)
    BY <1>3
  <2> QED BY <2>1, <2>2
<1>5. place \in Injection(S, 1..n)
  BY <1>2, <1>4 DEF Injection, IsInjective
<1>6. place \in Surjection(S, 1..n)
  BY <1>1, <1>5, FS_Interval, FS_Injection DEF n
<1>7. \A k \in 1..n : \E x \in S : Place(x) = k
  BY <1>6 DEF Surjection
<1>8. ASSUME NEW k \in 1..n PROVE At(k) \in S /\ Place(At(k)) = k
  <2>1. PICK x \in S : Place(x) = k
    BY <1>7
  <2>2. Cardinality(Lower(x)) = k - 1
    BY <1>1, <1>2, <2>1 DEF Place
  <2>3. At(k) \in S /\ Cardinality(Lower(At(k))) = k - 1
    BY <2>2
  <2> QED BY <1>1, <2>3 DEF Place
<1>9. /\ DOMAIN Sorted(S, R) = 1..n
      /\ \A k \in 1..n : Sorted(S, R)[k] = At(k)
  BY DEF Sorted, n, Lower
<1> HIDE DEF At
<1>10. ASSUME NEW x \in S PROVE At(Place(x)) = x
  BY <1>2, <1>4, <1>8
<1>11. ASSUME NEW i \in 1..n, NEW j \in 1..n, i < j
       PROVE  <<At(i), At(j)>> \in R
  <2>1. i \in Nat /\ j \in Nat /\ ~(j < i) /\ i # j
    BY <1>1, <1>11
  <2>2. At(i) \in S /\ At(j) \in S /\ Place(At(i)) = i /\ Place(At(j)) = j
    BY <1>8
  <2>3. <<At(j), At(i)>> \notin R
    BY <1>3, <2>1, <2>2
  <2> QED BY <2>1, <2>2, <2>3
<1> QED BY <1>1, <1>2, <1>8, <1>9, <1>10, <1>11 DEF n
-----------------------------------------------------------------------------
\* The key of a row read when so many parameter values had been.
KeyAt(row, id) ==
  [benchmark |-> row.benchmark, mode |-> row.mode, params |-> row.params,
   order |-> IF row.params = <<>> THEN 0 ELSE id]

\* The rows of a file that are stored.
Kept(l) == {row \in Rows(l) \ {Blank} : row.mode # "?"}

\* The comparator tells two keys of a file apart.
Apart(l) ==
  \A k1, k2 \in DOMAIN fileData[l] :
    k1 # k2 /\ k1.mode = k2.mode /\ k1.benchmark = k2.benchmark => k1.order # k2.order

\* The keys of a file come from its rows; those with parameters have a number
\* below the counter, so the next one is new.
RInv ==
  /\ valueId \in Nat
  /\ order \in {"ALPHA", "ASCENDING", "DESCENDING"}
  /\ pc = "read" /\ label = "BASE" => DOMAIN fileData["PATCH"] = {}
  /\ \A l \in Labels : IsFiniteSet(DOMAIN fileData[l]) /\ Apart(l)
  /\ \A l \in Labels : \A k \in DOMAIN fileData[l] :
       \E row \in Kept(l), id \in Nat :
         /\ k = KeyAt(row, id)
         /\ pc = "read" /\ l = label /\ row.params # <<>> => id < valueId

LEMMA InitRInv == Init => RInv
<1> SUFFICES ASSUME Init PROVE RInv
  OBVIOUS
<1>1. \A l \in Labels : DOMAIN fileData[l] = {}
  BY DEF Init
<1> QED BY <1>1, FS_EmptySet DEF Init, RInv, Apart, Labels

\* Steps that store nothing keep it, as long as the file read next has no keys
\* yet.
LEMMA SameDataRInv ==
  ASSUME RInv, UNCHANGED <<order, fileData>>, valueId' \in Nat,
         \A l \in Labels : DOMAIN fileData[l] # {} => Rows(l)' = Rows(l),
         pc' = "read" =>
           /\ label' = "BASE" => DOMAIN fileData["PATCH"] = {}
           /\ \/ DOMAIN fileData[label'] = {}
              \/ pc = "read" /\ label' = label /\ valueId' = valueId
  PROVE  RInv'
<1>1. \A l \in Labels : Apart(l)' <=> Apart(l)
  BY DEF Apart
<1>2. ASSUME NEW l \in Labels, NEW k \in DOMAIN fileData'[l]
      PROVE  \E row \in Kept(l)', id \in Nat :
               /\ k = KeyAt(row, id)
               /\ pc' = "read" /\ l = label' /\ row.params # <<>> => id < valueId'
  <2>1. k \in DOMAIN fileData[l] /\ Kept(l)' = Kept(l)
    BY <1>2 DEF Kept
  <2>2. PICK row \in Kept(l), id \in Nat :
          /\ k = KeyAt(row, id)
          /\ pc = "read" /\ l = label /\ row.params # <<>> => id < valueId
    BY <2>1 DEF RInv
  <2>3. pc' = "read" /\ l = label' => pc = "read" /\ l = label /\ valueId' = valueId
    BY <2>1
  <2> QED BY <2>1, <2>2, <2>3
<1> QED BY <1>1, <1>2 DEF RInv

\* What the assumption on the files says of the rows stored.
LEMMA KeptFacts ==
  ASSUME NEW l, IsResults(labelCsvPaths[l])
  PROVE  /\ \A row \in Kept(l) :
              /\ row.benchmark \in ToSet(BenchOrder) /\ row.mode \in ToSet(Modes)
         /\ \A row1, row2 \in Kept(l) : row1.params = <<>> <=> row2.params = <<>>
<1>1. \A row \in Kept(l) :
        /\ row.benchmark \in ToSet(BenchOrder) /\ row.mode \in ToSet(Modes)
        /\ row.params \in Seq(ToSet(row.params))
  BY DEF Kept, Rows, IsResults
<1>2. \A row1, row2 \in Kept(l) : Len(row1.params) = Len(row2.params)
  BY DEF Kept, Rows, IsResults
<1>3. \A row \in Kept(l) : row.params = <<>> <=> Len(row.params) = 0
  BY <1>1, EmptySeq
<1> QED BY <1>1, <1>2, <1>3

\* A row stored: its key is one more, and no other looks the same to the
\* comparator.
LEMMA ReadRowRInv == ASSUME CInv, RInv, ReadRow, order' = order PROVE RInv'
<1> DEFINE row == Head(lines)
<1>1. /\ pc = "read" /\ lines # <<>> /\ pc' \in {"read", "failed"}
      /\ UNCHANGED <<labelCsvPaths, label>>
  BY DEF ReadRow
<1>2. /\ label \in Labels /\ labelCsvPaths[label] # NoFile /\ row \in Rows(label)
      /\ IsResults(labelCsvPaths[label])
  BY <1>1, HeadTailProperties DEF CInv
<1>3. \A l : Rows(l)' = Rows(l) /\ Kept(l)' = Kept(l)
  BY <1>1 DEF Rows, Kept
<1>4. CASE UNCHANGED <<valueId, fileData>>
  <2>1. valueId' \in Nat
    BY <1>4 DEF RInv
  <2>2. pc' = "read" /\ label' = "BASE" => DOMAIN fileData["PATCH"] = {}
    BY <1>1 DEF RInv
  <2> QED BY <1>1, <1>3, <1>4, <2>1, <2>2, SameDataRInv
<1>5. CASE /\ row # Blank /\ row.mode # "?"
           /\ fileData' = [fileData EXCEPT ![label] = Put(@, Key(row), row)]
           /\ valueId' = valueId + Len(row.params)
  <2> DEFINE key == KeyAt(row, valueId)
             Old == DOMAIN fileData[label]
  <2>1. row \in Kept(label) /\ key = Key(row) /\ valueId \in Nat
    BY <1>2, <1>5 DEF Kept, KeyAt, Key, RInv
  <2>2. /\ row.params \in Seq(ToSet(row.params))
        /\ row.params # <<>> => Len(row.params) > 0
    <3>1. row.params \in Seq(ToSet(row.params))
      BY <1>2, <1>5 DEF IsResults, Rows
    <3> QED BY <3>1, EmptySeq
  <2>3. /\ valueId' \in Nat
        /\ valueId <= valueId'
        /\ row.params # <<>> => valueId < valueId'
    <3>1. Len(row.params) \in Nat
      BY <2>2, LenProperties
    <3> QED BY <1>5, <2>1, <2>2, <3>1
  <2>4. \A l \in Labels :
          DOMAIN fileData'[l] =
            IF l = label THEN Old \cup {key} ELSE DOMAIN fileData[l]
    BY <1>2, <1>5, <2>1 DEF CInv, Put
  <2>5. ASSUME NEW k \in Old
        PROVE  /\ \E r \in Kept(label), id \in Nat :
                    k = KeyAt(r, id) /\ (r.params # <<>> => id < valueId)
               /\ k # key /\ k.mode = key.mode /\ k.benchmark = key.benchmark
                    => k.order # key.order
    <3>1. PICK r \in Kept(label), id \in Nat :
            k = KeyAt(r, id) /\ (r.params # <<>> => id < valueId)
      BY <1>1, <1>2, <2>5 DEF RInv
    <3>2. r.params = <<>> <=> row.params = <<>>
      BY <1>2, <2>1, KeptFacts
    <3>3. CASE row.params = <<>>
      BY <3>1, <3>2, <3>3 DEF KeyAt
    <3>4. CASE row.params # <<>>
      <4>1. k.order = id /\ key.order = valueId /\ id < valueId
        BY <3>1, <3>2, <3>4 DEF KeyAt
      <4> QED BY <2>1, <3>1, <4>1
    <3> QED BY <3>3, <3>4
  <2> HIDE DEF key
  <2>6. ASSUME NEW l \in Labels PROVE IsFiniteSet(DOMAIN fileData'[l]) /\ Apart(l)'
    <3>1. IsFiniteSet(DOMAIN fileData[l]) /\ Apart(l)
      BY DEF RInv
    <3>2. CASE l # label
      BY <2>4, <3>1, <3>2, l \in Labels DEF Apart
    <3>3. CASE l = label
      <4>1. IsFiniteSet(Old \cup {key})
        BY <3>1, <3>3, FS_AddElement
      <4> QED BY <2>4, <2>5, <3>1, <3>3, <4>1 DEF Apart
    <3> QED BY <3>2, <3>3
  <2>7. ASSUME NEW l \in Labels, NEW k \in DOMAIN fileData'[l]
        PROVE  \E r \in Kept(l), id \in Nat :
                 /\ k = KeyAt(r, id)
                 /\ pc' = "read" /\ l = label' /\ r.params # <<>> => id < valueId'
    <3>1. CASE l # label
      BY <1>1, <2>4, <2>7, <3>1 DEF RInv
    <3>2. CASE l = label /\ k \in Old
      BY <2>1, <2>3, <2>5, <3>2
    <3>3. CASE l = label /\ k = key
      BY <2>1, <2>3, <3>3 DEF key
    <3> QED BY <2>4, <2>7, <3>1, <3>2, <3>3
  <2>8. pc' = "read" /\ label' = "BASE" => DOMAIN fileData'["PATCH"] = {}
    BY <1>1, <2>4 DEF RInv, Labels
  <2>9. order' \in {"ALPHA", "ASCENDING", "DESCENDING"}
    BY DEF RInv
  <2> QED BY <1>3, <2>3, <2>6, <2>7, <2>8, <2>9 DEF RInv
<1> QED BY <1>4, <1>5 DEF ReadRow

LEMMA StepRInv == CInv /\ RInv /\ [Next]_vars => RInv'
<1> SUFFICES ASSUME CInv, RInv, [Next]_vars PROVE RInv'
  OBVIOUS
<1>1. valueId \in Nat /\ order' = order
  BY DEF RInv, Next, vars
<1>2. ASSUME NEW f \in unlabelled, LabelFile(f) PROVE RInv'
  <2>1. /\ pc = "label" /\ pc' = "label"
        /\ UNCHANGED <<valueId, fileData>>
        /\ \A l \in Labels : DOMAIN fileData[l] = {}
    BY <1>2 DEF LabelFile, CInv
  <2> QED BY <1>1, <2>1, SameDataRInv
<1>3. CASE Open
  <2>1. PICK l \in Labels :
          /\ Read(l)
          /\ l = "BASE" => pc = "label"
          /\ l = "PATCH" => pc = "read" /\ label = "BASE"
    BY <1>3 DEF Open, Labels
  <2>2. /\ label' = l /\ valueId' = 0
        /\ UNCHANGED <<labelCsvPaths, fileData>>
    BY <2>1 DEF Read
  <2>3. DOMAIN fileData[l] = {} /\ (l = "BASE" => DOMAIN fileData["PATCH"] = {})
    BY <2>1 DEF CInv, RInv, Labels
  <2>4. \A x : Rows(x)' = Rows(x)
    BY <2>2 DEF Rows
  <2> QED BY <1>1, <2>2, <2>3, <2>4, SameDataRInv
<1>4. CASE ReadRow
  BY <1>1, <1>4, ReadRowRInv
<1>5. CASE /\ UNCHANGED <<valueId, labelCsvPaths, fileData>>
           /\ pc' # "read" \/ UNCHANGED <<pc, label>>
  <2>1. \A x : Rows(x)' = Rows(x)
    BY <1>5 DEF Rows
  <2>2. pc' = "read" /\ label' = "BASE" => DOMAIN fileData["PATCH"] = {}
    BY <1>5 DEF RInv
  <2> QED BY <1>1, <1>5, <2>1, <2>2, SameDataRInv
<1>6. CASE StartJoin
  BY <1>5, <1>6 DEF StartJoin
<1>7. ASSUME NEW k \in todo, Join(k) PROVE RInv'
  BY <1>5, <1>7 DEF Join
<1>8. CASE WriteOut
  BY <1>5, <1>8 DEF WriteOut
<1>9. CASE UNCHANGED vars
  BY <1>5, <1>9 DEF vars
<1> QED BY <1>2, <1>3, <1>4, <1>6, <1>7, <1>8, <1>9 DEF Next
-----------------------------------------------------------------------------
\* The line a row of the base file becomes.
ResultOf(k) ==
  [params |-> k, base |-> fileData["BASE"][k], patch |-> fileData["PATCH"][k],
   diff |-> Diff(fileData["BASE"][k].score, fileData["PATCH"][k].score)]

BaseKeys == DOMAIN fileData["BASE"]

Table ==
  LET rows == Sorted(results, InTree(results))
  IN  [i \in DOMAIN rows |-> rows[Reorder(rows)[i]]]

\* The keys joined so far have their line, and the table is the tree set's
\* lines, reordered.
TInv ==
  /\ pc \in {"label", "read"} => results = {}
  /\ pc \in {"join", "done"} =>
       /\ BaseKeys \ todo \subseteq DOMAIN fileData["PATCH"]
       /\ results = {ResultOf(k) : k \in BaseKeys \ todo}
  /\ pc = "done" => todo = {} /\ out = Table

LEMMA InitTInv == Init => TInv
BY DEF Init, TInv

\* Every name and every mode has a place of its own.
LEMMA IndexFacts ==
  /\ \A m \in ToSet(Modes) : ModeIndex(m) \in Int /\ Modes[ModeIndex(m)] = m
  /\ \A b \in ToSet(BenchOrder) : BenchIndex(b) \in Int /\ BenchOrder[BenchIndex(b)] = b
<1>1. ASSUME NEW m \in ToSet(Modes)
      PROVE  ModeIndex(m) \in 1..Len(Modes) /\ Modes[ModeIndex(m)] = m
  <2>1. \E i \in 1..Len(Modes) : Modes[i] = m
    BY DEF ToSet, Modes
  <2> QED BY <2>1 DEF ModeIndex
<1>2. ASSUME NEW b \in ToSet(BenchOrder)
      PROVE  BenchIndex(b) \in 1..Len(BenchOrder) /\ BenchOrder[BenchIndex(b)] = b
  <2>1. DOMAIN BenchOrder = 1..Len(BenchOrder)
    BY BenchOrderAssumption, LenProperties
  <2>2. \E i \in 1..Len(BenchOrder) : BenchOrder[i] = b
    BY <2>1 DEF ToSet
  <2> QED BY <2>2 DEF BenchIndex
<1>3. Len(Modes) \in Nat /\ Len(BenchOrder) \in Nat
  BY BenchOrderAssumption, LenProperties DEF Modes
<1> QED BY <1>1, <1>2, <1>3

IsKey(k) ==
  k.order \in Int /\ k.mode \in ToSet(Modes) /\ k.benchmark \in ToSet(BenchOrder)

\* The comparator is a strict order, and tells apart what differs in the mode,
\* the benchmark or the number.
LEMMA BeforeFacts ==
  ASSUME NEW a, NEW b, NEW c, IsKey(a), IsKey(b), IsKey(c)
  PROVE  /\ ~Before(a, a)
         /\ Before(a, b) /\ Before(b, c) => Before(a, c)
         /\ \/ a.mode = b.mode /\ a.benchmark = b.benchmark /\ a.order = b.order
            \/ Before(a, b) \/ Before(b, a)
<1>1. /\ ModeIndex(a.mode) \in Int /\ ModeIndex(b.mode) \in Int /\ ModeIndex(c.mode) \in Int
      /\ BenchIndex(a.benchmark) \in Int /\ BenchIndex(b.benchmark) \in Int
      /\ BenchIndex(c.benchmark) \in Int
  BY IndexFacts DEF IsKey
<1>2. /\ ModeIndex(a.mode) = ModeIndex(b.mode) => a.mode = b.mode
      /\ BenchIndex(a.benchmark) = BenchIndex(b.benchmark) => a.benchmark = b.benchmark
  BY IndexFacts DEF IsKey
<1>3. a.order \in Int /\ b.order \in Int /\ c.order \in Int
  BY DEF IsKey
<1> QED BY <1>1, <1>2, <1>3 DEF Before

LEMMA DiffIsWhole ==
  ASSUME NEW b \in Nat \ {0}, NEW p \in Nat \ {0}
  PROVE  Diff(b, p) \in Int
<1>1. 200 * (p - b) + b \in Int /\ 2 * b \in Nat \ {0}
  OBVIOUS
<1> QED BY <1>1, DivBounds DEF Diff

\* The lines made so far have whole differences, and the tree set's comparator
\* orders them.
LEMMA ResultsFacts ==
  ASSUME CInv, RInv, TInv, pc \in {"join", "done"}
  PROVE  /\ \A k \in BaseKeys : IsKey(k)
         /\ \A k1, k2 \in BaseKeys : k1 # k2 => Before(k1, k2) \/ Before(k2, k1)
         /\ \A r \in results : r.params \in BaseKeys /\ r = ResultOf(r.params)
         /\ \A r \in results : r.diff \in Int
         /\ IsFiniteSet(results)
<1>1. \A l \in Labels : \A k \in DOMAIN fileData[l] :
        /\ labelCsvPaths[l] # NoFile /\ IsResults(labelCsvPaths[l])
        /\ fileData[l][k].score \in Nat \ {0}
  <2> SUFFICES ASSUME NEW l \in Labels, NEW k \in DOMAIN fileData[l]
               PROVE  /\ labelCsvPaths[l] # NoFile /\ IsResults(labelCsvPaths[l])
                      /\ fileData[l][k].score \in Nat \ {0}
    OBVIOUS
  <2>1. /\ labelCsvPaths[l] # NoFile /\ IsResults(labelCsvPaths[l])
        /\ fileData[l][k] \in Rows(l) /\ fileData[l][k] # Blank
    BY DEF CInv
  <2> QED BY <2>1 DEF IsResults, Rows
<1>2. "BASE" \in Labels /\ "PATCH" \in Labels
  BY DEF Labels
<1>3. ASSUME NEW k \in BaseKeys PROVE IsKey(k)
  <2>1. PICK row \in Kept("BASE"), id \in Nat : k = KeyAt(row, id)
    BY <1>2 DEF RInv, BaseKeys
  <2>2. row.benchmark \in ToSet(BenchOrder) /\ row.mode \in ToSet(Modes)
    BY <1>1, <1>2, KeptFacts DEF BaseKeys
  <2> QED BY <2>1, <2>2 DEF KeyAt, IsKey
<1>4. ASSUME NEW k1 \in BaseKeys, NEW k2 \in BaseKeys, k1 # k2
      PROVE  Before(k1, k2) \/ Before(k2, k1)
  <2>1. k1.mode = k2.mode /\ k1.benchmark = k2.benchmark => k1.order # k2.order
    BY <1>2, <1>4 DEF RInv, Apart, BaseKeys
  <2> QED BY <1>3, <2>1, BeforeFacts
<1>5. \A r \in results : r.params \in BaseKeys \ todo /\ r = ResultOf(r.params)
  BY DEF TInv, ResultOf
<1>6. ASSUME NEW r \in results PROVE r.diff \in Int
  <2> DEFINE k == r.params
  <2>1. k \in BaseKeys /\ k \in DOMAIN fileData["PATCH"]
    BY <1>5 DEF TInv
  <2>2. fileData["BASE"][k].score \in Nat \ {0} /\ fileData["PATCH"][k].score \in Nat \ {0}
    BY <1>1, <1>2, <2>1 DEF BaseKeys
  <2>3. Diff(fileData["BASE"][k].score, fileData["PATCH"][k].score) \in Int
    BY <2>2, DiffIsWhole
  <2>4. r.diff = Diff(fileData["BASE"][k].score, fileData["PATCH"][k].score)
    BY <1>5 DEF ResultOf
  <2> QED BY <2>3, <2>4
<1>7. IsFiniteSet(results)
  <2> DEFINE f == [k \in BaseKeys \ todo |-> ResultOf(k)]
  <2>1. IsFiniteSet(BaseKeys \ todo)
    BY <1>2, FS_Subset, BaseKeys \ todo \in SUBSET BaseKeys DEF RInv, BaseKeys
  <2>2. f \in Surjection(BaseKeys \ todo, results)
    BY DEF TInv, Surjection
  <2> QED BY <2>1, <2>2, FS_Surjection
<1> QED BY <1>3, <1>4, <1>5, <1>6, <1>7

\* A key joined has its line added: no line is there that the comparator takes
\* for the same.
LEMMA JoinTInv == ASSUME CInv, RInv, TInv, NEW k \in todo, Join(k) PROVE TInv'
<1>1. /\ pc = "join" /\ todo' = todo \ {k}
      /\ pc' \in {"join", "failed"}
      /\ UNCHANGED fileData
      /\ BaseKeys' = BaseKeys
      /\ \A x : ResultOf(x)' = ResultOf(x)
  BY DEF Join, BaseKeys, ResultOf
<1>2. k \in BaseKeys
  BY <1>1 DEF CInv, BaseKeys
<1>3. CASE k \in DOMAIN fileData["PATCH"]
  <2>1. \A r \in results : Before(r.params, k) \/ Before(k, r.params)
    <3> SUFFICES ASSUME NEW r \in results PROVE Before(r.params, k) \/ Before(k, r.params)
      OBVIOUS
    <3>1. r.params \in BaseKeys \ todo
      BY <1>1 DEF TInv, ResultOf
    <3>2. r.params # k
      BY <3>1
    <3> QED BY <1>1, <1>2, <3>1, <3>2, ResultsFacts
  <2>2. results' = results \cup {ResultOf(k)}
    BY <1>3, <2>1 DEF Join, ResultOf
  <2>3. BaseKeys \ todo' = (BaseKeys \ todo) \cup {k}
    BY <1>1, <1>2
  <2>4. results' = {ResultOf(x) : x \in BaseKeys \ todo'}
    BY <1>1, <2>2, <2>3 DEF TInv
  <2> QED BY <1>1, <1>3, <2>3, <2>4 DEF TInv
<1>4. CASE k \notin DOMAIN fileData["PATCH"]
  BY <1>4 DEF Join, TInv
<1> QED BY <1>3, <1>4

LEMMA StepTInv == CInv /\ RInv /\ TInv /\ [Next]_vars => TInv'
<1> SUFFICES ASSUME CInv, RInv, TInv, [Next]_vars PROVE TInv'
  OBVIOUS
<1>1. ASSUME NEW f \in unlabelled, LabelFile(f) PROVE TInv'
  BY <1>1 DEF LabelFile, TInv
<1>2. CASE Open
  BY <1>2 DEF Open, Read, TInv
<1>3. CASE ReadRow
  BY <1>3 DEF ReadRow, TInv
<1>4. CASE StartJoin
  <2>1. /\ pc = "read" /\ pc' = "join" /\ todo' = BaseKeys /\ results' = {}
        /\ UNCHANGED fileData /\ BaseKeys' = BaseKeys
    BY <1>4 DEF StartJoin, TInv, BaseKeys
  <2>2. BaseKeys \ todo' = {}
    BY <2>1
  <2> QED BY <2>1, <2>2 DEF TInv
<1>5. ASSUME NEW k \in todo, Join(k) PROVE TInv'
  BY <1>5, JoinTInv
<1>6. CASE WriteOut
  <2>1. /\ pc = "join" /\ pc' = "done" /\ todo = {}
        /\ out' = Table
        /\ UNCHANGED <<todo, fileData, results>>
    BY <1>6 DEF WriteOut, Table
  <2>2. order' = order
    BY <1>6 DEF Next, WriteOut, vars
  <2>3. Table' = Table
    BY <2>1, <2>2 DEF Table, Reorder
  <2>4. BaseKeys' = BaseKeys /\ \A x : ResultOf(x)' = ResultOf(x)
    BY <2>1 DEF BaseKeys, ResultOf
  <2> QED BY <2>1, <2>3, <2>4 DEF TInv
<1>7. CASE UNCHANGED vars
  <2>1. /\ BaseKeys' = BaseKeys /\ \A x : ResultOf(x)' = ResultOf(x)
        /\ Table' = Table
    BY <1>7 DEF vars, BaseKeys, ResultOf, Table, Reorder
  <2> QED BY <1>7, <2>1 DEF vars, TInv
<1> QED BY <1>1, <1>2, <1>3, <1>4, <1>5, <1>6, <1>7 DEF Next
-----------------------------------------------------------------------------
\* The tree set's order of the lines is a strict total order.
LEMMA TreeFacts ==
  ASSUME CInv, RInv, TInv, pc \in {"join", "done"},
         NEW rows, rows = Sorted(results, InTree(results))
  PROVE  /\ Cardinality(results) \in Nat
         /\ DOMAIN rows = 1..Cardinality(results)
         /\ \A i \in DOMAIN rows : rows[i] \in results
         /\ \A r \in results : \E i \in DOMAIN rows : rows[i] = r
         /\ \A i, j \in DOMAIN rows : i < j => Before(rows[i].params, rows[j].params)
<1> DEFINE R == InTree(results)
<1>1. \A r, s \in results : <<r, s>> \in R <=> Before(r.params, s.params)
  BY DEF InTree
<1>2. /\ IsFiniteSet(results)
      /\ \A r \in results : r.params \in BaseKeys /\ IsKey(r.params)
      /\ \A r, s \in results : r # s => r.params # s.params
  BY ResultsFacts
<1>3. \A r \in results : <<r, r>> \notin R
  BY <1>1, <1>2, BeforeFacts
<1>4. \A r, s, t \in results : <<r, s>> \in R /\ <<s, t>> \in R => <<r, t>> \in R
  <2> SUFFICES ASSUME NEW r \in results, NEW s \in results, NEW t \in results,
                      Before(r.params, s.params), Before(s.params, t.params)
               PROVE  Before(r.params, t.params)
    BY <1>1
  <2> QED BY <1>2, BeforeFacts
<1>5. \A r, s \in results : r # s => <<r, s>> \in R \/ <<s, r>> \in R
  BY <1>1, <1>2, ResultsFacts
<1> HIDE DEF R
<1>6. /\ Cardinality(results) \in Nat
      /\ DOMAIN Sorted(results, R) = 1..Cardinality(results)
      /\ \A k \in 1..Cardinality(results) : Sorted(results, R)[k] \in results
      /\ \A x \in results : \E k \in 1..Cardinality(results) : Sorted(results, R)[k] = x
      /\ \A i, j \in 1..Cardinality(results) :
           i < j => <<Sorted(results, R)[i], Sorted(results, R)[j]>> \in R
  BY <1>2, <1>3, <1>4, <1>5, SortedFacts
<1>7. rows = Sorted(results, R)
  BY DEF R
<1> QED BY <1>1, <1>6, <1>7

\* The same of the places of a sequence.
LEMMA SortedPlaces ==
  ASSUME NEW n \in Nat, NEW R,
         \A x \in 1..n : <<x, x>> \notin R,
         \A x, y, z \in 1..n : <<x, y>> \in R /\ <<y, z>> \in R => <<x, z>> \in R,
         \A x, y \in 1..n : x # y => <<x, y>> \in R \/ <<y, x>> \in R,
         NEW p, p = Sorted(1..n, R)
  PROVE  /\ DOMAIN p = 1..n
         /\ \A i \in 1..n : p[i] \in 1..n
         /\ \A i \in 1..n : \E k \in 1..n : p[k] = i
         /\ \A i, j \in 1..n : i < j => <<p[i], p[j]>> \in R
<1> DEFINE D == 1..n
<1>1. IsFiniteSet(D) /\ Cardinality(D) = n
  BY FS_Interval
<1>2. /\ DOMAIN p = 1..Cardinality(D)
      /\ \A k \in 1..Cardinality(D) : p[k] \in D
      /\ \A x \in D : \E k \in 1..Cardinality(D) : p[k] = x
      /\ \A i, j \in 1..Cardinality(D) : i < j => <<p[i], p[j]>> \in R
  <2>1. /\ \A x \in D : <<x, x>> \notin R
        /\ \A x, y, z \in D : <<x, y>> \in R /\ <<y, z>> \in R => <<x, z>> \in R
        /\ \A x, y \in D : x # y => <<x, y>> \in R \/ <<y, x>> \in R
        /\ p = Sorted(D, R)
    OBVIOUS
  <2> HIDE DEF D
  <2> QED BY <1>1, <2>1, SortedFacts
<1> QED BY <1>1, <1>2

\* What a stable sort leaves: every place once, in the order asked for.
LEMMA ReorderFacts ==
  ASSUME NEW rows, NEW n \in Nat, DOMAIN rows = 1..n,
         \A i \in 1..n : rows[i].diff \in Int,
         order \in {"ALPHA", "ASCENDING", "DESCENDING"}
  PROVE  LET p == Reorder(rows) IN
           /\ \A i \in 1..n : p[i] \in 1..n
           /\ \A i \in 1..n : \E k \in 1..n : p[k] = i
           /\ \A i, j \in 1..n : i < j =>
                /\ order = "ALPHA" => p[i] < p[j]
                /\ order = "ASCENDING" => <<p[i], p[j]>> \in Rising(rows)
                /\ order = "DESCENDING" => <<p[i], p[j]>> \in Falling(rows)
<1> DEFINE p == Reorder(rows)
<1>1. CASE order = "ALPHA"
  BY <1>1 DEF Reorder
<1>2. CASE order = "ASCENDING"
  <2>1. p = Sorted(1..n, Rising(rows))
    BY <1>2 DEF Reorder
  <2>2. \A i, j \in 1..n : <<i, j>> \in Rising(rows) <=>
          rows[i].diff < rows[j].diff \/ (rows[i].diff = rows[j].diff /\ i < j)
    BY DEF Rising
  <2>3. /\ \A x \in 1..n : <<x, x>> \notin Rising(rows)
        /\ \A x, y, z \in 1..n :
             <<x, y>> \in Rising(rows) /\ <<y, z>> \in Rising(rows) => <<x, z>> \in Rising(rows)
        /\ \A x, y \in 1..n : x # y => <<x, y>> \in Rising(rows) \/ <<y, x>> \in Rising(rows)
    BY <2>2
  <2> QED BY <1>2, <2>1, <2>3, SortedPlaces
<1>3. CASE order = "DESCENDING"
  <2>1. p = Sorted(1..n, Falling(rows))
    BY <1>3 DEF Reorder
  <2>2. \A i, j \in 1..n : <<i, j>> \in Falling(rows) <=>
          rows[i].diff > rows[j].diff \/ (rows[i].diff = rows[j].diff /\ i < j)
    BY DEF Falling
  <2>3. /\ \A x \in 1..n : <<x, x>> \notin Falling(rows)
        /\ \A x, y, z \in 1..n :
             <<x, y>> \in Falling(rows) /\ <<y, z>> \in Falling(rows) => <<x, z>> \in Falling(rows)
        /\ \A x, y \in 1..n : x # y => <<x, y>> \in Falling(rows) \/ <<y, x>> \in Falling(rows)
    BY <2>2
  <2> QED BY <1>3, <2>1, <2>3, SortedPlaces
<1> QED BY <1>1, <1>2, <1>3

\* The table holds every line, and orders them as asked.
LEMMA TableFacts ==
  ASSUME CInv, RInv, TInv, pc = "done"
  PROVE  /\ Cardinality(results) \in Nat
         /\ DOMAIN out = 1..Cardinality(results)
         /\ \A i \in DOMAIN out : out[i] \in results
         /\ \A r \in results : \E i \in DOMAIN out : out[i] = r
         /\ TableInOrder
<1> DEFINE rows == Sorted(results, InTree(results))
           n == Cardinality(results)
           p == Reorder(rows)
<1>1. out = [i \in DOMAIN rows |-> rows[p[i]]]
  BY DEF TInv, Table
<1> HIDE DEF p
<1>2. /\ n \in Nat /\ DOMAIN rows = 1..n
      /\ \A i \in 1..n : rows[i] \in results
      /\ \A r \in results : \E i \in 1..n : rows[i] = r
      /\ \A i, j \in 1..n : i < j => Before(rows[i].params, rows[j].params)
  BY TreeFacts
<1> HIDE DEF rows, n
<1>3. \A i \in 1..n : rows[i].diff \in Int
  BY <1>2, ResultsFacts
<1>4. order \in {"ALPHA", "ASCENDING", "DESCENDING"}
  BY DEF RInv
<1>5. /\ \A i \in 1..n : p[i] \in 1..n
      /\ \A i \in 1..n : \E k \in 1..n : p[k] = i
      /\ \A i, j \in 1..n : i < j =>
           /\ order = "ALPHA" => p[i] < p[j]
           /\ order = "ASCENDING" => <<p[i], p[j]>> \in Rising(rows)
           /\ order = "DESCENDING" => <<p[i], p[j]>> \in Falling(rows)
  <2>1. n \in Nat /\ DOMAIN rows = 1..n
    BY <1>2
  <2> QED BY <1>3, <1>4, <2>1, ReorderFacts DEF p
<1>6. DOMAIN out = 1..n /\ \A i \in 1..n : out[i] = rows[p[i]]
  BY <1>1, <1>2
<1>7. \A i \in 1..n : out[i] \in results
  BY <1>2, <1>5, <1>6
<1>8. ASSUME NEW r \in results PROVE \E k \in 1..n : out[k] = r
  <2>1. PICK i \in 1..n : rows[i] = r
    BY <1>2
  <2>2. PICK k \in 1..n : p[k] = i
    BY <1>5
  <2> QED BY <1>6, <2>1, <2>2
<1>9. ASSUME NEW i \in 1..n, NEW j \in 1..n, i < j
      PROVE  CASE order = "ALPHA" -> Before(out[i].params, out[j].params)
               [] order = "ASCENDING" ->
                    /\ out[i].diff <= out[j].diff
                    /\ out[i].diff = out[j].diff => Before(out[i].params, out[j].params)
               [] order = "DESCENDING" ->
                    /\ out[i].diff >= out[j].diff
                    /\ out[i].diff = out[j].diff => Before(out[i].params, out[j].params)
  <2>1. p[i] \in 1..n /\ p[j] \in 1..n /\ out[i] = rows[p[i]] /\ out[j] = rows[p[j]]
    BY <1>5, <1>6
  <2>2. out[i].diff \in Int /\ out[j].diff \in Int
    BY <1>3, <2>1
  <2>3. p[i] < p[j] => Before(out[i].params, out[j].params)
    BY <1>2, <2>1
  <2>4. CASE order = "ALPHA"
    BY <1>5, <1>9, <2>3, <2>4
  <2>5. CASE order = "ASCENDING"
    <3>1. <<p[i], p[j]>> \in Rising(rows)
      BY <1>5, <1>9, <2>5
    <3>2. \/ out[i].diff < out[j].diff
          \/ out[i].diff = out[j].diff /\ p[i] < p[j]
      BY <2>1, <3>1 DEF Rising
    <3> QED BY <2>2, <2>3, <2>5, <3>2
  <2>6. CASE order = "DESCENDING"
    <3>1. <<p[i], p[j]>> \in Falling(rows)
      BY <1>5, <1>9, <2>6
    <3>2. \/ out[i].diff > out[j].diff
          \/ out[i].diff = out[j].diff /\ p[i] < p[j]
      BY <2>1, <3>1 DEF Falling
    <3> QED BY <2>2, <2>3, <2>6, <3>2
  <2> QED BY <1>4, <2>4, <2>5, <2>6
<1>10. TableInOrder
  BY <1>6, <1>9 DEF TableInOrder
<1> QED BY <1>2, <1>6, <1>7, <1>8, <1>10 DEF n

\* For every directory, the table is in the order asked for, and lines with the
\* same difference keep the order of the tree set (BenchmarkCompare.java:301-318).
THEOREM OrderTheorem == Spec => []TableInOrder
<1>1. CInv /\ RInv /\ TInv => TableInOrder
  BY TableFacts DEF TableInOrder
<1> QED BY <1>1, InitCInv, StepCInv, InitRInv, StepRInv, InitTInv, StepTInv, PTL DEF Spec
-----------------------------------------------------------------------------
\* How many parameters the rows of the base file have.
Width ==
  CHOOSE n \in Nat : \A row \in Rows("BASE") \ {Blank} : Len(row.params) = n

\* The keys of a file's first i rows, when none of them is blank.
Keys(l, i) == {KeyAt(labelCsvPaths[l].rows[j], (j - 1) * Width) : j \in 1..i}

RowCount(l) == Len(labelCsvPaths[l].rows)
RowsRead == RowCount(label) - Len(lines)

\* Of two files of the same runs, the keys read so far are those of the rows read
\* so far, the same in both, and nothing has failed.
SInv ==
  /\ pc = "read" =>
       /\ Len(lines) <= RowCount(label)
       /\ \A j \in 1..Len(lines) :
            lines[j] = labelCsvPaths[label].rows[RowsRead + j]
  /\ SameRuns =>
       /\ pc = "read" => /\ valueId = RowsRead * Width
                         /\ DOMAIN fileData[label] = Keys(label, RowsRead)
       /\ pc = "read" /\ label = "PATCH" => BaseKeys = Keys("BASE", RowCount("BASE"))
       /\ pc \in {"join", "done"} => BaseKeys = DOMAIN fileData["PATCH"]
       /\ pc # "failed"

\* Two files of the same runs have rows that differ in their scores only.
LEMMA SameRunsFacts ==
  ASSUME CInv, SameRuns
  PROVE  /\ Width \in Nat
         /\ RowCount("BASE") \in Nat /\ RowCount("PATCH") = RowCount("BASE")
         /\ \A l \in Labels : \A j \in 1..RowCount(l) :
              LET row == labelCsvPaths[l].rows[j] IN
                /\ row # Blank /\ row.mode # "?" /\ Len(row.params) = Width
                /\ \A id : KeyAt(row, id) = KeyAt(labelCsvPaths["BASE"].rows[j], id)
<1> DEFINE B == labelCsvPaths["BASE"].rows
           P == labelCsvPaths["PATCH"].rows
<1>1. /\ "BASE" \in Labels /\ "PATCH" \in Labels
      /\ \A l \in Labels : l \in {"BASE", "PATCH"}
  BY DEF Labels
<1>2. \A l \in Labels : IsResults(labelCsvPaths[l])
  BY DEF CInv, SameRuns, WellFormed
<1>3. B \in Seq(ToSet(B)) /\ P \in Seq(ToSet(P))
  BY <1>1, <1>2 DEF IsResults
<1>4. /\ Len(B) \in Nat /\ DOMAIN B = 1..Len(B)
      /\ Len(P) \in Nat /\ DOMAIN P = 1..Len(P)
  BY <1>3, LenProperties
<1> DEFINE Of(row) == <<row.benchmark, row.mode, row.params>>
<1>5. [i \in DOMAIN B |-> Of(B[i])] = [i \in DOMAIN P |-> Of(P[i])]
  BY DEF SameRuns, Measured
<1>6. \A l \in Labels : \A j \in 1..RowCount(l) :
        /\ labelCsvPaths[l].rows[j] \in Rows(l)
        /\ labelCsvPaths[l].rows[j] # Blank /\ labelCsvPaths[l].rows[j].mode # "?"
  BY <1>1, <1>4 DEF SameRuns, WellFormed, RowCount, Rows, ToSet
<1>7. Width \in Nat /\ \A row \in Rows("BASE") \ {Blank} : Len(row.params) = Width
  <2>1. \E n \in Nat : \A row \in Rows("BASE") \ {Blank} : Len(row.params) = n
    <3>1. CASE Rows("BASE") \ {Blank} = {}
      BY <3>1
    <3>2. ASSUME NEW r \in Rows("BASE") \ {Blank}
          PROVE  \E n \in Nat : \A row \in Rows("BASE") \ {Blank} : Len(row.params) = n
      <4>1. r.params \in Seq(ToSet(r.params))
        BY <1>1, <1>2 DEF IsResults, Rows
      <4>2. Len(r.params) \in Nat
        BY <4>1, LenProperties
      <4>3. \A row \in Rows("BASE") \ {Blank} : Len(row.params) = Len(r.params)
        BY <1>1, <1>2 DEF IsResults, Rows
      <4> QED BY <4>2, <4>3
    <3> QED BY <3>1, <3>2
  <2> QED BY <2>1 DEF Width
<1> HIDE DEF B, P
<1>8. /\ DOMAIN B = DOMAIN P
      /\ \A i \in DOMAIN B : Of(B[i]) = Of(P[i])
  <2> DEFINE f == [i \in DOMAIN B |-> Of(B[i])]
             g == [i \in DOMAIN P |-> Of(P[i])]
  <2>1. /\ DOMAIN f = DOMAIN B /\ \A i \in DOMAIN B : f[i] = Of(B[i])
        /\ DOMAIN g = DOMAIN P /\ \A i \in DOMAIN P : g[i] = Of(P[i])
    OBVIOUS
  <2>2. f = g
    BY <1>5
  <2> HIDE DEF f, g, Of
  <2> QED BY <2>1, <2>2
<1>9. Len(P) = Len(B)
  <2>1. \A k \in Nat : Cardinality(1..k) = k
    BY FS_Interval
  <2>2. 1..Len(B) = 1..Len(P)
    BY <1>4, <1>8
  <2> QED BY <1>4, <2>1, <2>2
<1>10. ASSUME NEW i \in 1..Len(B)
       PROVE  /\ B[i].benchmark = P[i].benchmark /\ B[i].mode = P[i].mode
              /\ B[i].params = P[i].params
  BY <1>4, <1>8
<1>11. \A i \in 1..Len(B) : \A id : KeyAt(P[i], id) = KeyAt(B[i], id)
  BY <1>10 DEF KeyAt
<1>12. RowCount("BASE") = Len(B) /\ RowCount("PATCH") = Len(P)
  BY DEF RowCount, B, P
<1>13. \A j \in 1..Len(B) : Len(B[j].params) = Width /\ Len(P[j].params) = Width
  <2>1. \A j \in 1..Len(B) : Len(B[j].params) = Width
    BY <1>1, <1>6, <1>7, <1>12 DEF B
  <2> QED BY <1>10, <2>1
<1> QED BY <1>1, <1>4, <1>6, <1>7, <1>9, <1>11, <1>12, <1>13 DEF B, P
-----------------------------------------------------------------------------
LEMMA InitSInv == Init => SInv
BY DEF Init, SInv, SameRuns, WellFormed, Labels

\* What SInv says is about the files, which no step after the labelling changes.
LEMMA SameFiles ==
  ASSUME UNCHANGED labelCsvPaths
  PROVE  /\ SameRuns' <=> SameRuns
         /\ Width' = Width
         /\ \A l : RowCount(l)' = RowCount(l)
         /\ \A l, i : Keys(l, i)' = Keys(l, i)
<1>1. \A l : Rows(l)' = Rows(l)
  BY DEF Rows
<1>2. Width' = Width
  BY <1>1 DEF Width
<1> QED BY <1>2 DEF SameRuns, WellFormed, RowCount, Keys

\* One row more: its key is the next.
LEMMA ReadRowSInv == ASSUME CInv, SInv, ReadRow PROVE SInv'
<1> DEFINE row == Head(lines)
           rows == labelCsvPaths[label].rows
           i == RowsRead
<1>1. /\ pc = "read" /\ lines # <<>> /\ lines' = Tail(lines) /\ pc' \in {"read", "failed"}
      /\ UNCHANGED <<labelCsvPaths, label>>
  BY DEF ReadRow
<1>2. label \in Labels /\ lines \in Seq(Rows(label)) /\ IsResults(labelCsvPaths[label])
  BY <1>1 DEF CInv
<1>3. RowCount(label) \in Nat
  BY <1>2, LenProperties DEF RowCount, IsResults
<1>4. /\ Len(lines) \in Nat \ {0}
      /\ Len(lines') = Len(lines) - 1
      /\ \A j \in 1..Len(lines') : lines'[j] = lines[j + 1]
      /\ row = lines[1]
  BY <1>1, <1>2, HeadTailProperties, EmptySeq, LenProperties
<1>5. /\ Len(lines) <= RowCount(label)
      /\ \A j \in 1..Len(lines) : lines[j] = rows[i + j]
  BY <1>1 DEF SInv
<1>6. i \in Nat /\ i + 1 \in 1..RowCount(label) /\ row = rows[i + 1]
  BY <1>3, <1>4, <1>5 DEF RowsRead
<1>7. RowsRead' = i + 1 /\ RowCount(label)' = RowCount(label)
  BY <1>1, <1>3, <1>4, SameFiles DEF RowsRead
<1>8. /\ Len(lines') <= RowCount(label)
      /\ \A j \in 1..Len(lines') : lines'[j] = rows[(i + 1) + j]
  <2>1. Len(lines') <= RowCount(label)
    BY <1>3, <1>4, <1>5
  <2>2. ASSUME NEW j \in 1..Len(lines') PROVE lines'[j] = rows[(i + 1) + j]
    <3>1. j + 1 \in 1..Len(lines) /\ i + (j + 1) = (i + 1) + j
      BY <1>4, <1>6
    <3> QED BY <1>4, <1>5, <3>1
  <2> QED BY <2>1, <2>2
<1> HIDE DEF i
<1>9. ASSUME SameRuns
      PROVE  /\ pc' = "read"
             /\ valueId' = (i + 1) * Width
             /\ DOMAIN fileData'[label] = Keys(label, i + 1)
             /\ label = "PATCH" => DOMAIN fileData'["BASE"] = Keys("BASE", RowCount("BASE"))
  <2>1. /\ Width \in Nat
        /\ row # Blank /\ row.mode # "?" /\ Len(row.params) = Width
    BY <1>2, <1>6, <1>9, SameRunsFacts
  <2>2. /\ pc' = "read"
        /\ fileData' = [fileData EXCEPT ![label] = Put(@, Key(row), row)]
        /\ valueId' = valueId + Width
    BY <1>1, <2>1 DEF ReadRow
  <2>3. valueId = i * Width /\ DOMAIN fileData[label] = Keys(label, i)
    BY <1>1, <1>9 DEF SInv, i
  <2>4. (i + 1) * Width = i * Width + Width /\ (i + 1) - 1 = i
    BY <1>6, <2>1
  <2>5. Key(row) = KeyAt(rows[i + 1], ((i + 1) - 1) * Width)
    BY <1>6, <2>3, <2>4 DEF Key, KeyAt
  <2>6. Keys(label, i + 1) = Keys(label, i) \cup {Key(row)}
    <3>1. 1..(i + 1) = (1..i) \cup {i + 1}
      BY <1>6
    <3> HIDE DEF row
    <3> QED BY <2>5, <3>1 DEF Keys
  <2>7. DOMAIN fileData'[label] = DOMAIN fileData[label] \cup {Key(row)}
    BY <1>2, <2>2 DEF CInv, Put
  <2>8. label = "PATCH" => fileData'["BASE"] = fileData["BASE"]
    BY <1>2, <2>2 DEF CInv, Labels
  <2>9. label = "PATCH" => BaseKeys = Keys("BASE", RowCount("BASE"))
    BY <1>1, <1>9 DEF SInv
  <2> QED BY <2>2, <2>3, <2>4, <2>6, <2>7, <2>8, <2>9 DEF BaseKeys
<1>10. SameRuns' <=> SameRuns
  BY <1>1, SameFiles
<1>11. Width' = Width /\ \A l : RowCount(l)' = RowCount(l)
  BY <1>1, SameFiles
<1>12. /\ Keys(label, RowsRead)' = Keys(label, i + 1)
       /\ Keys("BASE", RowCount("BASE"))' = Keys("BASE", RowCount("BASE"))
  <2>1. RowCount("BASE")' = RowCount("BASE")
    BY <1>11
  <2> QED BY <1>1, <1>7, <1>11, <2>1 DEF Keys
<1>13. pc' = "read" =>
         /\ Len(lines') <= RowCount(label)'
         /\ \A j \in 1..Len(lines') :
              lines'[j] = labelCsvPaths'[label'].rows[RowsRead' + j]
  BY <1>1, <1>7, <1>8
<1>14. SameRuns' =>
         /\ pc' = "read" => /\ valueId' = RowsRead' * Width'
                            /\ DOMAIN fileData'[label'] = Keys(label, RowsRead)'
         /\ pc' = "read" /\ label' = "PATCH" => BaseKeys' = Keys("BASE", RowCount("BASE"))'
         /\ pc' \in {"join", "done"} => BaseKeys' = DOMAIN fileData'["PATCH"]
         /\ pc' # "failed"
  <2> SUFFICES ASSUME SameRuns
               PROVE  /\ pc' = "read"
                      /\ valueId' = RowsRead' * Width'
                      /\ DOMAIN fileData'[label'] = Keys(label, RowsRead)'
                      /\ label' = "PATCH" => BaseKeys' = Keys("BASE", RowCount("BASE"))'
    BY <1>10
  <2> QED BY <1>1, <1>7, <1>9, <1>11, <1>12 DEF BaseKeys
<1> QED BY <1>13, <1>14 DEF SInv

\* Opening a file: no row of it has been read, and all of the one before.
LEMMA OpenSInv == ASSUME CInv, RInv, SInv, Open PROVE SInv'
<1>1. PICK l \in Labels :
        /\ Read(l)
        /\ l = "BASE" => pc = "label"
        /\ l = "PATCH" => pc = "read" /\ label = "BASE" /\ lines = <<>>
  BY DEF Open, Labels
<1>2. /\ label' = l /\ valueId' = 0
      /\ labelCsvPaths[l] = NoFile => pc' = "failed"
      /\ labelCsvPaths[l] # NoFile => pc' = "read" /\ lines' = labelCsvPaths[l].rows
      /\ UNCHANGED <<labelCsvPaths, fileData>>
  BY <1>1 DEF Read
<1>3. DOMAIN fileData[l] = {}
  BY <1>1 DEF CInv, RInv, Labels
<1>4. /\ SameRuns' <=> SameRuns
      /\ Width' = Width
      /\ \A x : RowCount(x)' = RowCount(x)
      /\ \A x, i : Keys(x, i)' = Keys(x, i)
  BY <1>2, SameFiles
<1>5. CASE labelCsvPaths[l] = NoFile
  <2>1. ~SameRuns
    BY <1>5 DEF SameRuns, WellFormed
  <2> QED BY <1>2, <1>4, <1>5, <2>1 DEF SInv
<1>6. CASE labelCsvPaths[l] # NoFile
  <2>1. pc' = "read" /\ lines' = labelCsvPaths[l].rows
    BY <1>2, <1>6
  <2>2. Len(lines') \in Nat /\ RowCount(l) = Len(lines')
    <3>1. IsResults(labelCsvPaths[l])
      BY <1>6 DEF CInv
    <3> QED BY <2>1, <3>1, LenProperties DEF IsResults, RowCount
  <2>3. RowsRead' = 0
    BY <1>2, <1>4, <2>2 DEF RowsRead
  <2>4. /\ Len(lines') <= RowCount(label)'
        /\ \A j \in 1..Len(lines') : lines'[j] = labelCsvPaths'[label'].rows[RowsRead' + j]
    BY <1>2, <1>4, <2>1, <2>2, <2>3
  <2>5. Keys(label, RowsRead)' = {}
    BY <2>3 DEF Keys
  <2>6. ASSUME SameRuns
        PROVE  /\ valueId' = RowsRead' * Width'
               /\ label' = "PATCH" => BaseKeys' = Keys("BASE", RowCount("BASE"))'
    <3>1. Width \in Nat /\ RowCount("BASE") \in Nat
      BY <2>6, SameRunsFacts
    <3>2. valueId' = RowsRead' * Width'
      BY <1>2, <1>4, <2>3, <3>1
    <3>3. ASSUME l = "PATCH" PROVE BaseKeys = Keys("BASE", RowCount("BASE"))
      <4>1. pc = "read" /\ label = "BASE" /\ Len(lines) = 0
        BY <1>1, <3>3, EmptySeq
      <4>2. RowsRead = RowCount("BASE")
        BY <3>1, <4>1 DEF RowsRead
      <4> QED BY <2>6, <4>1, <4>2 DEF SInv, BaseKeys
    <3>4. /\ BaseKeys' = BaseKeys
          /\ Keys("BASE", RowCount("BASE"))' = Keys("BASE", RowCount("BASE"))
      <4>1. RowCount("BASE")' = RowCount("BASE")
        BY <1>4
      <4> QED BY <1>2, <1>4, <4>1 DEF Keys, BaseKeys
    <3> QED BY <1>2, <3>2, <3>3, <3>4
  <2>7. DOMAIN fileData'[label'] = Keys(label, RowsRead)'
    BY <1>2, <1>3, <2>5
  <2> QED BY <1>4, <2>1, <2>4, <2>6, <2>7 DEF SInv
<1> QED BY <1>5, <1>6

\* Both files read: they have the same keys.
LEMMA StartJoinSInv == ASSUME CInv, SInv, StartJoin PROVE SInv'
<1>1. /\ pc = "read" /\ label = "PATCH" /\ lines = <<>> /\ pc' = "join"
      /\ UNCHANGED <<labelCsvPaths, fileData>>
  BY DEF StartJoin
<1>2. ASSUME SameRuns PROVE BaseKeys = DOMAIN fileData["PATCH"]
  <2>1. /\ BaseKeys = Keys("BASE", RowCount("BASE"))
        /\ DOMAIN fileData["PATCH"] = Keys("PATCH", RowsRead)
    BY <1>1, <1>2 DEF SInv
  <2>2. RowCount("BASE") \in Nat /\ RowCount("PATCH") = RowCount("BASE")
    BY <1>2, SameRunsFacts
  <2>3. RowsRead = RowCount("BASE")
    BY <1>1, <2>2, EmptySeq DEF RowsRead
  <2>4. \A j \in 1..RowCount("BASE") :
          KeyAt(labelCsvPaths["PATCH"].rows[j], (j - 1) * Width)
            = KeyAt(labelCsvPaths["BASE"].rows[j], (j - 1) * Width)
    BY <1>2, <2>2, SameRunsFacts DEF Labels
  <2>5. Keys("PATCH", RowCount("BASE")) = Keys("BASE", RowCount("BASE"))
    BY <2>4 DEF Keys
  <2> QED BY <2>1, <2>3, <2>5
<1>3. BaseKeys' = BaseKeys
  BY <1>1 DEF BaseKeys
<1>4. SameRuns' <=> SameRuns
  BY <1>1, SameFiles
<1> QED BY <1>1, <1>2, <1>3, <1>4 DEF SInv

LEMMA StepSInv == CInv /\ RInv /\ SInv /\ [Next]_vars => SInv'
<1> SUFFICES ASSUME CInv, RInv, SInv, [Next]_vars PROVE SInv'
  OBVIOUS
<1>1. ASSUME NEW f \in unlabelled, LabelFile(f) PROVE SInv'
  BY <1>1 DEF LabelFile, SInv
<1>2. CASE Open
  BY <1>2, OpenSInv
<1>3. CASE ReadRow
  BY <1>3, ReadRowSInv
<1>4. CASE StartJoin
  BY <1>4, StartJoinSInv
<1>5. ASSUME NEW k \in todo, Join(k) PROVE SInv'
  <2>1. /\ pc = "join" /\ pc' \in {"join", "failed"}
        /\ UNCHANGED <<labelCsvPaths, fileData>>
        /\ k \notin DOMAIN fileData["PATCH"] <=> pc' = "failed"
    BY <1>5 DEF Join
  <2>2. k \in BaseKeys
    BY <2>1 DEF CInv, BaseKeys
  <2>3. SameRuns' <=> SameRuns
    BY <2>1, SameFiles
  <2>4. BaseKeys' = BaseKeys
    BY <2>1 DEF BaseKeys
  <2> QED BY <2>1, <2>2, <2>3, <2>4 DEF SInv
<1>6. CASE WriteOut
  <2>1. /\ pc = "join" /\ pc' = "done" /\ UNCHANGED <<labelCsvPaths, fileData>>
    BY <1>6 DEF WriteOut
  <2>2. (SameRuns' <=> SameRuns) /\ BaseKeys' = BaseKeys
    BY <2>1, SameFiles DEF BaseKeys
  <2> QED BY <2>1, <2>2 DEF SInv
<1>7. CASE UNCHANGED vars
  <2>1. UNCHANGED <<labelCsvPaths, label, lines, valueId, fileData, pc>>
    BY <1>7 DEF vars
  <2>2. /\ SameRuns' <=> SameRuns
        /\ Width' = Width
        /\ \A l : RowCount(l)' = RowCount(l)
    BY <2>1, SameFiles
  <2>3. RowsRead' = RowsRead /\ RowCount(label)' = RowCount(label)
        /\ BaseKeys' = BaseKeys
    BY <2>1 DEF RowsRead, RowCount, BaseKeys
  <2>4. /\ Keys(label, RowsRead)' = Keys(label, RowsRead)
        /\ Keys("BASE", RowCount("BASE"))' = Keys("BASE", RowCount("BASE"))
    BY <2>1, <2>2, <2>3 DEF Keys, RowCount
  <2> QED BY <2>1, <2>2, <2>3, <2>4 DEF SInv
<1> QED BY <1>1, <1>2, <1>3, <1>4, <1>5, <1>6, <1>7 DEF Next

\* For every directory: two files of the same runs, in the same order, are
\* compared to the end, and whatever the files, a table that gets written has
\* every row of the base file once (BenchmarkCompare.java:242, :408, :445).
THEOREM NothingDroppedTheorem == Spec => []NothingDropped
<1>1. ASSUME CInv, RInv, TInv, SInv PROVE NothingDropped
  <2>1. SameRuns => pc # "failed"
    BY <1>1 DEF SInv
  <2>2. ASSUME pc = "done"
        PROVE  /\ Len(out) = Cardinality(BaseKeys)
               /\ {out[i].params : i \in DOMAIN out} = BaseKeys
    <3>1. /\ Cardinality(results) \in Nat
          /\ DOMAIN out = 1..Cardinality(results)
          /\ \A i \in DOMAIN out : out[i] \in results
          /\ \A r \in results : \E i \in DOMAIN out : out[i] = r
      BY <1>1, <2>2, TableFacts
    <3>2. results = {ResultOf(k) : k \in BaseKeys}
      BY <1>1, <2>2 DEF TInv
    <3>3. \A k \in BaseKeys : ResultOf(k).params = k
      BY DEF ResultOf
    <3>4. {out[i].params : i \in DOMAIN out} = BaseKeys
      <4>1. ASSUME NEW i \in DOMAIN out PROVE out[i].params \in BaseKeys
        BY <3>1, <3>2, <3>3
      <4>2. ASSUME NEW k \in BaseKeys PROVE \E i \in DOMAIN out : out[i].params = k
        BY <3>1, <3>2, <3>3
      <4> QED BY <4>1, <4>2
    <3>5. Len(out) = Cardinality(results)
      <4>1. out = [i \in 1..Cardinality(results) |-> out[i]]
        BY <1>1, <2>2, <3>1 DEF TInv, Table
      <4> QED BY <3>1, <4>1
    <3>6. Cardinality(results) = Cardinality(BaseKeys)
      <4> DEFINE f == [k \in BaseKeys |-> ResultOf(k)]
      <4>1. \A k1, k2 \in BaseKeys : ResultOf(k1) = ResultOf(k2) => k1 = k2
        BY <3>3
      <4>2. f \in Bijection(BaseKeys, results)
        BY <3>2, <4>1 DEF Bijection, Injection, Surjection, IsInjective
      <4>3. IsFiniteSet(BaseKeys)
        BY <1>1 DEF RInv, BaseKeys, Labels
      <4> QED BY <4>2, <4>3, FS_Bijection DEF ExistsBijection
    <3> QED BY <3>4, <3>5, <3>6
  <2> QED BY <2>1, <2>2 DEF NothingDropped, BaseKeys
<1> QED BY <1>1, InitCInv, StepCInv, InitRInv, StepRInv, InitTInv, StepTInv,
        InitSInv, StepSInv, PTL DEF Spec
=============================================================================
