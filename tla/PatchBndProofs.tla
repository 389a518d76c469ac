--------------------------- MODULE PatchBndProofs ---------------------------
(* That a run leaves no old class to the build, for any number of jars. *)
EXTENDS PatchBnd, TLAPS

LEMMA InitIInv == Init => IInv
  BY PinnedAssumption DEF Init, IInv, TypeOK, Contents, Absent, Progress,
     OldCopiesAreFound, OldCopiesAreVisited

\* A build of jar j puts an old class into a copy only if the jar is old.
LEMMA GradleEffect ==
  ASSUME TypeOK, NEW j \in Jars, Gradle(j)
  PROVE  /\ jar' \in [Jars -> Contents]
         /\ copy' \in [Jars -> Contents]
         /\ daemon' \in [Jars -> Contents]
         /\ \A k \in Jars : NeedsPatch(k) => NeedsPatch(k)'
         /\ \A k \in Jars : jar[k] # "none" => jar'[k] = jar[k]
         /\ jar'[j] # "none"
         /\ \A k \in Jars : copy'[k] = "original" => copy[k] = "original" \/ NeedsPatch(k)'
         /\ \A k \in Jars : daemon'[k] = "original" =>
              daemon[k] = "original" \/ copy'[k] = "original"
  BY DEF TypeOK, Contents, Gradle, NeedsPatch

LEMMA OtherBuildIInv == IInv /\ OtherBuild => IInv'
<1> SUFFICES ASSUME IInv, NEW j \in Jars, Gradle(j), UNCHANGED <<pc, todo, interrupted>>
             PROVE  IInv'
  BY DEF OtherBuild
<1>1. TypeOK'
  BY GradleEffect DEF IInv, TypeOK
<1>2. Progress'
  BY GradleEffect, PinnedAssumption DEF IInv, Progress, NeedsPatch
<1>3. OldCopiesAreFound'
  BY GradleEffect DEF IInv, OldCopiesAreFound, NeedsPatch
<1>4. OldCopiesAreVisited'
  BY GradleEffect DEF IInv, OldCopiesAreVisited, NeedsPatch
<1> QED BY <1>1, <1>2, <1>3, <1>4 DEF IInv

LEMMA DownloadIInv == IInv /\ Download => IInv'
<1> SUFFICES ASSUME IInv, Download PROVE IInv'
  OBVIOUS
<1> USE PinnedAssumption
<1>1. TypeOK'
  BY GradleEffect DEF IInv, TypeOK, Download
<1>2. Progress'
  BY GradleEffect DEF IInv, Progress, Download
<1>3. OldCopiesAreFound'
  BY GradleEffect DEF IInv, OldCopiesAreFound, NeedsPatch, Download
<1>4. OldCopiesAreVisited'
  BY DEF OldCopiesAreVisited, Download
<1> QED BY <1>1, <1>2, <1>3, <1>4 DEF IInv

LEMMA BuildIInv == IInv /\ Build => IInv'
<1> SUFFICES ASSUME IInv, Build PROVE IInv'
  OBVIOUS
<1> USE PinnedAssumption
<1>1. TypeOK'
  BY GradleEffect DEF IInv, TypeOK, Build
<1>2. Progress'
  BY DEF Progress, Build
<1>3. OldCopiesAreFound'
  BY GradleEffect DEF IInv, OldCopiesAreFound, NeedsPatch, Build
<1>4. OldCopiesAreVisited'
  BY DEF OldCopiesAreVisited, Build
<1> QED BY <1>1, <1>2, <1>3, <1>4 DEF IInv

\* The run's own steps.  An early exit is safe because an old copy means an old
\* jar; the last copy can be dropped because none was made since, but from one.
LEMMA CheckIInv == IInv /\ Check => IInv'
<1> SUFFICES ASSUME IInv, Check PROVE IInv'
  OBVIOUS
<1> USE PinnedAssumption
<1>1. TypeOK'
  BY DEF IInv, TypeOK, Check
<1>2. Progress'
  <2>1. jar[Pinned] \in {"original", "patched"}
    BY DEF IInv, TypeOK, Contents, Progress, Check
  <2>2. CASE \A j \in Jars : ~NeedsPatch(j)
    BY <2>1, <2>2 DEF IInv, Progress, OldCopiesAreFound, NeedsPatch, Check
  <2>3. CASE ~\A j \in Jars : ~NeedsPatch(j)
    BY <2>1, <2>3 DEF IInv, Progress, NeedsPatch, Check
  <2> QED BY <2>2, <2>3
<1>3. OldCopiesAreFound'
  BY DEF IInv, OldCopiesAreFound, NeedsPatch, Check
<1>4. OldCopiesAreVisited'
  BY DEF OldCopiesAreVisited, Check
<1> QED BY <1>1, <1>2, <1>3, <1>4 DEF IInv

LEMMA LoopsIInv ==
  ASSUME IInv, NEW j \in Jars, PatchJar(j) \/ FindCopies \/ ClearCopy(j) \/ Done
  PROVE  IInv'
<1> USE PinnedAssumption
<1>1. CASE PatchJar(j)
  BY <1>1 DEF IInv, TypeOK, Contents, Progress, OldCopiesAreFound,
     OldCopiesAreVisited, NeedsPatch, PatchJar
<1>2. CASE FindCopies
  BY <1>2 DEF IInv, TypeOK, Progress, OldCopiesAreFound, OldCopiesAreVisited,
     NeedsPatch, FindCopies
<1>3. CASE ClearCopy(j)
  BY <1>3 DEF IInv, TypeOK, Contents, Progress, OldCopiesAreFound,
     OldCopiesAreVisited, NeedsPatch, ClearCopy
<1>4. CASE Done
  BY <1>4 DEF IInv, TypeOK, Progress, OldCopiesAreFound, OldCopiesAreVisited,
     NeedsPatch, Done
<1> QED BY <1>1, <1>2, <1>3, <1>4

LEMMA RestIInv ==
  ASSUME IInv, DaemonExits \/ Start \/ Stop \/ Abort
  PROVE  IInv'
<1> USE PinnedAssumption
<1>1. CASE DaemonExits
  BY <1>1 DEF IInv, TypeOK, Contents, Progress, OldCopiesAreFound,
     OldCopiesAreVisited, NeedsPatch, DaemonExits, Absent
<1>2. CASE Start
  BY <1>2 DEF IInv, TypeOK, Progress, OldCopiesAreFound, OldCopiesAreVisited,
     NeedsPatch, Start
<1>3. CASE Stop
  BY <1>3 DEF IInv, TypeOK, Contents, Progress, OldCopiesAreFound,
     OldCopiesAreVisited, NeedsPatch, Stop, Absent
<1>4. CASE Abort
  <2>1. TypeOK'
    BY <1>4 DEF IInv, TypeOK, Abort
  <2>2. Progress' /\ OldCopiesAreVisited'
    BY <1>4 DEF Progress, OldCopiesAreVisited, Abort
  <2>3. OldCopiesAreFound'
    BY <1>4 DEF IInv, OldCopiesAreFound, NeedsPatch, Abort
  <2> QED BY <2>1, <2>2, <2>3 DEF IInv
<1> QED BY <1>1, <1>2, <1>3, <1>4

\* The invariant: at each step of a run, what is done with and what is still to
\* be visited, however many runs were interrupted before and whatever other
\* builds do meanwhile.
THEOREM RunInvariant == Spec => []IInv
<1>1. IInv /\ [Next]_vars => IInv'
  <2> SUFFICES ASSUME IInv, [Next]_vars PROVE IInv'
    OBVIOUS
  <2>1. CASE Next
    BY <2>1, PinnedAssumption, OtherBuildIInv, DownloadIInv, BuildIInv, CheckIInv,
       LoopsIInv, RestIInv DEF Next
  <2>2. CASE UNCHANGED vars
    BY <2>2 DEF vars, IInv, TypeOK, Progress, OldCopiesAreFound,
       OldCopiesAreVisited, NeedsPatch
  <2> QED BY <2>1, <2>2
<1> QED BY InitIInv, <1>1, PTL DEF Spec

\* The build that a run ends with loads the patched class, unless a run was cut
\* short between its last jar and its last copy (patch-bnd-stackmap.sh:105-182).
THEOREM BuildTheorem == Spec => []BuildIsPatched
<1>1. IInv => BuildIsPatched
  BY DEF IInv, Progress, BuildIsPatched, Stale
<1> QED BY RunInvariant, <1>1, PTL

\* An old copy left behind always has an old jar to be found by.
THEOREM CopiesTheorem == Spec => []OldCopiesAreFound
<1>1. IInv => OldCopiesAreFound
  BY DEF IInv
<1> QED BY RunInvariant, <1>1, PTL
=============================================================================
