------------------------------ MODULE PatchBnd ------------------------------
(***************************************************************************)
(* patch-bnd-stackmap.sh, in the run of build-custom-hibernate-quarkus.sh  *)
(* that calls it: download the plugin, patch its jars in Gradle's cache,   *)
(* drop the copies Gradle made of them, stop the daemon, build.            *)
(*                                                                         *)
(* Three places hold the class to be patched: the jars of modules-2, the   *)
(* instrumented copies of transforms, and the memory of a running daemon.  *)
(* The run can end anywhere (set -e, an interrupt) and be started again,   *)
(* and Gradle builds of other projects run at any time.  Gradle itself is  *)
(* known from what the scripts say of it: it makes a copy from the jar     *)
(* when it has none, under a lock, and loads a copy once per daemon.       *)
(***************************************************************************)
CONSTANTS Jars,     \* the bnd util jars that builds of this user resolve
          Pinned    \* the one download-bnd.sh and Hibernate ORM ask for

ASSUME PinnedAssumption == Pinned \in Jars

Contents == {"none", "original", "patched"}

VARIABLES jar, copy, daemon,   \* what each of the three places holds of a jar
          pc,                  \* the step of the run; "idle" between two
          todo,                \* what the loop it is in has still to visit
          interrupted          \* a run ended with all jars patched and copies
                               \* still to be dropped
vars == <<jar, copy, daemon, pc, todo, interrupted>>

Absent == [j \in Jars |-> "none"]

Init ==
  /\ jar = Absent /\ copy = Absent /\ daemon = Absent
  /\ pc = "idle" /\ todo = {} /\ interrupted = FALSE

\* Gradle runs a build that uses the plugin of jar j.
Gradle(j) ==
  /\ jar' = [jar EXCEPT ![j] = IF @ = "none" THEN "original" ELSE @]
  /\ copy' = [copy EXCEPT ![j] = IF @ = "none" THEN jar'[j] ELSE @]
  /\ daemon' = [daemon EXCEPT ![j] = IF @ = "none" THEN copy'[j] ELSE @]

OtherBuild == \E j \in Jars : Gradle(j) /\ UNCHANGED <<pc, todo, interrupted>>

DaemonExits == daemon' = Absent /\ UNCHANGED <<jar, copy, pc, todo, interrupted>>

Start == pc = "idle" /\ pc' = "download" /\ UNCHANGED <<jar, copy, daemon, todo, interrupted>>

Download ==
  /\ pc = "download" /\ pc' = "check"
  /\ Gradle(Pinned)
  /\ UNCHANGED <<todo, interrupted>>

NeedsPatch(j) == jar[j] = "original"

\* Mutant: one patched jar is taken for all of them.
CheckForAnyPatched ==
  /\ pc = "check"
  /\ IF \E j \in Jars : jar[j] = "patched"
     THEN pc' = "stop" /\ UNCHANGED todo
     ELSE pc' = "patch" /\ todo' = {j \in Jars : jar[j] # "none"}
  /\ UNCHANGED <<jar, copy, daemon, interrupted>>

\* Nothing to do, or every jar found is visited.
Check ==
  /\ pc = "check"
  /\ IF \A j \in Jars : ~NeedsPatch(j)
     THEN pc' = "stop" /\ UNCHANGED todo
     ELSE pc' = "patch" /\ todo' = {j \in Jars : jar[j] # "none"}
  /\ UNCHANGED <<jar, copy, daemon, interrupted>>

PatchJar(j) ==
  /\ pc = "patch" /\ j \in todo
  /\ todo' = todo \ {j}
  /\ jar' = [jar EXCEPT ![j] = IF NeedsPatch(j) THEN "patched" ELSE @]
  /\ UNCHANGED <<copy, daemon, pc, interrupted>>

\* Mutant: the copies of the plugin's own version only.
FindPinnedCopies ==
  /\ pc = "patch" /\ todo = {}
  /\ pc' = "clear" /\ todo' = {j \in {Pinned} : copy[j] # "none"}
  /\ UNCHANGED <<jar, copy, daemon, interrupted>>

\* find: the copies there are, whatever they hold.
FindCopies ==
  /\ pc = "patch" /\ todo = {}
  /\ pc' = "clear" /\ todo' = {j \in Jars : copy[j] # "none"}
  /\ UNCHANGED <<jar, copy, daemon, interrupted>>

ClearCopy(j) ==
  /\ pc = "clear" /\ j \in todo
  /\ todo' = todo \ {j}
  /\ copy' = [copy EXCEPT ![j] = "none"]
  /\ UNCHANGED <<jar, daemon, pc, interrupted>>

Done ==
  /\ pc = "clear" /\ todo = {} /\ pc' = "stop"
  /\ UNCHANGED <<jar, copy, daemon, todo, interrupted>>

\* Mutant: the daemon is kept.
StopNothing ==
  /\ pc = "stop" /\ pc' = "build"
  /\ UNCHANGED <<jar, copy, daemon, todo, interrupted>>

\* gradlew --stop, whether or not there was anything to do.
Stop ==
  /\ pc = "stop" /\ pc' = "build"
  /\ daemon' = Absent
  /\ UNCHANGED <<jar, copy, todo, interrupted>>

Build ==
  /\ pc = "build" /\ pc' = "idle"
  /\ Gradle(Pinned)
  /\ UNCHANGED <<todo, interrupted>>

Abort ==
  /\ pc # "idle" /\ pc' = "idle" /\ todo' = {}
  /\ interrupted' = (interrupted \/ (pc \in {"patch", "clear"} /\ \A j \in Jars : ~NeedsPatch(j)))
  /\ UNCHANGED <<jar, copy, daemon>>

Next ==
  \/ OtherBuild \/ DaemonExits
  \/ Start \/ Download \/ Check \/ (\E j \in Jars : PatchJar(j)) \/ FindCopies
  \/ (\E j \in Jars : ClearCopy(j)) \/ Done \/ Stop \/ Build \/ Abort

Spec == Init /\ [][Next]_vars
-----------------------------------------------------------------------------
TypeOK ==
  /\ jar \in [Jars -> Contents] /\ copy \in [Jars -> Contents] /\ daemon \in [Jars -> Contents]
  /\ pc \in {"idle", "download", "check", "patch", "clear", "stop", "build"}
  /\ todo \in SUBSET Jars /\ interrupted \in BOOLEAN

Stale(j) == "original" \in {jar[j], copy[j], daemon[j]}

\* The build loads the patched class, from whichever of the three places it
\* takes it, if the run before it was let finish once its last jar was patched:
\* an interruption at any other point is made good by the next run, and no build
\* beside it brings the old class back (patch-bnd-stackmap.sh:105-108, :154-182,
\* build-custom-hibernate-quarkus.sh:145-147).
BuildIsPatched == pc = "build" /\ ~interrupted => ~Stale(Pinned)

\* An old copy is never left behind for good: there is a jar to patch, on whose
\* account the next run will drop it (patch-bnd-stackmap.sh:105, :182).
OldCopiesAreFound ==
  pc \notin {"patch", "clear"} /\ ~interrupted =>
    \A j \in Jars : copy[j] = "original" => \E k \in Jars : NeedsPatch(k)

\* The inductive invariant: where in a run which of the three places is done with.
Progress ==
  /\ pc \in {"check", "patch", "clear", "stop", "build"} => jar[Pinned] # "none"
  /\ pc = "patch" => Pinned \in todo \/ jar[Pinned] = "patched"
  /\ pc \in {"clear", "stop", "build"} => jar[Pinned] = "patched"
  /\ pc = "clear" => (copy[Pinned] = "original" => Pinned \in todo)
  /\ pc \in {"stop", "build"} /\ ~interrupted => copy[Pinned] # "original"
  /\ pc = "build" /\ ~interrupted => daemon[Pinned] # "original"

OldCopiesAreVisited ==
  pc = "clear" =>
    \A j \in Jars : copy[j] = "original" => j \in todo \/ \E k \in Jars : NeedsPatch(k)

\* Types, the place in the run and the fate of the old copies together: what each
\* step of a run may rely on.
IInv == TypeOK /\ Progress /\ OldCopiesAreFound /\ OldCopiesAreVisited

\* "The script is idempotent" (patch-bnd-stackmap.sh:35), and "deletes Gradle's
\* instrumented-jar transform cache so it regenerates from the patched originals
\* on the next build" (:32): run again after an interruption, it leaves no old
\* class to the build.  The code breaks it.
RunAgainIsPatched == pc = "build" => ~Stale(Pinned)
=============================================================================
