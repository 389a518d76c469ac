--------------------------- MODULE BuildPipeline ---------------------------
(***************************************************************************)
(* The phases of build-custom-hibernate-quarkus.sh over what they leave on *)
(* disk: publish a Hibernate ORM with a version and a marker of its own,   *)
(* build Quarkus against it, build a sample application and ask it over    *)
(* HTTP which Hibernate it runs.                                           *)
(*                                                                         *)
(* A phase can be skipped, which reuses what an earlier run left, and a    *)
(* run can end at any step (set -e, an interrupt).  Between runs the user  *)
(* edits the sources, discards the script's edits or stops an application  *)
(* that goes on listening.  What --with-preview adds to the first phase is *)
(* the subject of PatchBnd.                                                *)
(***************************************************************************)
EXTENDS Integers, Sequences

CONSTANTS Suffixes,      \* version suffixes asked for, standing for versions
          Markers,
          Work,          \* what the Hibernate sources can be edited into
          Tag,           \* what they are at the tag Quarkus asks for
          Extensions,    \* the extensions built against Hibernate, in order
          Options,       \* the options of the runs considered
          Occurs(_, _)   \* grep: the first is found in the second

NoName == "none"
Artifact == [version : Suffixes, marker : Markers, rev : Work \cup {Tag}]
None == [version |-> NoName, marker |-> NoName, rev |-> NoName]

ASSUME NamesAssumption == NoName \notin Suffixes \cup Markers
ASSUME ExtensionsAssumption == Extensions \in Seq(STRING)
ASSUME OptionsAssumption ==
  Options \subseteq [suffix : Suffixes, marker : Markers, preview : BOOLEAN,
                     hibernate : BOOLEAN, quarkus : BOOLEAN, sample : BOOLEAN,
                     verify : BOOLEAN]

VARIABLES
  head, rev, tree,   \* Hibernate's checkout: a branch or the tag, its sources,
                     \* the version and the marker edited into them
  m2,                \* Hibernate in the local repository, by version
  pom, bom, ext,     \* Quarkus: the version in its pom.xml, in the bom it
                     \* installed; the Hibernate each extension was built against
  app,               \* the Hibernate packaged into the sample
  listening,         \* the Hibernate of whatever answers on the port
  pc, opt,           \* the step of the run, its options
  built,             \* extensions built by this run
  started, response, \* the application is this run's own; what was answered
  halfBuilt,         \* a Quarkus build ended between its bom and its last
                     \* extension, and none was completed since
  cutShort           \* a verification ended without stopping its application

checkout == <<head, rev, tree>>
quarkus == <<pom, bom, ext>>
run == <<opt, built, started, response>>
vars == <<checkout, m2, quarkus, app, listening, pc, run, halfBuilt, cutShort>>

Clean == [version |-> NoName, marker |-> NoName]
NoRun == [suffix |-> NoName, marker |-> NoName, preview |-> FALSE, hibernate |-> FALSE,
          quarkus |-> FALSE, sample |-> FALSE, verify |-> FALSE]

Init ==
  /\ head = "branch" /\ rev \in Work /\ tree = Clean
  /\ m2 = [s \in Suffixes |-> None]
  /\ pom = NoName /\ bom = NoName /\ ext = [i \in 1..Len(Extensions) |-> None]
  /\ app = None /\ listening = None
  /\ pc = "idle" /\ opt = NoRun /\ built = 0 /\ started = FALSE /\ response = None
  /\ halfBuilt = FALSE /\ cutShort = FALSE

EndRun ==
  pc' = "idle" /\ opt' = NoRun /\ built' = 0 /\ started' = FALSE /\ response' = None

\* Where a run goes on that skips phases
Verify(o)    == IF o.verify THEN "launch" ELSE "idle"
Sample(o)    == IF o.sample THEN "copy" ELSE Verify(o)
Quarkus(o)   == IF o.quarkus THEN "setPom" ELSE Sample(o)
Hibernate(o) == IF o.hibernate THEN "checkout" ELSE Quarkus(o)

GoOn(step) ==
  IF step = "idle" THEN EndRun
  ELSE pc' = step /\ built' = 0 /\ UNCHANGED <<opt, started, response>>

Begin(o) ==
  /\ pc = "idle" /\ Hibernate(o) # "idle"
  /\ pc' = Hibernate(o) /\ opt' = o
  /\ UNCHANGED <<checkout, m2, quarkus, app, listening, built, started, response,
                 halfBuilt, cutShort>>

\* git checkout keeps the edits of a tree that is at the tag already, and refuses
\* to overwrite those of another.
Checkout ==
  /\ pc = "checkout"
  /\ IF opt.preview THEN GoOn("setVersion") /\ UNCHANGED checkout
     ELSE IF head = "branch" /\ tree # Clean THEN EndRun /\ UNCHANGED checkout
     ELSE /\ head' = "tag"
          /\ rev' = IF head = "branch" THEN Tag ELSE rev
          /\ UNCHANGED tree
          /\ GoOn("setVersion")
  /\ UNCHANGED <<m2, quarkus, app, listening, halfBuilt, cutShort>>

\* The version is replaced whatever it is, ...
SetVersion ==
  /\ pc = "setVersion"
  /\ tree' = [tree EXCEPT !.version = opt.suffix]
  /\ GoOn("inject")
  /\ UNCHANGED <<head, rev, m2, quarkus, app, listening, halfBuilt, cutShort>>

\* ... the marker only where there is none.
Inject ==
  /\ pc = "inject"
  /\ tree' = [tree EXCEPT !.marker = IF @ = NoName THEN opt.marker ELSE @]
  /\ GoOn("publish")
  /\ UNCHANGED <<head, rev, m2, quarkus, app, listening, halfBuilt, cutShort>>

Publish ==
  /\ pc = "publish"
  /\ m2' = [m2 EXCEPT ![tree.version] =
              [version |-> tree.version, marker |-> tree.marker, rev |-> rev]]
  /\ IF m2'[opt.suffix] = None THEN EndRun ELSE GoOn(Quarkus(opt))
  /\ UNCHANGED <<checkout, quarkus, app, listening, halfBuilt, cutShort>>

SetPom ==
  /\ pc = "setPom"
  /\ pom' = opt.suffix
  /\ GoOn("dependencies")
  /\ UNCHANGED <<checkout, m2, bom, ext, app, listening, halfBuilt, cutShort>>

\* The first of the Maven builds installs the bom, the others one extension each,
\* against the Hibernate then in the local repository under its version.
BuildDependencies ==
  /\ pc = "dependencies"
  /\ bom' = pom
  /\ halfBuilt' = TRUE
  /\ GoOn("extensions")
  /\ UNCHANGED <<checkout, m2, pom, ext, app, listening, cutShort>>

BuildExtension ==
  /\ pc = "extensions" /\ built < Len(Extensions)
  /\ IF m2[pom] = None THEN EndRun /\ UNCHANGED ext
     ELSE /\ ext' = [ext EXCEPT ![built + 1] = m2[pom]]
          /\ built' = built + 1
          /\ UNCHANGED <<pc, opt, started, response>>
  /\ UNCHANGED <<checkout, m2, pom, bom, app, listening, halfBuilt, cutShort>>

\* Mutant: the check comes before the last extension.
CheckBomEarly ==
  /\ pc = "extensions" /\ built >= Len(Extensions) - 1
  /\ halfBuilt' = FALSE
  /\ IF Occurs(opt.suffix, bom) THEN GoOn(Sample(opt)) ELSE EndRun
  /\ UNCHANGED <<checkout, m2, quarkus, app, listening, cutShort>>

CheckBom ==
  /\ pc = "extensions" /\ built = Len(Extensions)
  /\ halfBuilt' = FALSE
  /\ IF Occurs(opt.suffix, bom) THEN GoOn(Sample(opt)) ELSE EndRun
  /\ UNCHANGED <<checkout, m2, quarkus, app, listening, cutShort>>

\* The old sample goes before there is a new one.
CopySample ==
  /\ pc = "copy"
  /\ app' = None
  /\ GoOn("package")
  /\ UNCHANGED <<checkout, m2, quarkus, listening, halfBuilt, cutShort>>

CanPackage ==
  /\ bom # NoName /\ m2[bom] # None
  /\ \A i \in DOMAIN ext : ext[i] # None

Package ==
  /\ pc = "package"
  /\ IF CanPackage THEN app' = m2[bom] /\ GoOn(Verify(opt))
     ELSE EndRun /\ UNCHANGED app
  /\ UNCHANGED <<checkout, m2, quarkus, listening, halfBuilt, cutShort>>

\* An application that finds the port taken, or no jar, exits.
Launch ==
  /\ pc = "launch"
  /\ started' = (app # None /\ listening = None)
  /\ listening' = IF started' THEN app ELSE listening
  /\ pc' = "poll"
  /\ UNCHANGED <<checkout, m2, quarkus, app, opt, built, response, halfBuilt, cutShort>>

\* READY, with what was answered, or not within 30 seconds.
Poll ==
  /\ pc = "poll" /\ pc' = "report"
  /\ \/ listening # None /\ response' = listening
     \/ (started \/ listening = None) /\ response' = None
  /\ UNCHANGED <<checkout, m2, quarkus, app, listening, opt, built, started,
                 halfBuilt, cutShort>>

\* Mutant: the application is not stopped.
CleanUpNothing ==
  /\ pc = "report"
  /\ EndRun
  /\ UNCHANGED <<checkout, m2, quarkus, app, listening, halfBuilt, cutShort>>

CleanUp ==
  /\ pc = "report"
  /\ listening' = IF started THEN None ELSE listening
  /\ EndRun
  /\ UNCHANGED <<checkout, m2, quarkus, app, halfBuilt, cutShort>>

\* set -e or an interrupt; an application started in the background goes on.
Abort ==
  /\ pc # "idle"
  /\ EndRun
  /\ cutShort' = (cutShort \/ started)
  /\ UNCHANGED <<checkout, m2, quarkus, app, listening, halfBuilt>>

\* The user, between two runs; what is edited is committed to a branch.
Edit(r) == pc = "idle" /\ head = "branch" /\ rev' = r /\ UNCHANGED <<head, tree>>
Discard == pc = "idle" /\ tree' = Clean /\ UNCHANGED <<head, rev>>
Switch(r) == pc = "idle" /\ tree = Clean /\ head' = "branch" /\ rev' = r /\ UNCHANGED tree
StopApplication == pc = "idle" /\ listening' = None /\ cutShort' = FALSE

User ==
  \/ /\ (\E r \in Work : Edit(r) \/ Switch(r)) \/ Discard
     /\ UNCHANGED <<m2, quarkus, app, listening, pc, run, halfBuilt, cutShort>>
  \/ /\ StopApplication
     /\ UNCHANGED <<checkout, m2, quarkus, app, pc, run, halfBuilt>>

Next ==
  \/ \E o \in Options : Begin(o)
  \/ Checkout \/ SetVersion \/ Inject \/ Publish
  \/ SetPom \/ BuildDependencies \/ BuildExtension \/ CheckBom
  \/ CopySample \/ Package
  \/ Launch \/ Poll \/ CleanUp
  \/ Abort \/ User

Spec == Init /\ [][Next]_vars
-----------------------------------------------------------------------------
\* "verifies the custom Hibernate ORM is loaded at runtime"
\* (build-custom-hibernate-quarkus.sh:4-6): what answers a run that builds Quarkus
\* and the sample is the Hibernate last published under its version, and one that it
\* published itself has the tree's sources and marker, whatever runs came before,
\* complete or not, and whatever they left behind; but for an application left
\* listening by a verification cut short.
VerifiesWhatIsBuilt ==
  pc = "report" /\ ~cutShort /\ opt.quarkus /\ opt.sample /\ response # None =>
    /\ response = m2[opt.suffix]
    /\ opt.hibernate =>
         response = [version |-> opt.suffix, marker |-> tree.marker, rev |-> rev]

\* A run that builds Quarkus packages extensions all built against the very
\* Hibernate that the bom brings in, whatever mixture earlier runs cut short have
\* left, and whatever has been published under its version since.  One that skips
\* Quarkus finds extensions of one Hibernate, of the bom's version: of that version
\* only, for a run of phase 1 alone publishes another Hibernate under it (:170).  It
\* may also find a mixture, if the last build was cut short: the check of the bom is
\* part of the phase it skips, and looks at no extension (:188, :230).
ExtensionsMatchBom ==
  pc = "package" =>
    /\ opt.quarkus => \A i \in DOMAIN ext : ext[i] = m2[bom]
    /\ ~halfBuilt =>
         \A i, j \in DOMAIN ext : ext[i] = ext[j] /\ ext[i].version = bom
-----------------------------------------------------------------------------
Contents == Artifact \cup {None}
Versions == Suffixes \cup {NoName}
Steps == {"idle", "checkout", "setVersion", "inject", "publish", "setPom", "dependencies",
          "extensions", "copy", "package", "launch", "poll", "report"}

TypeOK ==
  /\ head \in {"branch", "tag"} /\ rev \in Work \cup {Tag}
  /\ tree \in [version : Versions, marker : Markers \cup {NoName}]
  /\ m2 \in [Suffixes -> Contents]
  /\ pom \in Versions /\ bom \in Versions /\ ext \in [1..Len(Extensions) -> Contents]
  /\ app \in Contents /\ listening \in Contents /\ response \in Contents
  /\ pc \in Steps /\ opt \in Options \cup {NoRun} /\ (pc # "idle" => opt \in Options)
  /\ built \in 0..Len(Extensions) /\ started \in BOOLEAN
  /\ halfBuilt \in BOOLEAN /\ cutShort \in BOOLEAN

\* What each phase that was not skipped has brought about once the run is past it
AfterHibernate == Steps \ {"idle", "checkout", "setVersion", "inject", "publish"}
AfterQuarkus == {"copy", "package", "launch", "poll", "report"}
AfterSample == {"launch", "poll", "report"}
Published == m2[opt.suffix] = [version |-> opt.suffix, marker |-> tree.marker, rev |-> rev]

Progress ==
  /\ pc \in {"inject", "publish"} => tree.version = opt.suffix
  /\ pc = "publish" => tree.marker # NoName
  /\ pc \in AfterHibernate /\ opt.hibernate => Published
  /\ pc \in {"dependencies", "extensions"} => pom = opt.suffix
  /\ pc = "extensions" \/ (pc \in AfterQuarkus /\ opt.quarkus) => bom = opt.suffix
  /\ pc \in AfterSample /\ opt.quarkus /\ opt.sample => app = m2[opt.suffix]

\* What is stored under a version has that version, so extensions built from what
\* is stored under the bom's agree with it; and they are those the bom brings in as
\* long as the run that built them goes on, since it has published before.
Extended ==
  /\ \A s \in Suffixes : m2[s] # None => m2[s].version = s
  /\ pc = "extensions" =>
       halfBuilt /\ \A i \in 1..built : ext[i] = m2[bom] /\ ext[i].version = bom
  /\ pc \in AfterQuarkus /\ opt.quarkus => \A i \in DOMAIN ext : ext[i] = m2[bom]
  /\ ~halfBuilt => \A i, j \in DOMAIN ext : ext[i] = ext[j] /\ ext[i].version = bom

\* Who listens: the run's own application, or one that was never stopped.
Listens ==
  /\ started => pc \in {"poll", "report"} /\ listening = app
  /\ ~cutShort => started \/ listening = None
  /\ pc = "report" /\ response # None => response = listening

\* The inductive invariant: what a run that is past a phase may rely on, whatever
\* it found when it began.
IInv == TypeOK /\ Progress /\ Extended /\ Listens
=============================================================================
