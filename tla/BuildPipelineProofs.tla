------------------------ MODULE BuildPipelineProofs ------------------------
(* That a run verifies what it has built, for all options, extensions and
   earlier runs. *)
EXTENDS BuildPipeline, TLAPS

\* Types of what is there before anything else
LEMMA EmptyTypes ==
  /\ Len(Extensions) \in Nat /\ 0 \in 0..Len(Extensions)
  /\ None \in Contents /\ NoName \in Versions /\ NoName \in Markers \cup {NoName}
  /\ Suffixes \subseteq Versions /\ Artifact \subseteq Contents
  /\ Clean \in [version : Versions, marker : Markers \cup {NoName}]
  BY ExtensionsAssumption DEF Contents, Versions, Clean

\* The end of a run leaves nothing of it.
LEMMA EndRunTypes ==
  ASSUME EndRun
  PROVE  /\ pc' \in Steps /\ opt' \in Options \cup {NoRun} /\ (pc' # "idle" => opt' \in Options)
         /\ built' \in 0..Len(Extensions) /\ started' \in BOOLEAN /\ response' \in Contents
  BY EmptyTypes DEF EndRun, Steps

LEMMA GoOnTypes ==
  ASSUME TypeOK, pc # "idle", NEW step \in Steps, GoOn(step)
  PROVE  /\ pc' \in Steps /\ opt' \in Options \cup {NoRun} /\ (pc' # "idle" => opt' \in Options)
         /\ built' \in 0..Len(Extensions) /\ started' \in BOOLEAN /\ response' \in Contents
  BY EmptyTypes, EndRunTypes DEF GoOn, TypeOK

LEMMA InitIInv == Init => IInv
<1> SUFFICES ASSUME Init PROVE IInv
  OBVIOUS
<1> USE NamesAssumption, ExtensionsAssumption
<1>1. TypeOK
  BY EmptyTypes DEF Init, TypeOK, Steps
<1>2. Progress
  BY DEF Init, Progress, AfterHibernate, AfterQuarkus, AfterSample
<1>3. Extended
  BY DEF Init, Extended, AfterQuarkus, None
<1>4. Listens
  BY DEF Init, Listens
<1> QED BY <1>1, <1>2, <1>3, <1>4 DEF IInv

\* What holds of the options of a run under way.
LEMMA OptionTypes ==
  ASSUME NEW o \in Options
  PROVE  /\ o.suffix \in Suffixes /\ o.marker \in Markers
         /\ o.suffix # NoName /\ o.marker # NoName
  BY OptionsAssumption, NamesAssumption

\* Where a run goes on
LEMMA Destinations ==
  ASSUME NEW o
  PROVE  /\ Verify(o) \in {"idle", "launch"}
         /\ Sample(o) \in {"idle", "launch", "copy"}
         /\ Quarkus(o) \in {"idle", "launch", "copy", "setPom"}
         /\ Hibernate(o) \in {"idle", "launch", "copy", "setPom", "checkout"}
         /\ o.sample => Sample(o) # "launch"
         /\ o.quarkus => Quarkus(o) = "setPom"
         /\ o.hibernate => Hibernate(o) = "checkout"
         /\ o.quarkus /\ ~o.hibernate => Hibernate(o) = "setPom"
         /\ o.sample => Quarkus(o) # "launch" /\ Hibernate(o) # "launch"
  BY DEF Verify, Sample, Quarkus, Hibernate

\* What the extensions were built against stays so where nothing is published,
\* built or installed, and no run comes to rely on a build that was not its own.
LEMMA ExtendedStays ==
  ASSUME Extended, m2' = m2, bom' = bom, ext' = ext, halfBuilt' = halfBuilt,
         pc' # "extensions",
         pc' \in AfterQuarkus /\ opt'.quarkus => pc \in AfterQuarkus /\ opt.quarkus
  PROVE  Extended'
<1>1. \A s \in Suffixes : m2'[s] # None => m2'[s].version = s
  BY DEF Extended
<1>2. pc' \in AfterQuarkus /\ opt'.quarkus => \A i \in DOMAIN ext' : ext'[i] = m2'[bom']
  BY DEF Extended
<1>3. ~halfBuilt' => \A i, j \in DOMAIN ext' : ext'[i] = ext'[j] /\ ext'[i].version = bom'
  BY DEF Extended
<1> QED BY <1>1, <1>2, <1>3 DEF Extended, AfterQuarkus

LEMMA BeginIInv ==
  ASSUME IInv, NEW o \in Options, Begin(o)
  PROVE  IInv'
<1> USE Destinations, OptionTypes, NamesAssumption, ExtensionsAssumption DEF IInv, Begin, GoOn, EndRun, checkout, quarkus, run
<1>1. TypeOK'
  BY DEF TypeOK, Clean, NoRun, None, Artifact, Contents, Versions, Steps
<1>2. Progress'
  BY DEF TypeOK, Progress, Published, AfterHibernate, AfterQuarkus, AfterSample, Steps
<1>3. Extended'
  BY ExtendedStays DEF TypeOK, AfterQuarkus
<1>4. Listens'
  BY DEF TypeOK, Listens
<1> QED BY <1>1, <1>2, <1>3, <1>4

LEMMA CheckoutIInv ==
  ASSUME IInv, Checkout
  PROVE  IInv'
<1> USE OptionTypes, NamesAssumption, ExtensionsAssumption DEF IInv, Checkout, GoOn, EndRun, checkout, quarkus, run
<1>1. TypeOK'
  BY EmptyTypes, EndRunTypes, GoOnTypes DEF TypeOK, Steps
<1>2. Progress'
  BY DEF TypeOK, Progress, Published, AfterHibernate, AfterQuarkus, AfterSample, Steps
<1>3. Extended'
  BY ExtendedStays DEF TypeOK, AfterQuarkus
<1>4. Listens'
  BY DEF TypeOK, Listens
<1> QED BY <1>1, <1>2, <1>3, <1>4

LEMMA SetVersionIInv ==
  ASSUME IInv, SetVersion
  PROVE  IInv'
<1> USE OptionTypes, NamesAssumption, ExtensionsAssumption DEF IInv, SetVersion, GoOn, EndRun, checkout, quarkus, run
<1>1. TypeOK'
  BY EmptyTypes, OptionTypes DEF TypeOK, Steps
<1>2. Progress'
  BY DEF TypeOK, Progress, Published, AfterHibernate, AfterQuarkus, AfterSample, Steps
<1>3. Extended'
  BY ExtendedStays DEF TypeOK, AfterQuarkus
<1>4. Listens'
  BY DEF TypeOK, Listens
<1> QED BY <1>1, <1>2, <1>3, <1>4

LEMMA InjectIInv ==
  ASSUME IInv, Inject
  PROVE  IInv'
<1> USE OptionTypes, NamesAssumption, ExtensionsAssumption DEF IInv, Inject, GoOn, EndRun, checkout, quarkus, run
<1>1. TypeOK'
  BY EmptyTypes, OptionTypes DEF TypeOK, Steps
<1>2. Progress'
  BY DEF TypeOK, Progress, Published, AfterHibernate, AfterQuarkus, AfterSample, Steps
<1>3. Extended'
  BY ExtendedStays DEF TypeOK, AfterQuarkus
<1>4. Listens'
  BY DEF TypeOK, Listens
<1> QED BY <1>1, <1>2, <1>3, <1>4

LEMMA PublishIInv ==
  ASSUME IInv, Publish
  PROVE  IInv'
<1> USE Destinations, OptionTypes, NamesAssumption, ExtensionsAssumption DEF IInv, Publish, GoOn, EndRun, checkout, quarkus, run
<1>1. TypeOK'
  <2>1. pc # "idle" /\ opt \in Options /\ Quarkus(opt) \in Steps
    BY DEF TypeOK, Steps
  <2>2. tree.version \in Suffixes /\ tree.marker \in Markers /\ rev \in Work \cup {Tag}
    BY <2>1 DEF TypeOK, Progress
  <2>3. m2' \in [Suffixes -> Contents]
    BY <2>2, EmptyTypes DEF TypeOK, Artifact
  <2> QED BY <2>1, <2>3, EndRunTypes, GoOnTypes DEF TypeOK
<1>2. Progress'
  BY DEF TypeOK, Progress, Published, AfterHibernate, AfterQuarkus, AfterSample, Steps
<1>3. Extended'
  <2>1. m2' = [m2 EXCEPT ![tree.version] =
                 [version |-> tree.version, marker |-> tree.marker, rev |-> rev]]
    OBVIOUS
  <2>2. \A s \in Suffixes : m2'[s] # None => m2'[s].version = s
    BY <2>1 DEF TypeOK, Extended
  <2>3. pc' # "extensions" /\ ~(pc' \in AfterQuarkus /\ opt'.quarkus)
    BY DEF AfterQuarkus
  <2>4. ~halfBuilt' => \A i, j \in DOMAIN ext' : ext'[i] = ext'[j] /\ ext'[i].version = bom'
    BY DEF Extended
  <2> QED BY <2>2, <2>3, <2>4 DEF Extended
<1>4. Listens'
  BY DEF TypeOK, Listens
<1> QED BY <1>1, <1>2, <1>3, <1>4

LEMMA SetPomIInv ==
  ASSUME IInv, SetPom
  PROVE  IInv'
<1> USE OptionTypes, NamesAssumption, ExtensionsAssumption DEF IInv, SetPom, GoOn, EndRun, checkout, quarkus, run
<1>1. TypeOK'
  BY DEF TypeOK, Clean, NoRun, None, Artifact, Contents, Versions, Steps
<1>2. Progress'
  BY DEF TypeOK, Progress, Published, AfterHibernate, AfterQuarkus, AfterSample, Steps
<1>3. Extended'
  BY ExtendedStays DEF TypeOK, AfterQuarkus
<1>4. Listens'
  BY DEF TypeOK, Listens
<1> QED BY <1>1, <1>2, <1>3, <1>4

LEMMA BuildDependenciesIInv ==
  ASSUME IInv, BuildDependencies
  PROVE  IInv'
<1> USE OptionTypes, NamesAssumption, ExtensionsAssumption DEF IInv, BuildDependencies, GoOn, EndRun, checkout, quarkus, run
<1>1. TypeOK'
  BY DEF TypeOK, Clean, NoRun, None, Artifact, Contents, Versions, Steps
<1>2. Progress'
  BY DEF TypeOK, Progress, Published, AfterHibernate, AfterQuarkus, AfterSample, Steps
<1>3. Extended'
  <2>1. pc' = "extensions" /\ built' = 0 /\ halfBuilt' /\ m2' = m2
    OBVIOUS
  <2>2. 1..built' = {}
    BY <2>1
  <2> QED BY <2>1, <2>2 DEF Extended, AfterQuarkus
<1>4. Listens'
  BY DEF TypeOK, Listens
<1> QED BY <1>1, <1>2, <1>3, <1>4

LEMMA BuildExtensionIInv ==
  ASSUME IInv, BuildExtension
  PROVE  IInv'
<1> USE OptionTypes, NamesAssumption, ExtensionsAssumption DEF IInv, BuildExtension, GoOn, EndRun, checkout, quarkus, run
<1>1. TypeOK'
  <2>1. CASE m2[pom] = None
    BY <2>1, EndRunTypes DEF TypeOK
  <2>2. CASE m2[pom] # None
    <3>1. built + 1 \in 0..Len(Extensions)
      BY EmptyTypes DEF TypeOK
    <3>2. pom \in Suffixes
      BY OptionTypes DEF TypeOK, Progress
    <3>3. ext' \in [1..Len(Extensions) -> Contents]
      BY <2>2, <3>2 DEF TypeOK
    <3> QED BY <2>2, <3>1, <3>3 DEF TypeOK
  <2> QED BY <2>1, <2>2
<1>2. Progress'
  BY DEF TypeOK, Progress, Published, AfterHibernate, AfterQuarkus, AfterSample, Steps
<1>3. Extended'
  <2>1. CASE m2[pom] = None
    BY <2>1, ExtendedStays DEF AfterQuarkus
  <2>2. CASE m2[pom] # None
    <3>1. pom = bom /\ pom \in Suffixes
      BY OptionTypes DEF TypeOK, Progress
    <3>2. m2[bom].version = bom
      BY <2>2, <3>1 DEF Extended
    <3>3. built' = built + 1 /\ ext' = [ext EXCEPT ![built + 1] = m2[bom]]
      BY <2>2, <3>1
    <3>4. \A i \in 1..built' : i \in 1..Len(Extensions) /\ (i \in 1..built \/ i = built + 1)
      BY <3>3, EmptyTypes DEF TypeOK
    <3>5. \A i \in 1..built : ext[i] = m2[bom] /\ ext[i].version = bom
      BY DEF Extended
    <3>6. ASSUME NEW i \in 1..built' PROVE ext'[i] = m2[bom] /\ ext'[i].version = bom
      BY <3>2, <3>3, <3>4, <3>5, <3>6 DEF TypeOK
    <3>7. pc' = "extensions" /\ m2' = m2 /\ bom' = bom /\ halfBuilt' = halfBuilt
      BY <2>2
    <3>8. halfBuilt /\ \A s \in Suffixes : m2[s] # None => m2[s].version = s
      BY DEF Extended
    <3> QED BY <3>6, <3>7, <3>8 DEF Extended, AfterQuarkus
  <2> QED BY <2>1, <2>2
<1>4. Listens'
  BY DEF TypeOK, Listens
<1> QED BY <1>1, <1>2, <1>3, <1>4

LEMMA CheckBomIInv ==
  ASSUME IInv, CheckBom
  PROVE  IInv'
<1> USE Destinations, OptionTypes, NamesAssumption, ExtensionsAssumption DEF IInv, CheckBom, GoOn, EndRun, checkout, quarkus, run
<1>1. TypeOK'
  <2>1. pc # "idle" /\ Sample(opt) \in Steps
    BY DEF Steps
  <2> QED BY <2>1, EndRunTypes, GoOnTypes DEF TypeOK
<1>2. Progress'
  BY DEF TypeOK, Progress, Published, AfterHibernate, AfterQuarkus, AfterSample, Steps
<1>3. Extended'
  <2>1. pc' # "extensions" /\ m2' = m2 /\ bom' = bom /\ ext' = ext
    BY DEF Steps
  <2>2. DOMAIN ext = 1..built
    BY DEF TypeOK
  <2>3. \A i \in DOMAIN ext : ext[i] = m2[bom] /\ ext[i].version = bom
    BY <2>2 DEF Extended
  <2>4. \A s \in Suffixes : m2[s] # None => m2[s].version = s
    BY DEF Extended
  <2> QED BY <2>1, <2>3, <2>4 DEF Extended
<1>4. Listens'
  BY DEF TypeOK, Listens
<1> QED BY <1>1, <1>2, <1>3, <1>4

LEMMA CopySampleIInv ==
  ASSUME IInv, CopySample
  PROVE  IInv'
<1> USE OptionTypes, NamesAssumption, ExtensionsAssumption DEF IInv, CopySample, GoOn, EndRun, checkout, quarkus, run
<1>1. TypeOK'
  BY DEF TypeOK, Clean, NoRun, None, Artifact, Contents, Versions, Steps
<1>2. Progress'
  BY DEF TypeOK, Progress, Published, AfterHibernate, AfterQuarkus, AfterSample, Steps
<1>3. Extended'
  BY ExtendedStays DEF TypeOK, AfterQuarkus
<1>4. Listens'
  BY DEF TypeOK, Listens
<1> QED BY <1>1, <1>2, <1>3, <1>4

LEMMA PackageIInv ==
  ASSUME IInv, Package
  PROVE  IInv'
<1> USE Destinations, OptionTypes, NamesAssumption, ExtensionsAssumption DEF IInv, Package, CanPackage, GoOn, EndRun, checkout, quarkus, run
<1>1. TypeOK'
  <2>1. pc # "idle" /\ Verify(opt) \in Steps
    BY DEF Steps
  <2>2. CanPackage => m2[bom] \in Contents
    BY DEF TypeOK, Versions
  <2> QED BY <2>1, <2>2, EndRunTypes, GoOnTypes DEF TypeOK
<1>2. Progress'
  BY DEF TypeOK, Progress, Published, AfterHibernate, AfterQuarkus, AfterSample, Steps
<1>3. Extended'
  BY ExtendedStays DEF TypeOK, AfterQuarkus
<1>4. Listens'
  BY DEF TypeOK, Listens
<1> QED BY <1>1, <1>2, <1>3, <1>4

LEMMA LaunchIInv ==
  ASSUME IInv, Launch
  PROVE  IInv'
<1> USE OptionTypes, NamesAssumption, ExtensionsAssumption DEF IInv, Launch, GoOn, EndRun, checkout, quarkus, run
<1>1. TypeOK'
  BY DEF TypeOK, Clean, NoRun, None, Artifact, Contents, Versions, Steps
<1>2. Progress'
  BY DEF TypeOK, Progress, Published, AfterHibernate, AfterQuarkus, AfterSample, Steps
<1>3. Extended'
  BY ExtendedStays DEF TypeOK, AfterQuarkus
<1>4. Listens'
  BY DEF TypeOK, Listens
<1> QED BY <1>1, <1>2, <1>3, <1>4

LEMMA PollIInv ==
  ASSUME IInv, Poll
  PROVE  IInv'
<1> USE OptionTypes, NamesAssumption, ExtensionsAssumption DEF IInv, Poll, GoOn, EndRun, checkout, quarkus, run
<1>1. TypeOK'
  BY DEF TypeOK, Clean, NoRun, None, Artifact, Contents, Versions, Steps
<1>2. Progress'
  BY DEF TypeOK, Progress, Published, AfterHibernate, AfterQuarkus, AfterSample, Steps
<1>3. Extended'
  BY ExtendedStays DEF TypeOK, AfterQuarkus
<1>4. Listens'
  BY DEF TypeOK, Listens
<1> QED BY <1>1, <1>2, <1>3, <1>4

LEMMA CleanUpIInv ==
  ASSUME IInv, CleanUp
  PROVE  IInv'
<1> USE OptionTypes, NamesAssumption, ExtensionsAssumption DEF IInv, CleanUp, GoOn, EndRun, checkout, quarkus, run
<1>1. TypeOK'
  BY EmptyTypes, EndRunTypes DEF TypeOK
<1>2. Progress'
  BY DEF TypeOK, Progress, Published, AfterHibernate, AfterQuarkus, AfterSample, Steps
<1>3. Extended'
  BY ExtendedStays DEF TypeOK, AfterQuarkus
<1>4. Listens'
  BY DEF TypeOK, Listens
<1> QED BY <1>1, <1>2, <1>3, <1>4

LEMMA AbortIInv ==
  ASSUME IInv, Abort
  PROVE  IInv'
<1> USE OptionTypes, NamesAssumption, ExtensionsAssumption DEF IInv, Abort, GoOn, EndRun, checkout, quarkus, run
<1>1. TypeOK'
  BY EmptyTypes, EndRunTypes DEF TypeOK
<1>2. Progress'
  BY DEF TypeOK, Progress, Published, AfterHibernate, AfterQuarkus, AfterSample, Steps
<1>3. Extended'
  BY ExtendedStays DEF TypeOK, AfterQuarkus
<1>4. Listens'
  BY DEF TypeOK, Listens
<1> QED BY <1>1, <1>2, <1>3, <1>4

LEMMA UserIInv ==
  ASSUME IInv, User
  PROVE  IInv'
<1> USE OptionTypes, NamesAssumption, ExtensionsAssumption DEF IInv, User, Edit, Discard, Switch, StopApplication, GoOn, EndRun, checkout, quarkus, run
<1>1. TypeOK'
  BY EmptyTypes DEF TypeOK
<1>2. Progress'
  BY DEF TypeOK, Progress, Published, AfterHibernate, AfterQuarkus, AfterSample, Steps
<1>3. Extended'
  BY ExtendedStays DEF TypeOK, AfterQuarkus
<1>4. Listens'
  BY DEF TypeOK, Listens
<1> QED BY <1>1, <1>2, <1>3, <1>4

\* From the invariant: an answer is the application's that the run launched, which
\* is the artifact the run packaged.
LEMMA VerifiesFromIInv == IInv => VerifiesWhatIsBuilt
<1> SUFFICES ASSUME IInv, pc = "report", ~cutShort, opt.quarkus, opt.sample, response # None
             PROVE  /\ response = m2[opt.suffix]
                    /\ opt.hibernate =>
                         response = [version |-> opt.suffix, marker |-> tree.marker, rev |-> rev]
  BY DEF VerifiesWhatIsBuilt
<1>1. response = listening /\ started /\ listening = app
  BY DEF IInv, Listens
<1>2. app = m2[opt.suffix]
  BY DEF IInv, Progress, AfterSample
<1>3. opt.hibernate => Published
  BY DEF IInv, Progress, AfterHibernate, Steps
<1> QED BY <1>1, <1>2, <1>3 DEF Published

\* Whatever a run finds when it begins, and wherever earlier ones ended, each step
\* may rely on what the steps before it are there for.
THEOREM RunInvariant == Spec => []IInv
<1>1. IInv /\ [Next]_vars => IInv'
  <2> SUFFICES ASSUME IInv, [Next]_vars PROVE IInv'
    OBVIOUS
  <2>1. CASE \E o \in Options : Begin(o)
    BY <2>1, BeginIInv
  <2>2. CASE Checkout \/ SetVersion \/ Inject \/ Publish
    BY <2>2, CheckoutIInv, SetVersionIInv, InjectIInv, PublishIInv
  <2>3. CASE SetPom \/ BuildDependencies \/ BuildExtension \/ CheckBom
    BY <2>3, SetPomIInv, BuildDependenciesIInv, BuildExtensionIInv, CheckBomIInv
  <2>4. CASE CopySample \/ Package \/ Launch \/ Poll \/ CleanUp
    BY <2>4, CopySampleIInv, PackageIInv, LaunchIInv, PollIInv, CleanUpIInv
  <2>5. CASE Abort \/ User
    BY <2>5, AbortIInv, UserIInv
  <2>6. CASE UNCHANGED vars
    BY <2>6 DEF IInv, TypeOK, Progress, Published, Extended, Listens, vars, checkout, quarkus, run
  <2> QED BY <2>1, <2>2, <2>3, <2>4, <2>5, <2>6 DEF Next
<1> QED BY <1>1, InitIInv, PTL DEF Spec

\* For any options, extensions and sources: what a run verifies is what it built.
THEOREM VerificationTheorem == Spec => []VerifiesWhatIsBuilt
BY RunInvariant, VerifiesFromIInv, PTL

\* A run that builds Quarkus packages extensions built against the Hibernate that
\* the bom brings in, whatever earlier runs left; one that does not finds extensions
\* of one Hibernate of the bom's version, unless the last build was cut short.
THEOREM ExtensionsTheorem == Spec => []ExtensionsMatchBom
<1>1. IInv => ExtensionsMatchBom
  BY DEF IInv, Extended, AfterQuarkus, ExtensionsMatchBom
<1> QED BY <1>1, RunInvariant, PTL
=============================================================================
