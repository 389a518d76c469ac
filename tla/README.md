# Verification of colata

`galderz/colata` is a performance engineer's laboratory around OpenJDK's C2
compiler: small experiments, the scripts and makefiles that build JDKs and
frameworks for them, a few tools of its own, and an instrumented copy of C2's
generated instruction selector. This directory models the parts of it that have
behaviour of their own, checks the models with TLC on small instances and
proves the main invariants with TLAPS for all of them.

    tlc -workers 2 -config MCPlayer.cfg MCPlayer      # one run
    tlapm PlayerProofs.tla                            # one module of proofs

`PROJECT.json` lists the runs, the source lines each definition stands for, the
mutant that shows each property can fail, the hazards and the theorems.

## 1. Inventory

### 1.1 The C2 IR visualizer (`make/plans/dynamic-ir/`)

A web page that takes the text of a C2 node dump and plays the method's data
flow step by step. `ir-core.js` is pure, `index.html` holds the page.

| part | state | operations | what makes it correct |
|---|---|---|---|
| parser (`parseIR`, `buildEdges`) | nodes by id, array of edges, set of keys seen | one line, one input | every link of the dump once; the return value's position right among placeholders |
| execution order (`topoLevels`, `filterLevels`) | in-degrees, queue, next queue, levels, visited | emit a level, relax an edge, let the rest go | data before use, each node once, as early as possible, only cycles unordered |
| exception paths (`classifyExceptionNodes`) | two walks' stacks and reached sets | pop, push, end a walk | exactly what only a Rethrow depends on; hiding it hides nothing else |
| values and steps (`computeValue`, `buildSteps`) | values, completed and active sets, steps | compute a node, cut a step | values final when shown; each step a snapshot |
| page (`index.html`) | loaded graph, steps, current step, search, playback timer, parameter fields, and what the page displays | one handler per event, the timer's callback | the page shows the current step whatever was clicked before |

`visualize` and `rebuildSteps` call the other parts in order; all run on the
browser's one thread, and handlers and timer callbacks interleave freely
between, never within, each other. Hard: mutable sets copied into steps,
counters and queues that must agree, cyclic graphs, a timer beside six kinds of
user events, a search mode that suppresses display, an exception thrown in the
middle of a handler.

### 1.2 BenchmarkCompare (`make/tools/benchmark-compare`)

A command that joins two JMH result files and tabulates the change. State: a
file per label, rows by key, a tree set of joined rows, the table. Operations:
label, read a row, join a row, sort, write. Hard: files and hash map entries
come in any order, keys carry a counter, the tree set drops what compares as
equal, signs and rounding of percentages.

### 1.3 The custom Hibernate/Quarkus pipeline (`mw-valhalla-999`)

Shell scripts that build Hibernate ORM with value classes, Quarkus against it,
a sample application, and verify it at run time. State is on disk and outlives
a run: working trees with the script's edits in them, the local Maven
repository, Gradle's caches, a Gradle daemon, a listening port.
`build-custom-hibernate-quarkus.sh` has four phases, each of which can be
skipped, and calls `download-bnd.sh`, `patch-bnd-stackmap.sh`,
`patch-asm-classreader.sh`, `build-with-preview.sh` or `build-no-preview.sh`.
Hard: `set -e` can end a run anywhere and the next one starts from what it
left; a skipped phase reuses artifacts of whatever run came before; edits are
made by searching for a text that an earlier run may have replaced; a class
lives in a jar, in an instrumented copy and in a daemon's memory at once; the
application is polled on a fixed port.

### 1.4 The instruction selector (`reassoc-reduct-chain-8351409/06-dfa_x86.cpp`)

What ADLC generates from `x86.ad`: `State::DFA` and a function for each of 424
ideal opcodes, 32,000 lines, with log lines added by hand. The matcher hands it
the states of a match tree bottom up; a state ends with a set of labels
(operand classes), each with a cost and a rule. A function is a list of blocks,
one per match rule: the labels the kids must have, a predicate on the node, VM
flags and CPU features, and the productions, each of which overwrites a label
if it is not valid yet or dearer. State: labels, costs and rules by state.
Operations: a block matches or not, a production is recorded or pruned, the
function returns. What makes it correct: every label at its least cost,
whatever the order of the blocks; every node the compiler makes has an
instruction; what an instruction swallows (an index, a load, a vector in
memory, a comparison's flags, a collector's barrier) means what the nodes say.
Hard: productions the generator leaves unguarded because it knows the label is
free, and tails that compare costs without asking for validity; what a label
can be copied or spilled into is written out in every block; predicates must
cover every configuration; a store may swallow the load and the operation it
stores only for the same address.

### 1.5 The rest

| part | where | state, operations and hard behaviour |
|---|---|---|
| reduction generator | `reassoc-reduct-chain-8351409/src-gen/Gen.java` | prints loops with reassociated reductions |
| BranchProbability | `fp-mmv-bench-8382615` | draws arrays until the share of new maxima is exactly the one asked for; termination is the question |
| bisection | `.archive/high-memory-register-8331283/bisect.sh` | builds and tests a revision and answers git bisect with 0, 1 or 125 |
| make plans | `make/*.gmk`, `make/delete-topic.sh` | worktrees, boot JDKs, touch files; mostly calls of OpenJDK's build |
| host tuning | `make/benchmarking-*.sh` | sets governor, turbo, perf settings and reports them |
| RISC-V cross build | `make/tools/xbuild-riscv64` | downloads and unpacks a sysroot |
| small tools | `make/tools/*` | one-pass text transformations |
| experiments, notes | the other directories | JMH and IR test cases, makefiles, diaries, recorded output |

## 2. Modules

| module | models | theorem module |
|---|---|---|
| `DataflowOrder` | abstract: what order of execution the visualizer promises | |
| `TopoLevels` | `topoLevels`, loop by loop, with arrays as sequences | `TopoLevelsProofs` |
| `IRGraph` | the node object, edges, `isStructural`; levels and reachability on their own terms, as reference definitions | |
| `IRParser` | `parseIR`, `buildEdges` | `IRParserProofs` |
| `ExceptionPaths` | `classifyExceptionNodes` | `StepBuilderProofs` |
| `IRValues` | `computeValue` | |
| `StepBuilder` | `visualize`'s chain of calls: the classification, `topoLevels` one action per level, `filterLevels`, `buildSteps` | `StepBuilderProofs` |
| `Player` | the script of `index.html`, over any step builder | `PlayerProofs` |
| `BenchmarkCompare` | `BenchmarkCompare.java` | `BenchmarkCompareProofs` |
| `PatchBnd` | `patch-bnd-stackmap.sh` and the run around it | `PatchBndProofs` |
| `BuildPipeline` | the phases of `build-custom-hibernate-quarkus.sh` | `BuildPipelineProofs` |
| `Labeller` | the control flow all functions of the instruction selector share, for any tables of blocks | `InstructionSelectionProofs` |
| `DFAOperands` | what the tables are written with: ideal nodes, predicates, kinds of blocks, lists of labels | |
| `DFALeaves`, `DFAInt`, `DFALong`, `DFAMemory`, `DFACompare`, `DFAFloat`, `DFAReduction`, `DFAControl`, `DFAVector`, `DFAVectorBits`, `DFAVectorMove` | the tables: one operator per `_sub_Op_` function, one line or two per block | |
| `DFA_x86` | the switch of `State::DFA` over the 424 opcodes | |
| `InstructionSelection` | tables and labelling pass together, and what they promise the matcher | `InstructionSelectionProofs` |

Modules that begin with `MC` give the constants values for TLC; `MCNodes`,
`MCScalars` and `MCVectors` hold the match trees of `MCDFA`.

**How they compose.** `IRParser` ends with the edges that `IRGraph!Edges`
defines (`EdgesAreComplete`), and the later modules start from these.
`TopoLevels` works on the data edges alone and implements `DataflowOrder`;
`IRGraph!Levels` states the same order as a function of the graph, which
`MCPlayer` uses. `StepBuilder` extends `ExceptionPaths` and goes on where its
walks end (`BuildSpec`): `TakeLevel` and `TakeRest` put the ids into levels as
`DataflowOrder` does, `Filter` hides what the walks found, and the rest is
`buildSteps`. What is hidden is in the end compared with
`IRGraph!ExceptionOnly`, which is defined by closed sets, with no walk in it.
`Player` takes the step builder as the constant operator `StepsOf`; `MCPlayer`
instantiates it with the steps over `IRGraph`'s levels. That a parsed graph is
what `StepBuilder` assumes of one, and built steps what `Player` assumes of
them, are theorems (`GraphTheorem` of `IRParserProofs`, `StepsTheorem` of
`StepBuilderProofs`). `PatchBnd` is what `--with-preview`
adds to the first phase of `BuildPipeline`; the two share no variable (the
phase either ends with a published Hibernate or ends the run), so they are
checked apart. `InstructionSelection` extends `Labeller` with the tables of
`DFA_x86`: a tree's code is `DFA(vm, leaf)` of each of its nodes.

**State and code.** Variables bear the source's names: `inDeg`, `q`, `nq`,
`levels`, `visited` in `topoLevels`; `stack`, `reached`, `happyPath` in the
walks; `activeEdges`, `completedNodes`, `nodeValues`, `steps` in `buildSteps`;
`steps`, `cur`, `searching`, `playing` for the page's `_steps`, `_currentStep`,
`_searching`, `_playing`. What `Player` adds is the page itself: `rect`,
`value`, `arrow`, `info` and `buttons` are the classes and texts of its
elements, so that "the page shows" is a state predicate. `timers` counts the
intervals running, which the code cannot know. A handler is one action with
everything it calls: `GoTo` is `goToStep` with its `applyStep` and
`updateButtons`; `Rebuild` is `rebuildSteps`. Where `applyStep` throws
(`Throws`), the action contains what had been done by then and nothing after.

In `PatchBnd`, `jar`, `copy` and `daemon` are the three places that hold the
class. Every step of the script is an action, `Abort` can follow any of them,
and `OtherBuild` and `DaemonExits` happen at any time. Gradle is external:
what it does is what the scripts' comments and `ISSUES.md` rely on (a copy is
made from the jar when there is none and used as long as it exists, a daemon
keeps what it has loaded). Gradle makes and loads a copy in one step here,
under the lock it holds on a transform; a build that reads the jar before the
patch and writes its copy after the clearing is not covered.

In `BuildPipeline`, `head`, `rev` and `tree` are the Hibernate checkout and the
script's edits in it, `m2` the local repository by version, `pom`, `bom` and
`ext` Quarkus and the Hibernate each extension was built against, `app` and
`listening`
the packaged and the running application. A step of a phase is an action, a
skipped phase is passed over by `GoOn`, `Abort` can follow any step, and what
the user does between runs (`User`) is external. `Occurs` stands for `grep -q`:
it finds a version inside a longer one. `halfBuilt` and `cutShort` are history:
they mark two windows. `VerifiesWhatIsBuilt` leaves out the second,
`ExtensionsMatchBom` the first, and only for runs that skip Quarkus.

In `Labeller`, `cost[i]` and `rule[i]` are `State::_cost` and `State::_rule` of
state `i`, restricted to the valid labels; `block` and `prod` are the place in
the function's code. A table's block is `[kids, when, cost, rule, to, always,
known]`: the kids' labels, the predicate, the rule's own cost, its name, the
productions `<<label, rule, extra cost>>`, how many of these have no guard, and
whether the test for validity is commented out. A production that compares with
a label that is not valid may go either way (`Improves` and `Prune` overlap
there), as `_cost` then holds whatever it held; that the tables never get there
is `TablesAssumption`, which TLC evaluates for the tables used, and which the
proofs need. An ideal node is `[op, in, hi, lo, is]`: opcode, inputs, constant
or register or lanes, and what predicates ask of its type. Predicates the
generator pastes are written out; helpers they call in `x86.ad`, and the chain
rules, are external.

**Abstractions.** Strings, layout, wording and sublabels are gone. Node types of
the visualizer are the families the code tells apart; IR arithmetic is
represented by one operator of each kind (`Add`, `Sub`, `Div` with its zero,
`Cmp`, `Neg`, `Cast`) over integers small enough that JavaScript's doubles are
exact. A line of a dump is its tokens. A CSV row is its benchmark, mode,
parameter values and score; scores are whole and positive, and all rows of a
file have the same parameter columns, as JMH writes them. Iteration orders that
a property does not depend on are left open (`Listings`, `todo`), which is more
than one run of the code does. In the pipeline, publishing and installing are
atomic, a checkout of a tree with edits refuses as git does, and what the user
edits is committed to a branch. In the instruction selector, the log lines under
`UseNewCode` are left out, and the offsets and costs are the source's numbers.

## 3. Runs

| run | module | states | what it shows |
|---|---|---|---|
| `topo_levels` | `MCTopoLevels` | 15,629 | levels respect the data flow, contain each node once, are as early as possible; cycles and only they end in the leftover level; `topoLevels` implements `DataflowOrder` and returns |
| `ir_parser` | `MCIRParser` | 101,457 | each link once, none missing and none made up, whatever the order of the lines; the return value is the one after `returns` |
| `exception_paths` | `MCExceptionPaths` | 53,801 | the two walks compute the declared classification, and the happy path keeps all its inputs |
| `step_builder` | `MCStepBuilder` | 8,811 | from the parsed graph to the last step: values are final when shown and come before their uses, steps are snapshots, the steps execute exactly the path chosen |
| `player` | `MCPlayer` | 8,216 | the display is that of the current step after any sequence of events; one timer; playback ends |
| `benchmark_compare` | `MCBenchmarkCompare` | 65,475 | only like runs are compared and with the right sign, none is dropped or misplaced, files of the same runs do not fail |
| `patch_bnd` | `MCPatchBnd` | 18,233 | the build loads the patched class unless a run was cut short in one window |
| `build_pipeline` | `MCBuildPipeline` | 4,414,178 | what a run verifies is the Hibernate that it, or a run before it, published, but for an application left by a verification cut short; the sample of a run that builds Quarkus contains no extension built against another Hibernate than its bom's |
| `dfa` | `MCDFA` | 551,952 | with the tables of all opcodes: every label at its least cost and closed under the chain rules; every node has an instruction; operands commute; indices, stores, vector loads, barriers and flags are folded exactly where they may be |
| `beginning` | `MCPlayer` | violation | the initial step has an array where the others have a set (`ir-core.js:209`), so returning to the beginning throws half-way (`index.html:499`): arrows, step line and buttons stay |
| `patch_again` | `MCPatchBnd` | violation | interrupted after the last jar and before the last copy, the "idempotent" patch script (`:35`) exits early when run again and leaves the old copy (`:105`) |
| `decode_trap` | `MCDFA` | violation | the notes on instruction selection (`skills/hotspot-c2-debug-instruction-selection.md:57`) say an index is not folded over a `DecodeN`; the tables fold it, at any shift, because a decoded oop is a register too |

Divergences met on the way that have no run of their own:

* `plan.md:18` names the base file `x-base.csv`, the code `base-x.csv`
  (`BenchmarkCompare.java:337`).
* The first argument of a call is glued to its parenthesis in the dump and gets
  no edge (`ir-core.js:44`; `PlainLinksAreEdges` excludes it by name).
* `ConvI2L` and `ConvL2I` begin with `Con` and are taken for constants
  (`ir-core.js:157`), so line 194 never shows their operand.
* A `Return` without a `returns` operand shows its last input of any kind, so a
  void method "returns" its return address (`ir-core.js:162-163`).
* A search does not take the exception look off a matching box
  (`index.html:768`).
* Two files of the same runs in another order end in a null dereference: the row
  number is part of the key (`BenchmarkCompare.java:445`).
* A second run of the pipeline in the same tree does not inject its marker
  (`build-custom-hibernate-quarkus.sh:132` replaces a text that is gone) and
  publishes the first one's; `VerifiesWhatIsBuilt` therefore speaks of the
  tree's marker, not of the one asked for.
* A run of phase 1 alone publishes another Hibernate under a version that is
  there already (`:170`). A later run that skips Quarkus packages it with
  extensions built against the one it replaced; for such a run
  `ExtensionsMatchBom` speaks of the version and of nothing else.
* After a build of Quarkus that was cut short, a run that skips Quarkus packages
  extensions of several Hibernates: the check that could notice belongs to the
  phase it skips, and reads the bom alone (`:230`). The property's second half
  leaves such runs out (`halfBuilt`).
* An application that a verification cut short has left listening answers the
  next one (`:380`); `VerifiesWhatIsBuilt` leaves it out (`cutShort`).
* `grep -q` for a version also finds a longer one that begins with it
  (`:230`, `:391`), so a check passes for another version's artifact.
* `XorL` has one rule for a load where the other commutative operations have
  two (`06-dfa_x86.cpp:22071`, `22087`); `Commutes` leaves it out by name. The
  memory rules of `UMinV`, `UMaxV`, the subword saturating operations, the
  AVX10 casts and the half-float operations do not ask for the vector's size as
  the others do; `FoldsWholeVectors` is about the others. The memory form of
  `incI` under APX takes a register. Some rules can never apply
  (`vternlogd_mem_masked`, `jumpXtnd_offset`, the `_peep` forms of `lea`).

**Bounds.** `topo_levels` takes every simple graph of up to four data edges on
four nodes: cycles of two to four nodes, nodes behind a cycle, diamonds and
nodes with several inputs all occur with them. `ir_parser` takes all orders of
the five lines of a method, twice, once with a repeated id and a heading in
between. `exception_paths` leaves the wiring of two operations, a region with
its self-loop and two exits open. `step_builder` takes two operators of every
kind in every wiring, a call with an exception path that joins the happy one,
a loop, and the parameters 0 (division), 1 and -3 (truncation). `player` has
an empty graph (one step, nothing throws), one with two levels and one whose
exception path shortens the steps, two parameter values and two queries; every
handler is always enabled, so all their orders occur, with playback running or
not. `benchmark_compare` has up to three rows, scores around the rounding
threshold, duplicates, blank lines and unknown modes, rows missing on either
side and a file too many. `patch_bnd` has the plugin's jar and two others, with
any number of runs, interruptions and other builds. `build_pipeline` has two
versions, one the beginning of the other, two markers, sources at the tag and
edited ones, two extensions (so that a build can end between them) and seven sets of options, with any number of runs in any order. `dfa` has
several thousand match trees of depth six or less: every opcode with every kind
of operand its rules tell apart, addresses of every form, stores of operations
on loads from the same and from other addresses, both orders of commutative
operands, vectors of all sizes and element types, under some twenty
combinations of VM flags and CPU features (no AVX to AVX-512 and APX, 32- and
64-bit oops at several shifts, each collector's barriers). The trees are those
C2 makes: constants on the right, no node the platform refuses. `MaxEdges` is
the only numeric bound; no action is capped.

**Fairness.** `TopoLevels` and `ExceptionPaths` are single calls on one thread,
which nothing else can preempt: weak fairness of `Next`. `Player` assumes only
that an interval that is not cleared keeps firing, `WF(Tick)`; the user owes
nothing, and `PlaybackEnds` says what happens once the user leaves playback
alone. The other modules state safety only: the scripts wait for builds and
downloads that may never end. Deadlock checking is off where the program ends
(`CHECK_DEADLOCK FALSE`) and on for `Player`, `PatchBnd` and `BuildPipeline`,
which do not.

## 4. Proofs

Proved for every value of the constants, under the assumptions named in the
modules: `NodeAssumption`, `GraphsAssumption` (finitely many nodes; no
self-loops among the data edges of `TopoLevels`, natural numbers for ids in
`ExceptionPaths`); `SelfInputsAssumption` (C2 gives a node itself as an input
only where the input is control: Root, Start, Region, Loop); `DumpsAssumption`
(a dump is a sequence of lines that lists each link at both ends, as C2 prints
it); `ParameterAssumption`, `StepsAssumption` (the step builder returns a
non-empty sequence of steps of the graph); `DirectoriesAssumption`,
`BenchOrderAssumption` (scores are positive, every benchmark has a name in the
order, and all rows of a file have the columns of its heading);
`PinnedAssumption`; `NamesAssumption`, `ExtensionsAssumption`,
`OptionsAssumption` (types of what the pipeline is given); `TreesAssumption`,
`TablesAssumption` (kids come before their parents; where the generator leaves
out a guard, none is needed), `ChainsAssumption` (next to a block for an operand
class are blocks for what its chain rules lead to), `CodeAssumption` (a state
runs the code of its node's opcode, its kids are states of the node's inputs,
and a node has as many of them wherever it is matched),
`NullsAssumption` (only a null constant is given the label of nulls),
`ConditionsAssumption` (what C2 puts under a branch: a `Bool` with one test, next
to the comparison it tests; a pointer is compared with null, and an overflow or
a lock's outcome asked for, without an order; two pointers may be compared for
order, as an allocation compares its buffer's top with the end),
`SwapsAssumption` (for the two orders of a commutative operation, a block that
can match one has a mirror image for the other). TLC evaluates each of them in
some run, those of the instruction selector on the real tables.

* `TopoLevelsProofs`. `LoopInvariant` is `IInv`: the counter of a node is the
  number of its edges not yet relaxed (`Waiting`), and the array being
  collected holds exactly the nodes that wait for nothing and are not out yet.
  Neither is inductive without the other: the counter says when a node joins,
  and that it joins once (`NoDuplicate`) keeps levels disjoint, which is what
  keeps the counters exact. From it follow `OrderTheorem` (data before use),
  `CycleTheorem` (`OnlyCyclesAreUnordered`) and `OrderIsImplemented`: each step
  is one of `DataflowOrder` (`LevelIsFired`, `RestIsFired`) or a stutter
  (`RelaxingIsInvisible`), with `fired` mapped to `visited`.
  `EarliestTheorem` adds that what is being collected has an input in the level
  before (`EarlyInv`), `OnceTheorem` that levels of new ids stay apart
  (`OnceInv`).
* `IRParserProofs`. `EdgesTheorem`: the array lists the keys seen, each once;
  these are edges of the graph, and an edge not among them still has its pair
  of node and position among those to come. `ReturnTheorem` and `LinksTheorem`
  rest on `PInv` (a node is what some parsed line of the dump with its id says)
  and on what dropping tokens does to positions: the places in a finite set are
  numbered without gaps and in order (`RankFacts`), so what is kept comes at its
  place's rank (`SelectedFacts`). `GraphTheorem`: ids are finitely many natural
  numbers.
* `StepBuilderProofs`, the walks. `WInv`: a walk has reached, and has on its
  stack, only what every closed set with the seeds contains (soundness), and a
  visited node's inputs are visited or on the stack (`FrontierComplete`). When
  the stack is empty the reached set is itself closed, so it is the least closed
  set: `ClassificationTheorem`. `HappyPathTheorem` follows.
* `StepBuilderProofs`, the steps. `BInv` adds three parts to `WInv`. `LInv`: the
  levels still to come are disjoint, hold every id that is neither hidden nor
  completed, and take their data from these or from levels no later (`Ordered`,
  `Covers`); appending a level, filtering and taking the first one off keep that
  (`AppendOrdered`, `FilterOrdered`, `TailOrdered`), the filter because hidden
  ids count as present. `StepsInv`: each step agrees with the values as they are
  now on all ids executed by then and has nothing for the others, and is behind
  every earlier one. `ValuesInv`: outside cycles, what has executed shows what
  it would show now. None is inductive alone: a value computed now is harmless
  to an earlier step only because its node is in a later level (`LInv`) and
  feeds no node of that step (`StepsInv`), except by an input that is not a data
  edge, and a node that has one ignores its inputs (`StableValue`). From
  `BuildInvariant` follow `ValuesTheorem`, `SnapshotsTheorem` and
  `ShownTheorem`, for every finite graph, cyclic ones included; `StepsTheorem`
  is the type of what is built.
* `PlayerProofs`. `PageInvariant` joins types, `StepsCurrent`,
  `NodesShowStep`, `DetailsShowStep` and `ModesAgree`. They need each other:
  the display is right after leaving a search because the steps were current
  during it, and current steps matter because the current one exists after a
  rebuild. `ApplyDisplays` is proved once for `applyStep` and used by every
  handler. `TypeTheorem`, `StepsTheorem`, `NodesTheorem`, `DetailsTheorem`,
  `ModesTheorem` are its parts.
* `BenchmarkCompareProofs`. `CounterpartsTheorem`: a row is stored under a key
  with its own benchmark, mode and parameters in the map of its file's label,
  labels are settled before anything is stored, and so the same key finds the
  same measurement; `DiffSign` is the arithmetic of the rounded percentage.
  `OrderTheorem` and `NothingDroppedTheorem` need that two keys of one file with
  the same mode and benchmark have different numbers (`RInv`: the next number is
  above all used), because only then the comparator is a strict total order on
  the keys met (`BeforeFacts`). Sorting a finite set by a strict total order numbers
  its elements without gaps, which gives the order (`TInv`) and, since nothing is
  equal to anything else, the number of lines. That files of the same runs never
  fail is `SInv`: after as many rows the two files have the same keys, numbers
  included, whatever their scores.
* `PatchBndProofs`. `RunInvariant` says, step by step, which of the three
  places is done with; its heart is that an old copy between runs comes with
  an old jar (`OldCopiesAreFound`), which is why the early exit is safe, and
  that during the clearing an old copy is still to be visited or comes with an
  old jar. `BuildTheorem` and `CopiesTheorem` follow.
* `BuildPipelineProofs`. `RunInvariant` says what a run past a phase may rely on
  if it did not skip it (`Progress`), what the extensions were built against
  (`Extended`), and who listens on the port (`Listens`).
  `VerificationTheorem` needs all three: the answer is from the run's own
  application, which was packaged from the bom this run installed, whose
  version this run published. `ExtensionsTheorem` needs `Extended`:
  the extensions a run has built so far are from what is stored under the bom's
  version, which has that version and does not change before the run ends; once
  all are built no old one is left, and that they are of one Hibernate then holds
  until the next build of Quarkus begins, whatever is published.
* `InstructionSelectionProofs`. `Invariance`: at every point of a function the labels of the
  state are those of the matches passed so far (`Justified`), each at no more
  than their cost (`Recorded`), and the states above have none (`Unlabelled`).
  The hard case is a production without a guard: `TablesAssumption` says the
  label is free or the old cost no lower, and only then does overwriting keep
  the minimum (`NoDearer`). `LabelsAreCheapest` is `LeastCost`, for any tables.
  That is about one state, given the costs below it. For the tree, `Settled` says
  that all states behind the pass keep such labels (`SettledTheorem`: what a later
  state does touches its own arrays only). `CheapestSelection` then compares the
  pass with any other cover of the tree: a map `d` of costs, each that of some
  match over the costs `d` itself gives the kids (`Labelling`), is nowhere below
  the pass's. This would be an induction over trees; since kids come before their
  parents, the pass's own steps are the induction, and the theorem is an
  invariant: as far as the pass has come, nothing in `d` is cheaper
  (`NoCheaper`). `CostsAreAttained`: the pass's costs are themselves such a map.
  TLC checks both halves' step, `LeastCost`, in every state; `Settled`, which
  repeats it for all states below, it found true once, but is left out of the
  run for the time it takes.
  `ChainsTheorem` goes from blocks to labels. `ChainsAssumption` compares two
  blocks of one table: next to a match for a class there is one for each class
  the chain rules lead to, on the same labels of the kids or on none. A class
  that is valid got its cost from some match (`Justified`), the block next to
  it matched too (`CoveringMatch`), and its label costs no more than that match
  (`Recorded`), even if other blocks won it.
  `BranchTheorem` goes through the tables themselves: those of branches,
  conditional moves, `Binary`, `Bool` and all comparisons. A rule that tests flags
  of a kind takes a condition and flags of that kind from its kids (`TestsPair`);
  `Binary` passes on pairs of labels that its kids have (`KeepsPair`); the labels
  of a `Bool` are decided by its test (`BoolTable`) and those of the flags by the
  comparison and its operands (`SignedTable` to `Records`). `Settled` carries
  each of these from the block that won a label to the state one reads it in
  (`KidLabelled`), so the two kids of a branch meet in `PairFollows`: the flags'
  class says which comparison it was, the condition's which test, and no pair
  that the rules accept is a wrong one.
  `CommutesTheorem` goes, like `ChainsTheorem`, from blocks to labels. The two
  orders do not match block by block: a constant is an operand on one side only.
  So `SwapsAssumption` asks for a mirror image only of a block whose kids can
  have the labels it wants (`MayLabel`); a block that matched is such a one
  (`LabelsAreRecorded`), and its mirror image matches for as much
  (`MirrorApplies`). The kids of `y op x` are other states than those of `x op y`,
  though: that the same node has the same labels in both is `Determined`, an
  invariant of its own (`DeterminedTheorem`), which rests on `Settled`: of two
  states of one node, neither can be dearer, since each is cheapest over equal kids.

Only model-checked: `EveryNodeSelects`, `FoldsIndex`, `FusesSameAddress`,
`FoldsWholeVectors` and `BarriersKept`, facts of several thousand blocks and the
vectors, addresses and platforms C2 makes, with no shorter argument than going
through them; and all liveness (`Terminates` of both modules, `PlaybackEnds`,
the fairness part of `Implements`), which TLAPS cannot prove here. That
`BuildSpec` comes to its end is not stated: every part of it is a loop over a
finite set, and the two that are not obvious are the `Terminates` of
`TopoLevels` and `ExceptionPaths`.

## 5. Order of the work

`DataflowOrder` and `TopoLevels` with proofs, `IRGraph`, `ExceptionPaths`,
`IRValues` and `StepBuilder`, `IRParser`, `Player` and proofs,
`BenchmarkCompare`, `PatchBnd` and proofs; then `Labeller` and proofs, the
tables and `InstructionSelection`, `BuildPipeline` and proofs, the proofs of
`IRParser`, `ExceptionPaths` and `BenchmarkCompare`, and `StepBuilder` joined
to `ExceptionPaths` and proved.

What could follow: the value-class answer of the sample and the ASM patch
inside `BuildPipeline`; the remaining arithmetic types of `computeValue`; the
memory rules `FoldsWholeVectors` leaves out, once it is known which vectors C2
makes for them; the loops of `Gen.java` against the plain reduction, with
widths and tails.

## 6. Not modelled

Layout, zoom, minimap, tooltip, theme and source panes of the page, and CSV
quoting and table layout of BenchmarkCompare: no state another part reads.
Compiler options, the edits of the sample's sources and the value-class answer
of the pipeline. The ASM patch: it searches the hex text of a class for two
patterns, at any nibble, and replaces the first occurrence; whether that is the
right one depends on the bytes of ASM's releases, which are not in the
repository. `x86.ad`, ADLC and the matcher: outside the repository; their helper
predicates and chain rules are modelled from how the generated code uses them.
The log lines in `06-dfa_x86.cpp`. `Gen.java`, which prints straight-line
arithmetic; BranchProbability, whose termination is a matter of probability;
bisection, one pass to an exit code; the make plans, host and cross-build
scripts, small tools and experiments, which are sequences of calls of other
programs.
