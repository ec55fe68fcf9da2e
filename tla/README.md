# Resonance in TLA+

Resonance runs real binaries (concord; weld with ROS peers) in network
namespaces over a simulated radio mesh and judges them by scenario files. This
directory specifies the control logic of Resonance itself: TLA+ modules
translated from its C code, TLC configurations that check them on small
instances, and TLAPS proofs for every value of the constants. `PROJECT.json`
ties the definitions to source lines and the properties to runs, mutations,
hazards and theorems.

Check a model with `tlc -config MCMesh.cfg MCMesh`, a proof with
`tlapm MeshProofs.tla`.

## 1. The system

| component | state it keeps | operations | talks to |
|---|---|---|---|
| simulation core (`heap`, `node`, `shared/context`, `udp`, `world`) | event heap, clock, sequence number, packed node array with directory, binds | schedule, run, add and remove nodes, bind, send, multicast | handlers of the program that uses it, which call back into it |
| run-id allocator (`sim/sim.c`) | lock files under `flock`, `HeldRunLock` | `sim_run_acquire`, `sim_run_probe` | all rsuite processes of a host; relay pumps inherit the descriptor |
| process pool (`cmd/main.c`, `run_forked`) | slots, counters, `SawSig`, `SigAt` | launch, reap, drain, orphan kill, interrupt | forked children (pipes, signals, process groups) |
| phase runner (`suite/exec.c`, `suite_run_file`) | phase, timers, latch, cached list answers, verdict | load, set up, spawn, steps, `run_until`, `run_sustain`, forensics, teardown | node lifecycle, mesh, drivers |
| node lifecycle (`run/run.c`, spawns of `sim`, `driver`) | `pids`, `logfds`, poll vector, dead slot | spawn, unwind, kill, restart, `run_alive`, `run_note_dead`, `run_rearm`, `run_teardown` | the kernel's processes and descriptors |
| mesh transport and faults (`tun/tun.c`, `run_poll`, `run_poll_nomcast`, fault steps) | drop marks, table of directed edges, QoS slots, slow gate, flow counters | pump, drop, heal, slow, move | TUN devices of the nodes |
| workload names (`val_top`, `WlTab` in `suite/exec.c`) | lint registry, table of minted ids | submit, benchmark, ramp, stop, update, conditions | concord driver |
| nemesis and minimizer (`suite/nemesis.c`, `cmd/main.c`) | fault budget, pending drop; text, tries, passes, calls | generate, cut phases, cut steps, oracle | lint, and `rsuite run` in a forked oracle |
| network of a run (`run_setup_*`, `setup_unwind`, `run_teardown`, `sim_netns_*`, `sim_tuns_*`, `sim_addrs_*`) | namespaces, TUNs, the host route and node homes under names made of the run id | set up, unwind, spawn homes, fresh restart, tear down | the host, and every other run on it |
| benchmarks and ramps (`val_bench_generic`, `val_ramp`, `run_bench_*`, `run_ramp_*`) | stamps and sightings of the issues, relay, ladder, ceiling | issue, pace, look, measure, climb | drivers, workload table |
| YAML parser (`suite/parse.c`) | the tree with its line numbers | `suite_parse`, `suite_map_find` | lint, minimizer |
| other checks of the lint (`val_*`), conditions, drivers, report, bundle, progress, image push | see `PROJECT.json`, `components` | | |

What is hard here, and hardly reached by a test:

* **Concurrency with the kernel and with other processes.** Scans for run ids
  race and crash; a signal lands between any two tests of `SawSig`; process and
  descriptor numbers are reused the moment they are free.
* **Inherited descriptors.** A relay pump is forked without exec. It holds the
  lock of a run id and the write end of a result pipe beyond its parent's end.
* **Timers and caches.** Dwell, query, sample, phase and file timers run against
  each other; list answers are up to two seconds old.
* **Partial failure.** The third of five spawns fails; a restart's wipe fails; a
  fork in the oracle fails; one of ten `ip` commands per node fails, and the
  unwind must take back the others; an issue of a roundtrip benchmark fails.
* **Leftovers of the dead.** A killed run leaves namespaces and homes whose names
  the next run with its id needs.
* **Tables at their limits and stale entries.** 100 directed edges, one QoS slot
  per node, one dead slot, packed arrays with a directory, binds of removed nodes.
* **The same rule written twice.** The lint foresees what the run will do
  (names of workloads, verbs of benchmark endpoints); the minimizer's
  `trial_valid` foresees the lint, and its cuts of lines foresee the parser.

Each is listed with its line under `hazards`.

## 2. The modules

| module | source | role |
|---|---|---|
| `EventQueue` | - | abstract: fires its least event, takes none in the past |
| `NodeList` | `node/node.c` | packed array and directory; a removal moves the last node down |
| `SimCore` | `heap`, `context`, `udp`, `world` | heap with its sifts, `context_run`, binds, sends, multicast; a turn of a sift or of the multicast loop is a step; implements `EventQueue` |
| `RunLease` | - | abstract: an id is leased to one run, and freed when its holders end |
| `RunIds` | `sim/sim.c`, pumps of `driver/weld.c` | the `flock` protocol; implements `RunLease` |
| `RunNet` | `run/run.c`, `sim/sim.c` | what a run has on the host, command by command, on top of `RunLease`; `Left` is the owner of what was left over by a process that died or by an `ip netns del` or `rm -rf` that failed |
| `RunPool` | `cmd/main.c` | `run_forked` with its helpers, children and their groups |
| `PhaseRunner` | `suite/exec.c`, timers of `run/run.c` | one file from load to verdict |
| `RunNodes` | `run/run.c`, `sim/sim.c`, both drivers | the tables of a run over a kernel that reuses numbers |
| `LinkFaults` | - | abstract: who may hear whom after a script of faults |
| `Mesh` | `tun/tun.c`, `run/run.c`, fault steps of `suite/exec.c` | the pump and its tables; implements `LinkFaults` |
| `Workloads` | `suite/exec.c` | registry of the lint and table of the run, over the same steps |
| `BenchLint` | `suite/exec.c` | the lint of a benchmark step in its plain, ramp and generic forms; the validated step |
| `Bench` | `suite/exec.c` | one benchmark step from lint to metrics; the four loops are one, told apart where they differ |
| `Yaml` | `suite/parse.c` | the parser from lines to the tree |
| `TrialText` | `suite/nemesis.c` | scenarios as text in many layouts, and the minimizer's cuts of lines |
| `Scenario` | `suite/exec.c`, `suite/nemesis.c` | files as lint and minimizer see them |
| `Nemesis` | `suite/nemesis.c`, `cmd/main.c` | generator, minimizer, oracle |
| `MC*` | - | constants of the runs |
| `RunIdsProofs`, `RunNetProofs`, `RunPoolProofs`, `PhaseRunnerProofs`, `RunNodesProofs`, `MeshProofs` | - | theorems about the module they are named after |
| `SimBenchProofs` | - | theorems about `SimCore` with `NodeList` and `EventQueue`, and about `Bench` |
| `ScenarioProofs` | - | theorems about `Nemesis` and `Workloads` |

An operation that blocks or that others can observe half done is split where it
can be observed: `sim_run_acquire` into the scan lock and a step per id,
`finish_slot` into reaping, draining and orphan kill, restart into kill, wait,
wipe and fork. An operation that nobody can interrupt is one action, with one
exception: the loops of the heap and of the multicast take a step for each turn,
and no other call begins before they end (`sift`, `cast`). So they need no
recursion, and what a loop has done so far can be stated and proved. Variables
have the names of the code; history variables, which no guard reads, are marked
as such. Operators under a comment that starts with "Slip:" are plausible bugs;
they are used only to see that a property notices them, and nothing of the
specification refers to them.

External code is modelled from how it is used: `flock`, `fork`, `waitpid`, pipes,
signals, TUN queues, and the system under test, which may answer anything.

## 3. The runs

| run | what it checks | what it shows |
|---|---|---|
| `simcore` | `Directory OwnDatagrams QueueSpec` | The array heap is the abstract queue, turn by turn of its sifts, also when handlers schedule, add and remove; directory and array agree; a datagram never reaches the listener of a node that came later. |
| `ids` | `PinsOnlyHeld CallReturns LeaseSpec` | Crashes strand no id and a process pins only its current one; every call returns; lock files are leases, so ids are unique among live processes. |
| `net` | `OwnNet NothingLeft` | On leases: a live run keeps its namespaces, route and homes whatever other runs clear, unwind and wipe; a run that ends has tried to delete all it made, whichever command failed before, and what stays is `Left` by a dead process or by a delete that failed (the code ignores these answers and does not try again). |
| `pool` | `TallyTrue SignalsAimed InterruptEnds LeftoversDie PoolEnds` | Counters and verdicts are true on every path and `--jobs` is kept; only own groups are signalled; an interrupt ends the pool; leftovers die, if no child crashes while its relay pump lives. |
| `pool_relay_crash` | `LeftoversDie` (violated) | Such a crash blocks the pool in `drain`. |
| `phase` | `CleanExit HoldObserved SustainUnbroken AnswersFresh FileEnds` | Dwell and watch hold what they promise about every poll; answers are fresh; every exit tears down once; a steady condition is not timed out; the file ends. A watch is about what the polls read: a journal or log is read at every one, the last included, while a list answer may be a query gap and a stall old. |
| `nodes` | `ChildrenTracked OneProcPerNode LogsRouted NoLeak SignalsOwn TeardownEnds` | The tables name exactly the run's own children; no home has two writers; logs are read for their node; a teardown leaves nothing. |
| `mesh` | `DeafArmed Accounted LinkSpec BacklogMoves` | No delivery against a fault, no loss without one, after every script of three steps; counters agree, write by write; a queue that fills and overflows behind a slow gate, or at a mute or dead node, goes on moving though its node goes on sending. |
| `mesh_edge_table` | `DeafArmed` (violated) | Eleven nodes cut off need 110 edges; the table has 100. |
| `workloads` | `PlainFilesRun NamesExact` | A linted file (without timed mints, counts of one and leading zeros) breaks no rule of names when it runs; a name stands for all that one step minted and nothing else, unless names of two steps clash. |
| `bench` | `BackstopsIdle RelayHeld StatsTrue Ladder BenchEnds` | A linted benchmark of one family never meets a backstop of the run; the relay is up exactly while it is needed; counts, losses, overrun and percentiles are those of the issues; a ladder's ceiling is its top passing rate; every benchmark ends. |
| `nemesis` | `FilesLint KeepsFail CutsAgree SweepsWhole MinimizeEnds` | Generated files lint, and so does all they are cut down to; an exit of 0 stands for a file seen to fail; a cut of lines means the cut of a phase or step and leaves the other keys of the file alone, in every layout, but for a cut at the end of the phases, which loses the keys that follow them; sweeps leave no single cut untried; it ends. |

### Bounds, and why they are enough

* `simcore`: six events make a heap of three levels, so both children of an inner
  entry, a single child, and sifts over two levels occur. Three nodes are the
  least for which the removed, the moved and a bystander differ.
* `ids`: two processes and two ids: a race for one id, a skip to the next, and
  exhaustion. More processes add no kind of step; the theorems cover any number.
* `net`: two processes, two ids and two nodes: two runs at once, a run on the id
  of a dead one, a failed and a successful command per loop. Processes are
  interchangeable (`SYMMETRY`); the theorems cover any number of each.
* `pool`: three files on two jobs: a file waits for a slot, one runs, one closes.
* `phase`: timeouts of 2 to 3 s with two ticks per second, a query gap of 2 s and
  stalls of one tick: each timer can fire before, with and after each other one.
* `nodes`: two nodes, three process and descriptor numbers: one to spare, so that
  a number is reused by the same node, the other one, or a stranger.
* `mesh`: three nodes (sender, receiver, bystander), three steps: drop, a second
  fault, heal. One node sends, at any time and to anyone; with the scopes {1, 2} and
  {2, 3} it is listed with and without its receiver, and scopes overlap. Its queue
  holds two packets and drops further ones: a second packet behind the first is what
  a gate stamped at the wrong place would hold back for ever. The edge table holds
  exactly all edges. The theorems cover any number of nodes, senders and packets.
* `workloads`: files of four steps over one stem: mint, mint, stop, refer; table
  of five entries and benchmarks of at most three, so both overflow. The names are
  a base, two of its members, one member with a leading zero and the default name:
  one member is within the count of a timed benchmark, the other is the one it may
  mint beyond it. The theorems cover any set of steps and any length.
* `bench`: 345 benchmark steps: each form, and each with one key dropped,
  added or out of range. At most four issues and two rungs, a second of two
  ticks, a grace of two and an issue late by at most one: deadline, dwell, arrival
  and death of the nodes meet in every order, and the percentiles of 50 and 99
  are different ranks. The first issue may go without a stamp.
* `nemesis`, `CutsAgree`: 192 layouts (lists at and below their key's indentation,
  bare dashes, `do` before, between and after the other keys, `until` and `sustain`, empty lists,
  comments, a key after the phases) of the two user files, and the generator's own
  layout for each of its files.
* `nemesis`: four phases reach gate, submit, fault and heal or stop; five tries,
  two passes and five oracle calls, so that each limit is met and the cap of
  calls is passed by the last try.

`CHECK_DEADLOCK FALSE` stands where the program ends: pool, phase, workloads and
nemesis. `Bench` stutters in its last state (`Done`). The others have no state in
which nothing can happen.

### Fairness, and why the code justifies it

* Weak fairness of a sequential program's own steps (`Parent`, `Runner`,
  `Waiting`, `Walking`, `CallStep`, `Next` of `Nemesis`): the scheduler runs a
  ready process. In `Bench` the clock advances with the runner's own waits, so its
  fairness is all that `BenchEnds` needs: nothing has to arrive and no node has to
  live.
* `net` checks safety only and assumes none.
* Weak fairness of time (`Tick`, `GracePasses`).
* Weak fairness of death by SIGKILL (`Dies`, `DiesOfSignal`, `MemberDies` of what
  was sent it). A child is never assumed to end by itself; `PoolEnds` has that as
  its hypothesis, because it is what `FileEnds` shows of the phase runner.
* Strong fairness of `TakeScanLock`: `flock` waiters are queued by the kernel, so
  no one is overtaken for ever.
* Weak fairness of `Pump(i)` in `Mesh` : `poll_once` goes over all
  descriptors. Nodes are not assumed to stop sending, and a full queue drops.
* The system under test is never assumed fair.

## 4. The proofs

| theorem | for every | argument |
|---|---|---|
| `SimBenchProofs!CoreTypes`, `DirectoryAgrees`, `DatagramsAreOwn`, `ImplementsQueue`, `OrderOfEvents` | number and place of nodes, ports, budgets, size of the heap and behaviour of handlers | `CoreInv`, below. |
| `RunIdsProofs!TypeCorrect`, `IdsAreUnique`, `PinsAreHeld`, `ProbesAreUnseen`, `ImplementsLease` | set of processes, number of ids and pumps | `IInv` = types, `PinsOnlyHeld`, `ScanExclusive` (whoever scans holds the scan lock), `ProbeBrief` (a probe's lock only at its scan position). Uniqueness follows because an id's references are all of one process. |
| `RunNetProofs!NetTypes`, `NetsAreOwn`, `NothingStays` | set of processes, number of ids and nodes | `IInv` adds to the types: `Exclusive` and `Leased` (a run in any stage has the lease of its id, so two runs have different ids: lemma `Apart`), `Bounded` (the loop variable stays within the run), and `NetInv`: what the tables say of a process (`NsOf`, `HomeOf`, `RouteOf`: whose it is and in which stages) and what a process may rely on (`NsKept`, `RouteKept`, `HomeKept`). The proof takes one process q at a time: it takes the step, or stands aside (`AsideKeeps`). |
| `RunPoolProofs!TypeCorrect`, `TallyIsTrue`, `SignalsAreAimed` | number of files and jobs, interrupts, failing calls | `Inv` adds to the types: `Places` (a file's slot says how far launch, reap and close have come, and at most one is being closed), `Earned` (a verdict other than FAIL is that of a child's own status), `Counted` (each counter is the cardinality of the files it stands for, `live` that of the busy slots) and `Ended`. Steps move one file from one set to another; the cardinalities follow from lemmas on adding and taking away one element. |
| `PhaseRunnerProofs!TypeCorrect`, `HoldIsObserved`, `SustainIsUnbroken`, `AnswersAreFresh`, `ExitsInOrder` | file, timeouts, tick rate, stalls | `Inv` = types, `Control` (which marks stand at which place: mesh, teardown, forensics, verdict, phases met) and `Timers` (start, dwell, latch and query stamps are in order, and the cached answer is of this phase). The three action properties follow from `Inv` and one step; `SustainIsUnbroken` also needs `Recent`, that a cached list answer in a watch is younger than the query gap plus one stall. |
| `PhaseRunnerProofs!ExitsClean` | the same with `Brisk`: `2 * MaxStall <= TPS` | `Prompt` adds that a steady condition is latched within a second of the start and that the runner looks again before its dwell is over. `Brisk` says that two steps of the runner fit into a second. It is sharp: with `MaxStall = 2` and `TPS = 2` TLC finds a phase timed out although its condition has always held. |
| `RunNodesProofs!TypeCorrect`, `ChildrenAreTracked`, `HomesAreExclusive`, `LogsAreRouted`, `NothingLeaks`, `SignalsAreOwn` | nodes, process numbers, descriptors | `IInv` adds to the types and the agreement of both tables with the kernel: `DeadGone`, `Routed`, `Swept` (nothing is left where the teardown has been) and `Stages` (what is known in the middle of a wait, a wipe, a walk). |
| `MeshProofs!PacketsAccounted` | number of nodes, size of the table | `Accounted` is about the counters of the last packet; with the types of the tables each way through the pump (fan-out, unicast, doubled, cut by an edge, lost by QoS or radio) counts every addressee once, or twice when its QoS doubled it; the two writes of a doubled packet fail independently. It does not need `TableFits`: a packet that a missing edge lets through is counted as delivered. |
| `MeshProofs!MeshTypes`, `DropsArm`, `ImplementsLinks` | number of nodes with `TableFits` | `Inv` = types, `DeafArmed`, `EdgesAsked` (an edge is armed only for a deaf node). `TableFits` is necessary: `mesh_edge_table` is the counterexample. |
| `SimBenchProofs!MetricsAreTrue` | benchmark step, number of issues, delays, and order that `qsort` may leave among equals | `Inv` of the next row and `Watched`: no issue is stamped later than now, and what was seen is visible and was seen no earlier than it was sent. So at the end of a dwell the hits are the stamped issues that are in every log. Lemma `RankIs`: in an ascending arrangement the entries up to rank r are not above the r-th and fewer than r are below it, so the r-th is the least that the percentage asks for; `PctIs`: `bench_pct` reads that entry. |
| `SimBenchProofs!RelayIsHeld`, `BackstopsAreIdle`, `LadderHolds` | benchmark step and limits | `Inv` = `Known` (places, and that the step is the lint's), `Shapes` (the sequences of issues and reports), `Climbing` (the rung's number is that of its reports, its rate follows from it), `Passed` and `Peaked` (all reports but the last have met their stops, and the ceiling is the last that has), `Quotas` (the rungs so far have taken no more entries of the table than the lint allots them) and `Idle`. |
| `ScenarioProofs!ExitStandsForFail` | file, profile, limit and oracle | `IInv`: while sweeps run the file was seen to fail, or a fork failed, or the cap was passed; each survives every later call. |
| `ScenarioProofs!TypeCorrect`, `SweepsAreWhole` | file, profile, limit and oracle | `TInv` bounds the indices of the sweeps by the file as it is cut. `Swept`: every cut behind the index has been refused since the last one that was kept, so when a sweep ends there is none left. |
| `ScenarioProofs!FilesAreLinted` | number of nodes, phases and faults, profile and oracle | `Laid` says what the generator writes at each place of a file: the submit opens the second phase, phases after it may be about the workload, no other phase submits. `Shrunk` says what is kept by every cut that `trial_valid` lets pass: at most one submit, no step or condition that `trial_valid` does not know, and with these its verdict is the lint's. |
| `ScenarioProofs!WorkloadTypes`, `LintedFilesRun`, `NamesAreExact` | set of steps, length of file, size of table | `WInv`, below. |

`CoreInv` of `SimCore` has, besides the types and the directory: `Numbered` (no two
entries of the heap have one sequence number, all are below the next one, and what
is pending is above what was fired last), `Ordered` (no entry is above its children,
but for the entry that a sift is moving: `UpAt` and `DownAt` say which pairs may be
out of order, and that its parent is still in order with its children), `Born` (ids
are never reused, so a bind or a datagram names the node it was made for) and
`Placed` (the loops have ended when the next event is taken). A turn of a sift moves the one exception by a level or ends it. Between
sifts the root is the least entry: among the indices of entries below the root there
would be a least one (`WFMin` on the naturals), and its parent, being no lower, would
be one more with a lower index. `ImplementsQueue` then maps a heap to the set of its
entries: a call that schedules is a `Put`, the removal of the root a `Fire` of the
least event, and every turn of a sift a stutter, because it exchanges two entries.
`OrderOfEvents` is what an `EventQueue` promises, carried over.

`WInv` of `Workloads` relates the two readings of a file. `Filed` and `Registered`
say how the registry follows from the steps that were linted, and that each step's
name was new to the registry of the steps before it. `Budget` says that the entries
of the table and the count of the lint are sums over the same steps; the sums are
carried as a function that is said to exist, so that no induction over the file is
needed. `Tabled` and `Based` say that an entry has a name its step may mint, and a
base of the table that of a step that has run; `Complete` that a plain step that has
run has minted all it was to mint; `Told` what the last step was about; `Legal` that
no plain file has ended for a broken rule. `LintedFilesRun` then is: the name a step
refers to is in the registry, hence minted by a step before it, hence in the table.
`NamesAreExact` is: without a clash two steps have no name in common (lemma `Apart`).

The assumptions are those on the constants, named in the modules that declare
them. `WorkloadsAssumption` has the ranges that `val_step` leaves to a step
(`StepOk`): a benchmark has a count or a duration, and neither its count nor the
product of rate and duration is above 100. Invariants were checked by TLC before
they were proved. Operators that the proofs expand have `CASE` guards that exclude
each other.

Not proved and only model-checked:

* the liveness properties `CallReturns`, `InterruptEnds`, `LeftoversDie`,
  `PoolEnds`, `FileEnds`, `TeardownEnds`, `BacklogMoves`, `BenchEnds` and
  `MinimizeEnds`, which need fairness and `ENABLED`;
* `CutsAgree`, which is about a recursive parser: what it returns for every text
  is an induction over the lines.

`qsort` is modelled by its contract, any arrangement in which the times ascend;
that the C library meets it is assumed.

`RunIdsProofs!IdsAreUnique` and `ProbesAreUnseen` are proved without a run of their
own: the first follows from the leases that `ids` checks.

## 5. What was found

Two runs are expected to be violated; `findings` quotes the lines.

1. `cmd/main.c:1702`: after a crash with a live relay pump the pool waits for the
   end of a pipe that the pump holds open; it neither answers an interrupt nor
   kills the leftovers.
2. `tun/tun.c:607`: a full edge table drops further edges without a word.

Three more disagreements are exceptions of a property, which says what the code does
instead:

* `suite/exec.c:12967`: the "one last read" of a sustain is the cache for list
  conditions, so a break after the last query, within the last two seconds, passes.
  The comment above it says "a break on the exact-expiry poll still fails the phase",
  docs/yaml:173 "any violation fails at once". `SustainUnbroken` asks for the truth
  at the end of journal and log conditions only, and bounds the age of a list answer.
* `suite/exec.c:4176`: a drop with `dir` and no fault key is a plain cut; the code
  says "dir: alone stays plain", `suite/exec.h:364` "dir: alone never arms QoS
  shaping". docs/yaml:233 says "Any fault key present selects the QoS path (even dir
  alone)", by which it would cut nothing. `LinkFaults`, and so `LinkSpec`, has the
  code's reading.
* `suite/nemesis.c:1523`, `suite/nemesis.c:1609`: cutting the last phase, or its
  last step when `do` comes last, takes everything to the end of the file along, so
  keys that follow `phases` are lost; the comments at `suite/nemesis.c:1491` and 1541
  speak of a trial "without phase j" and "without step k of phase j". `trial_valid`
  refuses the cut only when it asks for the key. Without `isolate` the trial is run
  with the default; without the `domain` of a weld file the lint fails it, which
  counts as the failure that is sought. `CutsAgree` has the loss as its exception
  (`AtEnd`), and shows that nothing else is lost.

Further observations, made while reading and modelling, that no run is about:

* `suite/exec.c:12112`: lint and run disagree on counted submits of one. The lint
  registers a base (`suite/exec.c:7356`), the run names the workload BASE, and a
  later `stop: BASE-0` passes the lint and fails the run.
* `suite/exec.c:10748`: a timed benchmark looks at its deadline before it waits
  for the next issue and may issue one more than the lint has counted. The proof of
  `NamesExact` failed on it: benchmarks and ramps, unlike submits, do not look for
  duplicates when they run, so after `benchmark` as `x` with a product of 1 has minted
  `x-0` and `x-1`, a later `benchmark` of count 1 as `x-1` mints `x-1` again, and
  `stop: x-1` stops both. The lint cannot see it, because it has counted one. The
  property now has the exception (`Clash`), and the run has such files.
* A submit as `x-0` followed by a counted set as `x` passes the lint, which looks up a
  new name among bases and members, and never new members among the names. `stop:
  x` then stops the submit along with the set. This is the other half of `Clash`.
* `suite/exec.c:11235`: the four benchmark loops look for their issues only when
  all of a step are sent, so an issue that arrives at once is seen when the last
  one has been sent. The p99 of the first rung of
  `suite/examples/bench_ramp_adaptive.yaml` (steps of 2 s, "p99 over 100 ms") is
  then near 1.8 s whatever the system does.
* A p99-only ramp whose issues are all lost passes with a p99 of 0 and raises the
  ceiling.
* Generic benchmarks whose `send` and `expect` are of different families
  (`weld-pub` and `journal-has`) pass the lint; a plain one reports all lost, a
  ramp ends at its backstop. docs/benchmark:79 speaks of "bad pairs" that "fail
  lint (plus a runtime backstop)". `BackstopsIdle` is stated of pairs of one family.
* The check of the name's length in generic ramps (`suite/exec.c:3855`) stands
  inside of `if (!s->has_ramp)`; such a ramp fails at its first issue. A generic
  payload template may outgrow its buffer at run time only.
* `match` of `log-contains` and `ros-log-contains`, and `by` of `echo`, are checked
  by the lint and not used by the run.
* A crashed run's state directory is reused by the next run with that id: `mkdir`
  accepts it, so gossip key and journals stay until a teardown or a fresh restart.
  `OwnNet` therefore lets a home be the run's own or one left over.
* The teardown's `rmdir` of a node's cgroup fails on the `daemon` leaf that the
  spawn has made below it (`sim/sim.c:253`, `sim/sim.c:798`), so cgroups stay.
* `suite/exec.c:14149` uses the host form for concord files with `isolate: off`,
  while docs/layer1-mesh:91 says the executor always isolates. Two such runs want
  the same host route, and the second fails its setup, without harm to the first
  (`OwnNet`).
* A dash on a line of its own makes the cut of a last item fail to parse, and it is
  refused.
* The parser takes any deeper line after `- a:` for the value of `a`, and keys
  after `- k: v` at any deeper indentation, where YAML would not.
* `suite/nemesis.c:1260`: `trial_valid` knows `stop`, `assigned`, `present` and
  `absent` of the unnamed workload only. In a user's file with `update`, `agree`
  or named workloads a cut may remove the submit; the lint then fails the trial,
  which counts as the failure that is sought, and the file that is left does not
  lint. `FilesLint` is therefore stated of generated files. Dropping
  `Generated` from it gives the counterexample on the first file of `MCNemesis`.
* `oracle_run` takes a failing `fork` for a failing scenario, and past its cap
  the oracle answers "fail" and the output is still written, with exit 1.
* The step sweep keeps at most four cuts (`kMaxPass`); the phase sweep resets its
  counter, so only `kMaxTry` bounds it.
* Ids are reused once their run has ended; docs/layout:165 says they are not. A
  relay pump keeps an id busy after its run has crashed.
* `hold_s` equal to `timeout_s` passes the lint, but the strict timeout wins.
* The until loop looks at list conditions every two seconds; `suite/exec.h:517`
  speaks of 250 ms.
* A second `kill` leaves the closed log in the poll vector, because
  `run_note_dead` returns early when a node is already noted; the poll then
  returns at once until the next rearm.
* The restart of a node with a `bins` entry uses the default binary.
* Nodes from the ninth on start outside of the 8 m world and hear nobody.
* A later `slow` or `drop` replaces the whole QoS slot of a node; the slow gate
  lets one packet pass per window, so a slow node that sends more than one per
  `secs` overflows the kernel's queue and loses packets, where docs/layer3-faults:55
  says of `pump_slow`, the shape it was made after, "Nothing is lost; everything is
  late"; the token bucket truncates and may starve.
  Multicast and broadcast bypass QoS and directed edges.
* An endpoint prefix (`weld:N`, `concord:N`) is not checked against the file's
  system under test.

## 6. What is not modelled

* Payloads, texts, images, formats and log lines: no property is about them.
* Quoting, escapes and forbidden characters of the YAML parser, the report
  renderer, bundles and the progress display: pure functions of texts, without
  state of their own.
* Cells and materials of the world, the random generator, the token bucket's
  arithmetic: chances in the models.
* Cgroups (best effort; no later step reads them), disk faults, image pushes:
  sequences of shell commands that succeed or fail.
* What conditions compute from lists, journals and logs, and what the drivers send
  to the system under test: it may answer anything.
* Memory exhaustion, except where the code has a path for a failing call.

## 7. Plan

Done, in this order: run ids, pool, phase runner, node lifecycle, mesh, workload
names, simulation core, generator and minimizer, benchmarks with their lint, the
network of a run on top of the leases, the parser and the minimizer's cuts of
lines; proofs of the safety properties of all of them but `CutsAgree`.

Next, in this order:

1. **Drivers**: relay start with early death, ROS peers, `ros_pub_once`;
   composed with `RunNodes` and `RunIds`.
2. **Conditions**: `eval_cond` and `cond_frac` over abstract lists and journals;
   composed with `PhaseRunner`.
3. **Report**: the parse of event lines, series and ramp tables, as operators
   against a reference.
