# commatrix in TLA+

`oc commatrix generate` computes which ports the hosts of an OpenShift cluster
accept traffic on (the *communication matrix*), from what the cluster declares
(endpoint slices, static tables, a file of custom entries) and, on request, from
what its hosts have open (`ss`, run in debug pods). This directory models the
parts of it that are more than reading and printing: TLA+ modules translated from
the Go code, TLC configurations that check them on small instances, and proofs
that TLAPS checks for instances of any size.

1. [The system](#1-the-system) – components, interactions, what is hard
2. [The modules](#2-the-modules) – which models what, and how
3. [The runs](#3-the-runs) – what TLC checks, bounds, fairness
4. [The proofs](#4-the-proofs) – what holds for every value of the constants
5. [Where code and comments disagree](#5-where-code-and-comments-disagree)
6. [What is not modelled](#6-what-is-not-modelled)
7. [Plan](#7-plan)

`PROJECT.json` lists components, runs, mutants, hazards and theorems, and maps each
definition to the source lines it stands for. Of the 6,300 files of the repository
6,250 are vendored; what is modelled is under `pkg/` and `cmd/`.

## 1. The system

The command is one process with no state of its own between runs. What lasts is
outside it: the cluster (above all one namespace with a fixed name) and the
directory the files are written to.

| component | code | state | operations |
|---|---|---|---|
| debug namespace session | `pkg/utils/utils.go` | the namespace, its annotation, its pods – all at the API server | `CreateNamespace`, `waitForNamespaceSCCUAnnotation`, `DeleteNamespace` |
| listening socket collection | `pkg/listening-sockets`, `generateSS` | three slices shared by goroutines, a mutex, an errgroup | `NewCheck`, `GenerateSS` |
| DHCP detection | `pkg/utils/utils.go` | none | `IsDHCPEnabled`, `isDHCPEnabledOnNode` |
| node groups | `pkg/mcp`, `pkg/types` | a map from node to group | `ResolveNodeToPool`, `BuildNodeToGroupMap`, `ApplyCustomNodeGroupOverrides` |
| endpoint slice exporter | `pkg/endpointslices` | services, slices and pods as listed | `New`, `LoadExposedEndpointSlicesInfo`, `ToComDetails` |
| matrix creation | `pkg/commatrix-creator` | lists of entries and of ranges | `CreateEndpointMatrix` and the functions it calls |
| matrices and ranges | `pkg/types/types.go` | lists | `Merge`, `SortAndRemoveDuplicates`, `Squash` |
| matrix diff | `pkg/matrix-diff` | a map from the text of an entry to a status | `Generate`, `GetUnique…`, `GetSharedEntries` |
| run of the command | `cmd/generate`, `cmd/main.go` | flags, results, the output directory | `Run`, `generateMatrix`, `generateSS`, `writeMatrix`, `writeMergedMatrix` |
| dynamic range source | `pkg/dynamic-ranges` | none | `GetDynamicRanges` |
| custom entries | `pkg/commatrix-creator`, `pkg/types` | none | `GetComMatrixFromFile`, the row parsers |
| `ss` output parsing | `pkg/listening-sockets` | none | `filterEntries`, `parseComDetail`, `extractContainerInfo`, … |
| cluster facts; client; constants; error handler | `pkg/utils`, `pkg/client`, `pkg/consts`, `pkg/errhandler` | none | one read each, wiring |
| rendering | `pkg/firewall`, `pkg/types` | none | CSV, JSON, YAML, nftables, Butane, MachineConfig |

**How they interact.** `Run` (generate.go:247) reads facts of the cluster, on two
platforms holds a *DHCP session* in the debug namespace, creates the matrix of the
endpoint slices, with `--host-open-ports` holds a second session for the sockets, and only then writes. A session is always

    CreateNamespace; defer DeleteNamespace; work in pods of that namespace

so two sessions of one run, and those of reruns, meet in the namespace
`openshift-commatrix-debug`. Its create, delete, annotation, pods and removal are
asynchronous, done by controllers of the cluster. Within the socket session one
goroutine per node shares three slices under `nLock`; an errgroup joins them.
Everything else is one call after the other, through values passed along.

**What is hard.**

- *Concurrency.* The goroutines of `GenerateSS` fail independently, the errgroup has
  no context and no limit, and the namespace must outlive them all.
- *Asynchrony, reruns, crashes.* A session may meet a namespace that an earlier one left
  active, terminating or full of pods. A kill or a panic in a goroutine runs no
  deferred call: `errhandler` recovers only in the main goroutine.
- *Partial failure.* Every API call may fail, or succeed while its answer is lost. What
  is cleaned up depends on where the `defer` statement stands.
- *Stale reads.* Services, slices, pods and nodes are separate listings; the nodes are
  listed once for their groups, again for their roles, again for the sockets.
- *Unspecified order.* Go maps are ranged over with early returns inside; both
  sorts are unstable.
- *Boundaries.* Ranges that touch, nest, are equal or inverted.

**What makes each part correct** is said by the properties in section 3, and
`hazards` in PROJECT.json names the line behind each.

## 2. The modules

```
DebugNamespace <--- DebugSession <--- CommatrixRun   (the sessions of a run, and its files)
   ^   ^                  ^   ^
   |   |                  :   : implements
   |   '--- DHCPProbe ....:...'
   '------- SSCollector ..:...... implements ....> NodeCollection

ComMatrix <--- ComMatrixMerge <-+- MergedOutput      (merge, and what firewalls are given)
   ^           RangeSquash    <-'                    (port ranges)
   '---------- MatrixDiff

ExposedPorts <--- MatrixRows <--- MatrixCreation     (endpoint slices, static and custom entries)
                  |
      Selection <-+- SocketReport                    (one node's ss)

NodeGroups                                           (node -> group)
```

A solid arrow is `EXTENDS`. `MC*` modules instantiate for TLC; `*Proofs` modules hold
theorems (section 4). `Selection` is `Select(s, I)`, the entries of a list at the indices of a set:
what a loop with `continue` and `append` computes. Operators introduced by a comment "Variant:" are not part of any specification:
each is a plausible wrong version of the definition that follows it, and PROJECT.json
pairs it with the property that notices.

### DebugNamespace

The cluster's half and the two calls of `utils.go` that sessions consist of.

| here | there |
|---|---|
| `ns`, `annotated` | the namespace object: its phase, and whether it carries `openshift.io/sa.scc.uid-range` |
| `pod`, `stale` | the pod of this session on each node; the nodes that still hold pods of earlier ones |
| `pc` | where the session is: in `CreateNamespace` (`creating`, `annotating`), in its body (`working`), in `DeleteNamespace` (`deleting`, `draining`), or over – `aborted` before the `defer`, `closed` after it, `crashed` |
| `expired` | the context of the running poll is past its deadline |
| `dirty`, `fresh` | ghosts: a Create was sent since the last removal the tool *saw* finish; whether that was so when this session began |
| `CreateNamespace` | `Create` with AlreadyExists tolerated – in whatever phase the object is; an error, or a lost answer, returns before the `defer` |
| `WaitForAnnotation` | the poll of `waitForNamespaceSCCUAnnotation`, where any Get that fails ends it |
| `DeleteNamespace`, `WaitForRemoval` | the Delete, whose error is only logged, and the poll after it, ended by NotFound, by any other error, by 2 minutes |
| `SkipSession` | the nodes cannot be listed: there is no session |
| `Rival` | a second process of the tool, wherever it is in a session of its own: it creates the namespace, deletes it, or has pods there |
| `alone` | ghost: no rival has acted since this session began |
| `Annotate`, `StartPod`, `RemovePod`, `RemoveStale`, `FinalizeNamespace` | the cluster (external): asynchronous, in any order, perhaps never |

Polls are one action for the iteration that ends them; the others change nothing.
Time is abstract: a deadline may pass whenever the code waits.

Nothing keeps two processes out of the one namespace, and no document says that
something does. With `Rivals` the properties about the cluster hold for sessions that
were `alone`; those about the tool (whole results, an end, no work in a namespace that was
never annotated) hold in any case.

### DebugSession

What a session is to the rest of the program: the calls of DebugNamespace, and between them
pods that come and go and a `work` that ends well or not. It is the abstract
specification of both sessions, `work <-` the result or the answer, and what CommatrixRun is
built on, so that the composition uses nothing the detailed modules do not keep.

### SSCollector and NodeCollection

`generateSS`, `NewCheck` and `GenerateSS`. Each goroutine has a program counter
with one action per blocking call or access to shared state: create the pod, wait for it, `ss`
for TCP, `ss` for UDP, `Lock`, three appends, `Unlock`, `DeletePod`. An error jumps
to what the goroutine has deferred by then (`Fail`), so a pod that could not be waited
for is *not* deleted, as in the code. The slices hold the node instead of its output;
that is enough to tell a lost, doubled or misordered append. `holder` is a set so that
a broken lock would show. `Wait` is `g.Wait`: all goroutines, then the first error.

`NodeCollection` is what the caller is promised: a set of expected nodes, each reports
once in some order, success only when all did. `SSCollector` implements it with
`order <- ssUDP` (the last of the three appends is the moment of the report),
`outcome <- result`.

### DHCPProbe

The other session: nodes asked one after the other until one says `auto` or cannot be
asked. Unlike `GenerateSS`, the pod's deletion is deferred before the wait. `auto` is
the truth about the nodes; `Exec` may answer "quiet" for any node, because the pipeline
it runs reports the exit status of its loop.

### SocketReport

What a goroutine of SSCollector does on its node, `createSSOutputFromNode`: two `ss`, one `ip
addr show lo`, then per line a read of `/proc/<pid>/cgroup` and a `crictl ps`. The node goes on
between these commands (`Exit`, `Spawn`, `Stop`). A line of `ss` is an address, a port and a
process. An address is what `isLoopbackEntry` looks at: whether `net.ParseIP` can take it as it is
printed (`form`), whether it is a loopback one, whether `ip addr` lists it on lo, and which of three
substrings its text has. `reused` is a ghost: the process numbers that another process
got after `ss` printed them. A line without a numeric port makes `parseComDetail` return
nil, which `toComDetails` dereferences: stage `panicked`.

### CommatrixRun

`Run` over runs: flags, cluster facts, DHCP session, matrix, socket session, files, with the
sessions of DebugSession. `files` is the directory: for each name, the run that wrote it last and
whether it is whole (`os.WriteFile` truncates first). `todo` is the order of writing: a sequence of
sets, a set being a loop over a Go map. A `Kill` may hit anywhere, also in the middle of a file.

### ComMatrix, ComMatrixMerge, MatrixDiff

An entry is a key – (NodeGroup, Protocol, Port), numbered in the order `SortFunc` compares – and the
rest of what is said of it. `ComMatrixMerge` is the loop of `Merge` and
`SortAndRemoveDuplicates` with its `allKeys`, followed by an unstable sort: any
ordering permutation. `MatrixDiff` is the two loops of `Generate` with the
map keyed by the *whole text* of an entry, the deduplication by *key*, and what
`String` and the `Get…` functions read off.

### RangeSquash

`Squash`, its unstable sort (any bijection into sorted order), `CanMerge` and `Merge`.
Inverted ranges are inputs, since neither `GetDynamicRanges` nor the CSV parser orders
bounds.

### MergedOutput

`writeMergedMatrix` around both: the entries are merged with the steps of ComMatrixMerge, the
ranges squashed with those of RangeSquash, the entries separated by group, and then there is one file
per group in the order of a map. A file is the elements of the sets in its two rules, as
`ToNFTables` prints them: the ports of the group's entries, and the ranges with the bounds they
have, inverted or not, which all groups share. What `nft` makes of a file is external: `Accepts`
is what the elements let in, `Loads` that it takes the file – it refuses an empty set
(`udp dport { }`) and a range whose end is below its beginning, and is taken to accept
elements that overlap.

### NodeGroups

The flags `--custom-node-group` (`parseCustomNodeGroups`: malformed, named twice, or a map from
group to selector), then pools from the annotation, or else node pool labels and roles, for all
nodes; then the overrides, as the two nested loops over maps they are: `left`, `todo`
hold what has yet to be visited and any element may be next. A selector is the
set of nodes it matches.

### ExposedPorts, MatrixRows and MatrixCreation

`ExposedPorts` is `LoadExposedEndpointSlicesInfo`, one service per step through its skips
and filters, and `ToComDetails`. A service is what three independent List calls say
about it, so its pods need not match its slices. A port is a protocol and a number,
because the filters match container ports by number alone.
`MatrixRows` is a matrix as rows of CSV: `ToCSV`, which puts ranges under the headers of the
ports, and the parser of the custom file, which tells the two apart by a hyphen. A text is what its
hyphens leave of it.
`MatrixCreation` is the rest: the facts `Run` checks (platform, topology, IPv6, DHCP),
`endpointslices.New`, and `CreateEndpointMatrix` with `GetStaticEntries`, the second listing of
the nodes and the expansion of static entries by role, the range of the node ports, the
custom file, the deduplication. `ClusterChanges` may change the nodes between any two
steps. The content of the static tables is a constant; which tables apply is modelled.

## 3. The runs

Run with `tlc -config X.cfg M`. "Violation" runs document a disagreement (section 5).

| run | module, cfg | instance | distinct states |
|---|---|---|---|
| `ss` | MCSSCollector | 2 nodes, a rival, any number of sessions | 91,830 |
| `dhcp` | MCDHCPProbe | 2 nodes, any of them with DHCP, a rival | 215,716 |
| `socket_report` | MCSocketReport | 2 process numbers, 2 containers, ≤ 3 lines, 8 addresses | 2,274,316 |
| `command` | MCCommatrixRun | 1 node, 2 groups, formats csv and mc, 2 runs | 532,456 |
| `squash` | MCRangeSquash | all lists of ≤ 3 ranges in 1..3, 2 classes | 322,598 |
| `merged_output` | MCMergedOutput | all pairs of lists of ≤ 2 entries, 4 keys, 2 descriptions, or one list; 14 lists of ranges | 1,374,460 |
| `diff` | MCMatrixDiff | all pairs of sorted matrices over 3 keys, 2 descriptions | 5,832 |
| `node_groups` | MCNodeGroups | ≤ 3 nodes of 5 kinds, ≤ 2 flags | 163,789 |
| `creation` | MCMatrixCreation | 2 nodes, 3 groups, ≤ 2 of 9 services, 4 listings, 6 settings, 6 files | 727,632 |
| `keep_retrying` | MCSSCollector, MCKeepRetrying.cfg | 2 nodes | violation |
| `dhcp_detected` | MCDHCPProbe, MCDHCPDetected.cfg | 2 nodes | violation |
| `loopback` | MCSocketReport, MCLoopback.cfg | as `socket_report` | violation |

The inductive invariants of most modules are checked too, type correctness included: as `IInv`,
`SocketInv` and `OutputInv` (which has the `IInv` of ComMatrixMerge and the `SquashInv` of RangeSquash as conjuncts). They are what
the proofs of section 4 rest on, and TLC finds out first whether they hold.

**`ss`.** Every interleaving of goroutines, API errors, lost answers, evicted pods,
crashes, reruns, and a rival.
`KnownClean`: when the tool has seen a removal finish and sent no Create since, there is
neither namespace nor debug pod of any session. `NoTerminatingRace`: a session that begins
then, alone, works in an active namespace it shares with nobody's pods. `ResultWhole`: a
result means that every listed node is in all three slices, once, in one order.
`NoUseAfterDelete`: the deferred deletion never overtakes a goroutine.
`PodsOnlyWhenAnnotated`: pods are created only after the annotation was there.
`SessionEnds`: no goroutine waits for the mutex forever and `g.Wait`
returns. `ImplementsCollection`, `ImplementsSession`: the refinements of NodeCollection and
DebugSession. Two nodes are enough to meet in the lock, and for one goroutine to fail while the other
goes on; symmetry is unsound for liveness and not used. Sessions are not bounded, since
nothing counts them. The rival's pods and its namespace are the only trace of it, so one stands for
any number.

**`dhcp`.** `AnswerJustified`: "no" means that every listed node was asked in a running pod
and none reported DHCP; "yes" has a witness. `OnePodAtATime`: the pods alive are that of the
node being asked and those whose own Create or Delete went wrong. `ProbeEnds`,
`ImplementsSession`.

**`socket_report`.** `RowPerSocket`: every socket that listens to the outside has its row, in the
order of `ss`, whatever has become of its process and container: a failed lookup costs
names, never the port. `NamesJustified`: a container that is named is the one whose process
`ss` saw, unless the number has been used again since – the one way in which the lookup
misleads. Two lines of TCP with one process or two, before one of UDP,
let a number be read, reused and read again.

**`command`.** `SuccessIsComplete`: a run that returns nil has written, whole and in that run,
each artifact its flags call for. `FilesNeedWork`: a run that has
touched the directory has ended its sessions and they went well. `RunEnds`.
csv stands for the formats with one file (csv, json, yaml), mc for those with one per group
and a patch (butane, mc); two runs are the fewest with files to overwrite.
Open ports are a flag independent of the format, as in the code. The rival is left to the
two runs above, which show that a session with one is a DebugSession still.

**`squash`.** `CoverageKept`, `MandatoryKept`: no port is opened or
closed, nothing mandatory becomes optional only. `SquashIsCanonical`:
for ranges in order the result is the maximal runs of covered ports – a reference
definition over sets, independent of sorting. Three ports are enough for ranges to nest, touch,
overlap, coincide or leave a gap of one.

**`merged_output`.** `DedupKept`: the result of the merge is *the* list of first entries in ascending
order. `AcceptsExactly`: a run that ends has a file for each group of either matrix, and its rules
accept what the two matrices have for the group, what the ranges cover before they are squashed, and
nothing else. `RulesLoad`: which inverted ranges keep the files written, also by a run that fails at
another, from loading. Each file loads if every inverted range is folded into one that begins before
it and reaches up to it, so always when there are none; a file loads only if a range covers the lower
bound of each inverted one, or the port before it. Between the two lies a range that begins at the same
port: whether it takes the inverted one in or leaves it to be printed is up to the unstable
sort. The four keys have an entry without a group, one of SCTP, a group with
TCP and one with UDP only, so that a set of rules may have nothing but ranges. The lists of ranges begin
with one of each protocol, as those of `GetDynamicRanges` do (`NodePortsAssumption`); the others
touch, leave a gap, are inverted alone, beside one that takes them in and beside one that may, and one is of a
protocol that has no rule.

**`diff`.** `DiffPartitions`: the three parts have the keys of the two differences and of the
intersection, also for flows described differently. `PrimaryRecoverable`: the unprefixed
and the "+" lines are the primary matrix, word for word.

**`node_groups`.** `GroupsExact`: the groups are a function of the labels and the flags,
whatever the order of the maps, but for nodes with several roles none of which is known;
there is an error exactly when the flags contradict each other, one is none, or a node
has no role where one is needed. So the two maps of one run agree when its
listings do. Three nodes let two selectors overlap on one and differ on the others.

**`creation`.** `FlowsExact`: the flows are those of the three sources, stated without loops, and no
row of the custom file is lost. `ReadBack`: the CSV written is read back to the entries and ranges it
came from. `StaticsFollowRoles`: static entries follow the roles of the second listing into the groups
of the first. `FirstSourceStands`: what the cluster says of a flow stands before the static table, and that before
the file. The nine services have each kind the loop skips, keeps or fails
on; the four listings gain, lose, move and unlabel nodes; the settings have an unsupported
platform and topology, an inverted range and one that does not parse; the files a malformed
row of each kind.

**Deadlock** is checked in the session modules, where a rerun is always possible; the others stop when
done, or after `MaxRuns`.

**Fairness.** Weak fairness on the calls of the tool, and no more. For the sessions and
`Run`: polls have deadlines (`PollUntilContextTimeout`), requests to the API server answer, a
goroutine that can go on does. Commands in a pod (`RunCommandOnPod`, utils.go:213) have *no*
timeout in the code; that they return is assumed, and without it none of the
liveness properties holds. Nothing is assumed of the cluster: the namespace need never be
annotated or finalized, pods need never run, and the deadline answers for that. No session, run or crash has to
happen.

**Mutants.** PROJECT.json has, for each property of each passing run, a variant of a modelled
definition under which TLC finds it violated: an append without the lock, an errgroup
left at its first error, a removal not waited for, a key not remembered, a range
ended where the later one ends, a container named after the line before.

## 4. The proofs

`tlapm M.tla` checks a module from nothing (SourcesProofs takes about three minutes, the others less).
All leaves are proved, and nothing is assumed beyond the named `ASSUME`s of the modules, which type
the constants or say what the code's callers, Go or Linux guarantee; TLC evaluates each for the constants of
the runs. Each invariant below was checked by TLC before it was proved.

**SSCollectorProofs**, for every set of nodes – no assumption on `Nodes`, which need not
be finite.

- `TypeCorrect`, then `Invariance`: `IInv == TypeOK /\ ClusterInv /\ PointsInv /\ LockInv /\
  OrderInv`, proved conjunct by conjunct, each with one step per action (`TypeStep`,
  `ClusterStep`, `PointsStep`, `LockStep`, `OrderStep`).
  - `PointsInv` says where goroutines can be for each point of the caller, and what that
    says about errors and the result. It is needed because "the namespace outlives them"
    is a fact about both.
  - `LockInv`: `holder` is the set of goroutines between Lock and Unlock, at most one.
  - `OrderInv`: the slices agree but for what the holder of the lock has yet to append.
    This is what makes `ResultWhole` inductive: while someone appends, the slices do differ.
  - `ClusterInv` ties `dirty` and `fresh`, which speak of what the tool saw, to the cluster.
- `RemovalIsKnown`, `RaceAvoided`, `ResultIsWhole`, `NamespaceOutlivesWorkers` follow from
  `IInv`; `PodsNeedAnnotation`, an action property, from `IInv` and one step.
- `Refinement`: `Spec => ImplementsCollection`. Initial states map to initial states;
  `AppendUDP` maps to `Report`, `Wait` to `Succeed` or `GiveUp`, a crash to `Lose`, the rest to stutters.
- `SessionRefinement`: `Spec => ImplementsSession`. The calls of the namespace map to themselves,
  `CreatePod` and `DeletePod` of a goroutine to those of the session, `Wait` to `EndWork`, what
  goroutines do among themselves to stutters. `IInv` is needed for the pods:
  no goroutine is at work unless the session is.

All of them hold with rivals and without, as `Rivals` is only assumed to be a Boolean.

**DHCPProbeProofs**, for every set of nodes, with rivals and without.

- `Invariance`: `ProbeInv` says that at most one node is being asked, where, and that a node with a
  verdict is one of the list; a listing is not empty once a session is under way. That last fact
  is what "no" needs: without it the answer of an empty list would be the answer of no node.
- `AnswerIsJustified`, `PodsComeSingly` are conjuncts of the invariant.
- `SessionRefinement`: `Spec => ImplementsSession`. What is asked of a node maps to the pods of the
  session, the answer to `EndWork`.

**CommatrixRunProofs**, for any nodes, formats, flags and number of runs.

- `Invariance`: `StageInv` says where the session may be at each stage of `Run`, and what `work` then
  is; `WriteInv` that a file is whole and of this run once it is no longer in `todo`. The files begun by
  each format are computed for a list of any groups (`FilesBegun`).
- `SuccessMeansComplete`, `WorkBeforeFiles`. Both need the stages: that a session which failed leads
  to no stage in which files are written is a fact about the order of the deferred calls.

**NodeGroupsProofs**, for any finite listing and any list of flags; maps are visited in any order.

- `Invariance`: `LoopInv` describes the two nested loops by what `left` and `todo` have yet
  to visit: a node is matched by exactly the groups that have visited it, and `prevLen` is the number of
  nodes of the groups that are finished. Listings and labels must be finite, or the comparison of lengths
  by which the code notices a group without nodes would mean nothing.
- `GroupsAreExact`: errors from `MatchedTwiceIsContradictory` and `NoGainIsContradictory`, groups from
  `Outcome`.

**MergedOutputProofs**, for matrices of any length over any keys and groups.

- `MergeInvariance`, `MergeDedup`: the loop keeps the first entry of each key among those visited.
  `KeysOf(res) = seen` had to join the invariant: that an entry is dropped only if another of its key was
  kept does not follow from the set of first entries without it.
- `Invariance` of `OutputInv`, then `MergedOnce`, `FilesAcceptExactly`, `FilesLoad`. The steps of the
  merge keep `IInv`, those of Squash `SquashInv` and `PlacesInv` by the lemmas of RangeSquashProofs, and
  from the moment the groups are separated all three are about lists that change no more.
- `FilesLoad` rests on three facts about the ranges that Squash leaves. They are sorted and apart, so one
  that begins before another of its class ends before it, with a gap: an inverted range with something
  reaching up to it is never left (first direction). Each given range went into
  one that begins with it or reaches up to it (`PlacesInv`): when that one is not inverted, it covers the lower
  bound or the port before, and so does some given range, as Squash keeps what is covered (second
  direction). And no class that is given is lost, so with `NodePortsAssumption` no set is empty. `PortsOfRangesAssumption` says that `Ports` has the
  lower bounds and the ports before them; `Ports = Int` satisfies it.

**MatrixDiffProofs**, for matrices of any length, sorted and without repeated keys
(`MatricesAssumption`; both come out of `SortAndRemoveDuplicates`).

- `Invariance`: `FirstsInv`, that each key of the joined list has a first entry, is
  carried along the loops, so that it needs no induction over the list.
- `DiffIsExact`, `DiffReadBackwards`.

**SourcesProofs** has the two sources of matrices, which share the lemmas on `Select`.

- `Selected`, `SelectedElements`, `SelectInterval`: the entries at the indices of a finite set, each
  once and in order. That a finite set of numbers can be counted in ascending order is an induction; it
  is done by the least counterexample (`Least`), for which the library has a theorem
  without operator parameters.
- `SocketInvariance`, for any number of sockets, processes and containers. `PrintedInv` says
  that the owner `ss` saw still owns the process number, is gone, or the number is
  in `reused`; it is what makes `NamesAreJustified` survive three commands. `EverySocketHasItsRow`
  follows from the lines being a function of what `ss` and `ip addr` printed.
- `CreationInvariance`, for any services, listings, settings, tables and files that the parsers can meet.
  Each source has its part of the invariant (`LoadInv`, `ExposedInv`, `StaticsInv`, `FileInv`), stated
  over keys, not lists; `MatrixInv` says which of them a flow of the matrix comes from. The loop needs to
  begin at the first service with nothing kept, whatever came before (`next = 1`).
- `FlowsAreExact`, `StaticsAreWhereRolesAre`, `ClusterStandsFirst` follow. `FilesReadBack` is of the
  operators: the rows `ToCSV` writes are told apart by their hyphens (`WrittenIsRead`).
  `ProtocolAssumption` says that a port is determined by its protocol and number, `PortsAssumption` that
  the ports of the model include those a file names.

**RangeSquashProofs**, for lists of any length, ranges of any shape, any ports and classes –
under `ClassesAssumption`, `InputsAssumption` and `PortsAssumption`, which type them.

- `SquashInvariance`: `FoldInv` says that the result covers what was folded so far, is made
  of ranges apart, and that its last range comes before all that follows – the fact
  that makes looking at the last range only sufficient.
- `CoverageIsKept`, `MandatoryIsKept`, `ResultIsSeparated` follow.
- `PlacesInvariance`: what Squash leaves begins with a given range, and each given one, inverted or
  not, went into one that begins with it or reaches up to it. `SquashInv` speaks of what is covered and so says nothing of a
  range that covers nothing; this is what MergedOutputProofs needs of it.
- `SquashComputesRuns`, for lists without inverted ranges. `RunsInv`, proved as a second invariant on
  top of the first (`RunsInvariance`), says that each range of the result is made of given ones, each given
  one lies in one of the result, and a range of the result is mandatory because of one in it. With what
  keeps the result apart, its ranges are then maximal runs (`FoldedIsRun`), and two runs that share a port
  are the same (`RunsMeet`), so none is missing (`EveryRunIsThere`). With inverted ranges the statement is
  false: one of them may be all there is of a class and covers nothing.

**Only model-checked.** `SessionEnds`, `ProbeEnds` and `RunEnds`: liveness, since the provers handle
neither fairness nor ENABLED. Every other property of a passing run is a theorem. What a recursive
definition computes for all inputs is out of reach of the installed provers, so the modules have none.
The properties of the runs that end in a violation are false, and shown so on their instances.

## 5. Where code and comments disagree

- **The removal is not retried** (`keep_retrying`). In the poll of `DeleteNamespace`
  (utils.go:146) a failing Get returns its error from the condition, with the comment
  "keep retrying". An error from the condition ends `PollUntilContextTimeout` at once. The run
  shows a session over while its namespace terminates and no deadline has passed.
- **A node with DHCP may be overlooked** (`dhcp_detected`). `IsDHCPEnabled` "detects
  whether any active network connection on any node uses DHCP" (utils.go:379). Its
  command (utils.go:428) is `nmcli … | while …`, whose status is the loop's: when `nmcli`
  fails there is neither output nor error, and the node counts as one without.

- **A socket of the node may count as loopback** (`loopback`). `isLoopbackEntry` "checks if an ss
  entry is listening on a loopback interface or its aliases" (listening-sockets.go:284). `ss` prints
  `[fd00::14]:9100`; `strings.Trim` takes the first bracket off, `net.ParseIP` fails on what is
  left, and the fallback (line 309) finds "::1" in the text. The socket has no row.

Behaviour the models have and no document speaks against, listed among the hazards: only the first slice
and the first pod of a service are looked at; container ports are matched by number
and not by protocol; which of several services names a shared flow is left to a map;
a node that joins between two listings has the group ""; files of old groups or
formats stay in the directory; two processes of the tool at one time share the namespace; a
line of `ss` without a numeric port is a panic; an entry without a group, or of SCTP, is in no
firewall; a host with an address like 10.127.0.0 has it taken for a loopback one by its text; an inverted
range, of a custom file or a misconfigured cluster, is printed as it is into the rules of every group, and nft
loads none of them (`RulesLoad` says when).

## 6. What is not modelled

- *Text.* The wording of JSON, YAML, nftables, Butane and MachineConfig; the fields of an entry
  that decide nothing (direction, namespace, pod); the name of the service in a line of `ss`; decoding by
  libraries (JSON, YAML, label selectors). That rendering may fail, and when, is in `Write` of CommatrixRun;
  what the rules accept is in MergedOutput.
- *`Validate` and `Complete`* but for the flags of groups: checks of flags and one `MkdirAll`, a
  step of CommatrixRun that may fail.
- *The Butane version*: `resolveButaneVersion` (machineconfig.go:110) takes two numbers of the
  cluster's version and caps them; the version is in the text of the file and in nothing else.
- *Negative ports* in a custom file: `strconv.Atoi` takes them, a hyphen makes a range of them.
- *Client, constants, error handler*: wiring. What the handler does not recover is the
  crash of the session modules.
- *Mocks, tests, samples, vendored code.* Tests and documents were read for what they say.

## 7. Plan

The order is by weight: what lasts beyond the process first (namespace and
pods), then what runs concurrently, then what computes the result, then the command around
it. All of section 2 is done, and all of its safety properties and refinements are proved. What is left:

1. Facts the properties lean on between modules: that `GetDynamicRanges` gives both protocols
   (`NodePortsAssumption` of MergedOutput, from MatrixCreation), and that the matrices of the diff are
   ascending (`MatricesAssumption` of MatrixDiff, from `DedupKept`).
2. More action properties of the sessions: what a step may not do to a namespace that another
   process is in.
3. The lemmas on lists of entries that MatrixDiffProofs and MergedOutputProofs both have
   (`EntryKeys`, `AppendElements`), stated once.
