# Intent Fabric: TLA+ models and proofs

Intent Fabric (C++17) keeps the authoritative desired state of one *intent
domain*. A client proposes a whole document; the runtime validates it, compares
it with the committed generation, and commits it as the next generation of a
durable store. This directory models that program in TLA+: the store and its
crash recovery, the transaction runtime and its subscriptions, the server's
threads and its protocol, the decoding and upgrade of documents, and the rules
that decide whether a document may be committed. TLC
checks the models on small instances; TLAPS proves their safety properties for every
value of the constants, and that the store and the runtime implement one log.

Paths like `src/store.cpp` are those of the repository. `PROJECT.json` maps each
definition to the lines it stands for, and lists the hazards the properties are
aimed at.

## 1. Inventory

| Component | State | Operations | What is hard | Correct when |
|---|---|---|---|---|
| Durable store `src/store.cpp`, `io.cpp` | `records/`, `head.json`, its backup, `lineage.log`; in memory head, epoch, retention counter | `create`, `open`, `commit`, `prune_before`, `load` | a commit is several file operations, with kills and errors between any two; recovery has two head candidates; records are found by number and numbers are given out again | committed generations are neither lost nor rewritten nor built on a head the writer did not read; a store that was killed opens again |
| Store directory `src/store.cpp`, `io.cpp` | `store.json`, `lock`; each process with the lock file it has open | `create` and `open` up to the lock, `FileLock::acquire`, `release` | several processes; tests made before the lock and used after it; a lock on a file, not on its name | one process is in the store; it works on what is there; a kill leaves a directory that can be created or opened |
| Runtime `src/runtime.cpp` | table of proposals, identity index, shutdown flag | `propose`, `validate_proposal`, `commit_proposal`, `submit`, `cancel_proposal`, reopening | `submit` lets the mutex go between stages; clients retry; the table is bounded and compacted | what is committed passed validation against its very parent, once, and was not cancelled |
| Subscriptions `src/runtime.cpp` | a bounded queue and a drop counter per subscriber, one publication counter | `subscribe`, `unsubscribe`, `poll`, `publish_locked` | slow subscribers overflow; snapshots and publications share the counter | nothing is lost without being counted, nothing arrives twice or out of order |
| Server `src/net.cpp` | accept loop, queue of connections, active connections, workers, `stopping_`, `finished_` | `run`, `worker_loop`, `serve_connection`, `finish`, `shutdown`, `request_stop` | workers sleep on a condition; three ways to stop; closing sockets others read from | no lost wakeup, no untracked connection, a stop is carried through |
| Validation `src/validate.cpp` | the report | seven layers of rules, `add` | layers are judged one by one, but what an operator relies on follows from several of them | an eligible document is connected, redundant, within capacity, without contradictions |
| Conflicts `src/conflict.cpp` | none | seven rules | scopes of different kinds meet on one device | contradictory policies are found |
| Index `src/index.cpp` | maps by identity | lookups, scopes, failure domains, reference cycles | an iterative Tarjan search with hand-kept stacks | every cycle is reported, and nothing else |
| Canonical form and diff `src/canonical.cpp`, `diff.cpp` | none | `normalize`, `diff_documents` | duplicates and ties; merging two sorted maps | order of declaration changes nothing; the diff says everything |
| Decoding and migrations `src/model_json.cpp` | none | JSON to document and back, migrations 1.0 to 1.3 | members renamed on the way; a strict reader beside a writer that puts nulls and defaults; signed and unsigned numbers | a text is read as it was meant, and a record reads back the same |
| JSON, types, digests, clocks `src/json.cpp`, `types.cpp`, `model.cpp`, `core.cpp` | none | parsing, printing, arithmetic | widths of numbers | not modelled, but for the values the other models use |
| Protocol and client `src/net.cpp` | the session of a connection, one request in flight, the fence and identities a client remembers | hello and 13 further requests, `submit`, `commit` | a lost answer, retries on another connection or after a restart, fences that travel as a bare number, a shutdown request racing commits | an acknowledged commit happened, on the head its fence stands for; after a shutdown was confirmed nothing happens any more |
| Synthetic fabrics, command line `src/synth.cpp`, `cli.cpp`, `tools/` | none | generators, printing | nothing | out of scope |

How they meet: a worker thread of the server decodes a frame and calls the
runtime, which holds one mutex for the whole call, store write included. The
runtime calls validation and the diff, which are pure, and then the store, which
has no lock of its own inside a process and a lock file against other processes.
Subscribers are polled; nothing calls back. So interleavings arise in four
places: between calls of the runtime, between the threads of the server, between
the file operations of the store and the end of its process, and between the
processes that create and open one directory.

## 2. Modules

| Module | Models | Its relation to the others |
|---|---|---|
| `IntentLog` | the abstract promise: a log of committed contents that grows one at a time while served, and that a restart may cut at its end | implemented by `IntentStore` and by `IntentRuntime` |
| `IntentStore` | `store.cpp`, `io.cpp` | refines `IntentLog` |
| `IntentDirectory` | `create` and `open` of several processes, `FileLock` | a commit is one step here, its files are those of `IntentStore`; shows why that has one process |
| `IntentRuntime` | `runtime.cpp` | assumes of the store what `IntentLog` says, and implements `IntentLog` with validated documents |
| `MCIntentRuntime` | its symmetry for TLC | |
| `IntentSession` | sessions, requests and answers of `net.cpp`, with clients that lose answers and try again | extends `IntentRuntime`: each request is the runtime's own action, and an answer |
| `MCIntentSession` | its symmetry for TLC | |
| `IntentServer` | the threads of `net.cpp` | calls of the runtime are one step that changes nothing here |
| `IntentSchema` | `model_json.cpp`, `parse_speed_bps` | decides which documents the other modules see |
| `MCIntentSchema` | the objects TLC looks at | |
| `DirectedGraphs` | graphs as sets of edges; cycles as they are defined (`Cycles`) and computed (`CyclesFound`) | used by the next four |
| `ReferenceCycles` | `detect_reference_cycles` step by step | finds `Cycles`; the validation model takes `CyclesFound`, which is the same |
| `IntentDocument` | documents, `TopologyIndex`, `normalize`, `diff_documents` | extended by `IntentConflicts` |
| `IntentConflicts` | `detect_conflicts` | extended by `IntentValidation` |
| `IntentValidation` | `validate_document`, and the comparison `validate_proposal` makes after it | refines what `IntentRuntime` calls `Valid` |
| `MCIntentValidation` | the documents TLC looks at | |
| `IntentStore_proofs`, `IntentDirectory_proofs`, `IntentRuntime_proofs`, `IntentSession_proofs`, `IntentServer_proofs`, `IntentSchema_proofs`, `ReferenceCycles_proofs`, `IntentValidation_proofs` | | theorems about the module each is named for; those of sessions rest on those of the runtime |

They were written in the order of risk: what a restart can destroy, what two
actors can do to each other, what threads can do, and then what one call decides.

### IntentStore

State. `records`, `rotten` (the unreadable ones), `head`, `bak` and `journal` are
the directory; `memHead`, `epoch`, `incarnation` and `retained` are the process;
`phase` says between which two file operations it is. `authority` is the last
head that was in force; `minted`, `issued` and `skipped` are history and appear
in properties only. A head pointer *is* the record it names. A digest
is a value that distinct inputs never share: the head digest chains, so it is the
sequence of the payloads of a generation and its ancestors.

Actions. `BeginCommit` is `commit` to its first write, with every check in the
code's order and the fence of any token ever issued. `WriteRecord`,
`AppendLineage`, `TruncateBackup`, `FillBackup`, `ReplaceHead` are its file
operations; `NoBackupNeeded` and `SkipBackup` are the two ways to go without a
backup, of which the second is a silently ignored error; `CommitFails` is an
operation that reports one. `Crash` ends the process anywhere, also in the
middle of a prune. `OpenGenesis`, `OpenCommitted`, `OpenEpochExhausted` and
`Sweep` are the paths of `open`. `PruneBefore` is `prune_before`. `Damage...` is
a file that rots at rest.

The records' text, `list` and `verify_all` are left out. One process has the lock
at a time and the directory has a descriptor: that is `IntentDirectory`'s part.

### IntentDirectory

`proc` says where in `create` or `open` a process is, the domain it was given or
read from the descriptor, the lock file it has open and its head in memory.
`Create` and `Open` are the tests and reads before the lock, `OpenLockFile` and
`Locks` the two system calls of `acquire`: the lock is on the file that was
opened, so the model has several files that can be found under the name.
`WriteDescriptor`, `InstallDescriptor` and `CreateFails` are the atomic write of
the descriptor, which follows without a second test; `Recovers` is the choice of a
head, which verifies if it is of the reader's domain; `Commit` replaces head and
backup. `Leave` is everything that ends with the lock gone and the files as they
are: closing, a kill, an error of `open`, a lock that is busy. `replaced` counts
descriptors that a later creation replaced, and appears in properties only.

### IntentRuntime

Every call is one step, since it holds the mutex throughout; `submit` is three.
`Room` is `evict_if_needed`, with the compaction (`Kept`: the live proposals, each
at its place among them) and the index that follows it, and `RefuseAtLimit` the refusal that leaves moved-from proposals behind. Tokens
are arbitrary ones a client can hold. `Crash` and `Reopen` lose all of it and
recover the log as `IntentLog` allows. `validate_document` is a constant set
`Valid` here. Every commit is published at once: the option `publish_on_commit`
is taken to be set, as it is by default.

### IntentSession

The runtime of `IntentRuntime` with connections around it. A client sends its next
request when the last was answered, so reading a request and its effect are one
step and there is no need for a queue of frames; the answer is a step of its own,
which may fail. `worker` says where the worker of a connection is, `session` what
`serve_connection` keeps, `memory` what the client knows: the fence of the last
hello or commit and the last identity, both of which any client may use, since
they are numbers and strings. `Propose` calls the runtime twice, so it is two
steps. The history in a fence (`saw`, `incarnation`) is what a property needs and
the server never gets: over the wire a fence is a number. `ServeOther` is every
request that only reads and every one that is refused before the runtime is
called. `RequestStop` is what the worker does after a shutdown request, also one
that was refused. `ProcessEnds` is a kill at any moment or the end of `serve`, and
`ProcessStarts` the next `serve`, with whatever log the store recovered.

### IntentServer

Program counters for the accept loop (`run`), each worker and each call of
`finish`. A critical section of the mutex is one step, with one exception: the
loop of `finish` that closes sockets, because a worker may close its own without
the mutex. Clients connect, send any sequence of frames and hang up when they
like. `CloseWakes` says whether closing a socket ends a read another thread is
in, which Windows sockets do and POSIX sockets do not; `close_socket` calls
`closesocket` or `close`. Spurious wakeups and descriptors that are handed out
again under the same number are left out.

### IntentDocument, IntentConflicts, IntentValidation

A document is a record of sequences of declarations, duplicates included; names
are numbers. Sets that normalization sorts are sets. `Diff` matches the declarations of a
collection by identity if both sides have some and all of them have one, by position
otherwise (`IsKeyed`). `Normalize` has the
comparison of `sort_by`, including the partial serializations that decide ties.
Each validation layer is an operator that yields its findings (severity, layer,
code, the identity and the field they are about), and an action that adds them to
the report. The report is bounded as `add` bounds it; which findings of the layer
that reaches the limit still fit depends on the order in which the code looks, so
the model leaves it open. A finding is reported once here: a repetition would only
fill the report sooner. The devices of a scope are a set (`DevicesOf`), and the
order in which the index lists them is an operator of its own (`ListedBefore`). The five loops of the invariant layer are five actions,
because that is where a full report bites first. Ranges of single fields in the
syntax layer are one number, `flaws`.

### IntentSchema

The reader, the writer and the migrations treat every object of a document alike,
so a behaviour follows one object of one of 24 kinds through `upgrade_to_current`
(`MigrateTo11`, `MigrateTo12`, `MigrateTo13`, `FinishUpgrade`), `parse_document`
(`Parse`), `to_json` (`WriteRecord`) and `from_json` of the record (`LoadRecord`).
The 24 tables are the calls of the parsers and writers, member by member: the
reader it is given to, whether it must be there, its default, and whether the
writer puts it. `Write` is the writer's conversion: the sign of a number, null for an
empty identity, and in a list of identities the class and a dot, which stands for nothing
(`Prefixed`). A value is its kind and what some reader tells apart in it. A
policy's body is an object of its own. What a member of an object holds besides
its own members (the items of a collection) is another object.

### ReferenceCycles

The graph is any graph. One step is one turn of the inner or the outer loop, and
the variables are those of the code, `onStack` as a set. The code keeps a sorted list
of targets per node and the position in it; the cursor of a frame is the target at
that position, the last that was passed. A cycle is defined without a search: the nodes
that lie on a path from a node to itself, where what paths reach is the least set
that the edges do not leave (`Beyond`). The documents of `IntentValidation` get
their cycles from `CyclesFound`, which TLC can compute for more nodes.

## 3. Runs

| Run | Question | Bounds |
|---|---|---|
| `store` | Do kills between any two operations, a failing operation, prunes, two rotten files and two restarts lose, rebase or confuse generations, or keep the store from opening? | 1 writer, 3 payloads, 3 generations, 3 opens, 1 failing operation, 2 rotten files, 2 epochs, prunes that keep 1 or 2 |
| `store_durability` (violated) | Do committed generations survive a kill, as the README says? | 4 payloads, 3 generations, no failure |
| `directory` | Do processes that create, open, use and leave one directory in any order get in each other's way? | 3 processes, 2 domains, 2 payloads, 2 lock files, 2 descriptors, 2 generations |
| `runtime_proposals` | Two actors and a submitting thread on a table of two, with restarts and a subscriber | 2 documents, one invalid; 3 identities, 2 generations, 2 processes |
| `session` | What do clients of a server learn, do twice, lose or miss? | 2 connections, 2 valid documents, 2 identities, 2 generations, 2 processes, 1 subscriber with a queue of one |
| `runtime_limit` (violated) | Does a live proposal keep what it captured, in a runtime used through `submit` alone? | a table of two, one client |
| `server_pool` | Threads and clients in any order | 2 connections, 2 workers, 1 pending, 1 frame, sockets that wake their readers |
| `server_join` (violated) | Does shutdown end with POSIX sockets? | the same |
| `document_verdict` | Is an eligible document what its readers rely on? | the 25,575 states of 1,734 documents on three devices, see below |
| `document_hidden` (violated) | Does a document with an error ever pass? | a report of two |
| `schema_text` | Is a text of any minor read as it was meant, and what is kept of it read back? | every object with one member left out, added, renamed or replaced by any of 40 values |
| `reference_cycles` | Does the search find exactly the cycles? | every graph of 4 nodes and at most 6 edges |

Why the bounds are enough. *Store*: two kills are needed for the interesting
histories (one leaves debris, one falls back), hence three opens; a stray record
needs two payloads under one number and two generations after it; a backup falls
behind only after a failing read. With `MaxEpoch = 2` the store also runs out of
epochs. *Directory*: one process that holds the lock, one that waits for it with
what it read before, and a third that comes in between; two files are what it takes
for a lock to miss its purpose; two domains and two creations for a descriptor that
is not the one that was read. *Runtime*: a table of two is compacted, full and refused within three
identities; two generations suffice for a stale base, two processes for a stale
epoch. *Session*: a client that lost an answer needs a second connection to try
again and a second client to come in between; one identity to retry and one to
race with it; two generations, so that a fence can be spent, and a queue of one
that overflows with the second of them; two processes for a fence that outlives
its own. *Schema*: integers of five bits and units 3 and 7 have a speed text that
fits, one beyond the signed range, one beyond the unsigned range and one beyond
what the parser reads; the members of an object are independent of each other but
for the renamed pairs, which are tried together.
*Server*: one pending slot and two connections make the limits bite, two workers
let one sleep while the other serves. *Documents*: a triangle is the smallest
topology in which one lost link leaves everything connected and two do not, and
in which neighbours can share a failure domain; two declarations of each kind
meet on it over every kind of scope, and further documents break one rule of
each layer, repeat an identity or form a cycle. Capacities add up beyond
`MaxBps`, so sums saturate. *Cycles*: four nodes hold two components with an edge
between them, nested loops and self loops.

Symmetry is used where nothing but equality is asked of values and only safety is
checked: the actors of `runtime_proposals`, connections and documents of `session`.
Not elsewhere: payloads of the store are ordered by file name and names by number.

What the properties say, beyond types:

* Store. `NoLostUpdate`: the fence compares numbers that are used again, and yet
  every token a request would be admitted with was issued on the very head the
  commit builds on. `MemoryMatchesDisk`,
  `BackupTrails`: memory, head and backup in every intermediate state. `HeadRecordKept`, `Reopenable`: no operation, however it
  ends, makes the store unopenable. `NoSilentLoss`, `LoadServesCommitted`: what
  was committed stays and is read back, as long as no stray record is in the way.
  `LogSpec`: the whole as one log.
* Directory. `OneWriter` for any creators and openers. `HolderIsCurrent`: descriptor
  and head, read at different times, are still those on disk while a process serves.
  `Serviceable`: no kill leaves a directory that can neither be created nor opened.
  `CommittedStay`: no process takes back what another committed.
* Runtime. `DiffMatchesParent`, `CommitOnce`, `CancelledNeverCommitted`,
  `IndexExact`, `LogSpec`.
* Session. `AckedIsCommitted`: the generation an answer names is in the log for
  the proposal it names, whoever commits before the answer is sent.
  `BuildsOnWhatItSaw`: a commit builds on what its fence stood for, over any
  number of reconnects and retries, which the fence itself does not say.
  `NothingAfterFarewell`: a confirmed shutdown is final. `DropsAccounted`, `GapsAnnounced`: a subscriber polled over any
  connections can tell overflow from loss, and arrives at the head.
* Schema. `FaithfulUpgrade` compares with the exact arithmetic of what a text says
  under its own minor; `NothingIgnored`; `RoundTrip`, on which a restart depends: the
  record is refused exactly if a list of identities has an empty item, and reads back
  the same otherwise.
* Server. `NoLostWakeup`, `OpenTracked`; `RunReturnsLast`, with exactly what is left
  open when `run` has returned; `StopCompletes` and `QueueDrains` are liveness.
* Documents. Each relates the verdict to a definition of its own, not to the rule
  that enforces it: `Connected` (every cut of the devices is crossed by a link
  that forwards, by the partition rule and the state rules together), `Redundant` and `WorkloadsSurvive` (loss of any n - 1 failure
  domains), `WithinCapacity` (plain sums over links that forward), `OneState`
  (no two administrative states reach a device through the containment
  hierarchy), `OrderInsensitive`, `DiffComplete` (the diff applied to the head
  gives the document).
* Cycles. `FindsCycles`: when the search ends, what it reports is `Cycles` of the graph,
  the definition by paths. `Terminates`.

The type invariants but that of `IntentStore`, which is about a counter that could
wrap, document their states; the runs spend their properties on the above.

Preconditions, and why they are there. `OneState` is about documents in which a
device names all that contains it (`Nested`), because nothing in the code checks
that; `OrderInsensitive` excepts declarations the partial serializations cannot
tell apart; `NoSilentLoss` and `Reopenable` except states with stray records,
which the genesis branch of `open` leaves behind, and rotten files; `Reopenable` and
`HeadRecordKept` except a `prune_before` beyond the head, which removes the head's own
record and makes the store unopenable (`KeepCounts` with 0);
`LoadServesCommitted` excepts generation 1 for the same reason;
`BuildsOnWhatItSaw` holds a fence to the process that gave it out;
`FaithfulUpgrade` excepts texts with a member under both names; `WithinCapacity`
excepts scopes with a link that leaves an end empty, which no layer flags;
`WorkloadsSurvive` excepts workloads placed on empty identities alone, which is
nowhere; `RoundTrip` excepts documents with an empty item in a list of identities, which
cannot be read back; `DiffComplete` is about documents that declare no
identity twice, which every eligible one is (`EligibleIsDescribed`);
`StopCompletes` is checked with `CloseWakes` only. Each exception but that of
`DiffComplete` is a divergence of section 5, and the violated runs show what is behind them.

The properties of the directory but `OneWriter` hold until a descriptor is replaced.

Deadlock is checked in `directory`, where some process can always leave or enter, and
nowhere else: clients, actors and the environment may stop for good, a store may be
unopenable, a validation ends.

Fairness. Store, directory, runtime, sessions, schema and documents have safety properties only, and no
fairness. `ReferenceCycles` has `WF_vars(Next)`: one thread runs the loop to its
end. `IntentServer` has weak fairness of the accept loop, of each worker and of
each call of `finish`, because the operating system runs every thread on; a
sleeping worker is not enabled, so weak fairness promises it nothing. Clients
have none. `QueueDrains` therefore assumes that clients hang up at last.

## 4. Proofs

`IntentStore_proofs` proves for all writers, payloads, limits, and any number of
generations, opens, failures and rotten files:

| Theorem | Property |
|---|---|
| `TypeCorrect` | `TypeOK`; with it that the unsigned retention counter never wraps |
| `NoLostUpdateHolds` | `NoLostUpdate` |
| `MemoryMatchesDiskHolds` | `MemoryMatchesDisk` |
| `JournalBeforeHeadHolds` | `JournalBeforeHead` |
| `HeadRecordKeptHolds` | `HeadRecordKept` |
| `BackupTrailsHolds` | `BackupTrails` |
| `ReopenableHolds` | `Reopenable` |
| `NoSilentLossHolds` | `NoSilentLoss`, an action property |
| `LoadServesCommittedHolds` | `LoadServesCommitted` |
| `StoreImplementsLog` | `LogSpec`, the refinement of `IntentLog` |

Assumptions: `StoreAssumption` (numbers are naturals, limits are positive where
the code starts from one) and `MarkerAssumption` (the markers for missing and
unreadable files are not records).

Argument. `Types` adds to `TypeOK` that records are finitely many, without which
counting them means nothing. None of the properties is inductive: whether a
commit builds on what its writer saw depends on every token issued before, and
that in turn on what memory and disk hold. So there are layers. `RecordInv` is
`Types` with three facts: every record was minted one above its parent
(`RecordsInv`), a process that is up holds the authority in memory and an open
commit extends it (`MemoryInv`), and `head.json` is the authority unless it
rotted (`HeadInv`). Relative to it `FenceInv` is inductive: no token is newer
than the process, and a token of this process and generation saw exactly this
head. So is `DiskInv`: the journal names the head and the commit on its way
(`JournalInv`), their records exist (`KeptInv`), and the backup is an ancestor,
closer by one when the head is about to be replaced (`BackupInv`). The refinement
follows: only `ReplaceHead` extends the log, by one; opening restores the
authority or, when that is unreadable, an ancestor; all other steps stutter.

Three properties are about what recovery finds. `FilesInv` says that every file was
written by a commit and that nothing rots by itself; with `KeptInv` and no stray
record the head verifies, so the store opens (`Reopenable`), and opens on the head it
had (`NoSilentLoss`). The proof of the latter did not go through for prunes that keep
nothing, and TLC agrees: it now says so (`KeepCounts`). `LoadInv` is about the debris of
kills: the authority's chain is among the records, and while a process serves no record
but the one being written has a number beyond the head's (`Swept`). So the first file of
a number is the committed one, because whatever else had the number was swept before the
number was given out again.

`IntentDirectory_proofs` proves for all processes, domains, lock files and any number
of creations and commits:

| Theorem | Property |
|---|---|
| `OneWriterHolds` | `OneWriter` |
| `HolderIsCurrentHolds` | `HolderIsCurrent` |
| `ServiceableHolds` | `Serviceable` |
| `CommittedStayHolds` | `CommittedStay` |

Assumptions: `DirectoryAssumption` and `FileAssumption`, that the marker of a missing
file is none of the values. Argument: the lock file is never removed, so every process
that has one open has the same (`LockInv`), and with it `OneWriter` is inductive. What
a process may find is a matter of where it is, whoever creates (`CreationInv`): past
the test of `open` there is a descriptor for good, and without one there is no head.
`CurrentInv` is the rest (all files are of one domain, the backup is no longer than the
head, the one that serves knows it), and it is inductive only while `replaced = 0`:
a second descriptor breaks each part of it.

`IntentServer_proofs` proves for any connections and frames, any finite number of
workers, any limits and both ways sockets behave:

| Theorem | Property |
|---|---|
| `OpenTrackedHolds` | `OpenTracked` |
| `NoLostWakeupHolds` | `NoLostWakeup` |
| `RunReturnsLastHolds` | `RunReturnsLast` |

Assumption: `ServerAssumption`. Argument: `ConnInv` says who holds a connection and
that what a worker retires was closed before, so no open socket leaves `active`
(`Tracked`). `FinishInv` admits one thread at a time into `finish`, and makes the
second caller find what the first one left; `RunInv` says that the accept loop calls
`finish` once, after it has left its loop. With that `NoLostWakeup` is inductive: a
step that takes a worker to sleep sees an empty queue, one that queues has a
notification under way, and `finish` holds the mutex until it has emptied the queue. `LeftInv` follows `finish` through the sockets: one it has not come to is on
its list, and one that is open behind it was with the accept loop when the list was
made. `WorkerActs` restates the steps of a worker without `EXCEPT`, once for all parts.

`IntentRuntime_proofs` proves for all actors, documents, limits, with any number of
proposals, generations, restarts and subscriptions:

| Theorem | Property |
|---|---|
| `RuntimeInvariant` | `RuntimeInv`, the inductive invariant |
| `TypeCorrect` | `TypeOK`; with it the limit of the table |
| `IndexAlwaysExact` | `IndexExact` |
| `DiffAlwaysMatches` | `DiffMatchesParent` |
| `CommittedOnce` | `CommitOnce` |
| `CancellationFinal` | `CancelledNeverCommitted` |
| `DropsAlwaysAccounted` | `DropsAccounted` |
| `GapsAlwaysAnnounced` | `GapsAnnounced` |
| `ImplementsLog` | `LogSpec`, the refinement of `IntentLog` with validated documents |

Assumption: `RuntimeAssumption`. Argument: `RuntimeInv` is `CoreInv`, the types of the
threads in `submit`, and `FeedInv`. `CoreInv` is about the table and the log. The index
is the inverse of the table (`Indexes`); that it stays so when the table is compacted is
a fact about ranks (`RankOnto` and its neighbours), since what `SelectSeq` returns takes an
induction the provers cannot do: the model states a compaction by its result. Whatever
has an identity, it was drawn (`Drawn`), so a new proposal confuses nobody. What became
of a proposal is on record as long as the table knows it (`Outcomes`), and that is what
refuses a second commit and a commit of what was cancelled. A validated proposal is
valid, and was compared with the head unless it is stale (`Captures`), which every later
commit and restart makes it. `FeedInv` says of each subscriber that its queue is the
tail of what was published (`QueueIsTail`), that the numbers it sees rise
(`NumbersRise`) and that polled, dropped and queued add up (`Accounted`).

`IntentSession_proofs` proves for any connections and requests over that runtime:

| Theorem | Property |
|---|---|
| `SessionInvariant` | `SessionInv`, the inductive invariant |
| `SessionsAreClients` | `SessionSpec => Spec`: the server is a client of the runtime, and all that is proved of the runtime holds under it |
| `AcknowledgedIsCommitted` | `AckedIsCommitted` |
| `CommitsBuildOnFences` | `BuildsOnWhatItSaw` |
| `FarewellIsFinal` | `NothingAfterFarewell`, an action property |

Assumptions: those of the runtime and `SessionAssumption`. Argument: `SessionInv` adds to
the invariants of the runtime the clock (`ClockInv`: epochs never overtake the number
of processes) and the wire (`WireInv`). An answer that waits to be sent fits what has happened
(`Fits`); a fence in some client's hands stood for a prefix of the log of the
process that gave it out, and stands for it as long as that process lives (`Stands`).
The second is what makes `BuildsOnWhatItSaw` true although the server compares
numbers: within one process the log only grows. After a farewell admission has ended,
and nothing but a restart opens it again.

`IntentSchema_proofs` proves for every tree and every declared version:

| Theorem | Property |
|---|---|
| `SchemaInvariant` | `SchemaInv`, the inductive invariant |
| `FaithfulUpgradeHolds` | `FaithfulUpgrade` |
| `NothingIgnoredHolds` | `NothingIgnored` |
| `RoundTripHolds` | `RoundTrip` |

Assumptions: `SchemaAssumption` (the ranges nest; 32 bits hold at least a one, which a
default of the code needs to be read back) and `JsonAssumption` (an integer of a tree is
an `int64_t`). Argument: type by type, a value that was read is written as something the reader takes
for the same value (`Survives`), but for a list with an empty identity, which is written
as something it refuses (`BlankIsLost`); one lemma per section says that its table is
right, so the round trip needs no case per member. `UpgradeInv` says
that the tree is the given one with the migrations from the declared minor to the
present one applied, in that order, and that each of them succeeded; what that means
for a member that was renamed is then read off.

`ReferenceCycles_proofs` proves for every graph over any number of nodes:

| Theorem | Property |
|---|---|
| `SearchInvariant` | `SearchInv`, the inductive invariant |
| `CyclesAreFound` | `FindsCycles` |

Assumption: `CyclesAssumption`. Argument: the numbers of the nodes give the order.
The stack and the frames are in it (`StackInv`, `FrameInv`); a frame reaches
everything from its node upwards on the stack, and every node of the stack reaches a frame
at or below itself (`ReachInv`). `low` of a frame is the number of a node on the stack that
it reaches, and at most the number of any node that an edge passed so far leads to from
the nodes it owns (`LowInv`). No edge leaves the closed components (`EdgeInv`). When a
frame is left with `low` still its own number, no edge leads from above it to below it,
so what lies above is a whole component (`AboveIsComponent`); otherwise its
nodes go to the frame beneath, whose `low` is lowered with it (`LeaveKeeps`). In the end each
node is in a component that was closed, and a node lies on a cycle if its component has
another node or it has an edge to itself (`OnCycle`). Each of the invariants
also holds in TLC on all graphs of four nodes and up to four edges.

`IntentValidation_proofs` proves for every set of documents and every head:

| Theorem | Property |
|---|---|
| `ValidationInvariant` | `ValidationInv`, the inductive invariant |
| `NothingHidden` | an eligible document is without an error in any layer, below the limit of the report |
| `ConnectedHolds` | `Connected` |
| `OneStateHolds` | `OneState` |
| `RedundantHolds` | `Redundant` |
| `WorkloadsSurviveHolds` | `WorkloadsSurvive` |
| `WithinCapacityHolds` | `WithinCapacity` |
| `OrderInsensitiveHolds` | `OrderInsensitive` |
| `DiffCompleteHolds` | `DiffComplete` |
| `EligibleIsDescribed` | an eligible document declares no identity twice, so its diff describes it |
| `CyclesFoundAreCycles` | the cycles of a document are those `CyclesAreFound` speaks of |

Assumptions: `DocumentAssumption`, `ValidationAssumption` (documents and the head are
well typed and have the same fields, the report has room for one entry) and
`FindingsAssumption`. Argument: while there is room in it, the report holds everything
the layers so far find in the normal form (`ValidationInv`; when there is none, nothing of
the kind holds, which is `document_hidden`). `Eligible` says of a report that it has room
left, so the document is `Flawless`, and each property follows from the absence of a
few errors. `Connected`: what the partition rule reaches from one device is closed under
links, and the state rules leave every enabled link alive. `Redundant` and
`WorkloadsSurvive`: a set of n domains is not contained in fewer than n lost ones.
`WithinCapacity`: a sum over a set is the number of its units (`SumIsCount`), so
reservations are compared with capacities by cardinality, and saturation only lowers
what is offered. `OrderInsensitive`: the normal form is the one arrangement in which the
declarations precede one another as `sort_by` compares them, and a reversed list has the
same ones. `DiffComplete`: the entries of one field of one declaration are at most one,
so putting them into the head is a function; where declarations are matched by
identity each has one, and it is declared once, so a declaration that is found by it is the
one that is meant.

What the proofs brought to light, beyond confirming the runs: `NoSilentLoss` needs prunes
that keep a generation; the round trip of a default needs a 32-bit range with a one
in it; a workload may be placed on empty identities; a link may leave an
end empty and still count as capacity. The properties and assumptions say so, and section 5
lists what is a divergence.

So every safety property that a passing run checks is proved. Only model-checked: the
liveness properties `StopCompletes`, `QueueDrains` and `Terminates`; liveness and
`ENABLED` are beyond the prover, as are induction over data and `RECURSIVE` operators.
The recursion in `DirectedGraphs` is a recursive function for that reason, and no module
declares a `RECURSIVE` operator. The properties of the violated runs are false of
the models, so there is nothing to prove.

## 5. Where code and documentation differ

Shown by a run that TLC finds violated:

1. **A killed first commit can cost a later generation** (`store_durability`,
   `store.cpp:896`). The genesis branch of `open` returns before the sweep. The
   stray record of generation 1 stays, another payload is committed under the
   number, and `validate_head` of generation 2 meets the stray as its parent:
   the head is dropped for the backup.
2. **A refusal at the proposal limit guts the live proposals** (`runtime_limit`,
   `runtime.cpp:226`): they were moved into a vector that is then dropped. The limit
   is reached by submits alone: one that is refused for its token, or fails in the
   store, leaves its proposal validated (`runtime.cpp:454`) and its caller without
   the identity to cancel; the comment in `tests/test_runtime.cpp:404` says that the
   bound never blocks progress.
3. **Shutdown waits for a silent client on POSIX** (`server_join`, `net.cpp:682`):
   `close` does not end another thread's `recv`, and `finish` joins the worker.
4. **A full report hides errors** (`document_hidden`, `validate.cpp:234`). `add`
   drops whatever comes after 20,000 entries, and `passed` looks at the report
   alone: 10,000 enabled links between draining devices are 20,000 warnings, after
   which no error of the remaining loops is seen. The warning that says so is
   dropped by the same test.

Shown by a passing run, whose property says exactly when it happens:

5. **An empty item in a list of identities makes a record unreadable**
   (`schema_text`, `model_json.cpp:1195`). `read_id_array` takes null and the empty
   text; `json_id_array` writes such an item as its class and a dot, `dev.` or `site.`,
   where `json_id` would put null; `BasicId::parse` refuses that. Validation passes over
   empty references (`validate.cpp:438-442`), so a workload placed on a device and on
   null can be committed. The commit does not read its record again. The next `open`
   does (`decode_record`, `store.cpp:269`), refuses the head for it, and falls back to
   the generation of the backup, or fails when there is none: a committed generation is
   lost although nothing crashed or rotted. `tests/test_model.cpp:207` and `tests/test_property.cpp:187`
   expect the round trip, and try it on documents without such an item. `RoundTrip` has both
   directions: every document with one is written as a record that is refused, and no
   other is. With `HasBlank` struck from it, TLC finds it violated by
   `service_classes: [null]` of a device. `IntentStore` takes a record that was written
   completely for readable, so what it says of restarts is about documents without such an
   item.

Seen while modelling, and part of the models, without a run of their own:

* The epoch is stored with a commit only, so opens without one reuse it
  (`store.cpp:897`, `925`), against `store.hpp:108` and the name of
  `test_store.cpp:152`. `NoLostUpdate` shows that the incarnation makes up for it.
* `create` tests for a descriptor before it takes the lock and not again
  (`store.cpp:406`, `424`, `439`), against `store.hpp:103-104` ("Fails with StoreBusy
  when the directory already contains a descriptor"). Of two creations that overlap,
  the second replaces the descriptor of the first once that one is closed, and starts
  without a generation whatever `head.json` holds: its first commit replaces the head,
  and when the domains differ and it makes none, the directory never opens again.
  With `replaced` struck from them, TLC finds each of the three properties violated.
* A prune with nothing to remove takes the retention counter to zero
  (`store.cpp:1349`), so that commits go on past `max_generations`, against README:364.
* `run` may queue a connection after a `finish` called by another thread has
  closed the active ones and cleared the queue (`net.cpp:722`): it stays open and
  unserved, against README:232-233. `RunReturnsLast` says that nothing else does.
* A descriptor may be closed twice, by `finish` and by its worker: the load of
  `net.cpp:681` and the exchange of line 765 are not one step. In between its number
  may have been handed out again; the model closes connections, not numbers.
* README:132 lists containment consistency among the checks; no code compares
  the rack, pod and site of a device.
* README:73 promises an order of duplicates; where the partial serializations
  agree, order of declaration decides. `collect_duplicates` passes over a catalog
  model that is declared twice, because its name is no identity.
* `sort_by` promises that duplicate identities are "then reported as DuplicateIdentity by
  validation" (`canonical.cpp:17-18`). Declarations with an empty identity are not, since
  `collect_duplicates` passes over what does not parse (`index.cpp:41-44`). The diff
  matches a collection that has one by position, so it is complete all the same.
* A link may leave an end empty: `require_reference` passes over empty identities
  (`validate.cpp:438-441`). Such a link forwards nothing and counts as capacity
  of its scope. `WithinCapacity` excepts the scopes that have one.
* References to intents always resolve (`index.cpp:189`).
* A disabled device makes every larger topology ineligible: connectivity wants an
  enabled link to it, and an enabled link to it is an error.
* README:258 calls the shutdown mutex a leaf; `finish` takes the connection mutex
  beneath it (`net.cpp:677`). Nothing takes them the other way round.
* Rule 1 of the conflicts takes a policy on a port or a link for one on its whole
  devices and does not set it against an intent on that port; exclusive scopes
  and reservations that contain one another are not compared.
* A document that was parsed carries the current minor 1.3, because
  `parse_document` brings it up to date (`model_json.cpp:1870-1946`): the rule
  about features introduced after the declared minor is idle in
  `validate_proposal` (`runtime.cpp:345`), although README:113-115 announces it;
  only the tools' `validate` and `explain` look before the upgrade.
* README:110-111 says that a text with a legacy and a current member is rejected as
  ambiguous. The migration of counts does so; the one of speeds overwrites
  `speed_bps` with `speed` and `capacity_bps` with `bandwidth`
  (`model_json.cpp:1546-1554`, `1570-1578`). `FaithfulUpgrade` excepts such texts.
* A legacy speed that fits 64 bits unsigned but not signed is converted to a
  negative number (`model_json.cpp:1168`) and refused for that, with a message
  about a number nobody wrote.
* A document that a program builds, not a text, may carry numbers beyond the
  signed range and strings beyond the reader's limit; validation passes them, and
  the record of such a generation cannot be read again.
* README:175-176 says that a writer of an earlier process is fenced out. Over the
  wire a fence is its number: `submit` and `commit` of the client send no epoch
  and no incarnation (`net.cpp:1350-1364`), and the server puts those of the
  session to it (`net.cpp:1024-1027`). A client that reconnects after a restart
  commits with its old fence, also when the store fell back and the number now
  names another generation.
* A shutdown request before the hello is answered "handshake required before
  shutdown" and stops the server all the same (`net.cpp:847-853`, `1188-1191`). One
  whose answer cannot be sent does not stop it, but has ended admission.
* A commit that is sent again after its answer was lost is answered with an error
  that does not say that it was carried out, and a propose whose validation finds
  the base stale with one that does not name the proposal: `error_json` is made of
  the error alone, the details of `net.cpp:973-983` are thrown away.
* No request ends a subscription, and a connection that closes leaves its own
  behind: `max_subscribers` is used up until the next start.

## 6. Not modelled, and the plan

Not modelled: JSON text, digests as computations, clocks, the files' encodings,
impact classification and rendering of diffs, explanations, server statistics,
generators and tools. They are conversions without state, or have no consequence
for any property above.

Plan, in order:

1. `SessionTypeOK` and the counting half of `TypeOK` of `ReferenceCycles` (numbers stay
   below N), which no property above rests on.
2. Descriptors that are handed out again under the same number (`net.cpp:682`), and
   `parse_decimal_u64` modulo 2^64 (`store.cpp:97`), which only a record that nobody
   wrote would meet.

## 7. Running it

    tlc -workers 2 -config store.cfg IntentStore.tla
    tlc -workers 2 -config directory.cfg IntentDirectory.tla
    tlc -workers 2 -config session.cfg MCIntentSession.tla
    tlc -workers 2 -config document_verdict.cfg MCIntentValidation.tla
    tlc -workers 2 -config runtime_proposals.cfg MCIntentRuntime.tla
    tlc -workers 2 -config server_pool.cfg IntentServer.tla
    tlc -workers 2 -config schema_text.cfg MCIntentSchema.tla
    tlc -workers 2 -config reference_cycles.cfg ReferenceCycles.tla
    tlapm IntentStore_proofs.tla
    tlapm IntentDirectory_proofs.tla
    tlapm IntentRuntime_proofs.tla
    tlapm IntentSession_proofs.tla
    tlapm IntentServer_proofs.tla
    tlapm IntentSchema_proofs.tla
    tlapm ReferenceCycles_proofs.tla
    tlapm IntentValidation_proofs.tla

Each run ends within a few minutes. Definitions marked *mutant* are variants of
the definition that follows them, each the way a plausible defect would have it:
`PROJECT.json` pairs every property with one that violates it.
