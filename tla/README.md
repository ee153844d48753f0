# A TLA+ verification of the SochDB Go SDK

This directory holds TLA+ models of the Go SDK of SochDB, the TLC runs that
check them, and TLAPS proofs of what matters most about them. It is written for
someone who has the repository at hand; paths are relative to its root.

1. [The system](#1-the-system)
2. [Modules](#2-modules)
3. [The priority queue](#3-the-priority-queue)
4. [Embedded transactions](#4-embedded-transactions)
5. [The IPC client](#5-the-ipc-client)
6. [The gRPC client](#6-the-grpc-client)
7. [Traces](#7-traces)
8. [Extraction and consolidation](#8-extraction-and-consolidation)
9. [Hybrid retrieval](#9-hybrid-retrieval)
10. [Collections](#10-collections)
11. [Graph walks](#11-graph-walks)
12. [The context builder](#12-the-context-builder)
13. [The semantic cache](#13-the-semantic-cache)
14. [Runs and their bounds](#14-runs-and-their-bounds)
15. [Proofs](#15-proofs)
16. [Where code and documentation disagree](#16-where-code-and-documentation-disagree)
17. [What is not modelled](#17-what-is-not-modelled)
18. [Plan](#18-plan)

## 1. The system

SochDB is a database engine with a Go SDK. The engine is a native library, or a
server that wraps it; this repository is the SDK. Everything the SDK promises
beyond single reads and writes (a task queue, collections, caches, a memory
layer) is Go code that turns one call into a sequence of database requests, and
nothing outside a single request is atomic unless the SDK makes it so. That is
where the errors of such code are: between two requests of one call. Almost all
models here are therefore cut the same way: one action is the code between two
requests, and any other goroutine or process may act between two actions.

| component | state it keeps | operations | how it meets the others | what is hard | what makes it correct |
|---|---|---|---|---|---|
| **Priority queue** `queue.go` | entries under ordered keys, six counters; `sequenceCounter` in the handle | Enqueue, Dequeue, Ack, Nack, Purge, Stats | Get, Put, Delete and scans of any database it is given | two consumers, stale copies written back, lost counter updates, a death inside a call, late `readyTs` | a task is claimed by one consumer, keeps one key, its record never mixes two moments of its life; counts agree with it; the queue drains |
| **Embedded database** `embedded/database.go` | native transactions; two flags in each `Transaction`; iterators | Begin, Commit, Abort, WithTransaction, Put, Get, Delete, ScanPrefix, Close | calls the native engine through cgo; the queue, cache and memory layer call it | Commit and Abort in any order and again, conflicts, functions that commit the transaction they were given, leaks | flags and results say what the engine did; no update is lost; every transaction ends |
| **IPC client** `client.go` | one connection, `mu`, `closed` | Get, Put, Delete, paths, Scan, Query, transactions, Checkpoint, Stats, Close; on top of them a cache | frames on a Unix socket, no request numbers | replies left unread, everyone waiting for `mu`, a connection that ends between request and reply | replies pair with requests; a shared client is linearizable; every call returns |
| **gRPC client** `grpc_client.go` | one connection, which gRPC renews | PutKv, GetKv, DeleteKv, collections, documents, vectors, graph, cache, traces, Close | one generated stub a call | deadlines that pass while a request is on its way, three ways to report a failure, one call without a deadline | a call that succeeded happened once, one that failed may happen later, and once; every call returns |
| **Traces** `client.go` | traces and spans as keys at the server | StartTrace, StartSpan, EndSpan | Put and Get of the IPC client | two requests a call, nothing is looked up, a Put that failed may be there | every span is attached to its trace; what EndSpan returned is what is stored |
| **Graph overlay** `client.go` | nodes and edges as keys at the server; the frontier and the visited set of a call | AddNode, AddEdge, Traverse | a Get and a Scan of the client per node | no snapshot, edges added on the way, requests that fail are skipped, two orders and a depth limit | what is visited is within reach; breadth first visits all that is |
| **Namespaces and collections** `namespace.go` | metadata and vectors under one prefix; a copy of the configuration in each handle | CreateCollection, Collection, GetOrCreateCollection, DeleteCollection, ListCollections, Insert, InsertMany, Get, Delete, Count, Search | Get, Put, Delete and ScanPrefix, by type assertion | check and Put of a creator are two requests; a delete works on an old scan; stale handles | only creators that overlap replace each other; what is inserted through a current handle has the stored dimension; an undisturbed deletion leaves nothing |
| **Semantic cache** `semantic_cache.go` | entries with an expiry time; `hits`, `misses` and the array behind `prefix` in the handle | Put, Get, Delete, Clear, Stats, PurgeExpired | embedded transactions | sweeps against fresh Puts, goroutines that share a handle and append to one array | an entry lies under its own key; sweeps take what they saw and nothing that was alive; Get returns the best there was |
| **Consolidation** `memory_consolidation.go` | assertions, contradictions, canonical facts | Add, AddWithContradiction, Consolidate, GetCanonicalFacts, Explain | embedded Puts and scans | Consolidate works on two snapshots and writes in further transactions; writers stop half way | the canonical view is what the log supports |
| **Extraction** `memory_extraction.go` | entities, relations, assertions | Extract, Commit, ExtractAndCommit, getters | embedded Puts | Commit stores item by item, others commit over the same keys | what a relation or an assertion was extracted with is found beside it |
| **Hybrid retrieval** `memory_retrieval.go` | documents in the store; in the process texts, lengths and document frequencies | IndexDocuments, Retrieve, Explain | embedded Puts and scans; allowed sets of `memory_types.go` | the index is not that of the stored documents, frequencies only grow, ranks of missing documents, ties | documents with the word of the query come first |
| **Context builder** `context_builder.go` | sections of a prompt | Literal, WithBudget, Execute | none | three truncation strategies, rounding, sections of equal priority | how far each strategy may miss the budget, and what it drops first |
| **Formats, errors, façade, commands** | none | conversions and constructors | called by the others | none of their own | |

`PROJECT.json` lists the components with their files and, under `hazards`, every
place in the code that is hard to test, with the property that would catch it
going wrong, or the reason why none does yet.

## 2. Modules

| module | contents |
|---|---|
| `PriorityQueue` | the queue of `queue.go`, one action per database request |
| `TaskLedger` | abstract: what a queue promises, every operation atomic |
| `QueueProperties`, `QueueProofs` | properties and refinement mapping; proofs for any workers and failures |
| `LedgerProofs` | proofs: the refinement and what else needs consumers that do not race |
| `QueueKeys`, `KeysProofs` | the keys of the queue byte by byte, their decoding and order; proofs |
| `EmbeddedTxn` | `Transaction` and the calls of `Database` against a snapshot engine |
| `AtomicCell` | abstract: transactions on one key, each at one point in time |
| `TxnProperties`, `TxnProofs` | properties and refinement mapping; proofs |
| `KVRequests` | the requests of the IPC client and their effect, shared by the next two |
| `KVService` | abstract: a linearizable service with calls that may fail |
| `IPCClient` | the shared client, its wire and the server |
| `IPCProperties` | properties and refinement mapping |
| `RemoteRequests` | the requests of the gRPC client and their effect, shared by the next two |
| `RemoteService` | abstract: a service whose failed calls may still take effect |
| `GrpcClient` | the shared client, its deadline, the server and late effects |
| `GrpcProperties` | properties and refinement mapping |
| `Traces`, `TracesProperties` | goroutines that build traces; properties |
| `TransportProofs` | proofs about the IPC client, the gRPC client and traces |
| `Extraction`, `ExtractionProperties` | goroutines that extract and commit; properties |
| `Consolidation`, `ConsolidationProperties` | the log of assertions and the runs of Consolidate; properties |
| `MemoryProofs` | proofs about extraction, consolidation and retrieval |
| `Retrieval`, `RetrievalProperties` | processes that index and retrieve documents; properties |
| `Collections` | goroutines that create, open, fill and delete one collection |
| `CollectionsProperties`, `CollectionsProofs` | properties; proofs |
| `Traversal` | one Traverse over a graph that grows |
| `TraversalProperties` | properties |
| `ContextBuilder`, `ContextProperties` | sections and their truncation; properties |
| `SemanticCache` | the calls of goroutines on a cache, with shared handles |
| `CacheProperties` | properties |
| `ToolkitProofs` | proofs about graph walks, contexts and the cache |
| `MCQueue`, `MCQueueRaces`, `MCTransports`, `MCConsolidation`, `MCStores`, `MCRetrieval`, `MCToolkit` | values of the constants for TLC (`TxnScanLeak.cfg` needs none) |

A property module `EXTENDS` its component and holds its type invariant, its
properties and, for a refinement, the `INSTANCE ... WITH`. Definitions whose
comment starts with "Mutant:" are wrong variants of the definition that follows
them; nothing uses them, except that substituting one for its original makes TLC
report the property that `PROJECT.json` names (`mutants`). This is how we know
that a property can fail.

`map` in `PROJECT.json` ties every definition of a model to the lines of code it
translates. Definitions marked external there model what the code calls and does
not contain: the native engine, the IPC server, the wall clock.

## 3. The priority queue

**State.** `db` is the part of the database below `queue/<name>/`, from keys
(priority, readyTs, sequence, task identifier) to tasks; `stats` the six counters
below `_queue_stats/<name>/`; `clock` and `counter` the wall clock and the
`sequenceCounter` of each process's handle; `op[w]` the call goroutine `w` is in
with its local variables (the task it read and will write back, the keys `Purge`
will delete, the counter it has read); `handed[w]` what `Dequeue` gave to `w` and
`w` has not settled.

**Actions.** `Enqueue`, `BumpSequence`, `PutTask`; `Dequeue`, `DequeueScan`,
`DequeueNothing`, then `UpdateTask`; `Ack` and `Nack` (the first scan, the checks),
`LocateTask` (the second scan of `updateTask`), `UpdateTask`; `Purge`,
`PurgeDelete`, once per key; and `GetStat`, `PutStat` for every counter.
`sequenceCounter++` runs without a lock: `BumpSequence` takes the value read at
the start of the call, so increments can be lost. Failures: a request fails and
may have been applied all the same (`RequestFails`), counter requests fail
silently (`StatFails`), a failed Delete is skipped (`DeleteFails`), a process dies
with every call in it (`Crash`). Dequeue asks whether its scan broke
off, the others do not: Ack and Nack then miss the task (`SettleBreaks`), or, in
`updateTask`, its key, in which case they report success and count what they have not
written (`LocateBreaks`), and Purge deletes less (`PurgeBreaks`). Keys are compared field by field, which is what
the big-endian encoding is for.

`Backend` names which of the interfaces of `Dequeue` the database satisfies; they
differ in whether `readyTs` is looked at. For `embedded.Database` none is
satisfied and a scan sees nothing (see 17).

**Properties.** They fall into what survives anything and what needs discipline.

* With any number of concurrent consumers: `TaskRecordsSound` (whatever stale copy
  is written back, a stored task does not mix two moments of its life),
  `OneKeyPerTask`, `TypeOK` (no counter below zero) and `TotalsNeverOvercount`.
* With one consumer, and producers and purgers interleaved with every request of
  it: `ImplementsLedger`, `HeldIsClaimed` (what was handed out is still claimed),
  and `Drains`.
* With callers that take turns: `StatsExact`, and `ImplementsLedger` with
  `Ordered`, so that the task claimed is one no other pending task precedes.

**Keys.** That a scan meets the tasks in the order of their keys' numbers is what
`PriorityQueue` takes for granted and `QueueKeys` shows. `encodeI64BE` and
`encodeU64BE` write numbers with a radix and a width (256 and 8 in the code),
`Encode` puts the parts together, and `DecodeQueueKey` finds them again: the
separator may occur inside the numbers and the task, so the name of the queue ends at
the first separator that has room for the rest behind it. `KeysFaithful`: what was
encoded is decoded, no key replaces another, and bytes sort as the numbers do,
negative priorities first. It supposes that the queue's name has no separator in it
and that the task's is not empty, which `Enqueue` guarantees of the second only.

Numbers are written and read with `Power`, the weights of the bytes, as recursive
functions, so that the module can be proved about.

With two concurrent consumers `ImplementsLedger` and `HeldIsClaimed` fail; that is
the subject of the run `queue_double_claim`.

## 4. Embedded transactions

**State.** `engine` is external: transactions that read a snapshot, and that
`sochdb_commit` answers with 0, with -2 when somebody else replaced the value they
computed from, or with another code. `txn[t]` is the `Transaction` goroutine `t`
works with (its two flags, its program counter); `log` is history, what each
transaction was begun for and what its caller was told. The committed `value` of
the key is the set of the updates it includes, so that a lost update shows.

**Actions.** `Begin`; `Get`, `Put`; `UserCommit` and `UserAbort`, which the holder
of a `Transaction`, or the function given to `WithTransaction`, may call at any
point and repeatedly; `FunctionReturns` with or without an error; `FinalCommit` and
`DeferredAbort`, which end `WithTransaction`, `Put` and `Get`; `CloseIterator`.
Every method asks `ensureActive` before it makes its native call.

**Properties.** `FlagsTellTruth`: `committed` holds exactly if the engine
committed, `aborted` only if it aborted. `OutcomeIsTrue`: nil means committed, an
error means that nothing was kept, so that a retry after an error applies an update
once. The one exception is stated: a function that commits the transaction it was
given makes `WithTransaction` return an error for work that is in the database.
`NothingLeaks`: an active transaction belongs to a goroutine inside a call, or to
a `ScanPrefix` of the database. `ImplementsCell`: concurrent `WithTransaction`,
`Put` and `Get` implement `AtomicCell`, so no update is lost.

The engine's serializability is assumed (`Serializable`), since its code is not
here; what is checked is that the SDK does not lose it, for example by reading
outside the transaction.

## 5. The IPC client

**State.** `holder` (of `mu`), `closed`, the connection `conn` with the requests
(`outbox`) and replies (`inbox`) on it, the `value` of the key at the server, and
the call of each goroutine. A message on the wire also records whose it is: the
code has no such field, which is the point of `RepliesPair`.

**Actions.** `Call`, `Lock` (with the check of `closed`), `Send`, `Receive` and
`Decode`, the failures of both, `Close`, `Return`. `Serve` and `Break` are the
server, which answers or refuses requests in order, and the connection, which may
end at any point with or without what was under way. The requests are grouped by
how their reply is read: for example `Get` reads an empty payload as "no such key"
and `Scan` does not. The answers to scans, Begin and Stats have a structure that the client
parses, and may be malformed (`Refusals`); the call then fails with the reply read. A
payload is never cut short inside its frame: that the connection ends there is `Break`.

**Properties.** `RepliesPair`: one request or reply is under way at most, and it
belongs to the goroutine that holds `mu` and waits for it. `ImplementsService`: the
client refines `KVService`, where a call takes effect at one point between its
start and its return, or fails and has no effect once it has returned.
`CallsReturn`: every call returns, `Close` too, although all of them wait for `mu`
behind one that waits for the server.

## 6. The gRPC client

**State.** `shut` (Close was called), `rpc[t]` the call of each goroutine with its
request, the answer on its way and the result; `remote` the value of a key at the
server; `abandoned` how many requests for each write are still on their way although
their calls have returned. No lock, no order among calls, no retry: the client keeps
nothing else.

**Actions.** `Invoke`; `Rejects` (a batch of vectors that do not fit, or a closed
client: nothing is sent), `Sends`, `Serves`, `Receives`; `Expires`, `Disconnects`,
`Cancels`, three ways to end a call without an answer; `ServesLate`, the effect of a
request nobody waits for; `CloseClient`, `Returns`. The methods are grouped by what
they ask and by how their answer is read: a status, `Success`, or a text in `Error`
all mean failure, and a batch of vectors that reports one has been stored in part.
`QueryGraph` uses the context it is given instead of one with the client's timeout
(`HasDeadline`).

**Properties.** `ImplementsRemote`: the client refines `RemoteService`, which differs
from `KVService` of the IPC client in one point: a call that failed is adrift and may
take effect later, at most once, even after a newer write that succeeded or after
Close. Here a timeout can pass while the request travels; there the client waits
until the connection has ended. `RemoteCallsReturn`: a call returns whatever the
server does, `QueryGraph` only once another goroutine closes the client.

## 7. Traces

**State.** `traces` and `spans` are what is stored (names and status left out),
`micros` the clock, `drawn` how many identifiers were drawn, `job[t]` the call a
goroutine is in with its local variables, `given` the spans callers know of. History:
`returned`, the end that the last EndSpan of a span returned, and `muddled`, the spans
of which two EndSpans met or one failed.

**Actions.** `StartTrace`, `PutTrace`, `PutSpan`: the trace first, then its root.
`StartSpan` and `PutSpan`. `EndSpan` (the Get) and `PutEnd`, which reads the clock and
writes back the span that was read. Each Put may fail, applied or not. The calls look
nothing up: callers pass on identifiers they were given.

**Properties.** `SpansAttached`: in spite of that every stored span belongs to a stored
trace, as its root or below a stored span that began no later, and does not end before
it began. `EndsAreKept`: a span that was ended stays ended, at the time its last
EndSpan returned, unless two of them met or one failed.

## 8. Extraction and consolidation

**Extraction.** `knowledge` is what is stored, with the result each item comes from as
history; `result[t]` and `uncommitted[t]` are what goroutine `t` has extracted and not
yet stored. `ExtractAndCommit` applies the default confidence, the schema and the
identifiers, `StoreItem` is one Put, which is a transaction of its own (section 4), and
`StoreFails` ends the call, or the process, with the rest undone. An identifier is a
hash of fields joined by `:`, which they may contain, so it is a function that is not
one to one. Each goroutine has a pipeline of its own, and in the other modules here a
`Consolidator` and a `HybridRetriever` of its own (see 17). `FoundTogether`: entities are stored before relations and these before
assertions, so whoever finds one of the later kinds finds all of the earlier kinds
that were extracted with it, under their keys, however many commits mingle or stop.

**State of consolidation.** `assertion`, `contradiction` and `canonical` are the
three ranges of keys of a `Consolidator`; `writer[w]` is the `AddWithContradiction` a goroutine is
in (its assertion and the contradictions still to store), `run[c]` the
`Consolidate` of another one: what its two scans read, the groups it has not
written, and two history fields. An identifier is the pair of fact and source that
`generateAssertionID` hashes, or one the caller chose; in the second case an
assertion replaces another one, of another fact perhaps.

**Actions.** `Add`, `AddFails`, `Mark` and `Abandon` (a Put fails, or the process
dies); `ScanAssertions`, `ScanContradictions`, `WriteCanonical` for each group in
any order (Go randomizes the iteration over a map) with a Put that may fail, and
`Return`; `ScanAssertionsBreaks` and `ScanContradictionsBreaks`, scans that break off
part way, which the code takes for the end because it never asks `iter.Err`; `Tick`,
because contradictions age out by the time at which a group is
looked at. The loop over the contradictions of an assertion stops at the first one
a scan meets, and `Contradicted` does the same.

**Properties.** `CleanRunRefreshes`: a Consolidate during which nothing else
changed and no scan broke off leaves every fact for which there is evidence with
the sources and the first time of all its evidence, whatever older runs, failed Puts, writers that
stopped half way and replaced assertions left behind. It leaves aside facts some
of whose contradictions have aged out while others are in force (`Unanimous`):
there the first one decides, and no document says which should.
`ContradictionsGrounded`: nothing is retracted in favour of an assertion that was
never stored. `RetractedFactsGo` is the converse of the first and does not hold
(see 16).

## 9. Hybrid retrieval

**State.** `library` is the stored documents, a text each or none; `batch[r]` and
`unstored[r]` what process `r` is indexing; `bm25[r]` its index in memory, the texts
of the last batch and in how many documents the word of the query was counted;
`answer[r]` what Retrieve chose from and its results. The query is one word, a text is
how often it has that word and how often another; it may have no word at all. Scores are fractions: BM25 with the
constants of `NewBM25Scorer`, the cosine squared, and the fusion of ranks, each up to
a factor all documents share, so that comparing them is exact.

**Actions.** `IndexDocuments`, `StoreDocument` for each document, with a failure after
which the old index stays, `BuildIndex`, which replaces the texts but adds to the
document frequencies; `Retrieve` for any allowed set, with equal scores in any order
(maps and `sort.Slice` give none), and the limit (a scan of the documents that breaks
off unnoticed gives what a smaller allowed set would); `Forget`; `Restart`, which loses
the index.

**Properties.** `MatchesFirst`: among documents the process has indexed, those with the
word come before those without, and the limit cuts off none of them first. Its
condition `Indexed` names what the code does not ensure: the index is that of the
stored documents, and the word was not counted twice. Otherwise its inverse frequency
turns negative and the order reverses. `MissingRankLast` does not hold (see 16).

## 10. Collections

**State.** `db` holds the keys below `_collection/<namespace>/<name>/`: the
dimension under the metadata key, the length of each vector under its own.
`handle[t]` is the dimension in the `Collection` goroutine `t` holds, a copy that is
never refreshed. `op[t]` is the call it is in: the configuration a creator is going
to put, the keys a deletion has scanned and not yet deleted. `current` and
`op[t].raced` are history: which handles and vectors come from the metadata that is
stored now, and whether another one put something since the call read.

**Actions.** `Collection`, `GetOrCreateCollection` (whose Get and the Get of the
`CreateCollection` it falls back on are two requests), `CreateCollection`,
`PutMetadata` and `PutFails` (an error may have been applied), `Insert` with its
check of the dimension, `Delete`; `DeleteCollection`, which scans or, if the
database has no scan of the type it asks for, takes the metadata key only, then
`DeleteKey` for each key with an answer nobody looks at; `Crash`. The loop over the
scan ends when there is no next key, which is also what a failing iterator reports, and
does not ask for its error: the scan has read any part of the keys in their order
(`ScanReads`), and `unread` is what lay behind it.

**Properties.** They say how much of the obvious promise survives the races.
`CurrentFits`: the handle's copy and the stored metadata agree until the metadata
is replaced or deleted, and until then what is inserted through it fits. Nothing
holds afterwards: a stale handle inserts vectors of any old dimension.
`CreatorsLook`: a creator replaces metadata only if it was put between its Get and
its Put, so overlap is the only way to lose a configuration. `DeletesWhole`: a
deletion that scans, and that no Put and no failed Delete disturbs, leaves behind only
what its scan did not come to, of which its caller is not told (see 16); other deletions
do no harm. `HalfDeletedIsClosed`: the
metadata key precedes the vector keys in the order of the scan, so nobody opens a
collection of which some vectors are already gone, also after a death half way.

## 11. Graph walks

**State.** `edges` is the graph at the server, a set of pairs; `frontier`,
`level` (the visited set, with the depth at which a node entered it) and
`current` are the local variables of one call of `Traverse`, `nodes` and `found`
its result. `known` and `lost` are history: the graph when the call began, and the
nodes whose Scan failed.

**Actions.** `Pop` takes the oldest item of the frontier, or for depth first the
newest, and skips what is too deep or visited; `GetNode` and `ScanEdges` are the
two requests for a visited node, `GetNodeFails` and `ScanEdgesFails` their errors,
which the code ignores; `TraverseReturns`. `AddEdge` is another client. A Scan
returns edges in the order of their keys, of which the model knows nothing, so any
order may come.

**Properties.** `NothingTooFar`: the depth of a visited node is the length of a walk
from the start and at most `maxDepth`, also when edges appear behind the call's
back. `BFSFindsAll`: breadth first visits whatever was within `maxDepth` edges when
the call began, no deeper than it was then. Depth first promises less: it enters a
node by whichever path it is on, marks it visited at that depth, and may then stop
short of nodes that a shorter path reaches within `maxDepth`.
`DeepWalksAreComplete` says when this does not matter: if `maxDepth` exceeds every
simple path. `EdgesOfVisited`: the edges returned are those of the nodes visited.

## 12. The context builder

**State and actions.** `sections` with priority, length of the text and its tokens
(`estimateTokens`, a quarter of the length rounded down), the budget, the strategy;
`Literal`, `WithBudget`, `SetTruncation`, `Execute`. `sort.Slice` is not stable:
`ByPriority` has every order it may return. Proportional truncation multiplies
by a floating-point quotient and cuts the fraction off, which can fall just below
an exact integer; `Scaled` has both values. A budget is not negative.

**Properties.** `TailDropKeepsFirst`: the budget is kept, and nothing is dropped
while something of lower rank stays. (The section that does not fit ends the loop;
trying those behind it would break this.) `HeadDropTight`: dropping from the front
never drops more than the excess, so the budget is exactly used up or exceeded, yet
no kept section could have been dropped as well. `ProportionalNear`: no section is
lost, and the budget is missed by one token a section at most, counted on what is
reported and on the texts that are left.

## 13. The semantic cache

**State.** `cached` is the store below the cache's prefix. `handleOf[a]` is the
`SemanticCache` goroutine `a` calls, with its counters `hits` and `misses` and the
array behind `prefix`: if that array has `spare` capacity, `append(c.prefix, key...)`
writes into it, and `tail` is what was written last. The other variables are the
locals of each call, forgotten when it ends. An entry is known by its score for the
one embedding that is asked for, `Incomparable` where the lengths differ (the
similarity is then an error, and the entry is skipped). `put`, `seen`, `unread` and
`gets` are history: which Put an entry is from, which Puts a call's scan could see, which
keys it did not come to, and how many Gets a handle has answered since its last Clear.

**Actions.** `PutBegins`, `PutStores`, `DeleteBegins`, `DeleteRemoves` (the key is
built, then used), `PutOrDeleteFails`; `GetBegins` (the clock), `GetScans`,
`CountReads`, `CountWrites` (`hits++` is a read and a write); `ClearScans`,
`PurgeBegins`, `PurgeScans`, then `Deletes` for each key in a transaction of its
own, `DeleteFails`, after which the call returns with the rest undone, and
`ClearResets`, `PurgeEnds`. `Tick` is the wall clock. `embedded.ScanIterator.Next` is
false at the end and after an error alike, and none of the three scans asks which it
was, so each has read any part of the entries (`ScanReads`): Get chooses from these, and
Clear and PurgeExpired delete these and return nil.

**Properties.** `KeysMatch`: entries lie under their own keys, unless two goroutines
share a handle whose prefix has room behind it; then a Put can store its answer
under the key of another (TLC finds this when the exception is taken out).
`PurgeSparesLive`: what PurgeExpired still has to delete had expired when it scanned,
or has been put again since. The exception is a real loss: a fresh entry under an
expired key can be purged. `SweepsComplete`: what Clear or PurgeExpired leave when
they return without an error came after their scan, or lay behind the place where it
broke off. `BestHit`: the answer of Get was
alive and above the threshold, and whatever is better had expired, came too late, or lay
behind such a place. The last exception of both (`Missed`) is what the code does and its
comments do not say (see 16); a scan that is whole leaves `unread` empty.
`CountsExact`: the counters are right as long as one goroutine uses the handle.

## 14. Runs and their bounds

| run | configuration | shows |
|---|---|---|
| `queue_concurrent` | `QueueConcurrent.cfg` | `TypeOK`, `TaskRecordsSound`, `OneKeyPerTask`, `TotalsNeverOvercount`: two goroutines with one handle that both enqueue, consume, settle and purge two tasks, one failed request or broken scan anywhere |
| `queue_one_consumer` | `QueueOneConsumer.cfg` | `HeldIsClaimed`, `ImplementsLedger`, `Drains`: two tasks, a clock that advances, a producer that also purges |
| `queue_serial` | `QueueSerial.cfg` | `StatsExact` and the ordered `ImplementsLedger`: two tasks, two priorities, two processes that take turns, one death inside a call |
| `queue_double_claim` | `QueueDoubleClaim.cfg` | violation of `AtomicClaim` |
| `queue_lost_claim` | `QueueLostClaim.cfg` | violation of `VisibilityTimeoutRecovers`, under fairness |
| `txn_scan_leak` | `TxnScanLeak.cfg` | violation of `ScanReleases`, under fairness |
| `transports` | `Transports.cfg` | the properties of 5 and 6: three goroutines and two values at an IPC client, whose server may refuse or answer nonsense; two goroutines and two calls of every kind at a gRPC client |
| `consolidate` | `Consolidate.cfg` | `ContradictionsGrounded`, `CleanRunRefreshes`: a writer, two overlapping Consolidates whose scans may break off, two facts, one chosen identifier, three assertions, two times |
| `consolidate_retracted` | `ConsolidateRetracted.cfg` | violation of `RetractedFactsGo` |
| `stores` | `Stores.cfg` | the properties of 4 (two goroutines, three transactions, all five kinds of calls, one fault), 10 (two goroutines, two vectors of lengths 1 and 2, dimensions 0 for any and 1, scans that break off), 7 (two goroutines, four identifiers), extraction in 8 (two goroutines, three results with an identifier in common), `MatchesFirst` (two processes, two documents) and `KeysFaithful` |
| `retrieval_missing` | `RetrievalMissing.cfg` | violation of `MissingRankLast` |
| `toolkit` | `Toolkit.cfg` | the eleven properties of 11, 12 and 13: every graph of four nodes with one event, three sections, three calls of two goroutines at three times, with scans that break off |

**Why the bounds suffice.** What can go wrong in the queue is a race of two stale
copies of one task, so two consumers are enough for every such race, with
`MaxRetries = 2` for a task to be given back and then buried, and one failed
request for an answer that does not tell what happened. In `queue_concurrent` both are
producers too: two Enqueues may read one sequence number and one total, a settled task
may be one that the other goroutine has completed, and Purge may delete it between the
two scans of `updateTask`. TLC cannot exhaust this, so `MCQueueRaces` bounds the claims
(`MaxClaims = 2`: two that race, or one and another after a Nack; the last one begins
before the second task is submitted or before a request fails), and the clock stands
still, since no property there speaks of time. Order needs a second task
and a second priority. A conflict of transactions needs two goroutines; the third
transaction lets one of them begin after the other's commit. At the IPC client,
the third goroutine is the one that could read a reply left behind while two
others wait. In consolidation, three assertions allow two contradictions against
one assertion, or the replacement of an assertion that was consolidated; two times
with `MaxConflictAge = 0` let a contradiction age out. Times are the clock's there;
a caller's own, earlier times are in `ConsolidateRetracted.cfg` and in the proofs. A collection needs a second
goroutine for every race, a second vector for a deletion that stops half way, and
a positive dimension with vectors of another length for one that does not fit; no counter has to be cut.
At the gRPC client a call that is given up needs a second one that succeeds before
the first takes effect; two goroutines and two calls do. Four identifiers are a trace
with its root and two more spans, or two traces, and two times let an EndSpan that read
first write last. Three commits by two goroutines let a result be stored over
another that stopped half way. Two processes and two documents make every difference
between store and index, and two indexings count a word twice. Keys have bytes of
four values in place of 256 and numbers of two bytes, chosen so that the separator occurs in
numbers, tasks and between them.
Four nodes are what a depth-first walk needs to enter a node too deep and miss one
behind it; three depths go up to the longest simple path. Three sections allow two
of equal priority beside a third, and lengths 3, 7 and 13 are sections of 0, 1 and
3 tokens, the last larger than a budget of 2. In the cache, two goroutines are enough
for a race on a handle, and three calls for a sweep after a Put with another Put
during it; times up to 3 let an entry expire and be put again. The bounds of the models
(`MaxClock`, `MaxErrors`, `MaxCrashes`, `TxnIDs`, `MaxFaults`, `MaxTime`, `MaxAdds`,
`MaxEvents`, `MaxSections`, `MaxCalls`, `MaxRemoteCalls`, `MaxIdentifiers`, `MaxMicros`,
`MaxCommits`, `MaxIndexings`, `MaxKeys`, `MaxClaims`)
appear in guards only, and the proofs of section 15 do not depend on their values,
except that those of `LedgerProofs` suppose `MaxErrors = 0`: no request fails.

`SYMMETRY` is used in `QueueConcurrent.cfg`, for tasks and workers, in `Consolidate.cfg`, for
the two consolidators, in `Toolkit.cfg`,
for nodes that play the same part, goroutines, handles and keys, and in `Stores.cfg`,
for goroutines and vectors; the properties there are invariants, and `ImplementsCell`,
a safety property about transactions and values only, which do not name a goroutine. `MCToolkit`, `MCStores` and `MCTransports` check
several parts in one run. They share nothing, so each behaviour moves one of them and
leaves the others as they began; `Over` (`AllCallsMade`) is a step that does nothing
where a call has ended or the bounds are reached, so that deadlock elsewhere is
reported. Deadlock is checked except in `txn_scan_leak`, where the system stops when
`TxnIDs` are used up, and in `queue_concurrent`, where it does when `MaxClaims` are.

**Fairness.** Safety runs use `Spec`. `FairSpec` of the queue: a goroutine inside a
call is scheduled (the Go scheduler is preemptive), clocks advance, and the
consumer polls and settles, which is what `Drains` supposes of it; polling is
strongly fair because a call can only begin between two others. `FairSpec` of the
IPC client: goroutines run; `sync.Mutex` starves nobody (its starvation mode hands
the lock over in order), hence strong fairness of `Lock`; and the server answers or
the connection ends. The last is an assumption the code makes too: no read has a
deadline. `GrpcFairness`: goroutines run and the timers of contexts fire; nothing is
supposed of the server or the connection. `FairSpec` of the transactions: a goroutine inside a call is scheduled.

## 15. Proofs

TLAPS proves the following for every value of the constants that the named
assumptions allow (`QueueAssumption`, `TxnAssumption`, `IPCAssumption`,
`ConsolidationAssumption`, `CollectionsAssumption`, `TraversalAssumption`,
`CacheAssumption`, `TracesAssumption`, `ExtractionAssumption`, `RetrievalAssumption`,
`ContextAssumption`, `QueueKeysAssumption`); TLC evaluates these in the runs.

| module | theorem | statement |
|---|---|---|
| `QueueProofs` | `InductiveInvariant` | `Spec => []IInv` |
| | `TypeCorrect`, `RecordsStaySound`, `KeysStayUnique` | `[]TypeOK`, `[]TaskRecordsSound`, `[]OneKeyPerTask` |
| | `CountsInvariant`, `TotalsStayBelow` | `[]CountsInv`, `[]TotalsNeverOvercount` |
| `LedgerProofs` | `LedgerInvariant`, `HeldStaysClaimed` | `[]LedgerInv`, `[]HeldIsClaimed`, if `SettlesAlone` |
| | `QueueImplementsLedger` | `Spec => ImplementsLedger` (refinement), if `SettlesAlone` |
| | `StatsStayExact` | `[]StatsExact`, if `SettlesAlone` and `Serialized` |
| | `ClaimInvariant`, `TurnsClaimOnce` | `[]ClaimInv`, `AtomicClaim`, if `ConsumersTakeTurns` (with failures) |
| `KeysProofs` | `KeysDistinct` | `DecodeQueueKey(Encode(k)) = k`, so `Encode` is injective |
| | `KeysInvariant`, `KeysAlwaysFaithful` | `KeysSpec => []KeysInv`, `[]KeysFaithful` |
| `TxnProofs` | `TxnInvariant` | `Spec => []IInv` |
| | `FlagsAlwaysTrue`, `OutcomesAlwaysTrue`, `NothingEverLeaks` | `[]FlagsTellTruth`, `[]OutcomeIsTrue`, `[]NothingLeaks` |
| | `TransactionsAreAtomic` | `Spec => ImplementsCell` (refinement) |
| `TransportProofs` | `ClientInvariant`, `RepliesAlwaysPair` | `[]IInv`, `[]RepliesPair` |
| | `ClientIsService` | `Spec => ImplementsService` (refinement) |
| | `ReadsAlwaysAnswered`, `HolderAlwaysWorks` | `[]ReadsAnswered`, `[][HolderWorks]_vars` |
| | `TracesInvariant`, `SpansAlwaysAttached`, `EndsAlwaysKept` | `TracesSpec => []TracesInv`, `[]SpansAttached`, `[]EndsAreKept` |
| | `GrpcInvariant` | `GrpcSpec => []GrpcInv` |
| | `GrpcIsRemote` | `GrpcSpec => ImplementsRemote` (refinement) |
| `MemoryProofs` | `ConsolidationInvariant` | `Spec => []IInv` |
| | `AlwaysGrounded`, `CleanRunsRefresh` | `[]ContradictionsGrounded`, `[]CleanRunRefreshes` |
| | `AlwaysFoundTogether` | `ExtractionSpec => []FoundTogether` |
| | `RetrievalInvariant`, `MatchesAlwaysFirst` | `RetrievalSpec => []RetrievalInv`, `[]MatchesFirst`, if `Weighty` |
| `CollectionsProofs` | `CollectionsInvariant` | `CollectionsSpec => []StoreInv` |
| | `CurrentAlwaysFits`, `CreatorsAlwaysLook` | `[]CurrentFits`, `[]CreatorsLook` |
| | `DeletionsAreWhole`, `HalfDeletedAlwaysClosed` | `[]DeletesWhole`, `[]HalfDeletedIsClosed` |
| `ToolkitProofs` | `TraversalInvariant` | `TraversalSpec => []TraversalIInv` |
| | `TraversalNothingTooFar`, `TraversalEdgesOfVisited` | `[]NothingTooFar`, `[]EdgesOfVisited` |
| | `TraversalBFSFindsAll`, `TraversalDeepWalks` | `[]BFSFindsAll`, `[]DeepWalksAreComplete` |
| | `CacheInvariant` | `CacheSpec => []CacheIInv` |
| | `CacheKeysMatch`, `CacheCountsExact` | `[]KeysMatch`, `[]CountsExact` |
| | `CachePurgeSpares`, `CacheSweepsComplete`, `CacheBestHit` | `[]PurgeSparesLive`, `[]SweepsComplete`, `[]BestHit` |
| | `ContextInvariant` | `ContextSpec => []ContextInv` |
| | `TailDropAlwaysKeepsFirst`, `HeadDropAlwaysTight` | `[]TailDropKeepsFirst`, `[]HeadDropTight` |
| | `ProportionalAlwaysNear` | `[]ProportionalNear` |

Each module has the same shape: lemmas about the helpers, `Init => IInv`, one
lemma or step per action for `IInv /\ [Next]_vars => IInv'`, and the theorems.

**Queue.** A soundness property of stored tasks is not inductive: tasks are written
from copies that were read long before. `IInv` says the same of the copies that
calls in progress are going to write (`OpSound`), and that the keys they are going
to write under are unique among the stored ones and each other (`KeysUnique`):
that is why a Purge between the two scans of `updateTask` cannot lead to a second
key when the entry is written again.

For `TotalsNeverOvercount`, `CountsInv` says more than the count: the stored total,
and every total a goroutine has read and not yet written back, is at most the number
of identifiers that are `Counted`, which leaves out those whose Enqueue has not yet
come to its Put of the total. That Put counts one more of them; a stale one only
loses counts. It needs that two calls never count the same identifier, and that no
other call counts under this name (`CountsOnce`).

**The ledger.** With one consumer, or with callers in turn, every write of a call must be
a step of `TaskLedger` although it was computed from a scan that is by then old. So
`LedgerInv` says that what is still to be written fits what is stored *now*
(`OpFollows`): the task Dequeue is going to claim is still pending (`ClaimsPending`),
the one Ack or Nack is going to write back is still the caller's claim
(`SettlesClaim`), a new key is in nobody's way (`SubmitsFresh`), and what Purge has
listed stays finished or is gone (`DoomedFinished`). The rest is who may disturb this:
producers put under keys that are new, Purge deletes what is finished, and one
consumer at a time settles (`OneAtWork`). Processes may die at any point. `SettlesAlone`
names the hypotheses, and each is needed:

* two consumers that race claim one task twice (`queue_double_claim`);
* a Nack whose Put was applied but reported as failed leaves its caller with a task it
  still takes for its own: no step of the ledger gives it up twice, and
  `HeldIsClaimed` is false at once. Hence no request fails;
* for callers in turn the ledger promises order too. `Dequeue` with `ScanPrefix` skips
  what is not ready by the clock of its process, so one whose clock is behind claims
  past a task that precedes. Hence one process for that backend, or one of the others;
  `ReadyInTime` then says that every key made is due by the time of a later scan.

`StatsExact` follows from `ExactInv`: each counter, with the increments and decrements
that the one call at work has yet to make, is the number of tasks it stands for.

**Claims under failures.** With failed requests the ledger is out of reach, but not
`AtomicClaim`, which `queue.go:9` promises and `queue_double_claim` refutes for racing
consumers. `ConsumersTakeTurns` (one consumer, or callers in turn) is all it needs;
any number of requests may fail, applied or not, and processes may die between a scan
and its Put. `ClaimInv` says that a claim about to be written meets a pending task or
none (a Purge may have deleted a task that a retried Nack revived meanwhile), and that
what Enqueue, Ack and Nack are about to write is not claimed. A consumer whose Nack
failed still is one consumer, so nobody writes a claim while another's is under way.

**Keys.** `Power`, the weight of a byte, and `value` in the decoder are recursive
functions; that they exist with their equations is shown once (`RecursionExists`, by
the least length without such a function, since the library's induction takes an
operator as a parameter). The argument is about `Leading(n, i)`, what is left of a number when
all but its first `i` bytes are cut off: each byte extends it (`Cuts`), the decoder runs
through it (`DecodedWord`), and of two numbers the lesser one has the lesser byte where
their leading parts first differ (`WordsSorted`). `Parts` describes an encoded key by the
places (`Mark`) of its separators and bytes. The decoder finds the first of these
because the name has no separator and the shortest task still leaves room
(`NameEnds`); the others are at fixed distances. Two keys of one queue have their marks
at the same places and agree up to the number in which they differ (`SortedKeys`). That
the order of bytes is *only* that of the numbers follows since neither order
goes both ways (`PrecedesAsymmetric`). `KeysInv` ties stored keys to these facts.

**Transactions.** `IInv` ties every `Transaction` to one goroutine (`Ownership`),
its flags to the engine, and its write to the snapshot it read (`CallSound`,
`WriteSound`). The refinement follows: a commit applies `snapshot \cup {id}`, and
`Serializable` makes the snapshot the current value.

**IPC client.** `IInv` says who holds `mu` (`MutexHeld`) and that what is on the
wire is his (`RepliesPair`); `ClosedIsDown` keeps a closed client from sending. The
refinement mapping takes a call's effect to happen at `Serve`: a call is still
pending while its request is in `outbox`, and done when its reply is in `inbox`.
`CallsReturn` itself stays with TLC, but what it takes besides fairness is proved:
whoever reads has a reply coming or a connection that ended (`ReadsAnswered`), and
`WorkLeft`, the steps of the holder of `mu` and of the server before the unlock, at
most five, goes down with every step but that of a goroutine that joins the queue.

**gRPC client.** `GrpcInv` types the calls and says which requests and answers belong
to which steps. In the refinement a call is pending until its answer has been made,
and then done with what `ReadsAnswer` will make of it: a refusal is a failure that has
had no effect, or, for a batch, one that has. A call given up after `Sends` becomes
one of the abstract calls that are adrift.

**Traces.** `SpansAttached` says nothing of the records that goroutines are about to
write. `JobFits` does: an identifier in hand is on no stored span, a span in hand is
attached where it is going to be stored, and one that is being ended is still as it
was read, but for its end. `JobsApart` keeps identifiers of different calls apart, and
`Grows` says of every step that what is stored keeps its place.

**Retrieval.** `MatchesFirst` is about ranks, and `RetrievalInv` has it as it stands; the work
is in what Retrieve computes. With an index that has counted the word once per document,
each document with the word has a higher `Lexical` score than each without; what has the
word has a cosine above 0; so all of the first kind have better ranks in both rankings
(`Ranks` numbers documents by their scores, equal ones in any order), and a better
fused score. If both weights are 0 all fused scores are 0 and the order is arbitrary,
which `Weighty` excludes. The length of all texts together is the number of their words,
counted as a set (`Words`): the sum needs no induction that way.

**Extraction.** `Begun`: what a goroutine has taken off its list is under its key, as
long as it has not given up. `NextIsFirst`: what it stores next has nothing before it.

**Consolidation.** `IInv` types what a run has read, and says that a writer that
still has contradictions to store has stored its assertion; nothing deletes one.
For `CleanRunRefreshes`, `RunsCurrent` says that a run nobody disturbed has read
what is still stored, and that the facts it has dealt with are as its evidence
demands; the least time of a group and the first contradiction of a scan exist
because the naturals are well-founded.

**Collections.** The properties are inductive together with the types and
`MetadataPending`, which says of a deletion without a scan that it starts with the
metadata. `CallFine` states them for one call: a Delete anywhere keeps it true
because less is stored (`NoPut`), and a Put because it marks the calls it disturbs
(`PutNoticed`). What a scan did not come to is `unread` from the step that scans, so a stored
key that is not still to be deleted is unread, or the call has been disturbed.

**Graph walks.** `TraversalIInv` describes the frontier: what waits there was led to
by a walk, and for breadth first its depths ascend and span two levels, so that a
node is never entered deeper than need be. No edge of a scanned node is forgotten:
its target is visited or waits, for breadth first one level down (`Reached`, `Met`).
When the frontier is empty a walk that leaves the visited nodes, or enters one too
early, would have a first step that does, and there is none. For
`DeepWalksAreComplete` depths are bounded by the number of nodes visited.

**Semantic cache.** Every property speaks of one goroutine's call and of what all
others do to the store meanwhile. `Moved(a)` is what a step of `a` owes: its own call
is fine afterwards, its handle is the only one that changes, and what is stored was
stored before or has a later `put` (`StoreStep`). From that, `SweepBystander` and
`HandleBystander` keep everybody else's call fine once and for all (`MovedKeeps`),
and each action has one lemma that proves `Moved(a)`.

**Contexts.** Every truncation is one step, so the properties are facts about the operators
on sections of any number. What a loop adds up is the number of pairs of a section and one of its
tokens (`Total`), so that sums are cardinalities and are split, bounded and reordered by
what the library knows of finite sets. The loop of `headDropTruncation` is a recursive
function `at`. That a function with these equations exists, and that `dropped` never
exceeds the excess nor `kept` the sections, is shown for the least length at which it
would fail (`Least`), since the library's induction takes an operator as a parameter.
A section that is kept did not fit in what was left of the excess, and less
of it is left at the end: that is `HeadDropTight`. In proportional truncation each
section's share, rounded down, is at most its exact share, and at most one token is
added where it is 0: that is `ProportionalNear`.

**Only model-checked.** Liveness (`Drains`, `CallsReturn`, `RemoteCallsReturn`) is out of
the prover's reach, and the violations are counterexamples. Every invariant and every
action property of the passing runs, and every refinement, has a theorem. The definitions of
`ClaimInv`, `ReadsAnswered` and `HolderWorks` are in the proof modules; no run lists them,
and `EdgesOfVisited` is likewise proved and not checked.

## 16. Where code and documentation disagree

* `queue.go:9` promises an "Atomic claim protocol for concurrent workers". The scan
  and the Put of Dequeue are two requests and the Put is unconditional, so two
  consumers can both claim a task (`queue_double_claim`).
* `queue.go:10` promises a "Visibility timeout for crash recovery".
  `VisibilityTimeout` is stored and never read: a task whose consumer died stays
  claimed (`queue_lost_claim`).
* `embedded/database.go:264`: "The transaction will be aborted when the iterator is
  closed or GC'd". Nothing refers to that transaction any more and `Close` frees the
  iterator only (`txn_scan_leak`).
* `MEMORY_SYSTEM.md:77` calls canonical facts a materialized view "computed from
  event log". No code removes one: a fact that is contradicted after it became
  canonical stays (`consolidate_retracted`).
* `namespace.go:470`: "deletes a collection and all its data". Through `IPCClient` or
  `embedded.Database`, whose scans have other types, `DeleteCollection` takes its
  fallback (line 499) and deletes the metadata key only; the vectors are there again
  when a collection of that name is created (`DeleteCollection(t, FALSE)` in the
  model; no run of its own).
* `README.md:304` lists "Token budget enforcement". Only dropping from the end
  enforces the budget: dropping from the front stops at or above it
  (`HeadDropTight`), and proportional truncation may exceed it by a token for each
  section (`ProportionalNear`).
* `README.md:278` lists "Automatic expired entry purging". Get passes over expired
  entries, but only an explicit call of `PurgeExpired` removes them.
* `client.go`, `CachePut`: "Hash the key for storage". The storage key is the hex
  form of the first eight bytes of the key, so that longer keys with the same
  beginning share an entry and the slice is out of range for shorter ones. (Read in
  the code; see 17.)
* `memory_retrieval.go:316`: "Assign max rank to missing IDs". The loop looks for
  missing identifiers among those it has just ranked and finds none; a document whose
  text is missing then has rank 0 in the semantic ranking, better than first
  (`retrieval_missing`).

The following were read in the code while it was modelled; the models have the code's
behaviour and no run of their own shows it.

* `memory_types.go:15` calls an entity's identifier unique. It hashes type and name
  joined by `:`, which both may contain (`ItemID`).
* `memory_types.go:93`: `RequireProvenance`, "Require source tracking", is never read.
* `MEMORY_SYSTEM.md:175`: `MinConfidence` is to "Reject low-confidence extractions".
  A confidence of 0 is taken for a missing one and becomes 1 (`WithConfidence`).
* `Explain` of `memory_retrieval.go` reports a `combined_score` that ranks the one
  document it is given among itself, so that it is the same for all.
* `semantic_cache.go:170`, "removes all entries", and `namespace.go:470`, "and all its
  data": a scan that breaks off leaves what lay behind, and Clear and DeleteCollection
  return nil (`unread` in `SweepsComplete` and `DeletesWhole`). PurgeExpired does the
  same, and Get answers with a worse entry or none (`BestHit`).
* `queue.go:683`: Ack and Nack return nil and change the counters when the second scan
  breaks off before the task's key, although the task is not written (`LocateBreaks`).
* `namespace.go`, "GetOrCreateCollection gets or creates a collection": if another
  goroutine creates it between the two Gets, the call returns an error instead.

## 17. What is not modelled

* Generated code: `sochdb.pb.go` and `sochdb_grpc.pb.go` are 14 583 of the
  repository's 22 218 lines of implementation, so the map can hardly name more
  than a third of it. Accessors and stubs keep no state and decide nothing; what they do for
  a call is `Sends`, `Serves` and `Receives` of `GrpcClient`.
* Formats, errors, façade, commands and examples: no state and no order of steps of
  their own.
* The cache of `client.go`: CachePut is one Put and CacheGet one Scan with a
  comparison of numbers, so beyond `KVService` there is nothing to interleave.
* The four kinds of allowed sets: `Retrieve` takes any set of documents.
* Goroutines that share one memory-layer handle. Those that share a retriever race on Go
  maps, which ends the process. Those that share a `Consolidator`, an
  `ExtractionPipeline` or a retriever build keys by `append` on one prefix, as in the
  cache, and could write each other's keys if its array had room; section 13 shows this
  for the cache, and the memory modules suppose one handle for each goroutine.
* An answer of the IPC server to a scan or a query with fewer than four bytes, which the
  client reads as an empty result instead of a malformed one.
* A path or prefix longer than 65 535 bytes, whose length is cut to 16 bits
  (`client.go:153`, `358`, `387`): the server then sees another path.
* The native engine and the server, except for what the SDK observes of them.
  `Database.Close` while other goroutines use the handle is undefined behaviour of
  the engine, not of this code.
* `Dequeue`, `Search`, `Count`, `ListCollections` and `DeleteCollection` look for a
  `ScanPrefix` method that returns `ScanIteratorInterface`. `embedded.Database`
  returns a concrete type, so it does not satisfy that interface and these methods
  see nothing, without an error. This is a fact about Go's types; the model of the
  queue has it as the backend "embedded".
* Payloads, metadata, the bytes of frames, confidences in consolidation, how the
  similarity of vectors is computed; types and properties of graph nodes and edges; the output formats of
  contexts. Of these last, JSON merges sections of equal names.
* A negative time to live (an entry then never expires) and a negative budget.

## 18. Plan

Done: queue, embedded transactions, IPC client, consolidation, collections, graph
walks, context builder, semantic cache, gRPC client, traces, extraction, retrieval and
the queue's keys, in this order, since the queue is where most promises of the SDK
meet concurrency, and the others are what the rest of the SDK stands on or the parts
with the most intricate order of steps.

What would be worth doing next:

1. What else is left of the queue's promises when requests fail, besides `AtomicClaim`
   (`TurnsClaimOnce`): `ImplementsLedger` for a ledger with failed calls that may take
   effect, as `RemoteService` has them.
2. The composition of `PriorityQueue` with `KVService`: two requests of a worker with
   the failures of one client, in place of requests that fail on their own.
3. The cache of `client.go`, if it gets a sweep or a counter.
