# Indexarr: TLA+ models

Indexarr is a self-hosted BitTorrent index: it collects info-hashes from the
DHT, fetches their metadata from peers, watches their swarms, and shares the
result with other nodes as signed *deltas*.  This directory models the parts
whose correctness depends on the order of steps, on what fails between two of
them, or on several actors that share state.  TLC checks the models on small
instances, TLAPS proves the main invariants for all of them.

Paths such as `delta.rs` are short for `crates/indexarr-sync/src/delta.rs` and
so on in the repository; line numbers are in `PROJECT.json` (`map` has the
lines every definition stands for).

1. [Inventory](#1-inventory)
2. [Modules](#2-modules)
3. [Runs](#3-runs)
4. [Fairness](#4-fairness)
5. [Proofs](#5-proofs)
6. [What the runs found](#6-what-the-runs-found)
7. [Not modelled](#7-not-modelled)
8. [Plan](#8-plan)

## 1. Inventory

### Parts, state and operations

| Part | State it keeps | Operations that change it | Uses |
|---|---|---|---|
| delta exporter (`delta.rs`, export loop of `manager.rs`) | files `delta_N.ndjson.gz`, the file `sequence`, `torrents.sync_sequence` | `export_delta`: load the sequence, query, create and write the file, mark rows in chunks, save the sequence | torrents, identity (signatures) |
| manifest and file serving (`delta.rs`, `routes/sync.rs`) | none; reads the directory | `build_manifest`, fetch of a file by its hash | delta files |
| gossip (`manager.rs`) | the round's targets, the session's list and `max_seq` | `gossip_with_peer`: manifest, fetch each new delta, merge, `update_watermark`, `update_health` | peer table, remote manifest, merge |
| merge (`merge.rs`) | rows of torrents and of their files, content, tags | `merge_delta` / `merge_record`: filter, verify, insert / update unresolved / update metadata | database, ban list |
| peer table (`discovery.rs`) | peers by id, index by URL, rows of `sync_state` | `load`, `add_peer`, `evict_one`, `update_health`, `update_watermark`, reputation, `get_gossip_targets`, `persist` | shared by gossip, discovery, XMPP |
| resolver (`resolver.rs`) | leases (`retry_after`), attempts, permits, spawned fetches | claim a batch in lanes, fetch, `process_resolved`, `schedule_retry` | torrents, peer cache, metadata fetch |
| metadata fetch (`indexarr-resolver-v2`) | sockets in flight, pieces of one fetch, peers cached | candidates, race of several peers with a top-up, one timeout per peer | resolver |
| crawler (`ingest.rs`, `bep51_sampler.rs`, `engine.rs`, `lib.rs` of indexarr-dht) | queue of hashes, cache of peers, queue of nodes | sample, push, flush, upsert, discover peers | torrents |
| announcer, peer refresher | pool of tracked torrents, a batch | load candidates, scrape and settle, persist, three strikes, stamp | torrents |
| XMPP channel | session, nicks seen, backoff | connect, register, join, handle presence, validate, reconnect | peer table |
| identity, ban list | key file, pending recovery key, one copy in the web API and one in the sync worker | load or generate, restore, acknowledge, sign | exporter, web API |
| epochs (`epoch.rs`) | declaration file, state file | apply a declaration: save it, purge rows and files, save the state | (no caller yet) |
| database (`db.rs`) | all tables | DDL, repair of incomplete rows at start | resolver |
| web API (`routes/*`) | rows of torrents, votes, comments, suggestions, address records | bulk delete, uploads, import, votes, comments, review, signed records | torrents |
| log capture, idle timeout (`indexarr-web`) | ring buffer and channel, one deadline per connection | push, send, read; reset, expire | |
| start-up and shutdown (`main.rs`) | tasks, cancellation token | start the workers in order, cancel, wait | all |

All parts of one node share one PostgreSQL database.  Nothing but the resolver
(`process_resolved`), the start-up repair and some web routes runs in a
transaction of more than one statement.  Loops run as tokio tasks of one
process; cancellation drops most of them at the `await` they are in.  Several
processes may share a database (release notes of 0.3.0), and nodes only
meet over HTTP: one reads another's manifest and delta files.

### What is hard

* **Two stores, no transaction.**  An export touches the database, one file and
  the file `sequence`; errors of the last are ignored.
* **Watermarks.**  A reader remembers one number per peer and never looks behind
  it.  The publisher must therefore only append, and the reader must only pass
  what it has merged.
* **A manifest is a snapshot.**  Files are created, completed and rewritten
  after it was read.
* **A table shared by three loops and a channel.**  Each works on copies between
  two acquisitions of the lock; entries are evicted, moved and made anew
  meanwhile.
* **Leases.**  A claim survives the process that made it; a lost answer or an
  error leaves a lease with nobody behind it; a slow job outlives its lease.
* **Rows with many writers.**  Crawler, resolver, uploads, imports, merges,
  repair and deletion change the same rows with no common lock.
* **Errors that are ignored** (`let _ =`, `unwrap_or_default`, a log line), after
  which the next step runs as if nothing had happened.

### What makes each part correct

* exporter: saved sequences name complete, immutable files; a marked row is in
  the file it is marked with; every exportable row is published in the end.
* gossip: the watermark covers only what was merged or what the reader itself put
  aside; what else is published and wanted arrives; sessions end.
* peer table: bounded; spares bootstrap peers; no self peer; failing peers that get their turn go;
  watermarks do not move back; a snapshot is one state of the table.
* resolver: one fetch per hash at a time; one file list per torrent; no row
  forgotten while it has its turn; uploads starve nothing else.
* crawler: a hash taken off an answer is stored or known to be lost; only the
  answer to the query under way is used; every node of the queue gets its turn.
* metadata fetch: at most *n* peers at a time, none tried twice, what is served is
  authentic, an honest peer is never refused, the race ends.
* announcer: three *consecutive* misses, and only these, set `no_peers`; every
  named torrent becomes searchable or is struck out.
* life cycle of a torrent: what the resolver stored is complete and stays so; only
  writers that cross store a file twice.
* web API: a device's first key stays its key; a lone vote toggles; replies survive
  the comment they answer; a review removes what was reviewed.
* identity: the key in use is one that was saved, the node signs as it shows
  itself, and the recovery key on offer is the current one.
* XMPP: a node is asked once per stream, an older session of ours is no peer, the
  channel comes back until it is told to stop.
* epochs: a completed transition leaves no row of an older epoch.
* process: a silent connection ends, the log streams every entry once, a signal ends
  the node at whatever moment.

`PROJECT.json` lists the main hazards with their lines and the properties for each.

## 2. Modules

```
DeltaLog                      what a publisher promises: an append-only log
   ^ refined by
DeltaExport  <-- EXTENDS --  DeltaGossip        publisher; publisher and reader
   ^                            ^
DeltaExportProofs <-- EXTENDS -- DeltaGossipProofs

PeerTable        <-- EXTENDS --  PeerTableProofs
ResolverClaims   <-- EXTENDS --  ResolverClaimsProofs
TorrentLifecycle <-- EXTENDS --  TorrentLifecycleProofs
MCCrawler        <-- EXTENDS --  CrawlerProofs
PeerRecords, Social, LogCapture, IdleTimeout  <-- EXTENDS --  WebProofs
MCNode, TorrentLifecycleProofs, WebProofs     <-- EXTENDS --  NodeProofs

HashCrawl  MetadataFetch  Announcer                         the crawler's workers
TorrentLifecycle  PeerRecords  Social                       the index and its web API
Identity  EpochTransition  XmppDiscovery
NodeLifecycle  IdleTimeout  LogCapture                      the process around them

MCDeltaExport  MCDeltaGossip  MCPeerTable  MCResolverClaims
MCCrawler      MCNode                                       instances for TLC
```

### DeltaLog

The abstract specification.  A log of non-empty batches of at most `MaxDelta`
torrents; a batch never repeats a torrent that is in the index and was published
before; a published torrent stays published until it is deleted from the index,
and may be published again when it comes back.  This is what a reader with one number per publisher relies on.

### DeltaExport

One node's exporter and everything that changes the rows it exports.

* State: the columns of `torrents` that the export query looks at (`known`,
  `resolvedAt`, `shareable`, `syncSequence`), the directory (`delta`: rows of
  each file and whether its gzip stream was finished; `sequence`: what
  `load_sequence` makes of the file), the local variables of `export_delta`
  (`batch`, `todo`, `cur`) and where it is (`pc`).
* Actions: one per write of `export_delta`: `Select`, `Create` (which
  truncates a file of that name), `Write`, `Mark` (one UPDATE per chunk),
  `SaveTruncate` and `SaveWrite` (the two halves of `std::fs::write`).  `Index`
  is the rest of the node: discovery, resolution, announcer, import from a peer,
  deletion.  `Faults` are file errors, failing UPDATEs, the ignored error of
  `save_sequence`, a crash at any step, and a clean shutdown, which drops the
  future in the middle of an UPDATE.  `Restart` includes the repair of
  `run_migrations`, which clears `resolved_at` but not `sync_sequence`.
* Abstracted: the contents of a record, signatures, gzip.  `shareable` stands for
  "seed_count >= 1 and the name is no placeholder".
* The refinement mapping `Log` maps the files up to the saved sequence to the
  log; while `sequence` is truncated the log is the one it named before.

### DeltaGossip

EXTENDS DeltaExport with one reader.  `ReadManifest` takes the snapshot of the
directory less what the watermark covers; `Fetch`, `FetchNotFound` and
`FetchUnreadable` are the three things a fetch by content hash can meet: the same
complete file, another or no file, the same file still incomplete.  `MergeRecord`
and `Merged` take the records one at a time; `Finish` is `update_watermark`, which
runs only if the whole session did.  `Evict`, `SaveWatermark` and `ReaderRestart`
are the peer table as a session sees it.  `FetchRefused` is an answer that is no
success on a file that is there, `RecordLost` a record that fails to merge; both put
records aside for good, which the history variable `lost` remembers with their
delta.  The content of a file stands for its hash.  `Wanted` is the set of torrents that pass the reader's filters.

### PeerTable

The table, its index by URL and its rows in `sync_state`, under all the loops that
share it.  A step is what happens under one acquisition of the lock; `persist`
holds the read lock over its awaits and is one step per statement
(`PersistDelete`, `PersistInsert`, `PersistEnd`).  `AddAccepted` has one disjunct per
path of `add_peer`.  `Learn` offers any id, those of this node's bootstrap peers
included: ids in a PEX answer are whatever the other node sends, and its own
bootstrap peers have the same form.  `misnamed` is a history variable: the bootstrap
URLs whose id discovery moved to another URL or added with one.  Gossip is `GossipRound` (targets copied), `Dial` (watermark
read), `Fetched` or `FetchFailed`, `Report`.  Reputations are small integers: order,
clamp and threshold are kept.  `Stop` is the cancellation of the manager, which
persists once more; `Start` loads, possibly under another identity.

### ResolverClaims

The resolver as a work queue over `torrents`, with several processes on one
database.  A row keeps source, priority, whether it is resolved and classified,
attempts, the ticks until `retry_after`, and how often a resolver stored a file list
for it, versions before 0.3 included.  `IsBatch` is the query of `claim_unresolved_batch` with its three lanes
and the overflow; `Claim` is the UPDATE ... RETURNING (PostgreSQL locks the rows,
so it is one step); `ClaimLost` is the same with an answer that never arrives
(`unwrap_or_default`).  `Spawn` takes a permit, `Succeed` is the transaction of
`process_resolved`, `Fail` is `schedule_retry`, `FailUnrecorded` its ignored error.
`Start` includes the repair of incomplete rows.  Other writers: `Discover`,
`UploadMagnet`, `UploadTorrent`, `UploadContent`, `Import`, `MergeResolve`, `Delete`.  An upload
or import is a check and several statements; its INSERT does nothing when another
writer was first, and what it writes later (`UploadContent`) goes to whichever row
is there by then.  The files that imports and uploads store are not counted here:
TorrentLifecycle has them.  Rows that a peer's delta inserts are resolved from the start
and never claimed; they are left out.  The table starts with rows that an old
version may have left resolved without content, with or without files.

### HashCrawl

From the answer of a DHT node to a row of `torrents`.  The sampler has one query
under way; answers travel by UDP, may be lost or late and wait in the socket
(`inbox`), so a late answer can be received in place of the next one (`Receive`).
A packet's age stands for its transaction id, modulo `TxnIds`.  The ingest worker
drains the bounded queue into a batch, flushes it when it is full, at the interval
and at shutdown, and clears it whatever became of its rows.

### MetadataFetch

One job of the resolver: the candidates from the DHT, the cache and the trackers,
without duplicates, and the race over them: `Concurrent` at a time, a new one for each
that fails, one timeout around each fetch.  A fetch goes through connect, handshake,
extended handshake and pieces; a peer that is not honest may send anything
at any stage.  Of the assembled buffer the model keeps which units are the true
ones, which is what the SHA-1 tells.  The serving side is in the model as what an
honest peer answers.

### Announcer

The announcer and the peer refresher, which take their torrents in the order of
`announced_at`.  `Load`, `Poll` and the persist of the harvest are separate steps, and so is
every statement of the latter: the first that fails loses the rest, and the
harvested torrents leave the pool all the same.  The third strike is counted
and marked by two statements.  `quiet` is a history variable: how many stays in a row
saw no activity.

### TorrentLifecycle

One info hash and all the writers of its rows.  A request reads first and then has a
plan: the statements left.  `Execute` does the next one, `Failed` fails it; what a
kind of request tolerates (`let _ =`) is in `Tolerates`.  `process_resolved`, the one
transaction, is one step.  Foreign keys are in `Refers`: a statement that refers
to a deleted row fails.  `RestartNode` drops the requests of the process that stopped,
any of them, and runs the repair while those of other processes go on.  A second
job of the resolver may start while one is under way: nothing bounds a job by its
lease.  `raced` is a history variable: set when an INSERT finds a row that its request had
not seen, when a row is deleted or repaired under a request, when a second job starts, and
when an unresolved import brings files; `TwiceOnlyByRace` says that nothing else stores
a file twice.

### PeerRecords

`PutRecord` is the check of the stored key, `WriteRecord` the upsert, which keeps the
key of the row; `Answered` is what a GET returns.  `crossed` records that two writers
both found no record.

### Social

Votes, comments and suggestions of one torrent, while it is withdrawn, found again and
resolved.  All users have one fingerprint, as in the code.  Each statement is a
step; `talk` holds what a request read.  Rows that refer to the torrent go with it.

### Identity

The key file, the recovery key kept for the user, and the two copies in memory.  A
write is `Truncate` and `Fill`; either may be the last thing that happens.  `env` is the
recovery key of the environment, tried first at each start.

### IdleTimeout, LogCapture

One connection of the public sync port, whose deadline both directions share: each
poll of the inner stream that is pending looks at it (`PollRead`, `PollWrite`,
`Pending`, `Expire`).  The log: `Log` pushes under the lock, `Broadcast` sends after it
is released, each socket forwards at its own pace and skips what it missed.

### XmppDiscovery

`RunOnce` to `BackedOff` is the loop of `XmppChannel::run`; the XMPP library repairs a
lost connection within one stream (`Disconnected`, `GetOnline`).  `HandlePresence`
remembers a nick before its node is asked, `Validated` is the manifest's answer.

### NodeLifecycle

`run` of `main.rs`: the database, the workers in their order, the engine that the
DHT's workers need, the wait for the token and then for every handle.  Workers may
fail to bind, panic or end early.  `WebRequest` is a request of the main
port, answered by the splash page until the node is ready.  `SyncConnects` to
`SyncEnds` is a connection of the sync port, whose server also waits for it before it
stops.

### EpochTransition

A declaration is saved, then the purge of a seed or of any other node runs statement
by statement with its errors ignored, then the state is saved; a record may have
passed its epoch check before and be stored after.  `faulty` records that one of
the named things went wrong.

### MCCrawler, MCNode

The workers of the crawler share no variable, nor do the parts of the node: what one
writes to the database and another reads is an environment action of
both.  A behaviour of these instances runs one of them (`worker`, `part`), so the state
space is the sum, not the product.

## 3. Runs

Every run ends in less than five minutes.  Deadlock checking is off where the
system really may stop: when a bound is used up, the index is empty or
everything is resolved, there may be nothing to do.

| Run | Question | Checked |
|---|---|---|
| `MCDeltaExport_faults` | What holds whatever fails? | `TypeOK`, `SavedSequenceIsComplete`, `SavedDeltasAreImmutable`, `ExportableGetsMarked` |
| `MCDeltaExport_lost_rows` | Are marked rows published, whatever fails? | violation of `MarkedIsPublished` |
| `MCDeltaGossip_live` | While the publisher's writes succeed: is it an append-only log, and does what it publishes arrive, through failing sessions and restarts of the reader? | `GossipTypeOK`, `WatermarkCovers`, `MarkedIsPublished`, `SavedReachesReader`, `SessionEnds`, `ImplementsLog`, `ExportableGetsPublished` |
| `MCDeltaGossip_lost_delta` | Also if the publisher's export fails once, with nothing lost by the reader? | violation of `SavedReachesReader` |
| `MCPeerTable_table` | Is the table sound under all its loops, faults and restarts? | `TypeOK`, `TableBounded`, `NoSelfPeer`, `BootstrapPresent`, `SnapshotIsConsistent` |
| `MCPeerTable_live` | Does a failing peer that gets its turn go, and do watermarks only grow? | `FailingPeerIsDropped`, `WatermarkMonotone` |
| `MCPeerTable_dedup` | Are URLs unique, as the comment says? | violation of `DedupByUrl` |
| `MCResolverClaims_timely` | While jobs end within their lease: is a hash fetched once at a time, do resolvers store files once, are lanes used in their order, is no row forgotten? | `TypeOK`, `ExclusiveClaim`, `FilesStoredOnce`, `ClaimUsesItsSlots`, `WaitingIsClaimed` |
| `MCResolverClaims_overlap` | And if a job outlives its lease? | violation of `ExclusiveClaim` |
| `MCCrawler_workers` | Does what the crawler finds get stored, fetched and shown, whatever nodes and peers answer? | `WorkersTypeOK`, `OnlyAnswersAreUsed`, `CrawlProgresses`, `FetchIsSound`, `RaceEnds`, `ThreeStrikes`, `NamedIsShown` |
| `MCNode_parts` | Do the index, its web API and the process around them stay sound under crossing requests, failing statements, crashes and silence? | `PartsTypeOK`, `RowsAreSound`, `UncrossedIsSigned`, `SocialIsSound`, `IdentityIsSound`, `OldRowsGo`, `StreamedOnce`, `SilentEnds`, `ChannelLives`, `NodeStops` |
| `MCNode_first_key` | Is a record always signed by the device's first key, as the text says? | violation of `SubsequentWritesUseKey` |

Five of these properties are conjunctions of named parts:

* `FetchIsSound`: `RaceIsFair` (no more fetches at a time than `Concurrent`, none of a
  peer tried before unless the DHT named it twice), `FailedMeansAllFailed` (the race
  gives up only after every candidate failed), `ServedIsAuthentic` (what is served is the
  info dictionary), `HonestPeerServes` (an honest peer fails only by its connection or
  its timeout).
* `CrawlProgresses`: `SampledIsStored`, `QueuedNodeIsAsked`.
* `RowsAreSound`: `ResolvedHereIsComplete` (what the resolver stored is whole),
  `TwiceOnlyByRace` (files are stored twice only by writers that crossed).
* `SocialIsSound`: `LoneVoteToggles`, `RepliesStay`, `NukedWasReviewed`.
* `IdentityIsSound`: `MemoryIsSaved`, `SignsAsShown`, `OfferIsCurrent`.

`WorkersTypeOK` and `PartsTypeOK` are the type invariants of the modules of their
instance.  In `XmppTypeOK` no node is asked twice in one stream, in `RecordsTypeOK` what a
GET answers has not expired.

Each property of a passing run has a mutant in `PROJECT.json`: a definition of the
model changed the way a bug would change the code, which makes the run fail.

### Bounds

* *Exporter.*  Three torrents, three resolutions, `MaxDelta` 2 and `Chunk` 1 give a batch
  smaller than the candidates, a second delta, a failure between two chunks, and a
  row that is resolved again between the query and its mark.  Two faults are
  enough to crash, restart and fail again.
* *Gossip.*  Two torrents, one of them filtered; `MaxDelta` 2 and two
  resolutions give two deltas, so a session can fail between them or pass a lost
  record.  Two drops cover a failing session, a refused request or a lost record,
  followed by a restart or an eviction.
* *Peer table.*  This node, two others, two URLs and a bootstrap URL against a
  capacity of two: eviction, a moved peer and a URL collision all happen.  A
  failure limit of two distinguishes a first from the last failure.  One fault
  cuts one persist.  The bootstrap URL is one that no learned peer may have, and
  its id is told with another URL.  `MCPeerTable_live` has three contributors, of which
  one is this node, room for two and a fanout of one, so that a peer can be kept out of
  every round; one watermark above zero; and no restarts, which only interrupt the
  rounds.
* *Resolver.*  One instance with two kinds of behaviour, for their product would be too
  large.  Two rows with all writers and two processes with one worker each: a batch has
  room for both rows while only one may run; two ticks of lease; one fault: a process stops
  and comes back, an answer is lost or a retry is not recorded.  Three rows with one
  process, whose claim takes two, under endless discovery, magnets and deletion: a row is
  left out of claims, once or for ever.  Two attempts tell new rows from those tried before.
* *Crawler.*  Two nodes, one useful and one not, that name each other; two hashes
  for a queue of two, so that a second answer overflows it; one failing statement.
  Two peers, one honest and one arbitrary, both at a time, and three units in pieces of
  two, so the last piece is short.  Two torrents for a pool of one, one with a tracker
  of its own, one without.  `MaxLate` 0 keeps only the next query's age apart: late
  answers are then at most one query old.
* *Life of a torrent.*  Three requests of which two are under way at once: a read can
  be overtaken by any other writer, those of another process and a second job of the
  resolver included, and a third comes after both.  Two files show a list
  that is half stored.  Two faults: a failure and then a restart or a deletion.
* *Records, social.*  Two writers of two keys, an expiry within the horizon; two users
  and four requests, so a vote or review crosses two others.
* *Identity.*  Three keys: generated, restored, and one of the environment; two
  mishaps: a torn file and then a crash.
* *Connection, log.*  A timeout of two ticks, so that a byte may move in its middle; a
  buffer of two lines and a channel of one for three entries: both overflow.
* *XMPP, node, epochs.*  Four presences over five nicks, one for each branch of the
  handler; backoffs 1, 2 and the cap 3.  Four deployments: all workers, some without
  the engine, one that needs it alone, none.  Three epochs: a declaration can be
  followed by another and refused.

## 4. Fairness

* *Exporter*: weak fairness of `Export` as a whole; the export loop runs every
  `export_interval` for as long as the node is up.  `Restart` is fair where a
  supervisor is assumed (container restart policy).  Nothing of the rest of the
  node is fair.
* *Gossip*: weak fairness of `Session`: the gossip loop comes back to the publisher
  every `import_interval`, and each HTTP request has a timeout.  This assumes the
  publisher stays among the reader's targets, which is PeerTable's subject.
* *Peer table*: weak fairness of aging, persisting and starting.  Gossip is
  *strongly* fair: `Report` waits for the write lock while `persist` holds the read
  lock again and again, and tokio's `RwLock` queues its waiters, so it gets in
  between two persists.  A peer that is healthy again can still be kept out of the
  targets for ever when the fanout is smaller than the table (5 and 200 by default) and
  enough peers have at least its reputation; then it neither answers nor fails again.
  `FailingPeerIsDropped` has this as its premise (`CrowdedOut`).
* *Resolver*: claims of the resolvers that run, taken together, permits (tokio's
  semaphore is fair), the end of a fetch (each peer has a timeout) and time are
  weakly fair.  Starts and other writers are not, and which rows of equal rank a claim
  takes is open.  `WaitingIsClaimed` therefore excepts rows before which enough others
  come again and again (`Crowded`).
* *Crawler*: the ingest worker's step, the sampler's step (its query has a timeout), the
  timeout of a fetch and the announcer's loop.  Nodes, peers, trackers and
  the refresher are not fair.
* *Node*: `ServeConnection` (hyper polls the stream and tokio's timer wakes it), the
  steps of the XMPP channel that need no answer of others or have a timeout
  (`XmppStep`), and main, its workers once they see the token, and the end of a connection
  of the sync port by its idle timeout (`NodeStep`).
  Clients, users, presences and the signal are not fair.

## 5. Proofs

All theorems are for every value of the constants that meets the named assumptions
(`ExportAssumption`, `PeerTableAssumption` and so on, one per module).  These ask for
little: sizes and bounds are natural numbers, positive where the code has a positive
constant; sets of hashes, nodes, peers and of the files of one torrent are finite; the
model's words ("none", "torn", the names of statements) are no keys, sources or files;
`Bootstrap` is a subset of `Node`, the bootstrap peers fit the table and have ids of their
own.  `PowersOfTwo` says that 2^n is a positive number for n in 0..12, which the provers do
not know.  TLC evaluates all of them.  One theorem, `AnswersAreCurrent`, has a hypothesis
besides.

Each safety property a passing run checks, invariant or action property, is also a
theorem; the run shows it on a small instance.

### DeltaExportProofs

`SavedInv` holds under every fault.  It is `SavedSequenceIsComplete` with what
makes it inductive: the number in use is the one after the saved sequence
(`NextNumber`), the file of this number is complete before any row is marked
(`FileBeforeMarks`), and while `sequence` is truncated all files up to `cur` are
complete (`SavingIsComplete`).  `TypeCorrect`, `SavedComplete` and `SavedImmutable`
follow: `Create` and `Write` only touch the file above the saved sequence.

`ReliableInv` adds, for `ReliableSpec`, that a mark is in the saved log or was just
set by the export under way (`MarksAccountedFor`) and that the rows of a batch were
unmarked (`BatchIsNew`).  `ReliableMarks` is `MarkedIsPublished`;
`ReliableImplementsLog` is the refinement of DeltaLog: `SaveTruncate` and the steps
before it map to stutters, as does the gap between the two halves of the save;
`SaveWrite` maps to `Publish`, a row that comes into the table to `Learn`, `Delete` to
`Forget`.  Only rows of the table carry marks (`MarkedIsKnown`), so what `Publish`
keeps is in the index.

### DeltaGossipProofs

`GossipCovers`: while the publisher's writes succeed, the watermark and its saved copy only
cover complete deltas, and each wanted record of them was merged, or put aside at that
delta by an error of the reader's.  The invariant says that the directory has no
gap and only its last file may be incomplete (`FilesInv`), that the listed deltas
follow `max_seq` without a gap and a complete one is still what was listed
(`ListedFollows`, `ListedIsCurrent`), and that only the last listed one may be
incomplete, which is why passing over a file that is not found cannot be followed by
a later delta of the same session (`OnlyLastIncomplete`).  What a session passes over is
in `lost` before the watermark moves.

### PeerTableProofs

One invariant for seven theorems: entries of bootstrap peers and of contributors never
mix (`EntryOK`), a bootstrap URL is in the index exactly if its peer is in the table
(`IndexOK`), the bootstrap peers not yet added by a start leave room for the others
(`StartInv`, `RoomForBoot`), and a persist under way is one state of the table
(`SaveInv`).  `Bounded`, `NeverSelf`, `FailuresBounded`, `BootstrapStays`,
`SnapshotConsistent` and `WatermarksGrow` follow (`BootstrapStays` for the bootstrap peers whose
id discovery did not accept with another URL); `Typed` adds the types of the index and
of what the loops remember (`IndexTypes`, `LoopTypes`).  The general index is *not*
consistent with the table (see the findings), so the invariant claims it only
for bootstrap URLs.

### ResolverClaimsProofs

`LanesFitTheBatch`: for every number of workers the lane sizes add up to the batch.
`ClaimsAreExclusive`, `FilesAreStoredOnce` and `Types` are about `TimelySpec`: the
lease of a row with a job has not run out (`HeldLeases`), and a row that can still be
fetched has no files of a resolver (`UnstoredFiles`), so the transaction of the one job
stores the first list.  `TimelySpec` makes explicit what the code takes for granted: a job
ends before its lease, and no row in flight is deleted or requeued by the repair
of a process that starts.

`SlotsAreUsed` is the action property `ClaimUsesItsSlots`.  Only a claim raises the attempts of a row
(`OnlyClaimsCount`), so the rows whose attempts grew are the batch; of a batch,
`BatchUsesSlots` adds up the cardinalities of the three lanes and the overflow, which is
disjoint from them and takes exactly the slots they left or everything that was due.
`LeftOutIsCrowded` says what comes before a row that a batch leaves out: the heads of
every lane that holds the row, and together they are at least what a claim can take.

### TorrentLifecycleProofs

`LifeInv` relates the row to the statements that the requests still have to do.
`WellFormed` says what a plan can look like (what comes first tells the kind of request, no
file comes twice).  Requests may be of several processes and a restart takes any of them.
`RaceInv`, for as long as nothing crossed: an unresolved row has no
files; at most one request is storing files, those it has left are not stored yet, and none
is while the resolver's transaction is to come, of which there is one at most.  A failed or
a dropped request only makes plans shorter.  `RowsStaySound` (`RowsAreSound`) and
`LifeTypesHold` follow.

### CrawlerProofs

* *Fetch.*  `FetchInv`: every fetch started is under way or was counted as a failure
  (`CountInv`), so a race without fetches under way and without candidates has failed in all of
  them; the cache holds no peer twice, so candidates repeat only among those the DHT named
  (`SingleInv`); an honest peer has delivered exactly the units of the pieces it has
  sent (`HonestFetch`), for which `PiecesFacts` says when the last piece is reached.
  `FetchStaysSound` is `FetchIsSound`.
* *Announcer.*  `StrikeInv`: while no statement failed, a row has no more misses than its torrent
  had quiet stays; a harvest that is not recorded yet is one stay ahead; a torrent that was marked is
  on its way out of the pool.  `StrikesAreThree` is `ThreeStrikes`.
* *Hashes.*  `AnswersAreCurrent` is `OnlyAnswersAreUsed`.  A packet's age grows by one with each
  query, and the socket loses one packet for each query that ends, so a packet that came in behind
  others grows old there.  `InboxInv` bounds the age of the packet in place i: by
  `2 * MaxLate + 2` less i, and one more for each failed send, which lets one age and takes none
  out.  An answer is taken for another's only if it is a whole cycle of transaction ids
  old, hence the hypothesis `2 * MaxLate + CrawlFaults + 1 < TxnIds`.  It is tight: with
  `MaxLate` 2 and `CrawlFaults` 1 TLC finds 7 ids enough and 6 too few.  In the code the
  cycle has 2^16 ids: what the hypothesis excludes is an answer that comes tens of thousands of
  queries late, or as many failed sends while one packet waits in the socket.
* `WorkersStayTyped`: the three invariants together, for `MCSpec`; each module is proved
  about by its own step lemma, and a behaviour of the instance is a step of one of them.

### WebProofs

* *Records.*  `RecordsInv`: a request that found a record was let through with its key, and
  the key never changes, so what it writes is signed by the key of the row.  A request that
  found none writes the first record or sets `crossed`.  `RecordTypes`, `UncrossedSigned`
  and `FirstKey` (the key of a device's first record stays) follow.
* *Social.*  `SocialInv`: the parent of a comment is there (`SaidInv`), the vote a lone request
  read is there still unless the torrent went (`LoneInv`), a review under way found its
  suggestion nuked or was crossed (`ReviewInv`).  `SocialStaysSound` is `SocialIsSound`, a
  conjunction of three action properties.
* *Log.*  `LogInv`: the buffer holds the last entries without a gap (`BufferInv`), each category in
  it has a last entry (`LastInv`), and what was sent and what the threads hold back are
  together every entry, once (`StreamInv`).  `EntriesStreamOnce` is `StreamedOnce`.
* *Connections.*  `IdleInv`: what is left of the timeout and the time since the last byte
  together are at least the timeout.

### NodeProofs

* *Identity.*  `IdInv` follows main and a restore through what they save.  From the save on there
  is a key to save (`StepInv`); what is shown is in the file as soon as the file is complete,
  and only a failed save of a restored key leaves them apart (`SavedInv`); the sync worker
  reads after main has saved (`SyncInv`); before any mishap the key of the file is on
  offer or the user has it (`OfferInv`).  `ServesAnIdentity` and `IdentitySound` follow.
* *Epochs.*  `EpochInv`: only the first statement of a plan purges, after it every synced row
  is of the current epoch and stays so, since a merge that starts then reads the new
  declaration; while the purge is to come the state file is behind the declaration.
  `EpochTypes` and `OldRows` follow.
* *XMPP, process.*  `XmppInv`: who was asked was seen before, and only strangers are asked.
  `NodeInv`: no worker runs before the database is there, after main has returned, or on
  the DHT without its engine.
* `PartsStayTyped`: the types of all parts of the instance, from the nine invariants.

### Only model-checked

What is left to TLC is liveness, which the prover cannot do under fairness:
`ExportableGetsMarked`, `ExportableGetsPublished`, `SavedReachesReader`, `SessionEnds`,
`FailingPeerIsDropped`, `WaitingIsClaimed`, `CrawlProgresses`, `RaceEnds`, `NamedIsShown`,
`SilentEnds`, `ChannelLives` and `NodeStops`.  `FailuresBelowLimit` and `FirstKeyStays` are proved
and in no run.

## 6. What the runs found

* **Marked rows that no delta contains** (`MCDeltaExport_lost_rows`).  Rows are marked
  with N before N is saved.  A failure in between lets the next export use N again
  and truncate the file; the rows stay marked and are never exported.
* **A delta number published twice** (`MCDeltaGossip_lost_delta`).  The manifest lists
  files above the saved sequence.  A reader that takes such a delta never fetches
  what the next export writes under the same number.
* **"Dedup by URL"** (`MCPeerTable_dedup`).  A known peer told of under a new URL changes its entry
  but not the index, so a second peer can be added under that URL.
* **The lease is not a bound on the fetch** (`MCResolverClaims_overlap`).  The release
  notes say that a slow peer race cannot be claimed by another loop; nothing
  extends the lease or limits a fetch to it.
* **"Subsequent writes must use the same public key"** (`MCNode_first_key`).  The key of
  an address record is compared by one statement and the record written by another.
  Two first writers are both accepted; the row keeps the key of one and takes the
  signature and addresses of the other.

Met on the way, without a run:

* The list of gossip targets is cut to the fanout after a healthy bootstrap peer was
  found in it, and the cut may remove it (discovery.rs).
* After a restore through the web API the manifest names the new identity while the
  deltas and the XMPP nick are the old one's, until the node restarts.
* A crash between saving a new key and saving its recovery key leaves a key whose
  recovery key is never offered; one in a restore leaves the old one on offer; one in the middle of
  the key file ends every later start.
* The announcer drops the results behind a failed statement, and with it the
  stays they were about.  `consecutive_errors` of the ingest worker is never incremented.
* `evict_if_needed` of the cache of peers has no caller, nor have
  `apply_epoch_declaration` and `add_verified_ban`; `sync_preferences.json` is
  written and never used by the sync manager.
* A dismissed suggestion blocks every later one for its torrent, since all users share
  a fingerprint.
* The records' router is nested twice: its path is /api/v1/api/v1/peer-records.

* An index entry whose peer has moved makes `add_peer` return true for a URL no
  peer of the table has (discovery.rs:109-126).
* A non-success status skips a delta without an error (manager.rs:351), and a record that
  fails to merge is counted and skipped (merge.rs:68); the watermark passes both, and the
  records are lost to this reader.  `FetchRefused` and `RecordLost` are part of `SafeSpec`;
  the properties name what they put aside.
* Discovery can move a bootstrap peer: an answer that gives its id (`bootstrap-` and a hash
  of the URL, which other nodes compute alike) with another URL rewrites its entry
  (discovery.rs:121-126).  The next start moves it back without its entry in the index, so
  another peer may take its URL, and if the next persist is cut before the bootstrap peer's
  row, the start after that finds the URL taken and leaves the bootstrap peer out.
* A row that was tried once can wait for ever behind new discoveries: the general lane and
  the overflow prefer the fewest attempts, and only never-attempted rows have a lane of
  their own (resolver.rs:342-366).  Without its exception `WaitingIsClaimed` is violated by
  such a stream.
* A peer whose reputation is at the end of the order can be left out of every round of
  gossip while others fill them; it then neither fails nor answers.
* The resolver stores an empty name if the info dictionary has none (resolver.rs:576-580),
  and the row counts as resolved.
* The repair also requeues rows of source `bep51` and `upload` that a merge
  resolved; such rows have no content of their own.
* With one worker the batch is two: new discoveries and uploads get one slot each
  and the general lane none but the overflow, where the release notes speak of a
  half and a quarter.
* An imported item that names `upload` as its source and has no name is in no lane:
  it has no priority, and the general lane leaves uploads out.
* `torrent_files` has no unique key, so nothing but the order of steps keeps a file
  list from being stored twice.  An unresolved import that brings files, two crossing
  uploads, a job that outlives its lease and a repair under another process's request each do.

## 7. Not modelled

* Torznab, search, statistics, TMDB, classifier, name parser: stateless queries, or pure
  functions of strings driven by regular expressions.
* The formats: bencode, gzip, JSON, XMPP stanzas.  Signatures and the ban list are
  filters (`Wanted`).
* The web UI, website, installer, scripts and CI.
* PostgreSQL, tokio and the file system are modelled by what the code relies on: a
  statement is atomic and durable, a lock's waiters are queued, `std::fs::write` is a
  truncation and a write that is either complete or did not happen.
* Tags, seeders and the other counts, so `fill_gaps` of a merge is no step; which of two
  writers gave a row its name; a parent comment of another torrent.
* Preferences and statistics of the web API.

## 8. Plan

1. *Done*: the exchange of deltas (`DeltaLog`, `DeltaExport`, `DeltaGossip`), `PeerTable` and
   `ResolverClaims`, with their proofs.
2. *Done*: the crawler (`HashCrawl`, `MetadataFetch`, `Announcer`), the life of a torrent, the
   web API and the process (`MCNode`).
3. *Done*: the proofs of all safety properties of the runs; the models of the reader's own
   losses, of a gossip fanout smaller than the table, of more rows than a claim takes, and of
   several processes that write one torrent.
4. *Left*: abstract specifications for more components and the refinements onto them: a race
   over candidates that fails only when all did, for `MetadataFetch`; a queue that hands each
   row to one owner, for `ResolverClaims`; a register with one key, for `PeerRecords`.
