# Verification of webway

This directory holds TLA+ models of webway, the TLC runs that check them on
small instances and the TLAPS proofs about them.  webway (repository paths below
are relative to the repository root) is a command line node that publishes
models under an ed25519 key: a name is a signed BEP44 record in the Mainline DHT
that points at a torrent, a publisher's catalog is a torrent too, and an optional
Ethereum registry anchors the newest record of a name.  A node is one Node.js
process: its own code never runs in parallel, and everything that can go wrong
goes wrong between two `await`s, between two processes that share a home
directory, between two nodes, or at a crash.

The models are translated from the source.  An action is what runs between two
awaits of the code (or one file system operation, where another process or a
crash can come in between), with every call it makes that changes state.

## 1. The system

| component | code | state | operations |
|---|---|---|---|
| catalog torrents | `src/node.ts` 985-1303 | `catalogCache`, `catalogInflight`, `refs`, `current`, `ihTails`, `gen`, directories `catalogs/<pk>/<ih>/<gen>` | `catalogFull`, `acquire`, `release`, `retain`, `retire`, `capTorrents`, `maybeDestroy`, `loadCatalog` |
| names and versions | `src/node.ts` 505-528, 618-963 | `shares.json`, `seq.json`, `records.json`, `follows.json`, the DHT items | `nextSeq`, `allocateVersion`, `publishName`, `prepareShare`, `unshare`, `remember`, `republish`, `resolve` |
| import promotion and recovery | `src/hf.ts` 482-636, `src/versions.ts` 60-203, `src/node.ts` 531-566 | version directories, `current.json`, pending journals, staging records, the model link, `backing` | `importLocked`, `pruneVersions`, `recoverVersions`, `recoverImports` |
| repository lock | `src/versions.ts` 205-302 | the lock directory and its owner file, the reclaim guard | `tryAcquire`, `isStale`, `release`, `withRepoLock` |
| registry contract | `contracts/src/WebwayRegistry.sol` | `ownerOf`, records, node lists | `bind`, `publish`, `setNodes`, the views |
| registry client | `src/chain.ts` | none between calls; a snapshot during one | `snapshot`, `atSnapshot`, `readAll`, `latestOwner`, `latestSeq`, `bind`, `publish` |
| DHT start and isolation | `src/node.ts` 252-503 | `dnsCandidates`, `dnsRetries`, `wasPopulated`, timers, listeners | `start`, `armDiscovery`, `scheduleDnsRetry`, `checkIsolation`, `stop` |
| node adoption | `src/node.ts` 105-128, 1043-1093 | `dht-adopt.json`, session counters | `adoptNodes`, `sanitizeAdoptFile` |
| transitive search | `src/node.ts` 1305-1397 | the BFS queue, results, budgets | `search`, `parseCatalog` |
| model download | `src/hf.ts` 97-480 | partial files | `validateManifest`, `downloadFile`, `pruneTo`, `verifyComplete` |
| JSON persistence | `src/atomic.ts` | per-path chains, temporary files | `atomicWriteJson`, `writeJsonAtomic` |
| bootstrap lists | `src/bootstrap.ts` | none (pure), a DNS resolver | `mergeBootstrap`, `startupPeerPings`, `advertisableNodes`, `dnsSeeds` |
| command line, keys | `src/cli.ts`, `src/args.ts`, `src/cliopts.ts`, `src/keys.ts` | `key.json` | argument parsing, signing |
| signature check | `contracts/src/Ed25519.sol`, `contracts/src/Sha512.sol` | none | `verify` |

How they interact.  `search` calls `catalogFull` for every publisher it visits;
`catalogFull` reads the publisher's record from the DHT, loads the catalog torrent
and hands the nodes in it to `adoptNodes`.  `importHf` holds the repository lock,
downloads into a version directory, and promotes it with `prepareShare` (which
allocates a version from `seq.json`, the DHT and the registry, persists the
share, and puts the record), then commits with `current.json`.  `start` runs the
recovery of imports before it creates the torrent client.  `republish` runs every
50 minutes, re-signs our names, re-puts the records we hold for others, and calls
`publishCatalog`, which destroys and re-seeds our own catalog torrent.  The JSON
files are shared by every call of one process, and by every process that uses
the same home directory.

What is hard about it:

* interleaving of asynchronous calls: loads, queued destructions, concurrent
  shares, and read-modify-write cycles over the JSON files;
* state read before an await and used after it (`prev` in `prepareShare`, the ref
  in `acquire`, the floor of an allocation);
* deadlines and abort signals that race with the answer;
* crashes between the steps of a promotion, and a recovery that has to tell from
  the files what had been committed;
* two processes that contend for one lock, and a holder that dies;
* RPC endpoints that disagree, lag and reorganise;
* limits (cache, torrents, adoption budgets, retries) that must hold over long
  sequences of calls.

What makes each component correct is stated, property by property, in
`PROJECT.json` under "hazards", at the line where the hazard lies.

## 2. The modules

| module | models | extended by |
|---|---|---|
| `CatalogTorrents` | catalog torrents | `MCCatalogTorrents`, `CatalogTorrentsProofs` |
| `RepoLock` | the repository lock | `MCRepoLock`, `LockDiscoveryProofs` |
| `ImportPromotion` | import promotion and recovery | `MCImportPromotion`, `ImportPromotionProofs` |
| `NameVersions` | names and versions, with what it uses of the registry and its client | `MCNameVersions`, `NameVersionsProofs` |
| `WebwayRegistry` | the registry contract | `ChainReads` |
| `ChainReads` | the registry client's reads, over forks of a chain that holds the contract | `MCChainReads`, `ChainReadsProofs` |
| `AtomicFile` | what `atomic.ts` promises of a file (an abstract specification) | |
| `HomeFiles` | JSON persistence, shown to implement `AtomicFile` | `MCHomeFiles`, `HomeFilesProofs` |
| `AdoptNodes` | node adoption | `SearchWalk` |
| `SearchWalk` | the transitive search, composed with the adoption that its loads wait for | `MCSearchWalk`, `SearchWalkProofs` |
| `HfManifest` | which manifests an import accepts (operators) | `HfDownload` |
| `HfDownload` | model download | `MCHfDownload`, `HfDownloadProofs` |
| `BootstrapLists` | the bootstrap lists (operators) | `Discovery` |
| `Discovery` | DHT start, DNS seeds, retries, isolation and stop | `MCDiscovery`, `LockDiscoveryProofs` |

The `MC` modules only add the symmetry sets and the values that a configuration
file cannot write.  In every component module an operator whose name is that of
another one followed by `_` and a word (`Destroy_NoRecheck`) is a faulty version
of it, with a comment that says what is wrong; no specification uses it.  Putting
it in the place of the right one breaks the property that `PROJECT.json` pairs it
with, which is how we know that the property can fail at all.

### CatalogTorrents

One node, its `catalogFull` calls (`Callers`), the `loadCatalog` calls they share
(`Loads`), and the webtorrent client.  `inflight`, `refs`, `current`, `tail`,
`cache` are the maps of the same names in the class (`tail` is `ihTails`, as the
queue of operations it stands for), `ref[l]` is the `TorrentRef` load `l` created
with the state of its torrent, `disk` the directories.  The synchronous methods
(`retain`, `retire`, `release`, `maybeDestroy`, `capTorrents`) are operators on the
record of the four variables they change, so an action composes them in the order
of the code: `Finish` is retain, insert in the cache, retire the evicted entry,
release, cap.  `AcquireLookup`, `AcquireMiss`, `AcquireAdd` and `Destroy`, `Remove`
are the steps of the queue's two kinds of operation, cut at the awaits.

Abstracted: `lastUse` (any idle torrents may be evicted, a superset of what the
code does), the content of a catalog (a read succeeds or fails), the download (two
degrees of progress that may never come).

### RepoLock

Processes that share a file system.  `lock` and `guard` are the directories
`<dir>` and `<dir>.reclaim`, `pc[p]` is where process `p` is in `tryAcquire`,
`isStale` or `release`; every file system operation is an action.  Writing the owner
file is two: `writeJsonAtomic` first makes the directory, anew if somebody has taken it
away (`EnsureDir`), so that an acquirer whose lock was renamed aside goes on as a
holder.  Imports end at any time and processes crash anywhere.  `Age` makes old what
nobody works on any more.  That only such directories become old is the assumption
under which the lock is meant to work: a live process's heartbeat and its reclaiming
keep within `staleMs`.  One host; pids are told apart by their start time, as the code
does.

The lock does not exclude (finding `repolock_exclude`), and `blind` remembers the two
steps that are to blame: a reclaimer renames aside a directory that was not there when
it checked, or removes a guard that is not the old one it saw.  Until such a step the
properties promise everything that the code's comments do, whatever else happens.

### ImportPromotion

One repository, one process, with an import and a recovery that run concurrently.
`dirs`, `recs`, `pend`, `ptr`, `link`, `share` are what is on the disk: version
directories, staging records, pending journals, `current.json`, the model link and
our own record in `shares.json`.  `name` is the infohash last put under the name,
`torrents` the backing directories of the process's torrents.  `imp.pc` walks
through `importLocked` (and the `share`, `prepareShare`, `unshare` and
`stopTorrent` calls in it), `rcv.pc` through `recoverVersions` and
`recoverImports`.  A crash keeps the files.  A behaviour has one of the sets
`Troubles` of things that go wrong besides crashes and cancellations; every
property says which ones it withstands (`Only`), and the runs try each kind.

| trouble | what it is | why not everything withstands it |
|---|---|---|
| `publish` | the seeding, the allocation or the put fails | the catch of hf.ts:598-602 deletes the directory, also of content that a former attempt published |
| `write` | `current.json` or the link cannot be written | the promotion is left half done until the next recovery |
| `haste` | a start comes while the lock that a crash left is not stale yet | recovery skips the repository and goes on |
| `demand` | `recoverImports` is called while an import may run | what it restores was read under a lock that it has given back |
| `delete` | somebody deletes a version's directory | nothing can be promised about its content; recovery must still leave things in order |
| `unsized` | the manifests have files without a size and without a hash | the next import of the version removes and downloads them again, also where it had been published (observation 22) |

### NameVersions

One name of one publisher.  `counter` is its entry in `seq.json`, `share` our own
record in `shares.json`, `dht` the one mutable item, `chain[a]` what account `a`
has published, `pool[a]` its transactions that are not mined yet.  `Calls` run
`share`, `importHf` (as far as it shares), the part of `republish` that re-signs,
and `publishToChain` (`anchor`), cut at every await.  The rest of `republish` is
the other node's: `KeepLook`, `KeepLatest`, `KeepPut`; `Remember` is the chain of
writes that `getRaw` starts and does not wait for.  The clock is any value at any
allocation, so it may go back.  The DHT follows the BEP44 rule (an older version
does not replace a newer one) and a put that is reported failed may have been
stored.

The counter, the DHT's record and the owner's chain record are the three witnesses of
the versions given so far.  Three events take one of them away (`Expire`,
`LoseCounter`, `Bind`), and nothing restrains them: the counter may go while calls run,
which is what happens when `nextSeq` cannot read `seq.json` and takes the default.
`InSight(n)` says that a version is known to whoever allocates: the counter has passed
it, or each allocation that is under way, or begins now, is above it all the same.
`forgot` remembers that an event has put a version out of sight; it can be given again
then, to another content (observation 21), so `VersionsOrdered` and `SharedResolves`
speak of behaviours up to there.  A call's `met` says that another one was under way at
some time during it (`Alone` that none was), which is what the properties about a single
share need.

### WebwayRegistry

The contract as functions of its state: `Deployed`, then what `Bind`, `Publish` and
`SetNodes` make of a state (the same state where the code reverts) and what
`OwnerOf`, `Resolve` and `NodesOf` answer.  It has no variables, since there is one
state of it in every block of every fork.  `Verify` is the signature check as a
predicate: a signature is a record of what was signed, and nobody can make one
that its key did not.

Abstracted: the lengths of names and licenses (always accepted), the license (part
of a content), the time of a record, the events.

### ChainReads

`blocks` is the tree of all blocks that any server ever had (a block names its
parent, its height, and the contract's state after its one transaction), `signed`
what keys have signed, for this chain or others.  Anybody may send any transaction
with any of these signatures.  One client reads: `Probe` and `ReadHash` are
`snapshot` up to the heads and up to the hash, `ReadOwner` and `ReadRecord` the two
calls of `verified` (the public `ownerOf` and `resolve` are one of them alone),
`ReadNodes` is `nodesOf`, `RoundFails` the one retry of `atSnapshot`.  Between any
two of these the chain grows on any fork.  A server that is behind, or switches
forks, is one that answers from another block of the tree the next time; whoever
does not answer, or refuses to pin the call to the hash, is left out of the round.

`Faulty` endpoints answer anything of the right type.  The one assumption is that
there are fewer of them than `MinAgree`: this is the choice that the repository's
README (src/README.md:118-148) explains to the user, and with `--min-agree 1` it
means that every endpoint is honest.

`HonestHeight` is about one evaluation of `Height` over any heads, not about one
behaviour.  It speaks of rounds in which enough honest endpoints answer with heads
close together; the freshness of a snapshot is relative to who answers.

### AtomicFile and HomeFiles

`AtomicFile` has two variables: the content of a file and the queue of the writes
that were asked for.  Writes take effect one at a time in the order of the calls, or
are refused; a crash empties the queue; every write ends.

`HomeFiles` is the code: `chain` is the entry of the file in `chains` of `atomic.ts`,
`after[c]` the write that call `c` found there, `tmp[c]` its temporary file, and
`Open`, `Fill`, `Rename`, `Unlink` the file system operations of a write, each of
which may fail.  `Forget` is the callback that removes a settled entry.  `txn` and
`before` are `sharesTxn`, the chain of transactions on top of it that `mutateShares`
has (`nextSeq`, `remember` and `adoptNodes` have chains of the same kind); `Loose`
calls have none, as `follow`.  The content of the file is the set of the calls whose
change is in it.  The refinement maps the queue to `line`, the writes that were asked
for and have neither renamed nor failed.

### AdoptNodes and SearchWalk

`AdoptNodes`: `queue` is `adoptChain`, `tx[t]` a call of `adoptNodes` with the file it
has loaded, `adopted` and `session` the fields of the process, `file` what is in
`dht-adopt.json`.  `Load`, `Grant`, `Persist` (or `PersistFails`) and `Hand` are the
parts of `adoptTx` between its awaits; `Taken` is its loop, as the one set of
positions that the decision `May` is consistent with.  The routing table is any set
of addresses at any `Grant`.

`SearchWalk` extends it: one search and another reader of catalogs (`OtherReader`)
share the chain of adoptions.  `frontier`, `next`, `queued`, `hops` and `hits` are
the variables of `search`; `Enqueued` is its enqueuing under the budget, `Take` what
it makes of a catalog, `ParsedEndorse` and `ParsedEntries` what `parseCatalog` leaves
of one.  These loops keep the first occurrence of a thing (`Firsts`) until a limit is
reached: `Rank` is how many were kept up to a position, `Picked` the list of what is
at the positions kept.  They are written without a fold so that they can be reasoned
about.  A catalog comes from the cache (`KnownCatalog`), after the adoption of its
nodes (`LoadedCatalog`, `Adopted`), or not in time (`NoCatalog`).  `web` is what all
catalogs hold.  The reference definition of the walk is `Within`: the publishers
that so many endorsements lead to.

### HfManifest and HfDownload

`Accepted` is `validateManifest` as a predicate on the list of siblings; `Fold` is
its folding of names; `Files` is the list that it returns.  `HfDownload` takes one import after another of one version:
`Prune`, `Stage`, `Record` are the preparation in `importLocked`, then for each file
`Copy`, `Get` (the decisions of `downloadFile` before its request), `Answer`,
`Receive` a byte at a time, `EndBody`, `Check`, `Count`, and at the end `Promote`.
`disk` has a place for every folded name; a file there has a spelling, a length and
whose bytes it holds (`Mixed`, if of several); `Whole` is how long the content of a hash
is, so that a beginning of it does not have the hash (`Hashes`).  `dirs` are the
directories there: `MakeDirs` adds those that a download or a copy needs, pruning leaves
those that are not empty, and `Contained` is the check of `containedPath` before the
pruning, which an import does not pass if a file is where it wants a directory or the
reverse.  An answer to a range is honoured,
ignored or about another range (`ranges`), as the server likes it.  Crashes,
cancellations, stalls and resets are one action (`GiveUp`): each ends the import
with the files as they are.  `CommitAssumption` is about the server: an import is of
one commit, whose small files (those without a hash) are the same in every answer,
and empty where the answer says so.  Nothing is assumed of the large ones, whose
hash an answer may change.

### BootstrapLists and Discovery

`BootstrapLists` has the pure functions; `Canon` is parsing, the model's only
abstraction of them.  `Discovery` is one node: `queries` are the lookups of
`dnsSeeds`, `emitted` its `order`, `Reply` a domain's answer with the whole of
`admit` (admission, arming, pings, the retry timer), `Tick` the retry timer,
`checkIsolation` the interval's, `Contact` the library's "node" event.  `timers` is
the number of timers that will fire, so that a second one would show.  `sampling`
keeps apart that `start` has not yet set its interval, since `stop` may come first.
`DiscoverySpec` and the like have longer names than elsewhere because the proofs about
discovery and about the lock, two small components that share nothing, are in one
module, which extends both.

## 3. What the runs check

Some of the properties are conjunctions of parts that belong together, each named
and commented in its module: `LiveIsKept` and `UnusedEnds` of the catalogs,
`ContentKept` and `RecordsMatch` of the imports, `VersionsOrdered` of the names,
`BudgetsHold` and `WalkIsExact` of the search, `WithinLimits` of the download,
`SeedsAdmitted` and `Bounded` of the discovery.  The text speaks of the parts.  The
types of `ImportPromotion`, `ChainReads` and `HomeFiles`, and `OneReclaimer` and the
types of `RepoLock` (a part of its invariant), are not in the runs, since they are
proved.

| run | bounds | shows |
|---|---|---|
| `catalog_shared` | 2 publishers, 1 infohash, 3 loads, 2 callers, limits of 1, 1 outside event | the counters, the single load per key, registration, directories |
| `catalog_live` | 1 publisher, 2 infohashes, 2 loads, 1 caller, limits of 1, 1 event | nothing leaks; an aborted load ends; what nothing uses is removed |
| `repolock` | 3 processes, 2 crashes anywhere, a lock or a guard of the past | exclusion and the holder's directory until a blind step; a leftover lock is reclaimed |
| `repolock_exclude` | 3 processes, no crash | violation: see findings |
| `import_troubles` | 3 versions (2 of the same content), 2 crashes, 4 sets of troubles | the promoted, linked, shared and published content, recovery |
| `import_start` | the same, 1 crash, no troubles | violation: see findings |
| `names` | 2 calls, 2 contents, 2 accounts, versions up to 2, 1 event, 2 lookups | versions, resolution, rollback, while another node puts old records back |
| `chain` | 3 endpoints, 1 faulty, `MinAgree` 2, 3 blocks, 2 signatures, 2 chains, epochs and versions up to 1, lags of 1, heads up to 5 | ownership, forks, the chosen height, what reads answer |
| `home_files` | 2 transactions, 1 call without one, 1 crash, any operation fails | confirmed changes stay; the file implements `AtomicFile` |
| `search` | 3 publishers in 2 webs, 4 addresses in 3 subnets, 2 adoptions, budgets of 1 and 2, 2 times, 1 crash, depth 1 or 2 | the budgets of adoption and walk; the walk is complete and shortest; everything ends |
| `hf_download` | 4 manifests, files of up to 2 bytes, a total of 5, 4 troubles, 3 kinds of ranges | what is promoted, limits, progress is kept, repetition succeeds |
| `discovery` | 3 domains, 5 endpoints, 4 sets of sources, lists of 4, 3 retries | admission in any order, first contact, bounded and real retries, a clean stop |

Why these bounds are enough for the interesting cases.  Catalogs: with one
infohash and two publishers the publishers share a torrent, with a limit of one
every second torrent evicts, and three loads suffice for a load that reads, one
that waits behind a destruction and one that comes later; two infohashes (a
publisher that changes its catalog) are in the liveness run.  Lock: with three
processes and what one of the past left, two reclaim while a third is fresh, and one
takes away the lock of a third while the second writes its owner file.  Imports:
three versions are an old one, a new one and one with the content of another, and
two crashes are one in the import and one in the recovery from it; files without a size
come with failing writes and early starts.  Names: two
overlapping calls are what a race needs, with `MaxDhtSeq` = 2 the largest version
is reached, and two accounts are an owner and a writer that is not.  Chain: three
blocks are two forks of one height or two successive states, so that both calls of
a read may meet different registries; three endpoints with one that lies are the
default configuration at its limit (two that agree), and heads up to 5 with lags of
1 put the liar below, among and far above the others.  Files: two
transactions race for the read between write and write, the third call makes a queue
of three, so that an entry of `chains` is removed while a later one is there.
Search: the two webs have cycles, publishers that endorse themselves, us, junk and
each other twice, and both depths are met with a budget that is just enough and one
that is not; a catalog whose nodes exceed the publisher's budget, share a subnet and
include junk is read twice, by two readers, across a restart.  Download: a large file
and two small ones of known and unknown size, a manifest whose hashes change, one with
a hashed file of unknown size where the others have a directory, one with two spellings
of a directory (refused); with files of two bytes every partial
file, last byte and byte too many occurs, four troubles are an interruption in each
of several attempts with a wrong byte among them, and the total of 5 is the size of
the first manifest, so a file of unknown size can exceed it.  Discovery: the domains
share addresses, one exceeds its bytes, the total is less than all of them bring, and
the sources leave room for all, one or none of the seeds, or exceed the list
themselves.  Every bound
is a constant of its module, named there.

Deadlock is checked for the catalogs (`Rest` is the one state in which nothing
needs to happen), the lock, the imports and the chain.  It is not for the names and the
files, where processes crash and calls are used up, for the search, the download and the
discovery, which come to an end.

Fairness.  `CatalogTorrents!FairSpec`: an await of the queue or of a load ends
(file system calls and webtorrent callbacks do, and an aborted wait rejects), and
every caller leaves, since `catalogFull` gives each a deadline; nothing is assumed
of downloads, publishers or other torrents.  `RepoLock!FairSpec`: a live process
goes on, its import ends, time passes, and imports are tried again.
`ImportPromotion!FairSpec`: the program is started again, a start goes on, and a
lock left behind becomes stale.  `HomeFiles!FairSpec`: file operations end, with or
without an error.  `SearchWalk!FairSpec`: `catalogFull` has a deadline, and the
reads and writes of an adoption end; nobody has to answer.  `HfDownload!FairSpec`:
an attempt goes on (a body that does not come is a stall, which ends it) and an
import that failed is tried again; `Promoted` only speaks of servers that in the end
stay with one manifest that fits the limits.  `DiscoveryFairSpec`: timers fire and
`start` returns (it waits at most 15 seconds); no node and no domain has to answer.

## 4. What is proved

The properties of the runs are rarely inductive.  Each module strengthens them until
they are, and proves that the strengthened invariant holds initially, is preserved by
every action and implies the property; `PROJECT.json` lists the theorems.  A
theorem is about every value of the constants that the module's assumptions allow.
The leaves of the proofs are small: all but one are still found in a third of the
time that the provers are given, so that whether a proof is accepted does not depend on
the machine.

`CatalogTorrentsProofs`, for any publishers, infohashes, finite sets of loads and
callers and any limits: types (no counter goes below zero), `ReaderCount`,
`WaitersCount`, `RetentionAgrees`, `InUseNotReaped`, `OneLoadPerKey`, `LiveIsKept`,
`NothingLeaks`.  None of them is inductive.
The invariant `IInv` adds, among others, what is true of the queue (`Destructions`:
what is queued for destruction exists and has the queue's infohash), that a
registered ref is alive for the bookkeeping, and that a holding load's ref is used.
The argument is split as the code is: each synchronous method preserves `LifeInv`
and a frame condition (what it leaves alone; `FrameTrans` composes them), each
action is a composition of methods, and one lemma per action adds the counters.
`KInv` adds what is kept: `Queues` says that a load is in one queue once, that only
the head of a queue has begun, and that while it acquires, no ref is registered for its
infohash (the lookup found none, and a queue runs one operation at a time); `Keeps`
that a live torrent of ours is registered, that its directory is there, and that
what nothing uses is parked or waits to be destroyed; `OnDisk` and `Dirs` whose
the directories are; `Few` that `capTorrents` left no more than `TorrentsMax` parked
torrents, at every state.  At rest nothing is queued, so nothing but the parked
torrents is left, which is `NothingLeaks`.

`LockDiscoveryProofs`, of the lock, for any number of processes, with crashes anywhere
and imports that end at any time: `MutualExclusion`, `HolderHasLock` and `OneReclaimer`,
all three up to the first blind step, without any other assumption.  The invariant
`LockInv` says that until then a guard belongs to the one process in the section, that
whoever works on the lock, from its mkdir to the end of its release, made the directory
that is there, and that it is fresh, and that what is to be renamed aside is old still.
So nobody finds its directory gone when it writes the owner file, and what is removed at
a release is the releaser's own.

Of discovery, for any domains, answers, sources and number of retries: `Bounded`,
`FirstContact` and `StopIsClean`.  A round of pings is paid for with a retry, and only a
check that finds the table populated gives retries back, at a time when no round counts
(`Paid`); that is why checks and the timer cannot between them ping an isolation longer
than it is worth.  `Awaited` adds to `FirstContact` that no pings are outstanding for a
populated table, so that the loss of the last contact leaves nothing unawaited.  `Wound`
says that a stopping node has neither timer nor listener, which holds because there was
one timer at most to clear.

`ImportPromotionProofs`, for any versions, contents, number of crashes and set of
troubles: types, the four invariants of the run and `RecoveryRepairs`, each under
the troubles that it names.  `ControlInv` ties the lock to who runs (an import and a
recovery never both hold it) and the fields of an import to its step; `CompleteInv`
says that what is journaled is complete, hence what recovery promotes; `LinkInv`
says when the link may lag behind `current.json`, which is what keeps pruning away
from it.  `PointerMatches` needs to know what a recovery will find: `Agreed` says that
there is one journal at most, that of the import under way or of the one a crash
has cut short, and that without a promoted version the share is the one that is
journaled.  `PublishedKept` follows from that and from `Named`: the name's
content is held, complete and either promoted or recorded, and every step leaves
what is held.  `LiveHasDir` has three arguments, one for each set of troubles it
names: staged and promoted versions are complete (`CompleteInv`); or they are at least
there, once a start has handled what deletions left (`There`); or publications fail, and
`Running` says what a process that is up has: one torrent for the promoted version,
one more for the version being published, which is stopped before it is dropped.
The same `Running`, and `AtRest` for what it leaves behind when it stops, is
`ShareKept`.

`ChainReadsProofs`, for any endpoints, heads, lags, keys, accounts and forks, under
`Cardinality(Faulty) < MinAgree`: types and the four properties that the run checks.  `ChainOK`
says that the parent of a block is an earlier block, that every binding of every
block is signed and that a block's registry only rises from its parent's; it is
inductive since a new block adds one transaction to an old one.  `AnswersAreTrue`
rests on one lemma: among endpoints that all agree and are at least `MinAgree`, one
is honest, so what they agreed on is real (`AgreedIsReal`); the read's invariant
then says, step by step, which of the snapshot's fields and answers are those of
the pinned block, and that block never changes.  `HeightsAreHonest` is about
numbers: where at least `MinAgree` honest endpoints answer, they outnumber the
liars, so the median lies between two honest heads (`MedianBetween`) and within
`MaxHeadLag` of each, which keeps all of them; and of the `MinAgree` survivors at
or above the target one is honest, while fewer than `MinAgree` are above it
(`HeightBetween`, from `KthIs`).

`NameVersionsProofs`, for any calls, contents, accounts, versions and events: types,
`VersionsOrdered`, `SharedResolves`, `FailureRestores`.  What is known of versions is
`Told`, which holds until an event hides one (`VersionInv`).  `Allocations` says that no
two calls have one version and none has that of another's record.  `Floors` is why the
counter can be lost at any moment: every version that was given is in sight, so a call
between two reads of an allocation has seen, or is about to see, all that the counter
has not passed (`FloorOf`).  `AloneInv` says what a call knows that has met no
other: the share is what it has read or written, and its version is the newest.
`Kept` follows the share through one publication: while nothing is in doubt, the
DHT has it, or has the former one until the put.

`HomeFilesProofs`, for any calls and crashes: types, `ConfirmedStays`, and the safety
half of `ImplementsAtomicFile` (`StepsAreAtomic`: every step of `HomeFiles` is a step of
`AtomicFile` or leaves its variables alone; that writes end is its other half).
`Lined` says that a write waits for the one before it in the line, and only the first
is under way; `InTurn` says the same of the transactions on top, of which there is
a sequence, though no variable holds it; so between a transaction's read and its
write nobody else writes, and `Kept` follows.

`SearchWalkProofs`, for any publishers, catalogs, budgets, times and crashes:
`BudgetsHold`, `NoLaundering` and `WalkIsExact`.  `OneAtATime` says that only the head of `adoptChain`
has begun, `Grants` that what was handed over is in the file, or about to be written
by that call, within the publisher's and the subnet's budget, `Spent` that a process
has granted what its counter says, `Marks` that the time of an adoption is
remembered, in memory or in the file, until it is of no consequence.  That the
loop of `adoptTx` has a result, which is the one that `Taken` chooses, is `TakenIs`.
Of the walk, `Ordered` says that the visited, the frontier and the next level are
different publishers and all of those queued, so that their number is bounded.
`Exact` says which they are: the visited are within the distance walked, the frontier
is at it, the next level one further, and nobody else is queued; until the budget cuts
the walk, nobody within the distance is missing and every offer of a publisher that
answered is hit; a cut means that the budget is used up.  The distance is defined
recursively (`Within`); that its values exist, and that they no longer grow once one
level adds nobody, is proved from its definition, by a least counterexample.

`HfDownloadProofs`, for any manifests, any contents of the server, any limits and
any number of imports: `PromotedExact`, `WithinLimits` and `KeptForResume`.
`PromotedExact` says of a file with a hash that it has the length and the bytes of what
the hash is of, also where its size is unknown.  `FillInv` says what is on
the disk between imports (`Types`), of the files that the import has counted and of
the total (`Along`), and of the file whose turn it is, at each of its steps
(`AtFile`: what it has received is the beginning of what the server sent it, within
`Cap`, which never exceeds what is left of the total).  `AcceptedIs` is the lemma on
`validateManifest`: of the files that it accepts the file system takes no two
for one, so what happens to one leaves the others as they are.
`KeptForResume` speaks of a sibling whose content and length the server serves as its
hash and size say (`Sound`), and of steps before which the server did nothing wrong.
Its invariant is `Resumable`: until then, what is there of such a file is a beginning
of it (`Keep`), and the record of the staging has its size and hash (`Knows`) from
before its first byte, which is what lets the next attempt keep it; the list that
`Stage` works with has them until the file's turn; and the body that comes is the
file's and is all there when it ends.  Then no step takes anything away: pruning finds
nothing to remove, `Check` refuses nothing but an empty file, and `Count` cannot
exceed the total, which is `WithinLimits`.

Only model-checked, and why.

* Liveness, which is out of the prover's reach: `UnusedEnds`, `LeftoverReclaimed`,
  `EverythingEnds`, `Promoted`, `Retried`, and the half of `ImplementsAtomicFile` that
  says that writes end.
* `SeedsAdmitted`, which compares the folds of `admit` and `mergeBootstrap` over lists:
  it needs an induction over the lists, which the provers at hand cannot do.

## 5. Findings

A finding is a run that TLC finds violated, a property taken from what the
repository says, and the line of the code that does otherwise (`PROJECT.json`,
"findings").

* `repolock_exclude`: a reclaimer renames aside whatever is at the lock's path
  (versions.ts:275), also when its check under the guard found nothing there
  (versions.ts:230) because a holder was just releasing, and a third process has made a
  lock since.  That one makes the directory anew when it writes its owner file
  (versions.ts:253, atomic.ts:34) or holds a lock that is gone, and two imports run
  without any crash, against versions.ts:292, "a concurrent import of the same repo fails
  fast".
* `import_start`: `start` runs `recoverImports` before it creates the client whose
  torrents `recoverImports` enumerates (node.ts:556), so after one promotion every
  start throws.

Observations made with the same models, for which the project keeps no run:

1. A slow load of a publisher's old catalog that ends after the load of the new
   one becomes the retained one (node.ts:1282 against the comment at 993); the
   cached new one is not retained again.
2. Two contenders that find one old guard both remove it and both go on
   (versions.ts:268), although versions.ts:260-261 says that one proceeds; this is the
   other blind step.
3. After either, `release` removes whatever is at the lock's path (versions.ts:286-288),
   which may be another holder's directory.
4. `recoverVersions` completes a journaled promotion from the share record alone
   (versions.ts:174); with two versions of one content the journal and the record
   may be of different attempts.  What is promoted is complete all the same.
5. The catch of hf.ts:598-602 leaves the pending journal behind, and a repeated
   import that fails may delete content that an earlier one published.
6. `recoverImports` on demand restores a share that it read before it gave the
   lock back (node.ts:552), after an import may have replaced it.
7. Of two overlapping `share` calls of a name, one that fails restores the record
   it read before the other committed (node.ts:657, against "only that record is
   rolled back" at 622-623); `FailureRestores` therefore speaks of calls that
   overlap no other.
8. `republish` publishes the shares it read at its start (node.ts:745): a `share`
   that completes meanwhile is followed by a newer version of the old content,
   until the next `republish`; `SharedResolves` leaves overlaps out for the same
   reason.
9. `readJson` answers the default for any error, so a transient failure to read
   `seq.json` empties it at the next allocation (`LoseCounter`); the floor read
   from the DHT and the registry is what keeps versions apart then, where it can.
10. `publishCatalog` (node.ts:899) destroys every torrent named `catalog`, which all
   fetched catalogs are, in use or not (against the comment at 993).
11. The catch of hf.ts:598-602 removes the version's directory though a torrent of an
   earlier attempt may be reading from it (against src/README.md:289-290).  It takes a
   share that an import did not itself create: one left by a start that did not wait for
   the lock, by an import whose pointer could not be written, or a promotion that a
   recovery on demand completed.  `LiveHasDir` therefore has failing publications alone,
   and the other troubles without them.
12. `republish` (node.ts:758) reads `records.json` before the record it has just looked
   up has been remembered there, and puts the older one (against the comment at
   740-741); nodes that have the newer one refuse it.
13. `readJson`'s default also stands for a `dht-adopt.json` that is lost, corrupt or
   cannot be read for a moment: the lifetime budgets of `adoptNodes` start again from
   nothing then.  A clock that goes back drops provenance (node.ts:126, `t <= now`).
14. `bootstrapFromChain` does not ask whether the node is stopping when its answers
   come (node.ts:440-463, against "nothing is admitted while we wind down" at 473).
15. Where `stop` is called before `start` has returned, the interval of node.ts:337 is
   set after the timers were cleared, and goes on writing `dht.json`
   (`StopIsClean` speaks of the other timers; `checkIsolation` itself returns at
   once).
16. A table that is populated and emptied between two samples of `checkIsolation` is
   not retried (node.ts:397, against "whenever checkIsolation() finds the table empty
   again" at 371-373): `Retried` asks that a sample found it populated.
17. Where builtin and `--peer` endpoints alone exceed the list, `mergeBootstrap` with
   the DNS seeds would keep a `--peer` that DNS lists too before others, while the
   admission one by one admits nothing; `MergedAtOnce` states that case apart.
18. A domain's timeout cancels the resolver (bootstrap.ts:229), and with it the lookups
   of the other domains that are still under way, whose own time may not be up
   (against "Domains resolve independently" at 200).  `DomainsIndependent` speaks of
   domains that answered.
19. `follow` and the like read and write without a transaction (node.ts:571-572): of
   two that overlap one loses its change.  A write that fails or dies leaves its
   temporary file behind for good (atomic.ts:36).
20. A file without a hash is verified by its size alone (hf.ts:544), so a wrong byte in
   a partial one stays; `PromotedExact` leaves out files of which the server sent
   something wrong.
21. Where the counter is lost, a version that nobody else shows is given again, to
   another content: one that an overlapping call has allocated and not yet published
   (node.ts:779, 507), one whose put failed or whose record has expired, or one that an
   allocation has missed because it reads the DHT before the owner's record
   (node.ts:812-830) and the record moved in between: expired when the DHT was read, put
   back by another node after, and the key re-bound meanwhile.  `forgot` marks all of
   these.
22. A second import of a version removes the files that have neither size nor hash before
   it downloads them again (hf.ts:539-546), though the name may have been published with
   them by an attempt that was cancelled after (against hf.ts:603).
23. A directory that an attempt has left where the manifest now has a file, or the
   reverse, makes `containedPath` throw (hf.ts:506, 193-194) before the pruning that
   would remove it (hf.ts:534): every later import of that version fails until somebody
   deletes the directory.  It takes answers that differ for one commit; `Promoted` names
   the case (`Blocked`).

## 6. What is not modelled

Of `start`, the creation of the torrent client with its retries on a port that is
taken, and the bootstrap from node lists on the chain; of `stop`, the teardown of the
uTP connections (it guards against crashes of the native library).  `serve` and
`fetch`, which start torrents on directories that the modelled components manage;
`follow` beyond its write.  Of the download, the checks against symlinks and swapped
directories, authentication and redirects, the timer of the watchdog.  The parsing
and classification of addresses, and the choice of the nodes to advertise
(`advertisableNodes`) beyond the provenance that `NoLaundering` is about.  The command
line, printing and key handling have no state of their own.  The elliptic curve and
hash arithmetic of `Ed25519.sol` and `Sha512.sol` is out of a model checker's
reach.

Several processes on one home directory are modelled for the lock only: the
project's README (src/README.md:267) rules them out for the rest.

## 7. Plan

In order of importance.

1. `NameVersions` with the contract of `WebwayRegistry` in the place of its own
   `Mine` and `Bind`, and the whole of `verified` in `resolve`.
2. An abstract registry (one sequence of states, a read answers one of them) that
   `ChainReads` implements for the blocks of the fork a read was pinned to, and an
   abstract torrent cache that `CatalogTorrents` implements.
