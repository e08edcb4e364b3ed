# syncstate: a TLA+ model of its core, checked and proved

syncstate (`src/`) synchronises key-value maps between a server and its clients.
An application builds a `StateMap`, freezes it, and the SHA-256 digest of the
initial state names the group of maps that belong together. The server hosts one
master map per digest; hooks on the server are the only writers; clients hold
slave maps and poll the server for diffs.

This directory models that core in TLA+, checks it with TLC on small instances
and proves the main safety properties with TLAPS for all instances.

## 1. Inventory

| Component | State | Operations | Interacts through |
|---|---|---|---|
| `Diff` (`diff.rs`) | none: a value (changes, is_full, from id, upto id) | `new`, `empty`, `is_empty`, `compress`, `merge`, `full_diff` | made by `StateMap`, sent by the server, applied by a slave |
| `StateMap` (`statemap.rs`) | contents, push order, update id, hash, master flag, history of diffs | `push`, `set_master`, `freeze`, `set`, `set_update_id`, `begin_modification`, `get_diff` | calls its `Remote` in `freeze` and `set_update_id` |
| `StateMapModifier` | the pending batch; it borrows the map mutably | `set`, `get`, `commit`, drop | writes to its map at `commit` |
| `Remote`, `DummyRemote` (`remote.rs`) | none | `init`, `fetch_updates`, `send_event` | between a slave and the server; a master has a `DummyRemote` |
| `TcpStateServer` (`tcp/server.rs`) | hosted maps, `processed_hashes`, hooks; one mutex for all of it, one per map | requests `GetUpdateId`, `Init`, `GetDiff`, `Event`, each in a thread of its own | requests and responses over TLS; hooks |
| `TcpStateRemote` (`tcp/remote.rs`) | address, password | `init`, `fetch_updates`, `send_event`: one connection per request | the server |
| Hooks (`hooks.rs`) | the application's | `process_event`, `process_init` | lock the map and write to it |
| Framing (`tcp/mod.rs`, both ends) | none | length prefix, bincode, password check | the byte stream |
| `Event` (`event.rs`), errors, `test_data` | none | serde wrappers, conversions, certificates | |

What is hard about it:

* **The history of a map.** `get_diff` looks up both ends of a range of diffs
  separately, in a history that holds a full diff where the map was frozen. Off
  by one, and a slave skips a change or repeats an old one.
* **Requests that overlap writes.** A slave asks from one id, the master moves on,
  the answer arrives later or never; the answer decides the id the slave goes to.
* **Restarts.** Nothing is persistent. After a restart the same digest names a map
  that starts again at id 0, while slaves are elsewhere.
* **Initialisation by several threads.** The server mutex is released while a map
  is rebuilt and its hooks run; `processed_hashes` is the only thing that keeps two
  threads from hosting two maps for one digest. It has five exits to be cleaned up on.
* **Errors that leave something behind.** A freeze that failed is still a freeze; a
  hash mismatch leaves its hash; a panic poisons a mutex.
* **Threads for everything.** Each connection and each event has a thread. A read waits
  for the mutex of a map with the mutex of the server in hand; hooks of several events
  share the maps; each `set` of a hook is a version that a reader can ask for; a sender is told "in process" before any hook has run, or is told nothing
  because the connection broke, and sends again.
* **Nothing times out.** Both sides wait in `read_exact` for as long as the other is
  connected, and `write` may send less than all.

The list `hazards` in `PROJECT.json` names each of these at its line, with the
properties that cover it. What makes each component correct:

* `Diff`: merging a run of diffs has the effect of applying them one by one.
* `StateMap`: every change after the freeze has an id of its own, versions do not
  change afterwards, and `get_diff` takes a reader exactly to the version its
  answer names.
* Replication: a slave shows a whole version of the master; polling gets it there.
* Hosting: one map per digest, hosted once; a successful freeze means it is hosted.
* Event dispatch: every accepted event runs every hook; no write of a hook is lost or
  made twice; no batch is shown in part; requests end.

## 2. Modules

```
Diff ── StateMapMethods ──┬── StateMap ── StateMapHistory ── DiffVec ── MCStateMap
                          └── Replication ── MCReplication      VersionedStore (abstract)
TcpServer ── MCTcpServer
EventDispatch ── MCEventDispatch                                EventLog (abstract)
DiffProofs ── StateMapProofs ── GetDiffProofs ──┬── DiffVecProofs
                                                └── ReplicationProofs (an instance)
TcpServerProofs                                     EventDispatchProofs
```

**`Diff`** has diffs as values and the functions of `diff.rs` as operators. The
`Vec<(K, T)>` of a diff is a partial map: every diff the library builds has each key
at most once (a single pair, or the contents of a `HashMap`). `Merge` takes the
smallest from id, the largest upto id and for each key the last writer's value.

**`DiffVec`** goes back to the `Vec`: entries in an order, keys that occur more than once,
`Insert` after `Insert`, and `Compress`, whose results are all orders in which a `HashMap`
may yield its entries. `CompressKeepsEffect` compares it with `Merge` and `Overlay` on every
stretch of every history, which is also the check of the partial maps used elsewhere. `InsertAll` and `Chained` are
recursive functions of a position, not folds, because `DiffVecProofs` reasons about them.

**`StateMapMethods`** has the struct `StateMap` as a record and each method's effect as
an operator. `order` is kept as a count of pushes per key, since only
`calculate_hash`, which sorts it, reads it. The digest is the pair (counts, contents):
SHA-256 is taken to be injective. `FirstDiff`, `LastDiff`, `StartUnknown` and
`TargetUnknown` are the two loops and the three early returns of `get_diff`;
`GetDiffPanics` says when `VecDeque::range` or `expect` panics.

**`StateMap`** is one map with a `DummyRemote`, one action per method, guarded by the
method's early returns. A call that returns an error changes nothing. Rust's
exclusive borrow by a `StateMapModifier` is the guard `NotBorrowed`.

**`StateMapHistory`** adds the history variable `hist` (the contents at each id) and the
properties: what `get_diff` owes a reader, that no `assert!` fires, that versions are
immutable. It never constrains `StateMap`.

**`Replication`** is one initial state, the master the server hosts for it and the slaves
that follow it. A call of `set_update_id` is `Poll` (the request leaves), `Answer` (the
server evaluates `get_diff` on the map of that moment), then `Apply` or `Reject`
(`set_update_id` checks and applies the answer), or `FetchFails` at any point. `Host` is
an accepted Init request, `Write` a `set` or a batch of a hook, `RestartServer` loses the
map and every request under way, not the answers that have left. `EarlySet` is a `set`
on a slave before its freeze: only its effect on the id matters, since whatever the
contents are at the freeze is the initial state. `manner` is how the application of a client
polls: for any target out of `Targets`, or for the id after its own. `RelayMap` is a slave map
as `get_diff` would see it, for a client that serves others.

**`VersionedStore`** is what all this promises: a store with numbered versions, and
replicas that hold whole versions and only move on. `ImplementsStore` is its
specification under the mapping in `Replication`.

**`TcpServer`** is the way to a hosted map: clients that freeze (`GetUpdateId`, then
`Init`), and the threads of the server from the check of `processed_hashes` through
`Build` and the init hooks to `Insert`. What runs under the mutex without a break is one
step. `poisoned` is the state of the mutex after a panic under it. A client may lose its
connection at any time while its thread goes on. The constants say for which maps the
server finds another hash (`Unrepeatable`), cannot decode the data (`Undecodable`), or has init
hooks that may return an error (`Failing`) or panic (`Panicking`); `Faults` what else may go
wrong: a request makes `get_diff` panic, the server restarts, a client freezes its frozen
map again, a client has a wrong password.

**`EventDispatch`** is the server at work on hosted maps. A caller makes one call, `send_event`
or `fetch_updates` for a slave map that is still at id 0, and may make it again when it failed. `Connect`, `Request`, `HangUp` are the caller's side of a connection, `RequestCut` a
`write` that took less than the request. The thread of a connection goes through `Start`
(the copy of the TLS configuration, under the mutex), `read`, `check` (password, then
`process_request`) and, for a read, `getmap`, where it holds the server mutex and waits for
the map's. `TakeEvent` answers `EventInProcess` and hands the event to a worker, the thread
spawned for it, which runs the hooks one after the other: `HookLocks`, its writes, then
`HookReturns`, `HookFails` (only logged) or `HookPanics` (unwinds and poisons the map;
`HookPanicsUnlocked` is a panic before the map is locked or after it is released).
`ReadPanics` is a `get_diff` that panics under both mutexes.

The contents of a map are the log of the updates made to it; the length of the log is the
update id. A hook makes `NumSets` writes: each by `StateMap::set`, which is an update of its own
(`HookWrites`), or all of them in a `StateMapModifier` (`HookSets`), whose `commit` is one update
(`HookCommits`). An update says which of the hook's writes, `first` to `last`, it makes. A hook
appends to what it knows of the map, so that a write based on stale contents would undo
another one. A reader asks for a target: one that it was given, or the newest id, which it
first learns in a request of its own (`ReadId`, `GetUpdateId`). `ReadMap` shows it the log up to
the target or as far as the log goes, as `get_diff` does (`StateMapHistory` shows that of the
diffs); other updates may come between the two requests, and a restart too, after which the
id is one of a lost life (`stale`). Which caller asks for what,
whether its hooks use a batch and which may fail or panic on it, is a *scenario*.

**`EventLog`** is what that promises: one log of updates per map that only grows at its end,
with each write of an update made at most as often as its event was taken, and an event taken at most as often
as it was sent. The order of events is not promised: two events of one client run in threads
of their own. `ImplementsLog` is its specification under the mapping in `EventDispatch`.

Definitions named "Mutant" in a comment are slightly wrong versions of the one that
follows them. They are not part of any specification; they show that each property
notices a plausible mistake.

## 3. Runs

| Run | Instance | Shows |
|---|---|---|
| `statemap` | 2 keys, 2 values, 2 pushes per key, ids up to 3 | all promises of `get_diff`, asserts, hash, immutable versions, merge and compress |
| `replication` | 2 slaves, ids up to 3, any target, any batch | slaves hold whole versions, and would pass on whole versions; refinement of `VersionedStore` |
| `restart` | 1 slave, 1 restart, 1 early set, ids up to 3, any batch, both ways to poll, fair | answers fit however late; convergence |
| `tcp_server` | 3 clients, 3 threads, 3 maps (hooks may fail, hooks may panic, cannot be rebuilt), all faults | a hosted map is never replaced; what is left behind in `processed_hashes` |
| `tcp_server_live` | 2 clients, 3 threads, 3 maps (sound, undecodable, hooks may fail), fair | Ok of `freeze` means hosted, or soon to be; hashes are released |
| `events` | 3 callers, 2 connection threads, 2 workers, 2 maps, 2 hooks of 2 writes, 10 scenarios, cut requests, restarts, fair | refinement of `EventLog`; no batch is shown in part, nor any hook to readers of the newest id; requests end; accepted events run |
| `backwards`, `hash_agree`, `backslide`, `mismatch`, `shared_init`, `cut_request` | small | the findings below |

The bounds: with ids up to 3 and an early set a history has all three of its stretches
(diffs before the freeze, the full diff, diffs after it), two diffs of one key in
either order, and empty ones in between. `Lead` bounds how far beyond the newest id readers and
targets are: three ids, four for the targets of readers that are ahead of the map. `get_diff`
compares such ids with those of the history only, and `GetDiffProofs` has all of them. Keys and
values are only compared for equality, and a property of `get_diff` that fails, fails for
two keys. Two slaves do not interact except through the master, so one is enough where
liveness (no symmetry) makes two expensive. Three threads let one be initialising a map
while a second waits behind it and a third works on the other map. The scenarios of
`events` are: an event that is written set by set and one that is written in batches meet on a
map, beside a reader whose target cuts through what they write; a reader asks for the newest id
and then for the diff while hooks go on; an event sent twice; a hook that fails, set by set and
in a batch; a hook that panics, with another map beside, with another event on its map, and in
a batch; a panic under both mutexes, with events under way; requests that are turned away. Two writes per hook are the least that can be
seen in part, two hooks the least of which one can fail before the other, two workers
the least that can meet on a map.

Fairness. `Replication` assumes that an application polls again and again (the crate
is "based on the idea of polling") and that an exchange that is tried over and over
succeeds at some point (strong fairness of `Answer` and of `Apply \/ Reject`, because a
connection may break between any two of them). It assumes nothing of hooks, of freezes
or of the hosting of the map. `TcpServer` assumes that a thread that can run does, and that
init hooks return. `EventDispatch` assumes the same of connection threads and workers (weak
fairness of each), and nothing of callers: one that is connected may be silent for ever,
and its thread with it. Weak fairness is enough for the mutexes because each call is made
a bounded number of times, so that no thread is passed by for ever.

Deadlock is not checked for `StateMap` (its bounds on pushes and ids stop it) and
`TcpServer` and `EventDispatch` (clients need not do anything any more).

### What the code does not do as documented

* `backwards`: a comment in `get_diff` promises an empty diff for a request that
  leads backwards. It panics, under the server's and the map's mutex, when the target
  lies two diffs or more below the start, and otherwise merges diffs of the wrong
  range or returns a full diff. `set_update_id` never asks for that; other users of
  the protocol may.
* `hash_agree`: the digest counts a key as often as it was pushed, so a client that
  pushes a key twice finds another hash than the server that rebuilds its map.
* `mismatch`: that client's `Init` ends in `HashMismatch`, the only error path that
  does not take the hash out of `processed_hashes`: from then on `Init` for it
  succeeds and hosts nothing.
* `shared_init`: a second `Init` for a hash is answered `InitSuccess` while the first is
  under way; if that then fails, the second client's freeze has succeeded with nothing
  hosted. The same property, `OkMeansInHand`, has two more causes to fail, which a run finds
  when `Faults` has them: with `"refreeze"`, a second `freeze` after one that failed returns Ok
  without asking, since the map is frozen; with `"password"`, `init` takes `IncorrectPassword`,
  like every answer to `GetUpdateId` but `HashNotFound`, for success.
* `backslide`: `set_update_id` is documented not to move the state backwards; after a
  restart of the server it does. That is also what heals the slave, so `restart`
  checks convergence and not monotonicity.
* `cut_request`: both ends send with `write` and drop the count it returns. A request that
  is larger than what rustls is ready to buffer arrives in part; the server waits in
  `read_exact` for the rest, the client for the answer, and neither has a timeout. An answer
  that is cut is harmless in comparison: the thread ends and closes the stream.

Of the claims that fail, the part that holds is checked beside: `OthersReleased` is
`ProcessedOnlyInInit` without the hashes that a mismatch or a panic leaves behind, `ReliableInHand`
is `OkMeansInHand` for maps whose initialisation does not fail, `RequestsEnd` is `CallsEnd` for
requests that arrive whole.

`ShownWhole` is as strong as the code allows. Only `begin_modification` is documented to ensure
"atomic diffs", and that is all a reader with a target of its own can count on: each `set` has
an update id, and a target between two of them shows the first write of a hook without the
second. A reader that asks for the newest id before it asks for the diff gets whole hooks,
because a hook that holds the mutex of the map also keeps `GetUpdateId` waiting. It loses that
if a hook returns an error between two writes, which undoes nothing, or if it uses an id of
before a restart. A panic does not take it away: the map is poisoned, and not read any more.

Four more facts came out of the model and are explained here rather than run. A slave
that is up to date and polls is always sent a full diff, since no diff starts at the
newest id; the comment there calls the case an error in the request. That full diff is
what makes `Convergence` hold after a restart: a diverged slave that reaches the
master's id gets everything. The exception in `CaughtUp`: a slave that has only empty
batches before it gets an `EmptyDiff` error, keeps its id, and if it had diverged it stays
diverged until a batch with contents is committed; for a slave that asks for one id after
the other a single empty batch is enough, whatever came after it.
`set_update_id` does not record what it applied, so a client that serves others with `get_diff`
on its slave map answers a reader at id 0 with the contents of the freeze, never with a later
version, although the comment at `statemap.rs:393` promises the latest point; every other reader
gets all of its map (`RelayAnswersAreVersions`). And a `set` before the freeze makes
an initial state with an id above 0, so `SlaveHoldsVersion` is checked without early sets.

## 4. Proofs

All proofs are for arbitrary (in `DiffVecProofs` finitely many) keys, and for arbitrary values, clients, threads, maps, hooks and bounds.

**`DiffProofs`**: minimum and maximum of sets of numbers, the last writer in a merge
decides, the ids of a merge, overlaying known keys keeps the set of keys.

**`StateMapProofs`** proves of `HSpec`: `HistoryTypeOK`, `AssertionsHold`, `HashNamesBase`,
`VersionsImmutable`. None but the last is inductive alone; the inductive invariant
`HistoryInv` has besides types and assertions

* `Current`: the newest version is the contents; the freeze was at or below it;
* `Layout`: the history is `frozenAt` single steps, then the full diff, then single
  steps again, as many as the id says;
* `KeysKnown`: diffs and versions have no keys the map lacks (needed for the `assert!`
  in `commit`: a batch made from known keys stays one while the borrow lasts);
* `LastWriteWins`: from the freeze on, a version has for each key what the last diff
  up to it wrote. This is what connects merged diffs with versions.

The step lemmas follow the operations: `CommitStep` for `set` and `commit` (by
`CommitLayout`, `CommitKnown`, `CommitWins`), `FreezeStep`, `PushStep`, and `QuietStep` for
everything that leaves contents, id and history alone.

**`GetDiffProofs`** proves of `HSpec` what `get_diff` promises a reader: `ForwardDiffExact`,
`ForwardDiffReaches`, `UnknownVersionGetsAll` and `ForwardDiffNeverPanics`. `StrangersGetAll` goes
beyond the bounds of the run: it has every id above the newest and every target. Each follows from
`HistoryInv` in the state where `get_diff` runs, so the argument is about one history:

* `Ids`: the ids of the three stretches, from `Layout`;
* `StartFound`, `TargetFound`: where the two loops of `get_diff` stop in such a history. A
  known start is found at the step that starts there; the target at the diff that ends
  there, at the full diff, or at the newest;
* `MergedValue`, `MergedIds`: the merge of a stretch has, for each key, the value of the
  last diff of the stretch that writes it, and the ids of its two ends;
* `MergedExact`: by `LastWriteWins` that value is the one of the version at the end of the
  stretch, and a key that nothing in the stretch writes has not changed since the reader's.

`BackwardsDiffIsEmpty` is the claim these theorems leave out: the code does not keep it.

**`DiffVecProofs`** proves `CompressKeepsEffect` of `HSpec` for finitely many keys, so that the
partial maps of `Diff` lose nothing of the `Vec`s of the code. A recursive function is a
`CHOOSE`, so each has to be shown to exist; the inductions go over a position in a given
sequence, as sets of good positions that contain 0 and are closed under successor (`CountUp`).

* `InsertAllIs`: after inserting pairs one by one a key has the value of its last entry. The
  closed form `AfterFirst` satisfies the recursion, and what satisfies it is unique;
* `InsertListed`: inserting a `Vec` that lists a `HashMap`, after anything, is to overlay it;
* `EnumerationLists`, `PairsOfLists`: what `compress` yields, and a diff of the library, list
  their `HashMap`, in whatever order;
* `ChainedEffect`: by these, diffs fetched one by one have the effect of `Merge`.

**`ReplicationProofs`** proves of `Spec` of `Replication`: `ReplicationTypeOK`, `AnswerFits`,
`SlaveHoldsVersion`, `RelayAnswersAreVersions`, and the refinement `ImplementsStore`. It does
not repeat what is known of `get_diff`: `H` is an instance of `GetDiffProofs` in which the map is
the master, frozen at 0, and no modifier is ever under way between two steps (`NoBatch`). The
lemmas `HostedAssumptions` and `SameMethods` show that the instance's assumptions hold and that
its operators are those of `Replication`. The first invariant, `ProtocolInv`, is

* `MasterInv`: the hosted map has the history that `HistoryInv` describes, and no version lacks
  a key. `HostStep` establishes it at every incarnation, `WriteStep` is a `CommitStep` of `H`;
* `RequestsInv`: a request states the id its slave is still at (`set_update_id` borrows the map
  until it returns). Without it an answer would fit the request and not the slave;
* `AnswerFits`, from `AnswerStarts` of `GetDiffProofs` when the answer is made, and then
  because the slave waits for it.

It holds with restarts and early sets. The second, `VersionsInv`, says that a slave is at a
version of the master and that an answer under way takes it from there to a later one, also
if the master was written to since. That is false after a restart, when slaves are at versions
of a lost incarnation, and with early sets, when the ids of the slave and of the master
begin at different numbers: both are the code's doing (section 3), not the proof's. So
it is proved as `restarts = 0 => VersionsInv` under `MaxEarlySets = 0`, and `StoreImplemented`
needs `MaxRestarts = 0`.

**`TcpServerProofs`** proves of `Spec`: `TcpServerTypeOK`, `HostedOnce`, `OthersReleased` and
`ReliableInHand`. The invariant `ServerInv`
adds `Claimed` (a thread that initialises has its hash in `processed_hashes`, not yet hosted,
and no other thread has it) and `Counted` (a hosted hash was inserted once). `Claimed` is what
makes `HostedOnce` inductive: `Insert` is only reached by a thread whose hash is not
hosted. Both hold whatever fails. For `OthersReleased` the invariant is joined by
`OthersInHand`: a hash that can be released is in the hands of a thread while it is in
`processed_hashes`; the threads that may forget it, in `HashMismatch` and `HookPanics`, have one
of the excepted hashes.

`OkIsKept` states `ReliableInHand` for `Faults = {}`, because each fault breaks it: a bad
request poisons the mutex before the insertion, a restart forgets the map, a second freeze
returns Ok unasked, and so does one with a wrong password. Connections still break at any
time and hooks of other maps fail or panic. The invariant adds `AnsweredByOwn`: the thread a
client waits for works on the client's map. `OkIsPromised` is the moment at which Ok is returned:
the hash is hosted, or was in `processed_hashes` and, by `OthersInHand`, still is in the hands
of a thread. `PromisesKept` is all later ones: no step lets go of such a hash but `Insert`.

**`EventDispatchProofs`** proves of `Spec`, for all scenarios and faults: `EventTypeOK`, `ShownWhole`,
and the refinement `ImplementsLog`. Three invariants build on each other:

* `DispatchInv`: types; a connection thread serves the caller that waits for it (`ConnsInv`); a
  worker in a hook has the mutex of its map, alone, and what it knows is what the map
  contains (`HoldsInv`). This is mutual exclusion, and why no write undoes another one;
* `WholeInv`, which says that no hook is cut where a reader could notice. `ShownWhole` alone is
  not inductive: it says nothing of a map before it is read, nor of a hook that is not done.
  `MapsInv`: the log of every map starts each hook at its first write and continues it without a
  gap, and a batch is one update (`LogsBegun`); a map that is held ends with what its holder has
  written so far (`HeldMapsOpened`); one that is free and sound ends with a complete hook, if
  none on it fails (`FreeMapsEnded`). `LearntEnded`: the id that a reader has learnt is one at
  which the last hook was complete, and stays one since logs only grow (`EndedMore`).
  `ReadWhole` says the same of what was shown, from which `ShownWhole` follows: a prefix of such a
  log is such a log (`PrefixWhole`), whole at its end if the target was a learnt id;
* `CountsInv`: what was taken and what can still be taken (the threads that serve a caller) is
  no more than what was sent; what was written and what can still be written (the workers that
  have the write before them) is no more than what was taken. Cardinalities and `Times` of
  `EventLog` are counted against each other.

The inductive invariants were checked by TLC on the instances of section 3 before they were
proved (`MasterInv` without `HistoryInv`, which was checked of `StateMap`).

Assumptions on constants are the named `ASSUME`s in the modules: special values differ from
ordinary ones, bounds are natural numbers. Theorems that need more say so: finitely many keys
in `DiffVecProofs`, and the restrictions on restarts, early sets and faults given above.

Only model-checked: liveness (`Convergence`, `OkMeansHostedSoon`, `HashReleased`, `RequestsEnd`,
`OkEventRuns`), which TLAPS does not do under fairness. Every invariant of a passing run, the
action property `VersionsImmutable` and both refinements are theorems.

## 5. Not modelled

TLS and bincode; bytes of the stream, except as an exchange that fails or stops in the
middle, so a length that does not fit the u32 prefix is not; error texts; the certificates for
tests. u64 ids do not overflow in the model: 2^64 commits do not happen. Hooks that replace the
map behind the mutex (`*state.lock() = other`), that lock another map than they were given, or
that release the mutex between reading and writing are outside the contract of `hooks.rs`;
hooks are taken to return. A hook uses `set` or one batch, not both, and all its writes are to
keys that exist. Threads are bounded by `Conns` and `Workers`; the program starts as
many as it is asked to. An init hook may leave a thread behind that writes to the map later:
for `Replication` that is a `Write` like any other.

## 6. Plan

1. Steps that liveness rests on, as action properties: in `Replication`, that an applied answer
   brings a slave strictly closer to the master; in `TcpServer`, that a thread only moves on.
2. What remains of `SlaveHoldsVersion` after a restart: a slave that applied a full diff of the
   present incarnation is at a version of it.
3. `get_diff` for early sets: targets below the freeze, which `ForwardDiffExact` leaves out.
