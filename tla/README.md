# Formal models of the JMAP server: cluster rollback, peer transport, blob ids, test harnesses

This directory holds TLA+ models of parts of the repository under `src/`,
TLC configurations that model-check them on small instances, and TLAPS
proofs of their main safety properties for every value of the constants.

## The system and its parts

The repository snapshot under `src/` contains six source files:

| part | source | what it does | status |
|---|---|---|---|
| follower rollback loop | `src/src/cluster/follower/updates_rollback.rs` | `handle_rollback_updates`: a follower of the Raft cluster that has applied entries the leader never committed rolls them back, target by target (an `(AccountId, Collection)` pair), using the persisted `MergedChanges` of each target and the update records the leader sends | modelled (`FollowerRollback`) |
| peer request transport | `src/src/cluster/rpc/request.rs` | `send_request` puts a request and a oneshot sender on the peer's mpsc channel and waits; a failed send or a dropped sender becomes `Response::None`; `dispatch_request` is fire-and-forget | modelled (`PeerTransport`; `unwrap_request` belongs to the receiving side) |
| blob id codec | `src/components/jmap/src/types/blob.rs` | `JMAPBlob::parse`/`Display`: prefix letter, base32 hash, leb128 section | modelled (`BlobCodec`) |
| tombstone test | `src/components/store_test/src/tombstones.rs` | deletes leave tombstones, queries exclude them, purge clears them | not modelled: a fixed sequence of store calls whose implementation is outside `src/` |
| query test loader | `src/src/tests/store/query.rs` | a rayon `scope_fifo` bulk loader: builder tasks push documents into a shared `Mutex<Vec>` that the writer drains | loader modelled (`QueryLoader`); the query assertions are not |
| mail set test | `src/components/store_test/src/jmap_mail_set.rs` | uploads the blobs a request file names (`store_blobs`), creates the mail, and compares what the server returns with `.jmap`/`.eml` fixtures after renaming the random MIME boundaries (`replace_boundaries`, `assert_diff`) | helpers and the fixture check modelled (`MailBlobs`, `MailFixture`); the calls into the mail store are not |

The rollback loop is the heart of what is here. The follower's caller moves
its in-memory `State` into `handle_rollback_updates` together with the
changes of one target and the update records of the leader's last
`AppendEntries`. One call (a *round*) may:

1. discard the changes of a `Collection::Thread` target (lines 50-54);
2. take the inserts and delete those documents in one write batch (56-73);
3. apply the leader's update records (75-99); if the leader's batch was not
   its last, return `State::Rollback` and `Continue`; if it was, clear the
   target's updates and deletes;
4. if deletes or updates remain, return `State::Rollback` and an `Update`
   request asking the leader for their records (101-123);
5. otherwise remove the target's persisted rollback key (125-128) and go on
   with the next persisted target (130-135), or, when none is left, answer
   `Match` with the last log entry (137-154).

Every failure of the store along the way returns `None`; the leader's
`send_request` then sees `Response::None` (`request.rs:44`), as it does when
the follower restarts.

## Modules

* `FollowerRollback` — the rollback loop and the environment that drives it.
  * State: `local` (the follower's copy of each document: absent, the
    leader's version, or a speculative version), `leader` (the documents in
    the leader's log), `keys` (the persisted rollback `MergedChanges` per
    target), `state` (the in-memory `State`), `pc`, `target`, `changes`,
    `updates` (the round's locals), `request`/`response` (the message in
    flight each way), `remaining` (records the leader still has to send),
    `synced` (the leader received `Match`) and `faults`.
  * One action per step of the round, each ending at an `await` of the code:
    `RollbackInserts`, `ApplyRollbackUpdates`, `RequestOrRemove`,
    `NextRollbackChange`; every error path of a step is its `Abort`
    disjunct, which ends the round with `None`.
  * The caller (`BeginRollback` on `Synchronize`, `ResumeRollback` on
    `AppendEntries` in `State::Rollback`), the leader (`Leader`), `Restart`
    and the collaborators `apply_rollback_updates`, `serialize` and
    `next_rollback_change` are outside `src/` and modelled from what the
    loop needs of them (`spec_modelled` in `PROJECT.json`).
  * Data is abstracted to what the properties tell apart: a document's three
    states, a `MergedChanges` as three sets of ids, an update record as a
    (target, id) pair. The leader's log is fixed during a rollback.
  * Each helper that models a line of the loop is preceded by a mutant: a
    variant with a plausible bug that a property must catch.
* `RollbackContract` — what the rollback promises, without rounds,
  messages, faults or restarts. `local`, `leader` and `synced` as above,
  and `pending`, the targets not yet rolled back. `Restore` gives some
  documents the leader's version. `Finish(t)` drops a pending target that
  agrees with the leader. `Confirm` sends `Match` with nothing pending and
  everything agreeing. `FollowerRollback` instantiates it as `Contract`,
  with `pending <- PendingTargets`: a target is pending while its rollback
  key is persisted.
* `FollowerRollbackProofs`, `PeerTransportProofs`, `QueryLoaderProofs` — the
  TLAPS proofs (see below).
* `MCFollowerRollback`, `MCFollowerRollbackProofs` — TLC instances.
* `PeerTransport` — calls to one peer (`request.rs`).
  * State: `call` (each caller's operation, request, position and result),
    `chan` (the bounded mpsc channel of `RpcEvent`s), `open` (the worker
    still holds the receiver), `inflight` (requests written to the peer and
    not answered), `slot` (each call's oneshot receiver: empty, a response,
    or its sender dropped) and `queued` (calls whose event was enqueued).
  * Code actions: `Send` (the channel send of `send_request`,
    `dispatch_request` and `Request::send`, with their failure returns) and
    `AwaitReply` (`rx.await.unwrap_or(Response::None)`).
  * Environment: `Call`, the worker's `WorkerTake`, `PeerAnswer` (a frame
    for any request in flight, decoded with `unwrap_response`) and
    `WorkerExit` (receiver and all held or queued oneshot senders dropped).
* `MCPeerTransport` — three callers, two requests, a channel of two events.
* `RequestReply` — what the transport promises (spec.md 4.1): each call
  goes idle, pending, done, and returns only a value its operation allows
  for its own request (`Returns`); every pending call returns.
  `PeerTransport` ends with the refinement mapping `AbstractCall` (a call
  in `send` or `wait` is `pending`) and `RR == INSTANCE RequestReply WITH
  call <- AbstractCall`; `ImplementsRequestReply` is `RR!Spec`.
* `MailFixture` — `replace_boundaries`, `assert_diff` and the fixture check
  of `test_jmap_mail_create` (`jmap_mail_set.rs`, 61-96, 254-281).
  * Text is a sequence of one-character strings; the word `boundary` is the
    character `b`, so the marker `boundary=` is `b=` and a replacement
    `boundary_i` is `b_i`. `Find`, `QuotedAfter` (`split('"').nth(1)` with a
    trailing `\` cut), `StrReplace` (Rust's `str::replace`, empty pattern
    included) and `RenameFrom` follow the code step for step; `AssertDiff`
    works on characters and UTF-8 byte offsets (`é` is two bytes), so the
    slice of the panic message can itself panic.
  * A message is a template of fillers, boundary declarations (JSON-escaped
    or raw) and `--name` delimiter lines, rendered under the names the
    builder draws (`Render`, modelled from the spec: the builder is outside
    `src/`).
  * State: `recorded` (the message when the fixture was written, by the
    commented-out `fs::write`), `message` (the message now), `fixture` and
    `outcome`. Actions: `Record(n)` and `Check(n)`, each under a naming `n`.
* `MCMailFixture` — templates of up to three parts, two boundaries, two
  fillers, names `pp`, `pr`, `rr` (or, for the violation, `p`, `pr`, `rr`),
  and two bytes of diff context.
* `MailBlobs` — `store_blobs` and the preparation of the create object
  (34-59, 143-161). JSON values are records; `StoreBlobs`, `WalkEntries`
  and `WalkItems` walk objects and arrays, upload each nested `blobId`
  text and panic on one that is not a string; `PrepareCreate` walks the
  property values without looking at the property names. State: `request`,
  `prepared`, `uploaded`; action `Prepare`.
* `MCMailBlobs` — one blob text, keys `blobId` and `partId`, two
  properties, values nested two objects or arrays deep (118,098 requests).
* `BlobCodec` — the text form of a `JMAPBlob`.
  * State: `blob` (the id the server holds, built by `new` or
    `new_section`), `wire` (the text sent to a client and back) and
    `received` (what `visit_str` deserialized).
  * Actions: `Serialize` (the `Display` form, lines 132-139 and 167-190),
    `Deserialize` (`visit_str`: `parse`, lines 60-98, or the default blob),
    and `Truncate`, a client sending back a prefix of the text.
  * The store crate's base32 and LEB128 codecs are outside `src/`; they are
    modelled bit by bit from what they do (`Base32Encode` packs the bytes'
    bits in groups of five, `Base32Decode` drops trailing bits that do not
    make a byte, `Leb128` writes seven bits per byte, least significant
    first). Texts are sequences of character codes.
* `MCBlobCodec` — a one-byte hash of 0 or 255, offsets 0, 1, 127, 128, 300
  (the one- and two-byte LEB128 cases on both sides of the boundary) and
  encodings 0-4 (the five letters `parse` accepts for each kind).
* `QueryLoader` — the bulk loader of the query test (`query.rs`, 101-213).
  * State: `csv` (records still to read), `builders` (spawned builder
    tasks), `documents` (the shared `Vec`), `main`/`held`/`len`/`pos`/`chunk`
    (the scope closure, its mutex guard and the drain loop), `writers`
    (spawned writer tasks) and `stored` (what they wrote).
  * Actions: `Spawn` (115-124), `Build` (a builder pushes under the mutex,
    125-167), `Lock` (171-172), `Drain` (one document of the drain loop and
    the flush test of line 183, 181-204), `Release` (the guard dropped at
    206), `Write` (188-203), `ScopeEnd` (207, then the tests at 209-213).
  * Documents are the records they were built from; ids and fields are left
    out, as no property depends on them.
* `MCQueryLoader` — three records and chunks of two, so that one full and
  one partial chunk, and every position of a builder relative to the lock,
  occur. `MCQueryLoaderProofs` is the same instance for the proof's `IInv`.
  `LoaderAssumption` asks that the records form an injective sequence (the
  test gives each CSV line its own id).

## Runs

| run | cfg | checks | shows |
|---|---|---|---|
| `follower_rollback_safety` | `MCFollowerRollback.cfg` | `DivergenceRecorded`, `MatchImpliesConverged`, `NeverDeletesConfirmed`, `ImplementsContract` | persisted keys always cover every diverged document; `Match` means every target agrees with the leader; no step deletes a confirmed document; every behaviour, faults and restarts included, is one of `RollbackContract` |
| `follower_rollback_liveness` | `MCFollowerRollbackLive.cfg` | `RollbackConverges` | the exchange ends in `Match` |
| `follower_rollback_inductive` | `MCFollowerRollbackProofs.cfg` | `IInv`, `MatchInv` | the proofs' inductive invariants hold on the instance |
| `peer_transport` | `MCPeerTransport.cfg` | `TypeOK`, `OwnResponse`, `NoSendMeansNotQueued`, `EveryCallReturns` | each caller gets its own answer or None, whatever order the peer answers in; `Request::send`'s `None` means the request never entered the channel; every call returns once the peer answers or the connection is lost |
| `blob_id_round_trip` | `MCBlobCodec.cfg` | `TypeOK`, `RoundTrip`, `TruncatedRejected` | every id reads back as itself; every truncated id reads back as the default blob |
| `query_loader_drain` | `MCQueryLoader.cfg` | `TypeOK`, `DrainedStored` | chunks have at most `ChunkSize` documents, and everything drained is written, the last partial chunk included |
| `query_loader_inductive` | `MCQueryLoaderProofs.cfg` | `IInv` | the proof's inductive invariant holds on the instance |
| `query_loader_lost_records` | `MCQueryLoaderLost.cfg` | `AllRecordsStored` (violation expected) | a builder that pushes after the drain loses its record |
| `peer_transport_refinement` | `MCPeerTransportRefinement.cfg` | `ImplementsRequestReply` | the transport implements `RequestReply`, fairness included |
| `mail_fixture_check` | `MCMailFixture.cfg` | `FixtureCheckSound` | with names none of which is part of another, the fixture check passes exactly when the two messages agree but for their boundary names |
| `mail_fixture_overlapping_names` | `MCMailFixtureOverlap.cfg` | `FixtureCheckSound` (violation expected) | with names `p` and `pr`, a message fails against its own fixture |
| `mail_blobs_prepare` | `MCMailBlobs.cfg` | `PreparedAsFile` | every nested `blobId` text becomes an uploaded blob's id, nothing else changes, and a non-string `blobId` panics |

Bounds: three targets (two ordinary ones, symmetric, and a Thread target),
two documents (symmetric), and `MaxFaults = 2` for safety (1 for liveness,
which runs without symmetry). Every initial assignment of each document to
inserted / updated / deleted / present / absent is explored, so every
combination of step outcomes happens: two targets pending at once, a
failure in each step, a restart between any two steps, a leader sending
the records of a target in one or two batches. Two faults allow a failure
followed by a restart in the resumed exchange; the safety run reaches
813,741 distinct states.

Fairness: weak fairness on every follower step and on the leader. The
follower task and the leader's task are scheduled by the async runtime and
run whenever they are enabled; failures and restarts are bounded and never
obliged to happen (`Restart` has no fairness).

Blob bounds: with a one-byte hash and two-byte offsets the base32 text
ends with 2 spare bits (no section: a one-byte payload) and with 1, 3 and 0
(a section: three to five bytes); 4 spare bits, a two-byte payload, cannot
occur with a one-byte hash, since a section adds at least two bytes. And
every proper prefix of every text is tried. `RoundTrip` holds only for the
encodings `parse` can return: with encoding 5, `Display` writes `h` for a
local section (read back as external) and `m` for an external one (rejected,
so the default blob comes back); the check run keeps to 0-4 and the hazard
is recorded in `PROJECT.json`.

Loader finding: the closure locks and drains the vector as soon as the last
builder is *spawned* (line 171), not when the builders are done; rayon runs
builders on the pool's other seven threads, so a builder can push after the
drain, and its document is never written. `query_loader_lost_records` shows
it with three records. `DrainedStored` is the part that does hold.

Transport bounds and fairness: three callers on a channel of two make the
third wait for room, so the worker exiting under a blocked sender happens;
every operation and every order of answers is explored. The callers and the
worker are tokio tasks and get weak fairness; the peer is assumed to answer
each request or lose the connection, as the code has no timeout of its own
(the hazard is recorded in `PROJECT.json`). The refinement run uses the
same instance; its fairness part (every pending call returns) follows from
the same assumption.

Mail fixture bounds and finding: three parts suffice for two declarations
and a delimiter line, a prefix of another message, and a mismatch in the
last bytes or next to a two-byte character. The code shows ten bytes of
context; the model shows `DiffContext = 2` on texts of up to about twenty
characters, so that both a mismatch with its context and one whose slice
panics occur (all four outcomes are reached). Names of equal length none of
which occurs in another are what makes the check sound; with `p` and `pr`
the first renaming rewrites part of the second name, and
`mail_fixture_overlapping_names` shows a message failing against its own
fixture: `replace_boundaries` does not do what it is there for whenever
one random boundary contains another. Two distinct names of the same length
never contain one another, so this takes names of different lengths; whether
the message builder, outside `src/`, ever draws such names is not in this
repository.

## Proofs

`FollowerRollbackProofs` proves, for every set of targets, Thread targets,
documents and fault bound allowed by `ConstantsAssumption`:

* `TypeCorrect`: `Spec => []TypeOK`. `TypeOK` is not a run's property:
  no change to the handler's code breaks it, but the other proofs rest on it.
* `IInvHolds`: `Spec => []IInv`.
* `DivergenceRecordedHolds`: `Spec => []DivergenceRecorded`.
* `MatchInvHolds`: `Spec => []MatchInv`.
* `MatchImpliesConvergedHolds`: `Spec => []MatchImpliesConverged`.
* `NeverDeletesConfirmedHolds`: `Spec => NeverDeletesConfirmed`, the action
  property.

`DivergenceRecorded` is not inductive by itself: within a round the
diverged documents of the round's target may already be missing from the
in-memory changes (their inserts were taken) while the key still holds them,
and between rounds they are accounted for by the message in flight. `IInv`
adds what the proof needs:

* `ThreadEmpty`: a Thread target has nothing in the leader's log and nothing
  diverged;
* `InsertsUnconfirmed`: persisted inserts are documents the leader lacks, so
  deleting them restores exactly them;
* `RoundCovers`: at each `pc` of a round, the diverged documents of its
  target are among the inserts still to delete and the records still to
  apply (those in hand and those the leader holds), or among the updates
  and deletes still to request;
* `ExchangeCovers`: between rounds, the `AppendEntries` in flight, an
  `Update` or `Continue` response and the kept `State::Rollback` account for
  them in the same way.

Each action has a lemma `ASSUME IInv, A PROVE IInv'`, with one case per
disjunct of the action; the lemmas `DivergedApply` and `DivergedDelete` say
what applying records and deleting documents does to the diverged set.

`MatchImpliesConverged` is proved from `MatchInv`: once `Match` is in flight
or received, no rollback key is persisted. It is inductive given `TypeOK`,
for two reasons. `PendingShrinks` shows that no step adds a key: only line
125 writes keys, and it removes one. `MatchSource` shows that a step leaving
`Match` in flight or received either found it there or is the `Match` reply
itself, which the code makes only when the key scan finds nothing.
`DivergenceRecorded` then turns "no key" into "nothing diverged".
`NeverDeletesConfirmed` follows from `IInv` (`StepKeepsConfirmed`). Only
the delete batch and `apply_rollback_updates` write the store. The delete
batch takes the round's inserts, which `RoundCovers` keeps disjoint from the
leader's log. `apply_rollback_updates` writes the leader's version.

`FollowerRollbackProofs` also proves `Refinement`:
`Spec => ImplementsContract`, the loop refines `RollbackContract`. `Init`
maps to `Contract!Init` (`ContractInit`): no key is persisted yet, so every
target counts as finished, and `DivergenceRecorded` says each one agrees
with the leader. `ContractStep` checks each action under `IInv` and
`MatchInv`:

* The delete batch and `apply_rollback_updates` are `Restore` steps: they
  write only the leader's version.
* Removing a key at line 125 is `Finish` of the round's target. `RoundCovers`
  gives that with both sets empty nothing of the target is diverged.
* The leader receiving `Match` is `Confirm`. `MatchInv` says no key is left,
  and `DivergenceRecorded` that nothing is diverged.
* Every other step leaves `local`, `leader`, the keys and `synced` alone,
  and is a stutter.

`ContractSettled` proves that the contract keeps its own promise, `Settled`.
A target that is not pending agrees with the leader, and `synced` implies
nothing is pending. This is inductive over `RollbackContract` by itself.
`RollbackSettled` carries it to the loop through `Refinement`.

`PeerTransportProofs` proves, for every set of callers and requests and
every channel bound allowed by `TransportAssumption`:

* `TypeCorrect`: `Spec => []TypeOK`, including that the channel never
  holds more than its capacity.
* `OwnResponseHolds`: `Spec => []OwnResponse`.
* `NoSendHolds`: `Spec => []NoSendMeansNotQueued`.

Both follow from the inductive invariant `TInv` (`TInvHolds`). A call not yet
sent has an empty oneshot, is not in `queued` and has no event anywhere. A
`NeedResponse` event, in the channel or at the worker, carries the request
of the call whose oneshot it holds. A oneshot that holds an answer holds the
answer to its call's request. `OwnResponse` alone is not inductive: a
`PeerAnswer` step writes a oneshot, and only the event invariant ties the
answer written to the waiting call. There is one lemma per action, plus
lemmas on appending to and taking from the channel (`AppendElems`,
`TailElems`, from `SequenceTheorems`).

`PeerTransportProofs` also proves `Refinement`: `Spec => RR!SafetySpec`, the
safety part of `RequestReply` under `AbstractCall`. The argument is the
usual one: `Init` maps to `RR!Init`, and `RefinementStep` shows that, under
`TInv` and `WaitInv`, each step is an `Invoke` (`Call`), a `Return`
(`Send` of a dispatch or on a closed channel, `AwaitReply`) or leaves
`AbstractCall` unchanged (a send that enqueues, and every worker and peer
step). `WaitInv` (a waiting call is not a dispatch) is needed because a
`Return` must be one its operation allows; `TInv` gives that an answer in a
oneshot is the answer to the call's own request. `ReturnStep` does the
common part of the `Return` cases once.

`QueryLoaderProofs` proves, for every injective sequence of records and
every chunk size allowed by `LoaderAssumption`:

* `InductiveInvariant`: `Spec => []IInv`.
* `TypeCorrect`: `Spec => []TypeOK`.
* `DrainedStoredHolds`: `Spec => []DrainedStored`.

`IInv` follows a record through its places: the CSV, a builder, the vector,
the chunk, a writer, the store. It has five parts besides `TypeOK`:

* `Distinct`: CSV, builders and vector are pairwise disjoint, and the
  CSV and the vector are injective.
* `Separated`: no record in the chunk, with a writer or in the store is
  still undrained.
* `Covered`: every record is in some place.
* `Counted`: the lengths of CSV and vector, the number of builders and
  `pos` add up to the number of records. This bounds `len` and `pos`.
* `Phase`: what each position of the closure implies. The mutex is held
  exactly while draining, so no builder pushes then. During the drain the
  vector holds `len - pos` documents. The chunk is empty once `pos = len`.

The last part is what makes the final partial chunk reach a writer: the
document drained at `pos = len - 1` flushes it. At the end of the scope
CSV, builders, chunk and writers are empty. Every record is then in the
vector or in the store, and not in both. There is one lemma per action.
Operator lemmas (`ToSetAppend`, `ToSetTail`, `InjectiveTail`,
`InjectiveAppend`, `BoundedSeqIff`) cover what `Append`, `Tail` and
`BoundedSeq` of `SequencesExt` do to the elements of a sequence.

Only model-checked:

* The liveness properties `RollbackConverges` and `EveryCallReturns`, and
  the fairness part of `ImplementsRequestReply`. Liveness is outside
  TLAPS's reach.
* The mail-set properties `FixtureCheckSound` and `PreparedAsFile`: they
  are about recursive string and tree functions, and what those compute
  for every input is induction over data.
* The blob codec's properties. The codec is built on `RECURSIVE`
  operators, which TLAPS cannot use, and what they compute holds only for
  the bounded inputs TLC enumerates.

## Not modelled

* The leader's side, the Raft log and `apply_rollback_updates`'s store
  writes are not in `src/`; they are modelled only as far as the loop
  depends on them.
* A leader retrying an old batch after a lost response is not modelled: the
  modelled leader restarts the synchronisation after `None`.
* `JMAPBlob::start_offset`, and the derived `Debug`/`Hash`/`Clone`, change
  no state.
* The tombstone test is a fixed sequence of calls into a store whose
  implementation is not in `src/` (insert, delete, query, purge, with the
  expected results written in the test); modelling it would model the
  store from nothing but the test's expectations. The query tests' filter
  and sort assertions compare results with fixed ids.
* In the mail-set test, the mailbox inserts, `mail_set`, `download_blob`
  and `mail_get` are calls into the JMAP mail store, outside `src/`;
  `test_jmap_mail_update` is empty, and the `UntaggedJSONValue` conversion
  copies a value one to one. An unquoted `boundary=` parameter, which
  `replace_boundaries` mishandles, is not generated: the builder that
  writes the messages is outside `src/`.
