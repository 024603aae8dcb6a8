# Torca: models and proofs

TLA+ specifications of the state machines that make Torca (a one-to-one messenger over
Tor) reliable. They cover the whole life of a conversation: two installations pair through
a rendezvous relay, exchange messages and receipts over sessions between onion services,
keep each other's addresses current, remove the relationship and pair again, and they
do so in an engine whose process may stop at any time.
TLC checks the models on small instances. TLAPS proves, for every value of the constants, the
safety properties of all ten: the message ledger with its refinement of an abstract
lifecycle, the inbound pipeline, read receipts, peer sessions, the scheduler, the relay,
pairing, the command pipeline, the removal of a relationship, and endpoints.

`PROJECT.json` lists the runs, the source lines behind every definition, the hazards of the
code with the properties that cover them, and what the runs found.

    tlc -workers 2 -config MCMessageOutbox.cfg MCMessageOutbox
    tlapm OutgoingProofs.tla

## 1. The system

A client is one **engine actor** (`packages/torchat-client-engine`). It owns the SQLite
store and handles one input at a time: commands of the user interface, facts of the
host platform, events of the peer transport, outcomes of network effects, and timers. It
talks to another engine through the **peer transport** (`packages/torchat-peer`),
authenticated sessions between onion services; the transport may lose, repeat, reorder
and delay, and reports acknowledgements and failures at any later time. A **relay**
(`services/torchat-relay`) is needed only while two people pair: it forwards encrypted
pairing envelopes between the two sides of a bridge and stores nothing.

| part | state it keeps | what makes it correct |
|---|---|---|
| outbound message ledger | message row, lease row, durable operation | a message to be sent has an owner that will retry it; no late event takes back what the peer has |
| inbound pipeline | inbox rows, replay records, deferred envelopes, MLS ratchet, receipts, quarantine | what was acknowledged is durable and is resolved; a message is shown once; only bad ciphertexts quarantine a contact |
| read receipts | outbox rows with ciphertext, MLS ratchet and its snapshot | no ratchet position is used twice; a receipt that is owed is delivered |
| input loop and scheduler | bounded inbox, derived inputs, plan generation, deadlines | no wakeup is lost, none runs early or twice, everything due is served |
| peer sessions | queue, dedupe set, frame in flight, waiters | an accepted command ends in an acknowledgement or a failure, and what was persisted is never a failure |
| relay | connections, slots, bridges, per-connection counters | the actor never touches a connection that is gone; a slot has one joiner; both sides learn the same ending |
| pairing | invitation inbox and outbox, used invites, contact, pending Welcomes, tokens | both sides end in the same MLS group; a completed request stays completed |
| command pipeline | replay records, operations, registry of callers, projection revision, anchor | a repeated command has the first one's effect and answer; every caller is answered; no database older than the anchor is opened |
| relationship removal | tombstone, epochs, removal and acknowledgement outboxes | what was removed stays removed until a new pairing, and epochs only advance |
| endpoints and capabilities | own and contact's endpoint, minted and granted credentials, listener | the listener asks for nothing that is neither stored nor about to be, and admits whoever holds what was granted; nothing goes back; sessions reopen |

What is hard, and what the models are made of:

* every event of the transport can come late, twice, never, or in another order than the
  events of the other direction (a delivery receipt can overtake the acknowledgement of
  the attempt it confirms);
* a handler commits a transaction and then performs effects, and the process can be
  killed between the two, or between any two statements that are not in one transaction;
* MLS decrypts a ciphertext once and must never use a ratchet position twice, while rows
  and snapshots are stored by different statements;
* the relay's stream carries answers and events, and an answer can be taken for that of
  another request;
* frames of a removed relationship still arrive, and a new relationship with the same
  contact may already exist when they do;
* all timers of a batch carry one plan generation and each handled input makes the
  others obsolete; retries of different kinds compete for one timer.

## 2. Modules

| module | models | code behind it |
|---|---|---|
| `MessageRules` | the transition functions of a message's state | `torchat-runtime/src/message_rules.rs` |
| `MessageOutbox` | the sending engine's ledger | runtime `features/messaging`, `runtime.rs`, engine `actor/state/{messaging,peer_events,retry_scheduler}.rs`, storage `sqlite/messages.rs` |
| `MessageLifecycle` | what the sender is promised about one message (abstract) | |
| `PeerInbox` | the receiving engine for one contact | engine `actor/state/{application_envelope,peer_events,receipts}.rs`, `actor/state.rs`, storage |
| `ReadReceipts` | the read-receipt outbox | `actor/state/receipts.rs`, storage `sqlite/read_receipts.rs` |
| `PeerSession` | dispatcher and session task of one contact, with the receiver's acknowledgements | `torchat-peer/src/peer/{session,queue,outbound,inbound}.rs`, engine `actor/state/peer_control.rs` |
| `EngineScheduler` | input loop, scheduler task, effect worker | `actor/run.rs`, `actor/input_handlers.rs`, `scheduler/`, storage `next_retry_deadline` |
| `RelayBroker` | the relay actor | `services/torchat-relay/src/main.rs` |
| `Pairing` | two installations that pair, the relay actor of the client, and the part of the relay between them | runtime `runtime.rs`, `features/pairing/`, engine `relay/actor.rs`, `actor/state/{pairing,relay_envelope,relay_events}.rs`, `actor/commands/pairing/`, storage `runtime_storage.rs` |
| `CommandPipeline` | a command from the typed API to its answer, and the MLS anchor at start | engine `engine.rs`, `actor/command_pipeline/`, `actor/state/runtime_transaction.rs`, `output/`, runtime `features/operations`, `torchat-crypto/src/anti_rollback.rs` |
| `Relationship` | one side's removal, tombstones, epochs, and pairing again | storage `runtime_storage.rs`, `sqlite/mod.rs`, engine `actor/state.rs`, `actor/state/{pairing,application_envelope,messaging,peer_events}.rs`, runtime `features/relationship_removal.rs` |
| `PeerEndpoints` | onion endpoints and capabilities of two installations | engine `actor/state/{platform_facts,capabilities,peer_control}.rs`, `torchat-peer/src/peer/{inbound,outbound,session}.rs`, storage `sqlite/peer_endpoints.rs` |

The theorems and their proofs are in the `*Proofs` modules (section 4): `OutgoingProofs` is about
`MessageOutbox`, with `MessageRules` and `MessageLifecycle`, and `ReadReceipts`; `IncomingProofs` about
`PeerInbox` and `RelayBroker`; `EngineProofs` about `Relationship` and `EngineScheduler`;
`PairingProofs` and the `PairingStepProofs` it extends about `Pairing`; the others about the module they are named
after. Modules that one proof module extends have different names for their specifications
(`ReceiptSpec`, `RelaySpec`, `SchedulerSpec`).

`MC*` modules instantiate the models for TLC. Definitions carry the names of the functions
they translate where there is one. A `Faulty_*` operator is a variant of the definition
that follows it, kept to show that a property notices a plausible mistake; no
specification uses one.

The modules share seams instead of state: what is a choice in one module is derived in
another. `MessageOutbox` lets the transport report any outcome at any time;
`PeerSession` says which outcomes the transport reports. `Relationship` takes a pairing as one
commit with a new group; `Pairing` says when that commit happens. `CommandPipeline` reduces
handlers to the place where they write their replay record; the other modules are the handlers.

### MessageOutbox

`ledger[m]` is what SQLite holds for message `m`: `state` (row of `messages`), `row` and
`attempts` (row of `outbound_deliveries`), `op` (the durable operation a command began)
and `flushOp` (the operation whose id the scheduler would use). A ledger change is a
function of one entry, as a transaction of the code is; one that fails returns the entry
unchanged. `work` holds the send effects a handler has still to dispatch: the actor runs no
other handler meanwhile, but `Restart` can strike. `handed` are the messages the
transport was ever given, and the transport may report any acknowledgement or failure of
those, at any time and any number of times. Clocks are choices: any pending message may be
due, any lease may have expired.

Commands are `send_message_command`, `command_retry_message`,
`command_retry_peer_connection` and `command_delete_message_local`; the scheduler is
`flush_pending_message_deliveries` and `flush_pending_send_effects`; effects are
`DispatchHanded`, `DispatchLeased` and `DispatchRefused`; the peer is `AckReceived`,
`DeliveryFailed`, `ReceiveDeliveryReceipt` and `ReceiveReadReceipt`; the platform is
`ConnectivityChanged`, `OnionServiceLost`, `CapabilityExchanged` and `Restart`.

`MessageLifecycle` is the abstract specification: one `status` per message and the moves a
sender may see. The mapping (`Abstract`) forgets leases, attempts and operations and shows
QUEUED and SENDING as "pending".

### PeerInbox

For every envelope of one contact: its inbox row (`inbox`), whether it waits for the
Welcome (`deferred`), its replay record (`received`), whether the saved ratchet can still
decrypt it (`spent`), the message it shows and the receipt that message owes. `at` says
how far the engine is with it, so that every durable step of `handle_peer_event` is a step
of its own with a possible `Restart` after it: `InboundMessage` stores, `HandleEnvelope`
decrypts and commits, `CompleteInbound` or `RejectInbound` finishes. `phase` distinguishes
startup recovery, the input loop and the drain of deferred envelopes. Envelopes arrive any
number of times, through the session or (the set `Relayed`) through the relay.

### ReadReceipts

`rows`, `cipher` and `due` are the outbox; `ratchet` is the live position and `snapshot`
the stored one; `todo` is what the running flush has still to do and `step` whether it is
between the ciphertext's statement and the snapshot's. A crash there leaves the group in
`torn`. A contact in `Removable` can be removed and paired again, which begins a new MLS group.

### PeerSession

`outbound` and `channel` are the bounded channels to the dispatcher and to the session
task; `task` is where the task is (`top`, `waiting` and `dialing` in `run_contact_session`,
`connected` in `run_connected_session`, `ending` between its decision to return and the
drop of its receiver, when commands are still accepted and lost). `queues` is
`CommandQueues`; `active`, `awaiting` and `probes` are the three maps of a connected session;
`wire` and `back` are the frames and acknowledgements on the connection. The engine is
reduced to `wanted`, the ciphertexts it has still to get persisted, any of which it may submit
again at any time (a lease can always have expired). `settled` is a history variable for
`NoFailureAfterPersisted`.

### EngineScheduler

`deadline[d]` says whether timer, durable operation or retry kind `d` is unset, set or
due; `inbox` is the bounded channel; `derived` the inputs the actor queues for itself; `task`
the control state of the scheduler task with the batch it is sending. A timer of an
older plan generation is kept as `"obsolete"`: the code compares numbers, and all
that can follow from a mismatch is that the timer is ignored. `Stuck` are the retry kinds whose
flush leaves their row due.

### RelayBroker

`slots`, `bridges`, `held`, `paired` and `attempts` are the maps and counters of
`BrokerState`; `status` is the life of a connection; `told` collects the frames that
reached an outbound queue (`try_send` may drop any). Expiry is split as in the code: a slot
or bridge grows stale (`SlotExpires`, `BridgeExpires`), and the ticker (`expire_state`)
sweeps later; handlers that check the deadline themselves see staleness before that.

### Pairing

The tables of both installations (`inbox`, `outbox`, `used`, `group`, `welcomes`,
`invites`) are durable; `tokens`, `effect` (the running relay effect), `link` and the frame queue
`in` end with the process. `slot` and `bridge` are what the relay holds. A pairing
identifier and its invite are one value, and `group[e]` is the invite behind the contact's
MLS group, so "the same group" is an equation. `age[p]` counts the deadlines that have
passed: 180 s for the request and its bridge, then 15 minutes for the invite. Each
transaction of `accept_invite`, of the acceptance and of the Welcome is a step, and a
restart may come between any two.

### CommandPipeline

`call` and `registry` are the callers of the typed API, `inbox`, `pc` and `out` the path of
an input through the actor to the event router, `processed` the replay records, `operation`
the durable cancellation, `head` and `seen` the committed and the announced revision, `mls`
and `anchor` the two versions that are compared at start. A handler is of one of three kinds:
`Runtime` (replay record in the transaction of the mutation), `Direct` (database first,
record afterwards) and `Cancel` (a relay effect whose outcome commits later). A payload is the
number of times the command was applied.

### Relationship

One variable per table, and `conversation` for the group the process holds in memory. A
group is its ordinal and the position of its sending ratchet. `NoticeGroup` and
`NoticeEpoch` fix what each notice of the contact was encrypted in and carries. `Restart`
rebuilds the memory from the tables; `CommitThenCrash` is a pairing whose transaction
committed and whose follow-up (endpoint of the bootstrap, deferred envelopes) never ran.

### PeerEndpoints

`local`, `dial`, `cap`, `grant` and `updates` are the tables of each installation,
`listener` the authorization in memory, `probe` and `slot` the two commands of the session task,
`link` the outgoing session with its unread frames, `events` what the listener has handed
to the engine. `authenticate_inbound` is the check of the handshake. An endpoint is its address, its
sequence and the id in its capability marker.

The listener and the table are not equal at all times. `ReceiveUpdate` moves the listener's sequence at
once and leaves the table to an event, and a session that was opened again may read an
update a second time after the engine has stored a later one; the listener is then behind the
table until the next refresh, and a session opened meanwhile refuses the update that follows. What holds, and what
`ListenerCovered` says, is the other direction: every sequence the listener has moved to is
stored or in an event that will store it.

## 3. Runs

Every bound is a constant of a configuration. The messages of `outbox` and the connections,
handles and pairings of `relay` are symmetric; neither run checks liveness.

| run | instance | shows |
|---|---|---|
| `outbox` | 3 messages, 2 attempts | the three rows agree, a pending message has its owner and never blocks the flush; nothing the peer has is sent again; the ledger implements `MessageLifecycle` |
| `inbox` | 2 messages, 1 receipt, 1 transient payload, 2 crashes | acknowledgements promise only what is durable; no message is quarantined, resurrected or shown without receipt; deferred envelopes are replayed; each persisted envelope is resolved |
| `relay` | 3 connections (2 fit), 2 slots, 2 pairings | parties are connected, slots are used once, pairings are counted exactly, endings agree |
| `scheduler` | inbox of 1, 1 external input, 2 retry kinds of which the last is stuck | no lost wakeup; no early or repeated run; everything that is due is served |
| `read_receipts` | 1 removable contact, 2 messages, 2 groups, 3 positions, 2 crashes | no ratchet position is used twice in a group that no crash has torn; the snapshot covers the outbox; every receipt is eventually acknowledged |
| `session` | a message and a receipt, an endpoint update, channels of 1 | the dedupe set is exact; acknowledged means stored; what was persisted is not reported as failed |
| `session_fair` | a message, all kinds of slots, an endpoint change | the message is eventually acknowledged |
| `pairing` | 2 installations, up to 2 requests of one side, 2 codes, frame queue of 2, 1 fault | one group per invite and pair; completion means both sides; a request blocks the next one only in its time; completed stays completed |
| `pairing_crossed` | each side submits the other's code | **violated**: both apply a Welcome and keep different groups |
| `commands` | 4 calls with 2 identifiers (a repetition, a direct command, a cancellation), inbox of 2, 2 faults | one effect and one answer per command; the announced revision is the head; the anchor refuses a replaced database and no other; every caller is answered |
| `relationship` | 2 removals, 2 notices, 3 groups, 1 message, 2 attempts | a removed relationship stays removed; tombstone, notice and operation agree; the saved snapshot is current; epochs only advance |
| `endpoints` | 2 installations, 3 changes of one, 1 unread frame | the listener's sequence is stored or about to be; what was granted is admitted; endpoints and grants never go back; probes reopen sessions |

Why the bounds are enough.

* `outbox`: entries of different messages interact only through the batch of a flush and the
  connectivity; three give a batch with a first, a middle and a last. Two attempts give a first, a
  last and an exhausted one.
* `inbox`, `read_receipts`: two crashes reach a crash during the recovery from a crash. Two messages
  give a receipt that grows and is replaced while its predecessor is in flight.
* `relay`: room for two of three connections reaches every limit, and a pairing has two sides.
* `scheduler`: with an inbox of one place the scheduler's task and the other producers are
  blocked in `send`, and a timer that waits there becomes obsolete when a derived input is
  handled first.
* `session`: a session keeps one frame in flight, so two ciphertexts give one in flight and one that
  waits or is already persisted; channels of one place fill and block; commands for slots overwrite
  each other in one place, so one at a time is enough.
* `pairing`: a second request of the same side meets every state the first one can have left
  behind, on both sides and at the relay. A fault (lost connection, change of the SOCKS proxy,
  restart, stop between two transactions, archival) can come at any point; one keeps the run short.
* `commands`: three calls share one identifier, so that a repetition can meet a running, committed,
  timed-out or foreign record. Two faults reach a failure after a failure (a crash after the
  anchor failed, a restored database after a crash).
* `relationship`: a local and a remote removal, a pairing between them and one after them. The first
  notice is ahead of the local epochs and the second carries none, so that both are stale for some
  orders and not for others.
* `endpoints`: three changes give an update that overtakes its predecessor, a rotation
  before its offer arrived, and a crash between the two. With one unread frame per session the next is
  sent when it is read; two let an update be read twice, and were checked as well for the two invariants
  (1.25 million states), but not for liveness, which would take too long.

Fairness. The engine is one task that a runtime schedules: its own steps are weakly fair
(`Actor`, `Flush`, `EngineStep`, `RetryDue`). The scheduler's `send` and an effect's `send`
compete for places in a first-come queue, hence strong fairness. Strong fairness of `Ack`,
`Encrypt` and `DispatchQueued` in `ReadReceipts` says that the network and the cipher do not fail for
ever; without it nothing can be promised. In `PeerSession`
the tasks are weakly fair; strong fairness says that commands do not arrive faster than
the `try_recv` loop takes them, that the engine retries what is pending, and that a dial, a write
and a PERSISTED acknowledgement do not fail for ever. In `CommandPipeline` the actor, the
router, the relay worker (which waits at most 30 s for an answer), the closing of the registry and
the polling of a caller's future are weakly fair; nothing obliges a caller to call or an operation to be
due. In `PeerEndpoints` only `Probe` and `Dial` are fair: the probe timer falls due again and again and
a session task dials when it holds a probe. Crashes, removals and external inputs are bounded,
never fair.

In `EngineScheduler` one assumption bounds the interleavings of clocks: a deadline that was
served while another was already due does not pass again before that other one is
served (intervals are seconds to minutes, handling an input is not).

Deadlock is checked except in `ReadReceipts`, whose bounds on messages and ratchet
positions let it stop, in `PeerSession`, which stops when everything is acknowledged, and in
`CommandPipeline`, which stops when every call was answered or the engine was refused its database.

## 4. Proofs

Each proof has the same shape. An inductive invariant adds to the properties what their
preservation rests on. TLC checked it on small instances as well. One lemma for each
action, or for a few that do the same, shows that the action keeps it, and the theorems at the end of the module are its
consequences. The assumptions are the named `ASSUME`s of the modelled module; TLC evaluates them
in every run. Bounds such as `MaxCrashes` are any natural numbers.

| theorems in | properties proved | inductive invariant |
|---|---|---|
| `OutgoingProofs` | `Inv`, `PendingDeliveryIsOwned`, `PersistedNeverResent`, `ConfirmationIsFinal`, `ImplementsLifecycle`; `RatchetInv` | `Inv`; `RRInv` |
| `IncomingProofs` | `InboxInv`, `MessageNeverQuarantined`, `DeferredReplayed`, `NoResurrection`; `BrokerInv`, `PairingCountExact`, `EndingsAgree` | `PInv`; `BInv` |
| `PeerSessionProofs` | `SessionInv`, `AcknowledgedIsStored`, `NoFailureAfterPersisted` | `SInv` |
| `EngineProofs` | `RemovalInv`, `RemovedStaysRemoved`, `SnapshotCurrent`, `EpochsAdvance`; `LoopInv`, `NoEarlyRun` | `RInv`, `TInv`; `EInv` |
| `PairingProofs` | `RequestInv`, `SharedGroup`, `CompletedMeansBoth`, `BlockedOnlyInTime`, `CompletedIsFinal` | `PairIInv` |
| `CommandPipelineProofs` | `PipelineInv`, `Idempotent`, `AnnouncedHead`, `AnchorSound` | `CInv` |
| `PeerEndpointsProofs` | `EndpointInv`, `AdmitsWhatItGranted`, `NeverBack` | `EndpointIInv` |

Most leaves name the prover that finds them (`Zenon` for first-order steps; the others are left to SMT). `tlapm` prepares
an SMT obligation the more slowly the more of them it has met in the same module, so this keeps each module to a few minutes.

### The message ledger

`OutgoingProofs` proves, for every set of messages and every positive attempt budget
(`MaxAttemptsAssumption`), the properties of `outbox`:

* `OutboxInvariant`: every reachable state satisfies `Inv`, that is `TypeOK /\ OutboxInv`;
* `PendingOwned`: a message still to be sent has its lease row and an unfinished operation, and
  the scheduler never finds a finished operation under its own identifier;
* `NeverResent` and `ConfirmationFinal`: what a step may never do to a message;
* `OutboxImplementsLifecycle`: the ledger implements `MessageLifecycle`.

"Pending implies owned" is not inductive: a late acknowledgement decides from the
message's state whether it finishes the operation, a requeue from the lease row, and the scheduler from the
operation. `EntryInv` therefore ties all three together in both directions: a lease row exists
exactly while an operation is active, an entry that is pending has both, one that is unsent, sent, failed or
deleted has neither, and the scheduler never begins an operation of its own. DELIVERED and
READ are left open on purpose: a receipt can confirm a message whose attempt is still
leased (section 5).

Since every ledger change is a function of one entry, the proof has one lemma per
transaction (it keeps a good entry good and moves it only forward), a lemma that lifts
such functions to the whole ledger, and one step per action. The refinement reads the same
lemmas as moves of the abstract message: requeues are invisible, a settled outcome is one legal
move, and an action that touches several entries moves at most one of them visibly.

### Removal of a relationship

`EngineProofs` proves, for any removals, notices, messages and bounds
(`RelationshipAssumption`: the identifiers of removals and notices differ, every group has at most
one notice), `RelationshipInvariant` and from it

* `StaysRemoved`: while the tombstone of a local removal stands there is no group in the
  database or in memory and no endpoint to dial;
* `TombstoneHasNotice`: tombstone, notice and completed operation agree;
* `SnapshotIsCurrent`: outside a tombstone a restart resumes the last pairing's group at the position
  it had in memory;
* `EpochsOnlyAdvance`: boundary and tombstone never go back.

No conjunct is inductive alone. A restart copies the saved group into memory, so that memory is empty
only because the table is (`RemovedStaysRemoved` for both); a notice can be decrypted only in a
group that is in memory, which is why it never replaces a local tombstone; an endpoint is kept for a
contact that does not exist yet, so that no tombstone may exist without a contact
(`NoContactNoTombstone`). `SavedCurrent` says of the table what `SnapshotCurrent` says of the
memory: a repeated removal command empties the memory of a later pairing, and the restart
that follows must still find the right group.

The types of the tables are proved apart (`RemovalInvariant`). That no counter leaves its range needs
two facts about them: a row that is still retried has an attempt left, and a pairing is open only while a
group is left for it.

### Inbound pipeline

For any envelopes, routes and crashes (`EnvelopesAssumption`: an envelope carries one kind of payload). The
argument is the relation of three records (`RecordsAgree`): an envelope with a `received_envelopes`
row is spent, one that is spent and of a recorded kind has a row, and a message that was ever shown
has one. A replay therefore finds the row or can still decrypt, which is why a readable message is never
rejected and a deleted one never returns. `OutcomesAreTrue` says the same of what the engine
holds in memory between decryption and completion; `ReplayUnderway` follows the deferred envelopes
through the two loops that replay them.

### Read receipts

The ratchet in memory equals the stored snapshot, except between the two statements of
`persist_read_receipt_encryption`, where it is one ahead (`MemoryAhead`). So the snapshot covers
the outbox because memory does (`MemoryCoversOutbox`), and a crash can break that only
between the two statements, which puts the group into `torn`. That no row has two deadlines
(`FlushOnRows`) is needed for the acknowledgement, which removes a row's only entry from `due`.

### Peer sessions

For any outbox without repetitions, slots, endpoints and channel capacities. The session owns a
ciphertext from the queue until it is acknowledged, expires or fails. `Owned` says that queue, frame in
flight and waiters are disjoint and that the dedupe set is their union; `Unreported` that nothing which
may still be reported as failed was reported as persisted. `Network`, `Reported` and `Settled` follow
the promise of durability along its way: an acknowledgement on the connection, then in an event, then as a
ciphertext the engine no longer wants, is always of something the receiver has stored.
The counting form of `SessionInv` follows from `Owned` and the cardinality of a union.

### Scheduler

For any retry kinds, inbox capacity and number of inputs. A timer of the current generation,
in the inbox or in the task's batch, is due (`CurrentAreDue`): time makes nothing less due, and every
input that could is followed by a new generation. A task whose plan is current sends only such
timers (`BatchIsCurrent`), so when it begins to wait for another generation the last one is still
in the inbox.

### Relay

For any connections, handles, pairings and limits. A fresh identifier names nothing because all in sight were
issued before (`Issued`); endings agree because an open bridge has not been told its end
(`OpenIsUnended`); and the counter is exact for every connection, open or not (`CountsExact`), with lemmas
about how cardinalities change when one bridge begins, one ends and many expire.

### Command pipeline

For any callers, identifiers, capacities and faults. `PipelineAssumption` says that calls with one command
identifier agree on being a cancellation: the hosts derive an identifier from one
operation (`operation_journal.dart`). `Rows` and `Process` say what the single actor knows between two
inputs: the identifier of a running relay effect has no replay record, and an outcome in the inbox
belongs to the effect that waits for it. `Once` ties the number of applications to the record,
`Answers` ties every success on its way to a caller to the record, and `Revisions` orders the event channel
between the last announced revision and the head. Replay records are kept for ever in the model; the
code prunes old ones when it opens the database (`sqlite/projection.rs:12`), so "once" holds
within their retention.

### Pairing

For any requests between two installations, queues of any positive length and any number of codes
and faults (`PairingAssumption`: a request goes from one side to the other). `PairIInv` says six things
beside the types:

* `Single`: each table has at most one active request, and the outbox none while a submission
  runs. The check is made before the effect and the row is stored after it, so this rests on
* `StartedOnce`: a `PairingStarted` frame waits at most once for a request, and only for one that is not
  stored yet; and `Submitting`: the request of a running submission was issued by this side;
* `Addressed`: a frame that waits is true: the Welcome of an invite is on its way only after the
  owner has consumed it, a final frame only after the joiner has;
* `Consumed`: the owner consumes an invite before the joiner, before it stores the request as
  Accepted, and at the latest with the group it creates (`Ledger`); a request in the inbox is
  Completed only when the joiner has consumed it too (`Received`);
* `OneGroup`: if all requests go one way, the owner consumes one invite, that of its group.

From these follow `RequestsHold`, `BothConsumed`, `BlockedInTime` and `OneSharedGroup`. The last has the
hypothesis `OneWay`, which the run `pairing` satisfies; without it `SharedGroup` is false, as
`pairing_crossed` shows. `CompletedStays` is read off the steps: every lemma about an
action also shows `Settled`, that a completed row is only archived.

Several operations of the code are loops over the rows of a table (`FoldSet` in the model), about which no
induction is available. They are resolved by `Single`: a loop over active rows has at most one row, so it is
the identity or one update (`FoldNone`, `ExpireOne`, `CompleteOne`), and outbox rows are never keyed
(`OutRows`, the reason for the finding of section 5), so the loops that retire rows by their key do nothing.
What remains of a table operation is a relation between the old and the new table (`Follows`, and
`Eases` when nothing arrives), and what remains of a send is that the queues hold the old frames and some new ones
(`Fed`).

### Endpoints

For any number of changes, losses and crashes and queues of any length, between two installations
(`PeerEndpointsAssumption`). `EndpointInv` needs only the types of what the tables, commands, frames
and events carry (`Stored`, `Carried`), and for them that the updates of a session are sent each once
and in order (`Ranks`: the number of smaller sequences is another one for every update). `AdmitsWhatItGranted`
is not inductive: two facts carry it. A marker in a stored endpoint is the one of the pairing
(`MarkedAtPairing`), since an update carries none; and while the capability of the pairing stands, every
step that changes the own endpoint renews the listener's entry (`ListenerFresh`). A contact whose stored
endpoint matches the tables therefore matches the listener. After a rotation of the capability no stored
endpoint matches any more until the two pair again (deviation 11), which is why `ListenerFresh` need not speak of later
capabilities. `StoredNeverBack` is the action property.

### Only model-checked

* All liveness (`ReceiptConverges`, `Reconnects` and the other temporal promises of section 3): it is
  outside the proof system's reach.
* What a loop over more than one row would compute: the proofs about `Pairing` never meet one, and the
  sorting of updates in `PeerEndpoints` is defined by ranks instead of by recursion.
* `CrossedAgree`, which is false.

## 5. Where code and documents disagree

`pairing_crossed` is a run of its own: `put_pairing_inbox` is said to retire the local request when
the other side's arrives (`runtime_storage.rs:811`), but outbox rows are stored without the columns it
matches on. Both requests stay actionable, each side applies the other's Welcome over its own group, and the
two conversations differ for good.

The models contain the following deviations as the code has them, and the properties are stated so that
they say what still holds.

Messages and receipts:

1. A delivery receipt moves the message to DELIVERED and leaves operation and lease to an
   acknowledgement that may never come (`application_envelope.rs:161`; `architecture.md:219`).
2. Payloads without a replay record are decrypted twice after a crash before their completion; the
   failure quarantines a healthy contact (`application_envelope.rs:209`; `architecture.md:233`).
3. One receipt without conversation aborts the flush for all contacts (`receipts.rs:33`;
   `00-behavior-freeze.txt:333`). A retried receipt stays due; focusing a conversation again sends its
   receipt again; a receipt of the old group is sent after pairing again.
4. Ciphertext and snapshot of a receipt are two statements without a transaction, and a crash between
   them uses a ratchet position twice (`sqlite/read_receipts.rs:104`; `architecture.md:233`).
5. A storage error in a timer handler stops the engine (`input_handlers.rs:155`). After a
   session has failed, a later ciphertext can be sent before an earlier one (`torchat-peer`
   `peer/mod.rs:20`). The retry kind `MessageAckDeadline` is never due.

Relay and pairing:

6. Slots that expire are never given back to the owner's slot count (relay `main.rs:255`;
   `00-behavior-freeze.txt:83`).
7. A restart of the owner loses the tokens of its open bridges. A stop between `accept_invite` and
   the acceptance leaves a Pending request beside the contact; one after the Welcome's transaction
   leaves the joiner's request Pending until it expires. A request waiting for its answer consumes
   unrelated frames; the owner ignores `PairingCancelled`; an accepted request never
   expires in the inbox; a pending Welcome is not removed by the `WelcomeApplied` of the rendezvous
   actor.

Commands:

8. Direct handlers may be applied twice. A failed anchor after a commit answers with an error and loses
   the announcement. The operation of a cancellation that was not cancelled never ends.

Removal:

9. The notice of a removal can never be dispatched, because its group is deleted with the
   relationship; its row stays due (`architecture.md:222`). Acknowledgements of removals are
   re-sent until they are dead letters even when they were answered.
10. A local removal whose epoch is below a remote tombstone completes and deletes nothing. Unblocking a
    contact under a tombstone and sending leaves the ratchet unsaved. A FAILED message that is retried after
    pairing again carries the old group's ciphertext. A removal command repeated after its replay
    record was pruned clears the memory of the new pairing. Deferred envelopes, capabilities and the listener's
    authorization survive a removal.

Endpoints:

11. The marker raises the sequence by one, so that the next address update is skipped and yet
    acknowledged (`torchat-peer` `peer/inbound.rs:133`, against its comment). A second update is accepted without marker
    and cannot be dialled.
12. After `OnionServiceLost` the sequence restarts at 1; an update of an equal sequence is ignored by `INSERT
    OR IGNORE`; a crash between storing and enqueueing loses the update (`platform_facts.rs:179`). The Pong
    acknowledges before the engine has stored. The ephemeral slot is overwritten by an acknowledgement.

## 6. Not modelled

* Encodings, cryptography (but for the facts about MLS ratchets above), schema
  migrations, the FFI, the desktop and mobile hosts and the user interface: I/O, memory
  safety and presentation, with no state machine of their own to check.
* Session leases (presence), the limit of inbound connections, and the WebSocket and SOCKS layers
  below the rendezvous frames.
* The table of the contact-probe coordinator: it decides only when a probe is sent, and every such
  choice is allowed in `PeerEndpoints`.
* Pruning of replay records, the hash beside the anchored version, and handlers of commands that only
  read.
* Code that cannot be reached: the branch of `command_retry_message` that encrypts again, the delivery outbox of
  capabilities, which is never written, and the acknowledgement paths of removals without a caller.
* Storage errors inside a handler, except where the code has a path for them.

The components list in `PROJECT.json` says for every part whether it is modelled, partly
modelled or left out, and why.
