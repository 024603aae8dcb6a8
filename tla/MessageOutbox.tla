---------------------------- MODULE MessageOutbox ----------------------------
(***************************************************************************)
(* The sending engine's durable ledger of outgoing messages.               *)
(*                                                                         *)
(* For every message SQLite keeps three things that have to agree: the row *)
(* of `messages` (its state), the row of `outbound_deliveries` (the lease  *)
(* of a delivery attempt) and the durable operation of the delivery.  They *)
(* are written by commands, by the retry scheduler, by acknowledgements    *)
(* and failures that the peer transport reports at any later time, by      *)
(* receipts of the peer, by platform facts and by startup recovery.        *)
(*                                                                         *)
(* The engine is a single actor, so a handler is one action; a handler     *)
(* that commits a transaction and then performs effects puts the messages  *)
(* to send into `work`, and no other handler runs until `work` is empty,   *)
(* but the process may be killed in between (Restart).  Every ledger       *)
(* change is a function of one entry: a transaction that fails returns     *)
(* the entry unchanged.                                                    *)
(*                                                                         *)
(* The transport is the environment here: it may report any                *)
(* acknowledgement or failure of any message it was ever handed, at any    *)
(* time and any number of times.  Deadlines are abstracted to choices: a pending    *)
(* message may be due at any moment, and a lease may have expired.         *)
(***************************************************************************)
EXTENDS Naturals, FiniteSets, MessageRules

CONSTANTS
    Messages,     \* identities of outgoing messages to one verified contact
    MaxAttempts   \* RetryPolicy::DELIVERY.max_attempts

ASSUME MaxAttemptsAssumption == MaxAttempts \in Nat \ {0}

VARIABLES
    ledger,   \* the durable entry of every message
    work,     \* messages whose send effect the running handler has still to dispatch
    online,   \* network_online and a SOCKS endpoint is known
    handed    \* messages the peer transport was ever handed

vars == <<ledger, work, online, handed>>

ActiveOp == {"RUNNING", "WAITING_FOR_RETRY"}
TerminalOp == {"COMPLETED", "CANCELLED", "FAILED_PERMANENT"}
OpState == {"none"} \cup ActiveOp \cup TerminalOp

\* "unsent": the message id does not exist yet; "deleted": its row was deleted.
\* `op` is the latest operation begun by a command (each has a fresh id),
\* `flushOp` the one whose id "message-delivery:<message>" the scheduler uses.
Entry == [state    : MessageState \cup {"unsent", "deleted"},
          row      : {"none", "QUEUED", "IN_FLIGHT"},
          attempts : 0..MaxAttempts,
          op       : OpState,
          flushOp  : OpState]

Init ==
    /\ ledger = [m \in Messages |->
                    [state |-> "unsent", row |-> "none", attempts |-> 0,
                     op |-> "none", flushOp |-> "none"]]
    /\ work = {}
    /\ online = TRUE
    /\ handed = {}

Pending == {m \in Messages : ledger[m].state \in PendingState}

-----------------------------------------------------------------------------
(* Durable operations (features/operations/mod.rs)                         *)

HasActive(e) == e.op \in ActiveOp \/ e.flushOp \in ActiveOp

\* active_message_delivery finds the operation; the caller stores it in state s.
UpdateActive(e, s) ==
    CASE e.op \in ActiveOp      -> [e EXCEPT !.op = s]
      [] e.flushOp \in ActiveOp -> [e EXCEPT !.flushOp = s]
      [] OTHER                  -> e

\* begin_message_delivery with the fresh id of a command.
BeginForCommand(e) ==
    IF HasActive(e) THEN UpdateActive(e, "RUNNING") ELSE [e EXCEPT !.op = "RUNNING"]

\* begin_message_delivery with the scheduler's id: an operation already stored
\* under that id has precedence, and a cancelled or failed one is a Conflict.
BeginConflicts(e) == e.flushOp \in {"CANCELLED", "FAILED_PERMANENT"}

BeginForFlush(e) ==
    CASE e.flushOp \in ActiveOp                   -> [e EXCEPT !.flushOp = "RUNNING"]
      [] e.flushOp = "none" /\ HasActive(e)       -> UpdateActive(e, "RUNNING")
      [] e.flushOp = "none" /\ ~HasActive(e)      -> [e EXCEPT !.flushOp = "RUNNING"]
      [] OTHER                                    -> e

-----------------------------------------------------------------------------
(* Transactions on one entry                                               *)

prepare_existing(e) == [e EXCEPT !.state = message_state_on_send_prepare(@)]

\* A new message is stored as QUEUED and prepared at once.
queue(e) == [e EXCEPT !.state = message_state_on_send_prepare("QUEUED")]

retry(e) == prepare_existing([e EXCEPT !.state = "QUEUED"])

enqueue_outbound_delivery(e) ==
    IF e.row = "none" THEN [e EXCEPT !.row = "QUEUED", !.attempts = 0] ELSE e

\* The attempt counter saturates: only reaching the maximum is observable.
claim_outbound_delivery(e) ==
    [e EXCEPT !.row = "IN_FLIGHT",
              !.attempts = IF @ < MaxAttempts THEN @ + 1 ELSE @]

complete_outbound_delivery(e) == [e EXCEPT !.row = "none", !.attempts = 0]

\* The three ways into a delivery: a new message, a manual retry, a flush.
feature_queue_message_delivery(e) ==
    enqueue_outbound_delivery(BeginForCommand(queue(e)))

feature_retry_message(e) ==
    enqueue_outbound_delivery(BeginForCommand(retry(e)))

feature_prepare_pending_message_deliveries(e) ==
    enqueue_outbound_delivery(BeginForFlush(prepare_existing(e)))

\* The lease and the operation follow the outcome ...
SettleDelivery(e, outcome) ==
    CASE outcome \in RetryOutcome   -> UpdateActive([e EXCEPT !.row = "QUEUED"], "WAITING_FOR_RETRY")
      [] outcome \in FailureOutcome -> UpdateActive(complete_outbound_delivery(e), "FAILED_PERMANENT")
      [] OTHER                      -> UpdateActive(complete_outbound_delivery(e), "COMPLETED")

\* The message row after an outcome that message_rules.rs moves to `next`.
apply_outcome(e, next) == [e EXCEPT !.state = next]

\* Seeded fault: a retry without a lease is not an error.
Faulty_RequeueMissingRow(e, outcome) ==
    LET next == message_state_after_transport_outcome(e.state, outcome) IN
    IF next = NoState THEN e ELSE [SettleDelivery(e, outcome) EXCEPT !.state = next]

\* ... in the transaction that moves the message; a rule that refuses the
\* outcome, or a retry without a lease to requeue, rolls everything back.
feature_apply_message_delivery_outcome(e, outcome) ==
    LET next == message_state_after_transport_outcome(e.state, outcome) IN
    IF next = NoState \/ (outcome \in RetryOutcome /\ e.row = "none")
    THEN e
    ELSE apply_outcome(SettleDelivery(e, outcome), next)

Exhausted(e) == e.attempts = MaxAttempts

\* `terminal` also stands for an error classified as permanent or as a
\* protocol error, and for a delivery older than the maximal age.
handle_failed_peer_message_delivery(e, terminal) ==
    feature_apply_message_delivery_outcome(
        e, IF terminal THEN "PermanentFailure" ELSE "PeerUnavailable")

\* The peer's end-to-end receipt only moves the message.
apply_message_transport_outcome(e, outcome) ==
    LET next == message_state_after_transport_outcome(e.state, outcome) IN
    IF next = NoState THEN e ELSE [e EXCEPT !.state = next]

\* Seeded fault: a read receipt is believed whatever became of the message.
Faulty_apply_message_read(e) == [e EXCEPT !.state = "READ"]

apply_message_read(e) ==
    IF e.state \in {"SENT", "DELIVERED", "READ"} THEN [e EXCEPT !.state = "READ"] ELSE e

requeue_after_disconnect(e) ==
    [e EXCEPT !.state = IF @ = "SENDING" THEN "QUEUED" ELSE @]

requeue_peer_deliveries(e) ==
    LET requeued == [e EXCEPT !.row = IF @ = "IN_FLIGHT" THEN "QUEUED" ELSE @] IN
    IF requeued.row = "QUEUED" THEN requeue_after_disconnect(requeued) ELSE requeued

expedite_peer_deliveries(e) ==
    requeue_after_disconnect([e EXCEPT !.row = IF @ = "none" THEN @ ELSE "QUEUED"])

\* Seeded fault: deletion leaves the operation running.
Faulty_feature_delete_message_delivery(e) ==
    [complete_outbound_delivery(e) EXCEPT !.state = "deleted"]

feature_delete_message_delivery(e) ==
    [UpdateActive(complete_outbound_delivery(e), "CANCELLED") EXCEPT !.state = "deleted"]

-----------------------------------------------------------------------------
(* Commands of the user and flushes                                        *)

Idle == work = {}
Exists(m) == ledger[m].state \notin {"unsent", "deleted"}

\* Of the prepared messages D, those whose attempt can be claimed: the update
\* refuses a message whose next_attempt_at is still ahead.  That error aborts
\* deliver_send_effect, and with it the rest of a flush, so W is any part of D.
claim_outgoing_attempt(D, W) == W \subseteq D

\* One transaction for all messages of D; the effects to dispatch are W.
Prepared(D, W, prepare(_)) ==
    /\ ledger' = [m \in Messages |-> IF m \in D THEN prepare(ledger[m]) ELSE ledger[m]]
    /\ work' = W

send_message_command(m) ==
    /\ Idle
    /\ ledger[m].state = "unsent"
    /\ Prepared({m}, {m}, feature_queue_message_delivery)
    /\ UNCHANGED <<online, handed>>

\* Seeded fault: a manual retry does not recreate the lease row.
Faulty_command_retry_message(m, W) ==
    /\ Idle
    /\ ledger[m].state \in {"FAILED", "QUEUED"}
    /\ claim_outgoing_attempt({m}, W)
    /\ LET retried(e) == BeginForCommand(retry(e)) IN Prepared({m}, W, retried)
    /\ UNCHANGED <<online, handed>>

command_retry_message(m, W) ==
    /\ Idle
    /\ ledger[m].state \in {"FAILED", "QUEUED"}
    /\ claim_outgoing_attempt({m}, W)
    /\ Prepared({m}, W, feature_retry_message)
    /\ UNCHANGED <<online, handed>>

\* The retry scheduler: one conflicting operation aborts the whole batch.
flush_pending_message_deliveries(D) ==
    /\ Idle
    /\ online
    /\ D \subseteq Pending /\ D # {}
    /\ \A m \in D : ~BeginConflicts(ledger[m])
    /\ Prepared(D, D, feature_prepare_pending_message_deliveries)
    /\ UNCHANGED <<online, handed>>

\* The flush of `connect` neither begins an operation nor creates a lease.
flush_pending_send_effects(D, W) ==
    /\ Idle
    /\ D \subseteq Pending /\ D # {}
    /\ claim_outgoing_attempt(D, W)
    /\ Prepared(D, W, prepare_existing)
    /\ UNCHANGED <<online, handed>>

\* Expedites every delivery of the contact, which makes all of them due.
command_retry_peer_connection(W) ==
    /\ Idle
    /\ Pending # {}
    /\ claim_outgoing_attempt(Pending, W)
    /\ ledger' = [m \in Messages |->
                    LET expedited == expedite_peer_deliveries(ledger[m]) IN
                    IF m \in Pending THEN prepare_existing(expedited) ELSE expedited]
    /\ work' = W
    /\ UNCHANGED <<online, handed>>

command_delete_message_local(m) ==
    /\ Idle
    /\ Exists(m)
    /\ ledger' = [ledger EXCEPT ![m] = feature_delete_message_delivery(@)]
    /\ UNCHANGED <<work, online, handed>>

\* Sent messages whose acknowledgement is overdue.
expired_ack_deadline_message_ids == {m \in Messages : ledger[m].state = "SENT"}

\* RetryKind::MessageAckDeadline.  Moving a message to SENT clears ack_deadline,
\* so no row should ever be found; any sent message may be found here.  The
\* first error ends the loop: D is any part of them.
retry_expired_ack_deadlines(D) ==
    /\ Idle
    /\ online
    /\ D \subseteq expired_ack_deadline_message_ids /\ D # {}
    /\ ledger' = [m \in Messages |->
                    IF m \in D THEN feature_apply_message_delivery_outcome(ledger[m], "RetryableFailure")
                    ELSE ledger[m]]
    /\ UNCHANGED <<work, online, handed>>

-----------------------------------------------------------------------------
(* Dispatching one prepared message (dispatch_outbound_message)            *)

Dispatch(m, entry) ==
    /\ m \in work
    /\ ledger' = [ledger EXCEPT ![m] = entry]
    /\ work' = work \ {m}
    /\ UNCHANGED online

\* Handed to the peer transport: the lease was free, or has expired.
DispatchHanded(m) ==
    /\ online
    /\ ledger[m].row # "none"
    /\ Dispatch(m, claim_outbound_delivery(ledger[m]))
    /\ handed' = handed \cup {m}

\* The transport still owns the delivery: an earlier lease is running.
DispatchLeased(m) ==
    /\ online
    /\ ledger[m].row = "IN_FLIGHT"
    /\ Dispatch(m, ledger[m])
    /\ UNCHANGED handed

\* Refused before the lease is claimed (offline, no endpoint, blocked peer),
\* or after it (the transport's queue is full).
DispatchRefused(m, claimed, terminal) ==
    LET e == IF claimed THEN claim_outbound_delivery(ledger[m]) ELSE ledger[m] IN
    /\ claimed => online /\ ledger[m].row # "none"
    /\ Exhausted(e) => terminal
    /\ Dispatch(m, handle_failed_peer_message_delivery(e, terminal))
    /\ UNCHANGED handed

-----------------------------------------------------------------------------
(* Events of the peer transport and receipts of the peer                   *)

Update(m, entry) ==
    /\ Idle
    /\ Exists(m)
    /\ m \in handed
    /\ ledger' = [ledger EXCEPT ![m] = entry]
    /\ UNCHANGED <<work, online, handed>>

AckReceived(m, outcome) ==
    Update(m, feature_apply_message_delivery_outcome(ledger[m], outcome))

DeliveryFailed(m, terminal) ==
    /\ Exhausted(ledger[m]) => terminal
    /\ Update(m, handle_failed_peer_message_delivery(ledger[m], terminal))

ReceiveDeliveryReceipt(m) ==
    Update(m, apply_message_transport_outcome(ledger[m], "Delivered"))

ReceiveReadReceipt(m) ==
    Update(m, apply_message_read(ledger[m]))

-----------------------------------------------------------------------------
(* Platform facts and recovery                                             *)

UpdateAll(entry(_)) == ledger' = [m \in Messages |-> entry(ledger[m])]

RequeueAll(e) == requeue_peer_deliveries(requeue_after_disconnect(e))

\* network lost or restored, Tor failed, SOCKS endpoint lost or changed.
ConnectivityChanged(up) ==
    /\ Idle
    /\ online' = up
    /\ UpdateAll(RequeueAll)
    /\ UNCHANGED <<work, handed>>

OnionServiceLost ==
    /\ Idle
    /\ UpdateAll(requeue_peer_deliveries)
    /\ UNCHANGED <<work, online, handed>>

\* A new endpoint capability of the contact makes its deliveries due.
CapabilityExchanged ==
    /\ Idle
    /\ UpdateAll(expedite_peer_deliveries)
    /\ UNCHANGED <<work, online, handed>>

\* The process is killed, possibly between a commit and its effects; startup
\* requeues what was in flight.
Restart(up) ==
    /\ UpdateAll(RequeueAll)
    /\ work' = {}
    /\ online' = up
    /\ UNCHANGED handed

AckOutcome == {"PeerPersisted", "PeerDelivered", "PeerRejected"}

Next ==
    \/ \E m \in Messages :
        \/ send_message_command(m)
        \/ \E W \in SUBSET {m} : command_retry_message(m, W)
        \/ command_delete_message_local(m)
        \/ DispatchHanded(m)
        \/ DispatchLeased(m)
        \/ \E claimed, terminal \in BOOLEAN : DispatchRefused(m, claimed, terminal)
        \/ \E outcome \in AckOutcome : AckReceived(m, outcome)
        \/ \E terminal \in BOOLEAN : DeliveryFailed(m, terminal)
        \/ ReceiveDeliveryReceipt(m)
        \/ ReceiveReadReceipt(m)
    \/ \E D \in SUBSET Messages : flush_pending_message_deliveries(D)
    \/ \E D \in SUBSET Messages : \E W \in SUBSET D : flush_pending_send_effects(D, W)
    \/ \E W \in SUBSET Messages : command_retry_peer_connection(W)
    \/ \E D \in SUBSET Messages : retry_expired_ack_deadlines(D)
    \/ \E up \in BOOLEAN : ConnectivityChanged(up)
    \/ OnionServiceLost
    \/ CapabilityExchanged
    \/ \E up \in BOOLEAN : Restart(up)

Spec == Init /\ [][Next]_vars

-----------------------------------------------------------------------------
(* Properties                                                              *)

\* Every entry is well formed; in particular no handler stores the state that
\* message_rules.rs refuses.
TypeOK ==
    /\ ledger \in [Messages -> Entry]
    /\ work \subseteq Messages
    /\ online \in BOOLEAN
    /\ handed \subseteq Messages

\* A message that is still to be sent has a lease row to claim and exactly one
\* unfinished durable operation, whatever mix of failures, late
\* acknowledgements, requeues and restarts led there: without the row
\* requeue_outbound_delivery fails and the message is stuck.  Nor does the
\* scheduler meet a terminal operation under its own identifier: it would abort
\* the batch, and with it every other pending message.
PendingDeliveryIsOwned ==
    \A m \in Messages : ledger[m].state \in PendingState =>
        /\ ledger[m].row # "none"
        /\ (ledger[m].op \in ActiveOp) # (ledger[m].flushOp \in ActiveOp)
        /\ ~BeginConflicts(ledger[m])

\* A message the peer has persisted is never sent again: no late failure, lost
\* connection, requeue or restart takes it back to QUEUED or SENDING, although
\* message_rules.rs itself would move SENT to QUEUED.
PersistedNeverResent ==
    [][\A m \in Messages : ledger[m].state \in {"SENT", "DELIVERED", "READ"} =>
            ledger'[m].state \notin PendingState]_vars

\* A confirmed delivery stays confirmed: after DELIVERED or READ the message
\* can only become READ or be deleted by the user, also when the lease of the
\* attempt is still running.
ConfirmationIsFinal ==
    [][\A m \in Messages :
        /\ ledger[m].state = "DELIVERED" => ledger'[m].state \in {"DELIVERED", "READ", "deleted"}
        /\ ledger[m].state = "READ" => ledger'[m].state \in {"READ", "deleted"}]_vars

\* The life of a message as its sender sees it.
Abstract(s) ==
    CASE s \in PendingState -> "pending"
      [] s = "SENT"         -> "sent"
      [] s = "DELIVERED"    -> "delivered"
      [] s = "READ"         -> "read"
      [] s = "FAILED"       -> "failed"
      [] OTHER              -> s

Seen == [m \in Messages |-> Abstract(ledger[m].state)]

Lifecycle == INSTANCE MessageLifecycle WITH status <- Seen

\* The outbox implements the lifecycle: however leases, operations, retries and
\* restarts interleave, the sender sees every message move by the legal steps
\* only, and never two messages by one event (message_rules.rs is the only judge
\* of a transition, and each handler settles one message).
ImplementsLifecycle == Lifecycle!Spec

\* What the transactions maintain about one entry.  A settled message has released its lease
\* unless a receipt overtook the acknowledgement of the attempt.
EntryInv(e) ==
    /\ e.flushOp = "none"
    /\ e.state \in PendingState => e.row # "none" /\ e.op \in ActiveOp
    /\ e.state \in {"unsent", "SENT", "FAILED", "deleted"} =>
            e.row = "none" /\ e.op \notin ActiveOp
    /\ (e.row = "none") = (e.op \notin ActiveOp)

\* Every entry is consistent, and what a handler has still to dispatch is a
\* prepared message.
OutboxInv ==
    /\ \A m \in Messages : EntryInv(ledger[m])
    /\ \A m \in work : ledger[m].state = "SENDING"

\* The inductive invariant of the outbox: message, lease and operation of every
\* entry agree after each transaction of the messaging feature.
Inv == TypeOK /\ OutboxInv
=============================================================================
