----------------------------- MODULE OutgoingProofs -----------------------------
(***************************************************************************)
(* Theorems about what an engine sends of its own accord: the messages of  *)
(* its outbox (MessageOutbox) and its read receipts (ReadReceipts).        *)
(*                                                                         *)
(* MessageOutbox, for any set of messages and any retry budget.  Every     *)
(* ledger change is a function of one entry, so the heart of the proof is  *)
(* one lemma per transaction: it keeps a good entry good and never takes a *)
(* confirmed message back.  The refinement of MessageLifecycle reads the   *)
(* same lemmas as moves of the abstract message.                           *)
(*                                                                         *)
(* ReadReceipts, for any contacts and any bounds. The sending ratchet in   *)
(* memory is one step ahead of the stored snapshot while                   *)
(* persist_read_receipt_encryption is between its two statements, and      *)
(* equal to it at any other time; outside torn groups it is past every     *)
(* ciphertext of the current group in the outbox, and no ciphertext has a  *)
(* group that is still to be made.                                         *)
(***************************************************************************)
EXTENDS MessageOutbox, ReadReceipts, TLAPS

-----------------------------------------------------------------------------
AnyState == MessageState \cup {"unsent", "deleted"}
RowState == {"none", "QUEUED", "IN_FLIGHT"}

Good(e) == e \in Entry /\ EntryInv(e)

\* What a step may do to one message: the per-message content of
\* PersistedNeverResent and ConfirmationIsFinal.
Forward(e, f) ==
    /\ e.state \in {"SENT", "DELIVERED", "READ"} => f.state \notin PendingState
    /\ e.state = "DELIVERED" => f.state \in {"DELIVERED", "READ", "deleted"}
    /\ e.state = "READ" => f.state \in {"READ", "deleted"}

\* A transaction from e to f that keeps the invariant and moves forward.
Sound(e, f) == Good(f) /\ Forward(e, f)

\* e is an entry with these fields and no operation of the scheduler's own.
Is(e, s, r, o) ==
    e \in Entry /\ e.state = s /\ e.row = r /\ e.op = o /\ e.flushOp = "none"

-----------------------------------------------------------------------------
(* Updates of one field                                                    *)

\* Writing the state of an entry leaves its other fields alone.
LEMMA SetState ==
    ASSUME NEW e, NEW s, NEW r, NEW o, Is(e, s, r, o), NEW t \in AnyState
    PROVE  Is([e EXCEPT !.state = t], t, r, o)
<1>1. [e EXCEPT !.state = t] \in Entry
  BY Zenon DEF Entry, Is, AnyState
<1> QED BY <1>1, Zenon DEF Entry, Is

\* Writing the lease state leaves the other fields alone.
LEMMA SetRow ==
    ASSUME NEW e, NEW s, NEW r, NEW o, Is(e, s, r, o), NEW t \in RowState
    PROVE  Is([e EXCEPT !.row = t], s, t, o)
<1>1. [e EXCEPT !.row = t] \in Entry
  BY Zenon DEF Entry, Is, RowState
<1> QED BY <1>1, Zenon DEF Entry, Is

\* So does writing the lease together with its attempt counter.
LEMMA SetLease ==
    ASSUME NEW e, NEW s, NEW r, NEW o, Is(e, s, r, o),
           NEW t \in RowState, NEW a \in 0..MaxAttempts
    PROVE  Is([e EXCEPT !.row = t, !.attempts = a], s, t, o)
<1>1. [e EXCEPT !.row = t, !.attempts = a] \in Entry
  BY Zenon DEF Entry, Is, RowState
<1> QED BY <1>1, Zenon DEF Entry, Is

\* And writing the operation begun by a command.
LEMMA SetOp ==
    ASSUME NEW e, NEW s, NEW r, NEW o, Is(e, s, r, o), NEW t \in OpState
    PROVE  Is([e EXCEPT !.op = t], s, r, t)
<1>1. [e EXCEPT !.op = t] \in Entry
  BY Zenon DEF Entry, Is
<1> QED BY <1>1, Zenon DEF Entry, Is

\* active_message_delivery finds the command's operation, if it is unfinished.
LEMMA UpdateActiveIs ==
    ASSUME NEW e, NEW s, NEW r, NEW o, Is(e, s, r, o), NEW t \in OpState
    PROVE  Is(UpdateActive(e, t), s, r, IF o \in ActiveOp THEN t ELSE o)
<1>1. e.op = o /\ e.flushOp \notin ActiveOp
  BY Zenon DEF Is, ActiveOp
<1>2. UpdateActive(e, t) = IF o \in ActiveOp THEN [e EXCEPT !.op = t] ELSE e
  BY <1>1, Zenon DEF UpdateActive
<1> QED BY <1>2, SetOp

\* A command always ends up with a running operation.
LEMMA BeginForCommandIs ==
    ASSUME NEW e, NEW s, NEW r, NEW o, Is(e, s, r, o)
    PROVE  Is(BeginForCommand(e), s, r, "RUNNING")
<1>1. "RUNNING" \in OpState
  BY Zenon DEF OpState, ActiveOp
<1>2. e.op = o /\ e.flushOp \notin ActiveOp
  BY Zenon DEF Is, ActiveOp
<1>3. CASE o \in ActiveOp
  <2>1. BeginForCommand(e) = UpdateActive(e, "RUNNING")
    BY <1>2, <1>3, Zenon DEF BeginForCommand, HasActive
  <2> QED BY <1>1, <1>3, <2>1, UpdateActiveIs, Zenon
<1>4. CASE o \notin ActiveOp
  <2>1. BeginForCommand(e) = [e EXCEPT !.op = "RUNNING"]
    BY <1>2, <1>4, Zenon DEF BeginForCommand, HasActive
  <2> QED BY <1>1, <2>1, SetOp
<1> QED BY <1>3, <1>4, Zenon

\* The scheduler adopts the unfinished operation of a message.
LEMMA BeginForFlushIs ==
    ASSUME NEW e, NEW s, NEW r, NEW o, Is(e, s, r, o), o \in ActiveOp
    PROVE  Is(BeginForFlush(e), s, r, "RUNNING")
<1>1. "RUNNING" \in OpState
  BY Zenon DEF OpState, ActiveOp
<1>2. e.op = o /\ e.flushOp = "none" /\ "none" \notin ActiveOp
  BY Zenon DEF Is, ActiveOp
<1>3. BeginForFlush(e) = UpdateActive(e, "RUNNING")
  BY <1>2, Zenon DEF BeginForFlush, HasActive
<1> QED BY <1>1, <1>3, UpdateActiveIs, Zenon

\* A lease row is created where there is none.
LEMMA EnqueueIs ==
    ASSUME NEW e, NEW s, NEW r, NEW o, Is(e, s, r, o)
    PROVE  Is(enqueue_outbound_delivery(e), s, IF r = "none" THEN "QUEUED" ELSE r, o)
<1>1. "QUEUED" \in RowState /\ 0 \in 0..MaxAttempts
  BY MaxAttemptsAssumption DEF RowState
<1>2. e.row = r
  BY Zenon DEF Is
<1>3. CASE r = "none"
  <2>1. enqueue_outbound_delivery(e) = [e EXCEPT !.row = "QUEUED", !.attempts = 0]
    BY <1>2, <1>3, Zenon DEF enqueue_outbound_delivery
  <2>2. Is([e EXCEPT !.row = "QUEUED", !.attempts = 0], s, "QUEUED", o)
    BY <1>1, SetLease, Zenon
  <2> QED BY <1>3, <2>1, <2>2, Zenon
<1>4. CASE r # "none"
  BY <1>2, <1>4, Zenon DEF enqueue_outbound_delivery
<1> QED BY <1>3, <1>4, Zenon

\* Claiming takes the lease and counts one attempt, up to the budget.
LEMMA ClaimIs ==
    ASSUME NEW e, NEW s, NEW r, NEW o, Is(e, s, r, o)
    PROVE  Is(claim_outbound_delivery(e), s, "IN_FLIGHT", o)
<1> DEFINE a == IF e.attempts < MaxAttempts THEN e.attempts + 1 ELSE e.attempts
<1>1. e.attempts \in 0..MaxAttempts
  BY Zenon DEF Is, Entry
<1>2. a \in 0..MaxAttempts
  BY <1>1, MaxAttemptsAssumption
<1>3. claim_outbound_delivery(e) = [e EXCEPT !.row = "IN_FLIGHT", !.attempts = a]
  BY Zenon DEF claim_outbound_delivery, Is, Entry
<1>4. "IN_FLIGHT" \in RowState
  BY Zenon DEF RowState
<1> HIDE DEF a
<1>5. Is([e EXCEPT !.row = "IN_FLIGHT", !.attempts = a], s, "IN_FLIGHT", o)
  BY <1>2, <1>4, SetLease, ZenonT(30)
<1> QED BY <1>3, <1>5, Zenon

\* Completing a delivery deletes its lease row.
LEMMA CompleteIs ==
    ASSUME NEW e, NEW s, NEW r, NEW o, Is(e, s, r, o)
    PROVE  Is(complete_outbound_delivery(e), s, "none", o)
<1>1. "none" \in RowState /\ 0 \in 0..MaxAttempts
  BY MaxAttemptsAssumption DEF RowState
<1> QED BY <1>1, SetLease, Zenon DEF complete_outbound_delivery

-----------------------------------------------------------------------------
(* Transactions                                                            *)

\* The fields of a good entry.
LEMMA GoodIs ==
    ASSUME NEW e, Good(e)
    PROVE  /\ Is(e, e.state, e.row, e.op)
           /\ e.state \in AnyState /\ e.row \in RowState /\ e.op \in OpState
BY Zenon DEF Good, Is, EntryInv, Entry, AnyState, RowState

\* EntryInv speaks of the fields only.
LEMMA IsGood ==
    ASSUME NEW e, NEW s, NEW r, NEW o, Is(e, s, r, o),
           s \in PendingState => r # "none",
           s \in {"unsent", "SENT", "FAILED", "deleted"} => r = "none",
           (r = "none") = (o \notin ActiveOp)
    PROVE  Good(e)
BY Zenon DEF Good, Is, EntryInv

\* A good entry may be left as it is.
LEMMA StutterSound ==
    ASSUME NEW e, Good(e)
    PROVE  Sound(e, e)
BY Zenon DEF Sound, Forward, PendingState

\* What the rule returns for an outcome that is not refused.
LEMMA OutcomeState ==
    ASSUME NEW s \in AnyState, NEW outcome \in MessageTransportOutcome
    PROVE  LET t == message_state_after_transport_outcome(s, outcome) IN
           /\ t \in MessageState \cup {NoState}
           /\ outcome \in RetryOutcome /\ t # NoState =>
                t = "QUEUED" /\ s \in {"QUEUED", "SENDING", "SENT"}
           /\ outcome \in FailureOutcome /\ t # NoState =>
                t = "FAILED" /\ s \in {"QUEUED", "SENDING", "SENT", "FAILED"}
           /\ outcome \in SuccessOutcome /\ t # NoState =>
                /\ t \in {"SENT", "DELIVERED", "READ"}
                /\ s = "DELIVERED" => t = "DELIVERED"
                /\ s = "READ" => t = "READ"
                /\ outcome \in DeliveredOutcome => t \in {"DELIVERED", "READ"}
                /\ s \in {"SENDING", "SENT", "DELIVERED", "READ"}
BY ZenonT(30) DEF message_state_after_transport_outcome, AnyState, MessageState, NoState,
       MessageTransportOutcome, RetryOutcome, FailureOutcome, SuccessOutcome, DeliveredOutcome

\* The lease and the operation after an outcome.
LEMMA SettleIs ==
    ASSUME NEW e, Good(e), NEW outcome \in MessageTransportOutcome
    PROVE  Is(SettleDelivery(e, outcome), e.state,
              IF outcome \in RetryOutcome THEN "QUEUED" ELSE "none",
              IF e.op \in ActiveOp
              THEN CASE outcome \in RetryOutcome   -> "WAITING_FOR_RETRY"
                     [] outcome \in FailureOutcome -> "FAILED_PERMANENT"
                     [] OTHER                      -> "COMPLETED"
              ELSE e.op)
<1>1. Is(e, e.state, e.row, e.op)
  BY GoodIs, Zenon
<1>2. /\ "WAITING_FOR_RETRY" \in OpState /\ "FAILED_PERMANENT" \in OpState
      /\ "COMPLETED" \in OpState /\ "QUEUED" \in RowState
  BY Zenon DEF OpState, ActiveOp, TerminalOp, RowState
<1>3. Is(complete_outbound_delivery(e), e.state, "none", e.op)
  BY <1>1, CompleteIs, Zenon
<1>4. Is([e EXCEPT !.row = "QUEUED"], e.state, "QUEUED", e.op)
  BY <1>1, <1>2, SetRow, Zenon
<1>5. CASE outcome \in RetryOutcome
  <2>1. SettleDelivery(e, outcome) = UpdateActive([e EXCEPT !.row = "QUEUED"], "WAITING_FOR_RETRY")
    BY <1>5, Zenon DEF SettleDelivery, RetryOutcome, FailureOutcome
  <2>2. Is(UpdateActive([e EXCEPT !.row = "QUEUED"], "WAITING_FOR_RETRY"), e.state, "QUEUED",
           IF e.op \in ActiveOp THEN "WAITING_FOR_RETRY" ELSE e.op)
    BY <1>2, <1>4, UpdateActiveIs, Zenon
  <2> QED BY <1>5, <2>1, <2>2, Zenon DEF RetryOutcome, FailureOutcome
<1>6. CASE outcome \in FailureOutcome
  <2>1. SettleDelivery(e, outcome) = UpdateActive(complete_outbound_delivery(e), "FAILED_PERMANENT")
    BY <1>6, Zenon DEF SettleDelivery, RetryOutcome, FailureOutcome
  <2>2. Is(UpdateActive(complete_outbound_delivery(e), "FAILED_PERMANENT"), e.state, "none",
           IF e.op \in ActiveOp THEN "FAILED_PERMANENT" ELSE e.op)
    BY <1>2, <1>3, UpdateActiveIs, Zenon
  <2> QED BY <1>6, <2>1, <2>2, Zenon DEF RetryOutcome, FailureOutcome
<1>7. CASE outcome \notin RetryOutcome \cup FailureOutcome
  <2>1. SettleDelivery(e, outcome) = UpdateActive(complete_outbound_delivery(e), "COMPLETED")
    BY <1>7, Zenon DEF SettleDelivery
  <2>2. Is(UpdateActive(complete_outbound_delivery(e), "COMPLETED"), e.state, "none",
           IF e.op \in ActiveOp THEN "COMPLETED" ELSE e.op)
    BY <1>2, <1>3, UpdateActiveIs, Zenon
  <2> QED BY <1>7, <2>1, <2>2, Zenon
<1> QED BY <1>5, <1>6, <1>7, Zenon

\* The outcome of a delivery attempt, reported at any time.  A retry of a SENT
\* message finds no lease to requeue, which is what keeps it from being resent.
LEMMA OutcomeSound ==
    ASSUME NEW e, Good(e), NEW outcome \in MessageTransportOutcome
    PROVE  Sound(e, feature_apply_message_delivery_outcome(e, outcome))
<1> DEFINE t == message_state_after_transport_outcome(e.state, outcome)
           f == SettleDelivery(e, outcome)
           r == IF outcome \in RetryOutcome THEN "QUEUED" ELSE "none"
           o == IF e.op \in ActiveOp
                THEN CASE outcome \in RetryOutcome   -> "WAITING_FOR_RETRY"
                       [] outcome \in FailureOutcome -> "FAILED_PERMANENT"
                       [] OTHER                      -> "COMPLETED"
                ELSE e.op
<1>1. CASE t = NoState \/ (outcome \in RetryOutcome /\ e.row = "none")
  BY <1>1, StutterSound, Zenon DEF feature_apply_message_delivery_outcome
<1>2. CASE t # NoState /\ ~(outcome \in RetryOutcome /\ e.row = "none")
  <2>1. feature_apply_message_delivery_outcome(e, outcome) = [f EXCEPT !.state = t]
    BY <1>2, Zenon DEF feature_apply_message_delivery_outcome, apply_outcome
  <2>2. Is(f, e.state, r, o)
    BY SettleIs, Zenon
  <2>3. e.state \in AnyState
    BY GoodIs, Zenon
  <2>4. t \in AnyState
    BY <1>2, <2>3, OutcomeState, Zenon DEF AnyState
  <2>5. Is([f EXCEPT !.state = t], t, r, o)
    <3> HIDE DEF f, t, r, o
    <3> QED BY <2>2, <2>4, SetState, Zenon
  <2>6. EntryInv(e)
    BY Zenon DEF Good
  <2>7. CASE outcome \in RetryOutcome
    <3>1. t = "QUEUED" /\ e.state \in {"QUEUED", "SENDING"} /\ e.op \in ActiveOp
      BY <1>2, <2>3, <2>6, <2>7, OutcomeState, Zenon DEF EntryInv
    <3>2. Is([f EXCEPT !.state = t], "QUEUED", "QUEUED", "WAITING_FOR_RETRY")
      BY <2>5, <2>7, <3>1, Zenon DEF RetryOutcome, FailureOutcome
    <3> HIDE DEF f, t, r, o
    <3>3. Good([f EXCEPT !.state = t])
      BY <3>2, IsGood, Zenon DEF PendingState, ActiveOp
    <3> QED BY <2>1, <3>1, <3>2, <3>3, Zenon DEF Sound, Forward, Is
  <2>8. CASE outcome \in FailureOutcome
    <3>1. t = "FAILED" /\ e.state \in {"QUEUED", "SENDING", "SENT", "FAILED"}
      BY <1>2, <2>3, <2>8, OutcomeState, Zenon
    <3>2. r = "none" /\ o \notin ActiveOp
      BY <2>8, Zenon DEF RetryOutcome, FailureOutcome, ActiveOp
    <3> HIDE DEF f, t, r, o
    <3>3. Good([f EXCEPT !.state = t])
      BY <2>5, <3>1, <3>2, IsGood, Zenon DEF PendingState
    <3> QED BY <2>1, <2>5, <3>1, <3>3, Zenon DEF Sound, Forward, Is, PendingState
  <2>9. CASE outcome \in SuccessOutcome
    <3>1. /\ t \in {"SENT", "DELIVERED", "READ"}
          /\ e.state = "DELIVERED" => t = "DELIVERED"
          /\ e.state = "READ" => t = "READ"
      BY <1>2, <2>3, <2>9, OutcomeState, Zenon
    <3>2. r = "none" /\ o \notin ActiveOp
      BY <2>9, Zenon DEF RetryOutcome, FailureOutcome, SuccessOutcome, DeliveredOutcome, ActiveOp
    <3> HIDE DEF f, t, r, o
    <3>3. Good([f EXCEPT !.state = t])
      BY <2>5, <3>1, <3>2, IsGood, Zenon DEF PendingState
    <3> QED BY <2>1, <2>5, <3>1, <3>3, Zenon DEF Sound, Forward, Is, PendingState
  <2> QED BY <2>7, <2>8, <2>9, Zenon DEF MessageTransportOutcome
<1> QED BY <1>1, <1>2, Zenon

\* A failed attempt is retried or given up.
LEMMA FailedSound ==
    ASSUME NEW e, Good(e), NEW terminal \in BOOLEAN
    PROVE  Sound(e, handle_failed_peer_message_delivery(e, terminal))
<1>1. (IF terminal THEN "PermanentFailure" ELSE "PeerUnavailable") \in MessageTransportOutcome
  BY Zenon DEF MessageTransportOutcome, FailureOutcome, RetryOutcome
<1> QED BY <1>1, OutcomeSound, Zenon DEF handle_failed_peer_message_delivery

\* Claiming keeps a message with a lease row good.
LEMMA ClaimSound ==
    ASSUME NEW e, Good(e), e.row # "none"
    PROVE  Sound(e, claim_outbound_delivery(e)) /\ claim_outbound_delivery(e).state = e.state
<1>1. Is(claim_outbound_delivery(e), e.state, "IN_FLIGHT", e.op)
  BY GoodIs, ClaimIs, Zenon
<1>2. EntryInv(e)
  BY Zenon DEF Good
<1>3. Good(claim_outbound_delivery(e))
  BY <1>1, <1>2, IsGood DEF EntryInv
<1> QED BY <1>1, <1>3, Zenon DEF Sound, Forward, Is, PendingState

\* The end-to-end receipt confirms a message that left, whatever its lease.
LEMMA ReceiptSound ==
    ASSUME NEW e, Good(e)
    PROVE  Sound(e, apply_message_transport_outcome(e, "Delivered"))
<1> DEFINE t == message_state_after_transport_outcome(e.state, "Delivered")
<1>1. CASE t = NoState
  BY <1>1, StutterSound, Zenon DEF apply_message_transport_outcome
<1>2. CASE t # NoState
  <2>1. apply_message_transport_outcome(e, "Delivered") = [e EXCEPT !.state = t]
    BY <1>2, Zenon DEF apply_message_transport_outcome
  <2>2. "Delivered" \in DeliveredOutcome /\ "Delivered" \in SuccessOutcome
        /\ "Delivered" \in MessageTransportOutcome
    BY Zenon DEF DeliveredOutcome, SuccessOutcome, MessageTransportOutcome
  <2>3. /\ t \in {"DELIVERED", "READ"}
        /\ e.state = "DELIVERED" => t = "DELIVERED"
        /\ e.state = "READ" => t = "READ"
    BY <1>2, <2>2, GoodIs, OutcomeState, Zenon
  <2> HIDE DEF t
  <2>4. Is([e EXCEPT !.state = t], t, e.row, e.op)
    BY <2>3, GoodIs, SetState, Zenon DEF AnyState, MessageState
  <2>5. Good([e EXCEPT !.state = t])
    BY <2>3, <2>4, IsGood, Zenon DEF Good, EntryInv, PendingState
  <2> QED BY <2>1, <2>3, <2>4, <2>5, Zenon DEF Sound, Forward, Is, PendingState
<1> QED BY <1>1, <1>2, Zenon

\* A read receipt moves only messages the peer is known to have.
LEMMA ReadSound ==
    ASSUME NEW e, Good(e)
    PROVE  Sound(e, apply_message_read(e))
<1>1. CASE e.state \in {"SENT", "DELIVERED", "READ"}
  <2>1. Is([e EXCEPT !.state = "READ"], "READ", e.row, e.op)
    BY GoodIs, SetState, Zenon DEF AnyState, MessageState
  <2>2. Good([e EXCEPT !.state = "READ"])
    BY <2>1, IsGood DEF Good, EntryInv, PendingState
  <2> QED BY <1>1, <2>1, <2>2, Zenon DEF apply_message_read, Sound, Forward, Is, PendingState
<1>2. CASE e.state \notin {"SENT", "DELIVERED", "READ"}
  BY <1>2, StutterSound, Zenon DEF apply_message_read
<1> QED BY <1>1, <1>2, Zenon

\* A message that goes back to the queue, or stays where it is, with its lease
\* row queued or untouched: what every requeue does.
Requeued(e, f) ==
    /\ f \in Entry
    /\ f.state = e.state \/ (e.state = "SENDING" /\ f.state = "QUEUED")
    /\ (f.row = "none") = (e.row = "none")
    /\ f.op = e.op /\ f.flushOp = e.flushOp

\* Requeues compose.
LEMMA RequeuedTransitive ==
    ASSUME NEW e, NEW f, NEW g, Requeued(e, f), Requeued(f, g)
    PROVE  Requeued(e, g)
BY Zenon DEF Requeued

\* A requeue keeps the invariant and never touches a confirmed message.
LEMMA RequeuedSound ==
    ASSUME NEW e, NEW f, Good(e), Requeued(e, f)
    PROVE  Sound(e, f)
BY Zenon DEF Requeued, Sound, Good, EntryInv, Forward, PendingState

\* The message side of requeue_after_disconnect is a requeue.
LEMMA RequeueMessage ==
    ASSUME NEW e \in Entry
    PROVE  Requeued(e, requeue_after_disconnect(e))
<1> DEFINE t == IF e.state = "SENDING" THEN "QUEUED" ELSE e.state
<1>1. requeue_after_disconnect(e) = [e EXCEPT !.state = t]
  BY Zenon DEF requeue_after_disconnect, Entry
<1>2. t \in MessageState \cup {"unsent", "deleted"}
  BY Zenon DEF Entry, MessageState
<1>3. [e EXCEPT !.state = t] \in Entry
  <2> HIDE DEF t
  <2> QED BY <1>2, Zenon DEF Entry
<1> QED BY <1>1, <1>3, Zenon DEF Requeued, Entry

\* So is a change of the lease row that neither creates nor deletes it.
LEMMA RequeueRow ==
    ASSUME NEW e \in Entry, NEW r \in RowState, (r = "none") = (e.row = "none")
    PROVE  Requeued(e, [e EXCEPT !.row = r])
<1>1. [e EXCEPT !.row = r] \in Entry
  BY Zenon DEF Entry, RowState
<1> QED BY <1>1, Zenon DEF Requeued, Entry

\* requeue_peer_deliveries is a requeue.
LEMMA RequeuePeer ==
    ASSUME NEW e \in Entry
    PROVE  Requeued(e, requeue_peer_deliveries(e))
<1> DEFINE r == IF e.row = "IN_FLIGHT" THEN "QUEUED" ELSE e.row
           f == [e EXCEPT !.row = r]
<1>1. requeue_peer_deliveries(e) = IF f.row = "QUEUED" THEN requeue_after_disconnect(f) ELSE f
  BY Zenon DEF requeue_peer_deliveries, Entry
<1>2. r \in RowState /\ (r = "none") = (e.row = "none")
  BY Zenon DEF Entry, RowState
<1>3. Requeued(e, f)
  <2> HIDE DEF r
  <2> QED BY <1>2, RequeueRow, Zenon
<1> HIDE DEF f
<1>4. Requeued(f, requeue_after_disconnect(f))
  BY <1>3, RequeueMessage, Zenon DEF Requeued
<1> QED BY <1>1, <1>3, <1>4, RequeuedTransitive, Zenon

\* expedite_peer_deliveries is a requeue.
LEMMA ExpediteRequeues ==
    ASSUME NEW e \in Entry
    PROVE  Requeued(e, expedite_peer_deliveries(e))
<1> DEFINE r == IF e.row = "none" THEN e.row ELSE "QUEUED"
           f == [e EXCEPT !.row = r]
<1>1. expedite_peer_deliveries(e) = requeue_after_disconnect(f)
  BY Zenon DEF expedite_peer_deliveries, Entry
<1>2. r \in RowState /\ (r = "none") = (e.row = "none")
  BY Zenon DEF Entry, RowState
<1>3. Requeued(e, f)
  <2> HIDE DEF r
  <2> QED BY <1>2, RequeueRow, Zenon
<1> HIDE DEF f
<1>4. Requeued(f, requeue_after_disconnect(f))
  BY <1>3, RequeueMessage, Zenon DEF Requeued
<1> QED BY <1>1, <1>3, <1>4, RequeuedTransitive, Zenon

\* All requeues of platform facts, of a new capability and of startup are requeues.
LEMMA RequeueAllRequeues ==
    ASSUME NEW e, Good(e)
    PROVE  /\ Requeued(e, RequeueAll(e))
           /\ Requeued(e, requeue_peer_deliveries(e))
           /\ Requeued(e, expedite_peer_deliveries(e))
<1>1. e \in Entry
  BY Zenon DEF Good
<1>2. Requeued(e, requeue_after_disconnect(e))
  BY <1>1, RequeueMessage, Zenon
<1>3. requeue_after_disconnect(e) \in Entry
  BY <1>2, Zenon DEF Requeued
<1>4. Requeued(e, RequeueAll(e))
  BY <1>2, <1>3, RequeuePeer, RequeuedTransitive, Zenon DEF RequeueAll
<1>5. Requeued(e, requeue_peer_deliveries(e)) /\ Requeued(e, expedite_peer_deliveries(e))
  BY <1>1, RequeuePeer, ExpediteRequeues, Zenon
<1> QED BY <1>4, <1>5, Zenon

\* What platform facts, capability exchange and startup do to an entry is sound.
LEMMA RequeueAllSound ==
    ASSUME NEW e, Good(e)
    PROVE  /\ Sound(e, RequeueAll(e))
           /\ Sound(e, requeue_peer_deliveries(e))
           /\ Sound(e, expedite_peer_deliveries(e))
BY RequeueAllRequeues, RequeuedSound, Zenon

\* Deleting a message cancels its operation and drops its lease.
LEMMA DeleteSound ==
    ASSUME NEW e, Good(e)
    PROVE  Sound(e, feature_delete_message_delivery(e))
<1> DEFINE c == complete_outbound_delivery(e)
           u == UpdateActive(c, "CANCELLED")
           o == IF e.op \in ActiveOp THEN "CANCELLED" ELSE e.op
<1>1. Is(c, e.state, "none", e.op)
  BY GoodIs, CompleteIs, Zenon
<1>2. "CANCELLED" \in OpState /\ o \notin ActiveOp
  BY Zenon DEF OpState, TerminalOp, ActiveOp
<1>3. Is(u, e.state, "none", o)
  BY <1>1, <1>2, UpdateActiveIs, Zenon
<1>4. Is([u EXCEPT !.state = "deleted"], "deleted", "none", o)
  <2> HIDE DEF u, o
  <2> QED BY <1>3, SetState, Zenon DEF AnyState
<1>5. Good([u EXCEPT !.state = "deleted"])
  <2> HIDE DEF u, o
  <2> QED BY <1>2, <1>4, IsGood, Zenon DEF PendingState
<1> QED BY <1>4, <1>5, Zenon DEF feature_delete_message_delivery, Sound, Forward, Is, PendingState

\* Preparing a pending message for a send attempt makes it SENDING.
LEMMA PrepareIs ==
    ASSUME NEW e, NEW s, NEW r, NEW o, Is(e, s, r, o), s \in PendingState
    PROVE  Is(prepare_existing(e), "SENDING", r, o)
<1>1. prepare_existing(e) = [e EXCEPT !.state = "SENDING"]
  BY Zenon DEF prepare_existing, message_state_on_send_prepare, Is, Entry
<1>2. Is([e EXCEPT !.state = "SENDING"], "SENDING", r, o)
  BY SetState, Zenon DEF AnyState, MessageState
<1> QED BY <1>1, <1>2, Zenon

\* An entry that is SENDING with a lease row and a running operation is good,
\* and may be reached from any message that is not confirmed.
LEMMA SendingSound ==
    ASSUME NEW e, NEW f, NEW r, NEW o, Is(f, "SENDING", r, o),
           r # "none", o \in ActiveOp, e.state \notin {"SENT", "DELIVERED", "READ"}
    PROVE  Sound(e, f) /\ f.state = "SENDING"
<1>1. Good(f)
  BY IsGood, Zenon DEF PendingState
<1> QED BY <1>1, Zenon DEF Sound, Forward, Is

\* Both commands put the message into SENDING, through QUEUED.
LEMMA QueueIsRetry ==
    ASSUME NEW e, Good(e)
    PROVE  queue(e) = retry(e)
<1>1. queue(e) = [e EXCEPT !.state = "SENDING"]
  BY Zenon DEF queue, message_state_on_send_prepare, PendingState
<1>2. retry(e) = [[e EXCEPT !.state = "QUEUED"] EXCEPT !.state = "SENDING"]
  BY Zenon DEF retry, prepare_existing, message_state_on_send_prepare, PendingState, Good, Entry
<1> QED BY <1>1, <1>2, Zenon DEF Good, Entry

\* The transaction of send_message_command and of command_retry_message.
LEMMA CommandSound ==
    ASSUME NEW e, Good(e), e.state \in {"unsent", "FAILED", "QUEUED"}
    PROVE  LET f == feature_retry_message(e)
           IN  /\ Sound(e, f) /\ f.state = "SENDING"
               /\ feature_queue_message_delivery(e) = f
<1> DEFINE q == [e EXCEPT !.state = "QUEUED"]
           f == enqueue_outbound_delivery(BeginForCommand(prepare_existing(q)))
           r == IF e.row = "none" THEN "QUEUED" ELSE e.row
<1>1. Is(q, "QUEUED", e.row, e.op)
  BY GoodIs, SetState, Zenon DEF AnyState, MessageState
<1> HIDE DEF q
<1>2. Is(prepare_existing(q), "SENDING", e.row, e.op)
  BY <1>1, PrepareIs, Zenon DEF PendingState
<1>3. Is(BeginForCommand(prepare_existing(q)), "SENDING", e.row, "RUNNING")
  BY <1>2, BeginForCommandIs, Zenon
<1>4. Is(f, "SENDING", r, "RUNNING")
  BY <1>3, EnqueueIs, Zenon
<1>5. r # "none" /\ "RUNNING" \in ActiveOp
  BY Zenon DEF ActiveOp
<1>6. Sound(e, f) /\ f.state = "SENDING"
  <2> HIDE DEF f, r
  <2> QED BY <1>4, <1>5, SendingSound
<1>7. feature_retry_message(e) = f
  BY Zenon DEF feature_retry_message, retry, q
<1>8. feature_queue_message_delivery(e) = feature_retry_message(e)
  BY QueueIsRetry, Zenon DEF feature_queue_message_delivery, feature_retry_message
<1> HIDE DEF f
<1> QED BY <1>6, <1>7, <1>8, Zenon

\* The two flushes.
LEMMA FlushSound ==
    ASSUME NEW e, Good(e), e.state \in PendingState
    PROVE  LET f == feature_prepare_pending_message_deliveries(e) IN
           /\ Sound(e, f) /\ f.state = "SENDING"
           /\ Sound(e, prepare_existing(e)) /\ prepare_existing(e).state = "SENDING"
<1> DEFINE f == enqueue_outbound_delivery(BeginForFlush(prepare_existing(e)))
<1>1. Is(e, e.state, e.row, e.op) /\ e.row # "none" /\ e.op \in ActiveOp
  BY GoodIs, Zenon DEF Good, EntryInv
<1>2. e.state \notin {"SENT", "DELIVERED", "READ"}
  BY Zenon DEF PendingState
<1>3. Is(prepare_existing(e), "SENDING", e.row, e.op)
  BY <1>1, PrepareIs, Zenon
<1>4. Is(BeginForFlush(prepare_existing(e)), "SENDING", e.row, "RUNNING")
  BY <1>1, <1>3, BeginForFlushIs, Zenon
<1>5. Is(f, "SENDING", e.row, "RUNNING")
  BY <1>1, <1>4, EnqueueIs, Zenon
<1>6. "RUNNING" \in ActiveOp
  BY Zenon DEF ActiveOp
<1>7. Sound(e, f) /\ f.state = "SENDING"
  <2> HIDE DEF f
  <2> QED BY <1>1, <1>2, <1>5, <1>6, SendingSound, Zenon
<1>8. Sound(e, prepare_existing(e)) /\ prepare_existing(e).state = "SENDING"
  BY <1>1, <1>2, <1>3, SendingSound, Zenon
<1> QED BY <1>7, <1>8, Zenon DEF feature_prepare_pending_message_deliveries

\* Expediting and preparing, as command_retry_peer_connection does.
LEMMA ExpeditedSound ==
    ASSUME NEW e, Good(e), e.state \in PendingState
    PROVE  LET f == prepare_existing(expedite_peer_deliveries(e)) IN
           Sound(e, f) /\ f.state = "SENDING"
<1> DEFINE x == expedite_peer_deliveries(e)
<1>1. Requeued(e, x) /\ Good(x)
  BY ExpediteRequeues, RequeueAllSound, Zenon DEF Good, Sound
<1> HIDE DEF x
<1>2. x.state \in PendingState
  BY <1>1, Zenon DEF Requeued, PendingState
<1>3. Is(x, x.state, x.row, x.op) /\ x.row # "none" /\ x.op \in ActiveOp
  BY <1>1, <1>2, GoodIs, Zenon DEF Good, EntryInv
<1>4. Is(prepare_existing(x), "SENDING", x.row, x.op)
  BY <1>2, <1>3, PrepareIs, Zenon
<1>5. Sound(e, prepare_existing(x)) /\ prepare_existing(x).state = "SENDING"
  BY <1>3, <1>4, SendingSound, Zenon DEF PendingState
<1> QED BY <1>5, Zenon DEF x

-----------------------------------------------------------------------------
(* Steps                                                                   *)

\* Every entry of the ledger moves by a sound transaction.
SoundStep ==
    /\ ledger' = [m \in Messages |-> ledger'[m]]
    /\ \A m \in Messages : Sound(ledger[m], ledger'[m])

\* Under the invariant every entry is good.
LEMMA LedgerGood ==
    ASSUME Inv
    PROVE  \A m \in Messages : Good(ledger[m])
BY Zenon DEF Inv, TypeOK, OutboxInv, Good

\* Updating one entry soundly is a sound step.
LEMMA UpdateOne ==
    ASSUME Inv, NEW m \in Messages, NEW f, Sound(ledger[m], f),
           ledger' = [ledger EXCEPT ![m] = f]
    PROVE  SoundStep /\ ledger'[m] = f /\ \A n \in Messages \ {m} : ledger'[n] = ledger[n]
<1>1. ledger \in [Messages -> Entry]
  BY Zenon DEF Inv, TypeOK
<1>2. ledger'[m] = f /\ \A n \in Messages \ {m} : ledger'[n] = ledger[n]
  BY <1>1, Zenon
<1>3. \A n \in Messages : Sound(ledger[n], ledger'[n])
  BY <1>2, LedgerGood, StutterSound, Zenon
<1>4. ledger' = [n \in Messages |-> ledger'[n]]
  BY <1>1, Zenon
<1> QED BY <1>2, <1>3, <1>4, Zenon DEF SoundStep

\* A sound step that leaves only prepared messages to dispatch keeps the
\* invariant.
LEMMA SoundStepKeepsInv ==
    ASSUME SoundStep, work' \subseteq Messages, online' \in BOOLEAN, handed' \subseteq Messages,
           \A m \in work' : ledger'[m].state = "SENDING"
    PROVE  Inv'
<1>1. ledger' \in [Messages -> Entry] /\ \A m \in Messages : EntryInv(ledger'[m])
  <2>1. \A m \in Messages : ledger'[m] \in Entry /\ EntryInv(ledger'[m])
    BY Zenon DEF SoundStep, Sound, Good
  <2>2. ledger' = [m \in Messages |-> ledger'[m]]
    BY Zenon DEF SoundStep
  <2> QED BY <2>1, <2>2, Zenon
<1> QED BY <1>1, Zenon DEF Inv, TypeOK, OutboxInv

\* A handler that prepares the messages of D for dispatch.
LEMMA PreparedSound ==
    ASSUME Inv, NEW D \in SUBSET Messages, NEW W \in SUBSET D,
           ledger' = [m \in Messages |-> ledger'[m]],
           \A m \in D : Sound(ledger[m], ledger'[m]) /\ ledger'[m].state = "SENDING",
           \A m \in Messages \ D : ledger'[m] = ledger[m],
           work' = W, UNCHANGED <<online, handed>>
    PROVE  SoundStep /\ Inv'
<1>1. \A m \in Messages : Sound(ledger[m], ledger'[m])
  BY LedgerGood, StutterSound, Zenon
<1>2. \A m \in work' : ledger'[m].state = "SENDING"
  OBVIOUS
<1>3. SoundStep
  BY <1>1, Zenon DEF SoundStep
<1> QED BY <1>2, <1>3, SoundStepKeepsInv, Zenon DEF Inv, TypeOK

\* Dispatching one prepared message.
LEMMA DispatchSound ==
    ASSUME Inv, NEW m \in Messages, NEW f, Sound(ledger[m], f), Dispatch(m, f),
           handed' \subseteq Messages
    PROVE  SoundStep /\ Inv'
<1>1. SoundStep /\ \A n \in Messages \ {m} : ledger'[n] = ledger[n]
  BY UpdateOne, Zenon DEF Dispatch
<1>2. work' = work \ {m} /\ work' \subseteq Messages
  BY Zenon DEF Dispatch, Inv, TypeOK
<1>3. \A n \in work' : ledger'[n].state = "SENDING"
  BY <1>1, <1>2, Zenon DEF Inv, OutboxInv, TypeOK
<1> QED BY <1>1, <1>2, <1>3, SoundStepKeepsInv, Zenon DEF Dispatch, Inv, TypeOK

\* A handler that changes one entry while nothing is to be dispatched.
LEMMA UpdateSound ==
    ASSUME Inv, Idle, NEW m \in Messages, NEW f, Sound(ledger[m], f),
           ledger' = [ledger EXCEPT ![m] = f], UNCHANGED <<work, online, handed>>
    PROVE  SoundStep /\ Inv'
<1>1. SoundStep
  BY UpdateOne, Zenon
<1> QED BY <1>1, SoundStepKeepsInv, Zenon DEF Idle, Inv, TypeOK

\* A handler that requeues every entry.
LEMMA UpdateAllSound ==
    ASSUME Inv, ledger' = [m \in Messages |-> ledger'[m]],
           \A m \in Messages : Sound(ledger[m], ledger'[m]),
           work' = {}, online' \in BOOLEAN, UNCHANGED handed
    PROVE  SoundStep /\ Inv'
<1>1. SoundStep
  BY Zenon DEF SoundStep
<1> QED BY <1>1, SoundStepKeepsInv, Zenon DEF Inv, TypeOK

\* Every step of the outbox is sound for every message and keeps the invariant.
LEMMA StepSound ==
    ASSUME Inv, Next
    PROVE  SoundStep /\ Inv'
<1>g. \A m \in Messages : Good(ledger[m])
  BY LedgerGood, Zenon
<1>t. ledger \in [Messages -> Entry] /\ work \subseteq Messages /\ online \in BOOLEAN
      /\ handed \subseteq Messages
  BY Zenon DEF Inv, TypeOK
<1>1. ASSUME NEW m \in Messages, send_message_command(m)
      PROVE  SoundStep /\ Inv'
  <2> DEFINE f == feature_queue_message_delivery(ledger[m])
  <2>1. Sound(ledger[m], f) /\ f.state = "SENDING"
    BY <1>1, <1>g, CommandSound, Zenon DEF send_message_command
  <2>2. /\ ledger' = [n \in Messages |-> IF n \in {m} THEN f ELSE ledger[n]]
        /\ work' = {m} /\ UNCHANGED <<online, handed>>
    BY <1>1, Zenon DEF send_message_command, Prepared
  <2> HIDE DEF f
  <2> QED BY <2>1, <2>2, PreparedSound, Zenon
<1>2. ASSUME NEW m \in Messages, NEW W \in SUBSET {m}, command_retry_message(m, W)
      PROVE  SoundStep /\ Inv'
  <2> DEFINE f == feature_retry_message(ledger[m])
  <2>1. Sound(ledger[m], f) /\ f.state = "SENDING"
    BY <1>2, <1>g, CommandSound, Zenon DEF command_retry_message
  <2>2. /\ ledger' = [n \in Messages |-> IF n \in {m} THEN f ELSE ledger[n]]
        /\ work' = W /\ UNCHANGED <<online, handed>>
    BY <1>2, Zenon DEF command_retry_message, Prepared
  <2> HIDE DEF f
  <2> QED BY <2>1, <2>2, PreparedSound, Zenon
<1>3. ASSUME NEW m \in Messages, command_delete_message_local(m)
      PROVE  SoundStep /\ Inv'
  BY <1>3, <1>g, DeleteSound, UpdateSound, Zenon DEF command_delete_message_local
<1>4. ASSUME NEW m \in Messages, DispatchHanded(m)
      PROVE  SoundStep /\ Inv'
  <2>1. Sound(ledger[m], claim_outbound_delivery(ledger[m]))
    BY <1>4, <1>g, ClaimSound, Zenon DEF DispatchHanded
  <2> QED BY <1>4, <1>t, <2>1, DispatchSound, Zenon DEF DispatchHanded
<1>5. ASSUME NEW m \in Messages, DispatchLeased(m)
      PROVE  SoundStep /\ Inv'
  BY <1>5, <1>g, <1>t, StutterSound, DispatchSound, Zenon DEF DispatchLeased
<1>6. ASSUME NEW m \in Messages, NEW claimed \in BOOLEAN, NEW terminal \in BOOLEAN,
             DispatchRefused(m, claimed, terminal)
      PROVE  SoundStep /\ Inv'
  <2> DEFINE e == IF claimed THEN claim_outbound_delivery(ledger[m]) ELSE ledger[m]
             f == handle_failed_peer_message_delivery(e, terminal)
  <2>1. Dispatch(m, f) /\ UNCHANGED handed /\ (claimed => ledger[m].row # "none")
    BY <1>6, Zenon DEF DispatchRefused
  <2>2. Good(e) /\ e.state = ledger[m].state
    BY <1>g, <2>1, ClaimSound, Zenon DEF Sound
  <2> HIDE DEF e
  <2>3. Sound(e, f)
    BY <2>2, FailedSound, Zenon
  <2>4. Sound(ledger[m], f)
    BY <2>2, <2>3, Zenon DEF Sound, Forward
  <2> HIDE DEF f
  <2> QED BY <1>t, <2>1, <2>4, DispatchSound, Zenon
<1>7. ASSUME NEW m \in Messages, NEW outcome \in AckOutcome, AckReceived(m, outcome)
      PROVE  SoundStep /\ Inv'
  <2>1. outcome \in MessageTransportOutcome
    BY Zenon DEF AckOutcome, MessageTransportOutcome, SuccessOutcome, DeliveredOutcome, FailureOutcome
  <2>2. Sound(ledger[m], feature_apply_message_delivery_outcome(ledger[m], outcome))
    BY <1>g, <2>1, OutcomeSound, Zenon
  <2> QED BY <1>7, <2>2, UpdateSound, Zenon DEF AckReceived, Update
<1>8. ASSUME NEW m \in Messages, NEW terminal \in BOOLEAN, DeliveryFailed(m, terminal)
      PROVE  SoundStep /\ Inv'
  <2>1. Sound(ledger[m], handle_failed_peer_message_delivery(ledger[m], terminal))
    BY <1>g, FailedSound, Zenon
  <2> QED BY <1>8, <2>1, UpdateSound, Zenon DEF DeliveryFailed, Update
<1>9. ASSUME NEW m \in Messages, ReceiveDeliveryReceipt(m)
      PROVE  SoundStep /\ Inv'
  BY <1>9, <1>g, ReceiptSound, UpdateSound, Zenon DEF ReceiveDeliveryReceipt, Update
<1>10. ASSUME NEW m \in Messages, ReceiveReadReceipt(m)
       PROVE  SoundStep /\ Inv'
  BY <1>10, <1>g, ReadSound, UpdateSound, Zenon DEF ReceiveReadReceipt, Update
<1>11. ASSUME NEW D \in SUBSET Messages, flush_pending_message_deliveries(D)
       PROVE  SoundStep /\ Inv'
  <2> DEFINE f(m) == feature_prepare_pending_message_deliveries(ledger[m])
  <2>1. \A m \in D : Sound(ledger[m], f(m)) /\ f(m).state = "SENDING"
    BY <1>11, <1>g, FlushSound, Zenon DEF flush_pending_message_deliveries, Pending
  <2>2. /\ ledger' = [m \in Messages |-> IF m \in D THEN f(m) ELSE ledger[m]]
        /\ work' = D /\ UNCHANGED <<online, handed>>
    BY <1>11, Zenon DEF flush_pending_message_deliveries, Prepared
  <2> HIDE DEF f
  <2> QED BY <2>1, <2>2, PreparedSound, Zenon
<1>12. ASSUME NEW D \in SUBSET Messages, NEW W \in SUBSET D, flush_pending_send_effects(D, W)
       PROVE  SoundStep /\ Inv'
  <2>1. \A m \in D : /\ Sound(ledger[m], prepare_existing(ledger[m]))
                     /\ prepare_existing(ledger[m]).state = "SENDING"
    BY <1>12, <1>g, FlushSound, Zenon DEF flush_pending_send_effects, Pending
  <2>2. /\ ledger' = [m \in Messages |-> IF m \in D THEN prepare_existing(ledger[m]) ELSE ledger[m]]
        /\ work' = W /\ UNCHANGED <<online, handed>>
    BY <1>12, Zenon DEF flush_pending_send_effects, Prepared
  <2> QED BY <2>1, <2>2, PreparedSound, Zenon
<1>13. ASSUME NEW W \in SUBSET Messages, command_retry_peer_connection(W)
       PROVE  SoundStep /\ Inv'
  <2> DEFINE f(m) == prepare_existing(expedite_peer_deliveries(ledger[m]))
             x(m) == expedite_peer_deliveries(ledger[m])
  <2>1. \A m \in Pending : Sound(ledger[m], f(m)) /\ f(m).state = "SENDING"
    BY <1>g, ExpeditedSound, Zenon DEF Pending
  <2>2. \A m \in Messages : Sound(ledger[m], x(m))
    BY <1>g, RequeueAllSound, Zenon
  <2>3. /\ ledger' = [m \in Messages |-> IF m \in Pending THEN f(m) ELSE x(m)]
        /\ work' = W /\ W \subseteq Pending /\ UNCHANGED <<online, handed>>
    BY <1>13, Zenon DEF command_retry_peer_connection, claim_outgoing_attempt
  <2> HIDE DEF f, x
  <2>4. SoundStep
    BY <2>1, <2>2, <2>3, Zenon DEF SoundStep
  <2>5. \A m \in work' : ledger'[m].state = "SENDING"
    BY <2>1, <2>3, Zenon
  <2> QED BY <1>t, <2>3, <2>4, <2>5, SoundStepKeepsInv, Zenon
<1>14. ASSUME NEW up \in BOOLEAN, ConnectivityChanged(up)
       PROVE  SoundStep /\ Inv'
  <2>1. \A m \in Messages : Sound(ledger[m], RequeueAll(ledger[m]))
    BY <1>g, RequeueAllSound, Zenon
  <2>2. ledger' = [m \in Messages |-> RequeueAll(ledger[m])]
    BY <1>14, Zenon DEF ConnectivityChanged, UpdateAll
  <2> QED BY <1>14, <2>1, <2>2, UpdateAllSound, Zenon DEF ConnectivityChanged, Idle
<1>15. ASSUME OnionServiceLost
       PROVE  SoundStep /\ Inv'
  <2>1. \A m \in Messages : Sound(ledger[m], requeue_peer_deliveries(ledger[m]))
    BY <1>g, RequeueAllSound, Zenon
  <2>2. ledger' = [m \in Messages |-> requeue_peer_deliveries(ledger[m])]
    BY <1>15, Zenon DEF OnionServiceLost, UpdateAll
  <2> QED BY <1>15, <1>t, <2>1, <2>2, UpdateAllSound, Zenon DEF OnionServiceLost, Idle
<1>16. ASSUME CapabilityExchanged
       PROVE  SoundStep /\ Inv'
  <2>1. \A m \in Messages : Sound(ledger[m], expedite_peer_deliveries(ledger[m]))
    BY <1>g, RequeueAllSound, Zenon
  <2>2. ledger' = [m \in Messages |-> expedite_peer_deliveries(ledger[m])]
    BY <1>16, Zenon DEF CapabilityExchanged, UpdateAll
  <2> QED BY <1>16, <1>t, <2>1, <2>2, UpdateAllSound, Zenon DEF CapabilityExchanged, Idle
<1>17. ASSUME NEW up \in BOOLEAN, Restart(up)
       PROVE  SoundStep /\ Inv'
  <2>1. \A m \in Messages : Sound(ledger[m], RequeueAll(ledger[m]))
    BY <1>g, RequeueAllSound, Zenon
  <2>2. ledger' = [m \in Messages |-> RequeueAll(ledger[m])]
    BY <1>17, Zenon DEF Restart, UpdateAll
  <2> QED BY <1>17, <2>1, <2>2, UpdateAllSound, Zenon DEF Restart
<1>18. ASSUME NEW D \in SUBSET Messages, retry_expired_ack_deadlines(D)
       PROVE  SoundStep /\ Inv'
  <2> DEFINE f(m) == feature_apply_message_delivery_outcome(ledger[m], "RetryableFailure")
  <2>1. "RetryableFailure" \in MessageTransportOutcome
    BY Zenon DEF MessageTransportOutcome, RetryOutcome
  <2>2. \A m \in Messages : Sound(ledger[m], f(m)) /\ Sound(ledger[m], ledger[m])
    BY <1>g, <2>1, OutcomeSound, StutterSound, Zenon
  <2>3. ledger' = [m \in Messages |-> IF m \in D THEN f(m) ELSE ledger[m]]
    BY <1>18, Zenon DEF retry_expired_ack_deadlines
  <2> HIDE DEF f
  <2> QED BY <1>18, <1>t, <2>2, <2>3, UpdateAllSound, Zenon DEF retry_expired_ack_deadlines, Idle
<1> QED
  BY <1>1, <1>2, <1>3, <1>4, <1>5, <1>6, <1>7, <1>8, <1>9, <1>10, <1>11, <1>12, <1>13,
     <1>14, <1>15, <1>16, <1>17, <1>18, Zenon DEF Next

\* An unchanged outbox keeps the invariant.
LEMMA StutterKeepsInv ==
    ASSUME Inv, UNCHANGED vars
    PROVE  Inv'
BY Zenon DEF Inv, TypeOK, OutboxInv, vars

\* The empty ledger satisfies the invariant.
LEMMA InitInv == Init => Inv
<1> SUFFICES ASSUME Init PROVE Inv
  OBVIOUS
<1> DEFINE e == [state |-> "unsent", row |-> "none", attempts |-> 0, op |-> "none", flushOp |-> "none"]
<1>1. e \in Entry
  BY MaxAttemptsAssumption DEF Entry, OpState
<1>2. EntryInv(e)
  BY Zenon DEF EntryInv, PendingState, ActiveOp
<1>3. ledger = [m \in Messages |-> e] /\ work = {} /\ online = TRUE /\ handed = {}
  BY Zenon DEF Init
<1> HIDE DEF e
<1> QED BY <1>1, <1>2, <1>3, Zenon DEF Inv, TypeOK, OutboxInv

-----------------------------------------------------------------------------
(* Theorems                                                                *)

\* Every reachable ledger is well typed and satisfies the inductive invariant:
\* messages, leases and durable operations agree after any interleaving of
\* commands, flushes, late acknowledgements, requeues and restarts.
THEOREM OutboxInvariant == Spec => []Inv
<1>1. Inv /\ [Next]_vars => Inv'
  BY StepSound, StutterKeepsInv, Zenon
<1> QED BY InitInv, <1>1, PTL DEF Spec

\* A pending message always has a lease row and exactly one unfinished
\* operation, so that a failed attempt can always be requeued, and the scheduler's
\* batch is never aborted by a terminal operation under its own identifier.
THEOREM PendingOwned == Spec => []PendingDeliveryIsOwned
<1>1. Inv => PendingDeliveryIsOwned
  BY Zenon DEF Inv, OutboxInv, EntryInv, PendingDeliveryIsOwned, ActiveOp, BeginConflicts
<1> QED BY <1>1, OutboxInvariant, PTL

\* No step takes a message the peer has persisted back to QUEUED or SENDING.
THEOREM NeverResent == Spec => PersistedNeverResent
<1> DEFINE A == \A m \in Messages : ledger[m].state \in {"SENT", "DELIVERED", "READ"} =>
                    ledger'[m].state \notin PendingState
<1>1. Inv /\ [Next]_vars => [A]_vars
  <2>1. ASSUME Inv, Next PROVE A
    BY <2>1, StepSound, Zenon DEF SoundStep, Sound, Forward
  <2> QED BY <2>1, Zenon
<1> QED BY <1>1, OutboxInvariant, PTL DEF Spec, PersistedNeverResent

\* No step takes back a delivery that the peer confirmed.
THEOREM ConfirmationFinal == Spec => ConfirmationIsFinal
<1> DEFINE A == \A m \in Messages :
                    /\ ledger[m].state = "DELIVERED" =>
                            ledger'[m].state \in {"DELIVERED", "READ", "deleted"}
                    /\ ledger[m].state = "READ" => ledger'[m].state \in {"READ", "deleted"}
<1>1. Inv /\ [Next]_vars => [A]_vars
  <2>1. ASSUME Inv, Next PROVE A
    BY <2>1, StepSound, Zenon DEF SoundStep, Sound, Forward
  <2> QED BY <2>1, Zenon
<1> QED BY <1>1, OutboxInvariant, PTL DEF Spec, ConfirmationIsFinal

-----------------------------------------------------------------------------
(* The refinement: what a transaction does to an entry, read as a move of  *)
(* the abstract message.                                                   *)

\* The moves of the lifecycle, and standing still.
Legal(a, b) ==
    \/ a = b
    \/ a = "unsent" /\ b = "pending"
    \/ a = "pending" /\ b \in {"sent", "delivered", "failed"}
    \/ a = "sent" /\ b \in {"delivered", "read", "failed"}
    \/ a = "delivered" /\ b = "read"
    \/ a = "failed" /\ b = "pending"
    \/ a \in {"pending", "sent", "delivered", "read", "failed"} /\ b = "deleted"

\* The transaction from e to f is a move of the lifecycle.
Moves(e, f) == Legal(Abstract(e.state), Abstract(f.state))

\* An unchanged abstract state.
Still(e, f) == Abstract(f.state) = Abstract(e.state)

-----------------------------------------------------------------------------
(* Transactions as moves                                                   *)

\* Abstract on every state of an entry.
LEMMA AbstractStates ==
    /\ Abstract("QUEUED") = "pending" /\ Abstract("SENDING") = "pending"
    /\ Abstract("SENT") = "sent" /\ Abstract("DELIVERED") = "delivered"
    /\ Abstract("READ") = "read" /\ Abstract("FAILED") = "failed"
    /\ Abstract("unsent") = "unsent" /\ Abstract("deleted") = "deleted"
BY Zenon DEF Abstract, PendingState

\* A requeue is invisible: QUEUED and SENDING look the same to the sender.
LEMMA RequeuedStill ==
    ASSUME NEW e, NEW f, Requeued(e, f)
    PROVE  Still(e, f)
BY AbstractStates, Zenon DEF Requeued, Still

\* All requeues are invisible.
LEMMA RequeueAllStill ==
    ASSUME NEW e, Good(e)
    PROVE  /\ Still(e, RequeueAll(e))
           /\ Still(e, requeue_peer_deliveries(e))
           /\ Still(e, expedite_peer_deliveries(e))
BY RequeueAllRequeues, RequeuedStill, Zenon

\* What an outcome stores is the state the rule returned, or nothing.
LEMMA OutcomeStores ==
    ASSUME NEW e, Good(e), NEW outcome \in MessageTransportOutcome
    PROVE  LET t == message_state_after_transport_outcome(e.state, outcome)
               f == feature_apply_message_delivery_outcome(e, outcome)
           IN  \/ f = e
               \/ /\ t # NoState /\ f.state = t
                  /\ ~(outcome \in RetryOutcome /\ e.row = "none")
<1> DEFINE t == message_state_after_transport_outcome(e.state, outcome)
           f == SettleDelivery(e, outcome)
<1>1. CASE t = NoState \/ (outcome \in RetryOutcome /\ e.row = "none")
  BY <1>1, Zenon DEF feature_apply_message_delivery_outcome
<1>2. CASE t # NoState /\ ~(outcome \in RetryOutcome /\ e.row = "none")
  <2>1. feature_apply_message_delivery_outcome(e, outcome) = [f EXCEPT !.state = t]
    BY <1>2, Zenon DEF feature_apply_message_delivery_outcome, apply_outcome
  <2>2. f \in Entry
    BY SettleIs, Zenon DEF Is
  <2>3. [f EXCEPT !.state = t].state = t
    <3> HIDE DEF f, t
    <3> QED BY <2>2, Zenon DEF Entry
  <2> QED BY <1>2, <2>1, <2>3, Zenon
<1> QED BY <1>1, <1>2, Zenon

\* Every outcome of an attempt is a legal move.  A retry is only stored while
\* the lease row exists, which a sent message no longer has.
LEMMA OutcomeMoves ==
    ASSUME NEW e, Good(e), NEW outcome \in MessageTransportOutcome
    PROVE  Moves(e, feature_apply_message_delivery_outcome(e, outcome))
<1> DEFINE t == message_state_after_transport_outcome(e.state, outcome)
           f == feature_apply_message_delivery_outcome(e, outcome)
<1>1. CASE f = e
  BY <1>1, Zenon DEF Moves, Legal
<1>2. CASE t # NoState /\ f.state = t /\ ~(outcome \in RetryOutcome /\ e.row = "none")
  <2>1. e.state \in AnyState /\ EntryInv(e)
    BY GoodIs, Zenon DEF Good
  <2>2. \/ t = "QUEUED" /\ e.state \in {"QUEUED", "SENDING"}
        \/ t = "FAILED" /\ e.state \in {"QUEUED", "SENDING", "SENT", "FAILED"}
        \/ t = "SENT" /\ e.state \in {"SENDING", "SENT"}
        \/ t = "DELIVERED" /\ e.state \in {"SENDING", "SENT", "DELIVERED"}
        \/ t = "READ" /\ e.state = "READ"
    BY <1>2, <2>1, Zenon DEF message_state_after_transport_outcome, EntryInv, AnyState, MessageState,
       NoState, RetryOutcome, FailureOutcome, DeliveredOutcome
  <2>3. Moves(e, f)
    <3> HIDE DEF f, t
    <3> QED BY <1>2, <2>2, AbstractStates, Zenon DEF Moves, Legal
  <2> QED BY <2>3, Zenon
<1> QED BY <1>1, <1>2, OutcomeStores, Zenon

\* A failed attempt retries the message or gives it up.
LEMMA FailedMoves ==
    ASSUME NEW e, Good(e), NEW terminal \in BOOLEAN
    PROVE  Moves(e, handle_failed_peer_message_delivery(e, terminal))
<1>1. (IF terminal THEN "PermanentFailure" ELSE "PeerUnavailable") \in MessageTransportOutcome
  BY Zenon DEF MessageTransportOutcome, FailureOutcome, RetryOutcome
<1> QED BY <1>1, OutcomeMoves, Zenon DEF handle_failed_peer_message_delivery

\* The two receipts of the peer are legal moves.
LEMMA ReceiptMoves ==
    ASSUME NEW e, Good(e)
    PROVE  /\ Moves(e, apply_message_transport_outcome(e, "Delivered"))
           /\ Moves(e, apply_message_read(e))
<1> DEFINE t == message_state_after_transport_outcome(e.state, "Delivered")
<1>1. e \in Entry /\ e.state \in AnyState
  BY GoodIs, Zenon DEF Good
<1>2. \/ t = NoState
      \/ t = "DELIVERED" /\ e.state \in {"SENDING", "SENT", "DELIVERED"}
      \/ t = "READ" /\ e.state = "READ"
  BY <1>1, Zenon DEF message_state_after_transport_outcome, AnyState, MessageState, NoState,
     RetryOutcome, FailureOutcome, DeliveredOutcome
<1>3. t # NoState => [e EXCEPT !.state = t].state = t
  <2> HIDE DEF t
  <2> QED BY <1>1, Zenon DEF Entry
<1>4. Moves(e, IF t = NoState THEN e ELSE [e EXCEPT !.state = t])
  <2> HIDE DEF t
  <2> QED BY <1>2, <1>3, AbstractStates, Zenon DEF Moves, Legal
<1>5. [e EXCEPT !.state = "READ"].state = "READ"
  BY <1>1, Zenon DEF Entry
<1>6. Moves(e, apply_message_read(e))
  BY <1>5, AbstractStates, Zenon DEF apply_message_read, Moves, Legal
<1> QED BY <1>4, <1>6, Zenon DEF apply_message_transport_outcome

\* Deleting ends the life of a message that exists.
LEMMA DeleteMoves ==
    ASSUME NEW e, Good(e), e.state \notin {"unsent", "deleted"}
    PROVE  Moves(e, feature_delete_message_delivery(e))
<1> DEFINE u == UpdateActive(complete_outbound_delivery(e), "CANCELLED")
<1>1. Is(complete_outbound_delivery(e), e.state, "none", e.op)
  BY GoodIs, CompleteIs, Zenon
<1>2. "CANCELLED" \in OpState
  BY Zenon DEF OpState, TerminalOp
<1>3. u \in Entry
  BY <1>1, <1>2, UpdateActiveIs, Zenon DEF Is
<1>4. [u EXCEPT !.state = "deleted"].state = "deleted"
  <2> HIDE DEF u
  <2> QED BY <1>3, Zenon DEF Entry
<1>5. e.state \in MessageState
  BY GoodIs, Zenon DEF AnyState
<1> QED BY <1>4, <1>5, AbstractStates, Zenon DEF feature_delete_message_delivery, Moves, Legal, MessageState

-----------------------------------------------------------------------------
(* Steps as moves                                                          *)

\* Nothing the sender can see happened.
LEMMA AllStill ==
    ASSUME \A m \in Messages : Still(ledger[m], ledger'[m])
    PROVE  Seen' = Seen
BY Zenon DEF Seen, Still

\* One legal move of one message is a step of the lifecycle, or invisible.
LEMMA OneMoves ==
    ASSUME NEW m \in Messages, Moves(ledger[m], ledger'[m]),
           \A n \in Messages : n # m => ledger'[n] = ledger[n]
    PROVE  Lifecycle!Next \/ Seen' = Seen
<1> DEFINE a == Abstract(ledger[m].state)
           b == Abstract(ledger'[m].state)
<1>1. Seen[m] = a /\ Seen' = [Seen EXCEPT ![m] = b] /\ Seen \in [Messages -> {Seen[n] : n \in Messages}]
  BY Zenon DEF Seen
<1>2. Legal(a, b)
  BY Zenon DEF Moves
<1> HIDE DEF a, b
<1>3. CASE a = b
  BY <1>1, <1>3, Zenon
<1>4. CASE \/ Lifecycle!Submit(m) \/ Lifecycle!Persist(m) \/ Lifecycle!Deliver(m) \/ Lifecycle!Read(m)
           \/ Lifecycle!Fail(m) \/ Lifecycle!Retry(m) \/ Lifecycle!Delete(m)
  BY <1>4, Zenon DEF Lifecycle!Next
<1> QED BY <1>1, <1>2, <1>3, <1>4, Zenon DEF Legal, Lifecycle!Submit, Lifecycle!Persist, Lifecycle!Deliver,
        Lifecycle!Read, Lifecycle!Fail, Lifecycle!Retry, Lifecycle!Delete, Lifecycle!Move, Lifecycle!Status

\* An assignment to the entry of one message moves that message.
LEMMA AssignMoves ==
    ASSUME ledger \in [Messages -> Entry], NEW m \in Messages, NEW f,
           ledger' = [ledger EXCEPT ![m] = f], Moves(ledger[m], f)
    PROVE  Lifecycle!Next \/ Seen' = Seen
BY OneMoves, Zenon

\* Every step of the outbox is a step of the lifecycle or invisible.
LEMMA StepRefines ==
    ASSUME Inv, Next
    PROVE  Lifecycle!Next \/ Seen' = Seen
<1>g. \A m \in Messages : Good(ledger[m])
  BY LedgerGood, Zenon
<1>t. ledger \in [Messages -> Entry]
  BY Zenon DEF Inv, TypeOK
<1>1. ASSUME NEW m \in Messages, send_message_command(m)
      PROVE  Lifecycle!Next \/ Seen' = Seen
  <2> DEFINE f == feature_queue_message_delivery(ledger[m])
  <2>1. f.state = "SENDING" /\ ledger[m].state = "unsent"
    BY <1>1, <1>g, CommandSound, Zenon DEF send_message_command
  <2>2. ledger' = [n \in Messages |-> IF n \in {m} THEN f ELSE ledger[n]]
    BY <1>1, Zenon DEF send_message_command, Prepared
  <2> HIDE DEF f
  <2> QED BY <2>1, <2>2, AbstractStates, OneMoves, Zenon DEF Moves, Legal
<1>2. ASSUME NEW m \in Messages, NEW W \in SUBSET {m}, command_retry_message(m, W)
      PROVE  Lifecycle!Next \/ Seen' = Seen
  <2> DEFINE f == feature_retry_message(ledger[m])
  <2>1. f.state = "SENDING" /\ ledger[m].state \in {"FAILED", "QUEUED"}
    BY <1>2, <1>g, CommandSound, Zenon DEF command_retry_message
  <2>2. ledger' = [n \in Messages |-> IF n \in {m} THEN f ELSE ledger[n]]
    BY <1>2, Zenon DEF command_retry_message, Prepared
  <2> HIDE DEF f
  <2> QED BY <2>1, <2>2, AbstractStates, OneMoves DEF Moves, Legal
<1>3. ASSUME NEW m \in Messages, command_delete_message_local(m)
      PROVE  Lifecycle!Next \/ Seen' = Seen
  BY <1>3, <1>g, <1>t, DeleteMoves, AssignMoves, Zenon DEF command_delete_message_local, Exists
<1>4. ASSUME NEW m \in Messages, DispatchHanded(m)
      PROVE  Lifecycle!Next \/ Seen' = Seen
  <2>1. Moves(ledger[m], claim_outbound_delivery(ledger[m]))
    BY <1>4, <1>g, ClaimSound, Zenon DEF DispatchHanded, Moves, Legal
  <2> QED BY <1>4, <1>t, <2>1, AssignMoves, Zenon DEF DispatchHanded, Dispatch
<1>5. ASSUME NEW m \in Messages, DispatchLeased(m)
      PROVE  Lifecycle!Next \/ Seen' = Seen
  BY <1>5, <1>t, AssignMoves, Zenon DEF DispatchLeased, Dispatch, Moves, Legal
<1>6. ASSUME NEW m \in Messages, NEW claimed \in BOOLEAN, NEW terminal \in BOOLEAN,
             DispatchRefused(m, claimed, terminal)
      PROVE  Lifecycle!Next \/ Seen' = Seen
  <2> DEFINE e == IF claimed THEN claim_outbound_delivery(ledger[m]) ELSE ledger[m]
             f == handle_failed_peer_message_delivery(e, terminal)
  <2>1. Dispatch(m, f) /\ (claimed => ledger[m].row # "none")
    BY <1>6, Zenon DEF DispatchRefused
  <2>2. Good(e) /\ e.state = ledger[m].state
    BY <1>g, <2>1, ClaimSound, Zenon DEF Sound
  <2> HIDE DEF e
  <2>3. Moves(ledger[m], f)
    BY <2>2, FailedMoves, Zenon DEF Moves
  <2> HIDE DEF f
  <2> QED BY <1>t, <2>1, <2>3, AssignMoves, Zenon DEF Dispatch
<1>7. ASSUME NEW m \in Messages, NEW outcome \in AckOutcome, AckReceived(m, outcome)
      PROVE  Lifecycle!Next \/ Seen' = Seen
  <2>1. outcome \in MessageTransportOutcome
    BY Zenon DEF AckOutcome, MessageTransportOutcome, SuccessOutcome, DeliveredOutcome, FailureOutcome
  <2>2. Moves(ledger[m], feature_apply_message_delivery_outcome(ledger[m], outcome))
    BY <1>g, <2>1, OutcomeMoves, Zenon
  <2> QED BY <1>7, <1>t, <2>2, AssignMoves, Zenon DEF AckReceived, Update
<1>8. ASSUME NEW m \in Messages, NEW terminal \in BOOLEAN, DeliveryFailed(m, terminal)
      PROVE  Lifecycle!Next \/ Seen' = Seen
  BY <1>8, <1>g, <1>t, FailedMoves, AssignMoves, Zenon DEF DeliveryFailed, Update
<1>9. ASSUME NEW m \in Messages, ReceiveDeliveryReceipt(m) \/ ReceiveReadReceipt(m)
      PROVE  Lifecycle!Next \/ Seen' = Seen
  BY <1>9, <1>g, <1>t, ReceiptMoves, AssignMoves, Zenon DEF ReceiveDeliveryReceipt, ReceiveReadReceipt, Update
<1>10. ASSUME NEW D \in SUBSET Messages, flush_pending_message_deliveries(D)
       PROVE  Lifecycle!Next \/ Seen' = Seen
  <2> DEFINE f(m) == feature_prepare_pending_message_deliveries(ledger[m])
  <2>1. \A m \in D : f(m).state = "SENDING" /\ ledger[m].state \in PendingState
    BY <1>10, <1>g, FlushSound, Zenon DEF flush_pending_message_deliveries, Pending
  <2>2. ledger' = [m \in Messages |-> IF m \in D THEN f(m) ELSE ledger[m]]
    BY <1>10, Zenon DEF flush_pending_message_deliveries, Prepared
  <2> HIDE DEF f
  <2> QED BY <2>1, <2>2, AbstractStates, AllStill, Zenon DEF Still, PendingState
<1>11. ASSUME NEW D \in SUBSET Messages, NEW W \in SUBSET D, flush_pending_send_effects(D, W)
       PROVE  Lifecycle!Next \/ Seen' = Seen
  <2>1. \A m \in D : prepare_existing(ledger[m]).state = "SENDING" /\ ledger[m].state \in PendingState
    BY <1>11, <1>g, FlushSound, Zenon DEF flush_pending_send_effects, Pending
  <2>2. ledger' = [m \in Messages |-> IF m \in D THEN prepare_existing(ledger[m]) ELSE ledger[m]]
    BY <1>11, Zenon DEF flush_pending_send_effects, Prepared
  <2> QED BY <2>1, <2>2, AbstractStates, AllStill, Zenon DEF Still, PendingState
<1>12. ASSUME NEW W \in SUBSET Messages, command_retry_peer_connection(W)
       PROVE  Lifecycle!Next \/ Seen' = Seen
  <2> DEFINE f(m) == prepare_existing(expedite_peer_deliveries(ledger[m]))
             x(m) == expedite_peer_deliveries(ledger[m])
  <2>1. \A m \in Pending : f(m).state = "SENDING" /\ ledger[m].state \in PendingState
    BY <1>g, ExpeditedSound, Zenon DEF Pending
  <2>2. \A m \in Messages : Still(ledger[m], x(m))
    BY <1>g, RequeueAllStill, Zenon
  <2>3. ledger' = [m \in Messages |-> IF m \in Pending THEN f(m) ELSE x(m)]
    BY <1>12, Zenon DEF command_retry_peer_connection
  <2> HIDE DEF f, x
  <2> QED BY <2>1, <2>2, <2>3, AbstractStates, AllStill, Zenon DEF Still, PendingState
<1>13. ASSUME NEW D \in SUBSET Messages, retry_expired_ack_deadlines(D)
       PROVE  Lifecycle!Next \/ Seen' = Seen
  <2> DEFINE f(m) == feature_apply_message_delivery_outcome(ledger[m], "RetryableFailure")
  <2>1. \A m \in D : ledger[m].row = "none"
    BY <1>13, <1>g, Zenon DEF retry_expired_ack_deadlines, expired_ack_deadline_message_ids, Good, EntryInv
  <2>2. \A m \in D : f(m) = ledger[m]
    BY <2>1, Zenon DEF feature_apply_message_delivery_outcome, RetryOutcome
  <2>3. ledger' = [m \in Messages |-> IF m \in D THEN f(m) ELSE ledger[m]]
    BY <1>13, Zenon DEF retry_expired_ack_deadlines
  <2> HIDE DEF f
  <2> QED BY <2>2, <2>3, AllStill, Zenon DEF Still
<1>14. ASSUME \/ \E up \in BOOLEAN : ConnectivityChanged(up) \/ Restart(up)
              \/ OnionServiceLost \/ CapabilityExchanged
       PROVE  Lifecycle!Next \/ Seen' = Seen
  <2>1. \/ ledger' = [m \in Messages |-> RequeueAll(ledger[m])]
        \/ ledger' = [m \in Messages |-> requeue_peer_deliveries(ledger[m])]
        \/ ledger' = [m \in Messages |-> expedite_peer_deliveries(ledger[m])]
    BY <1>14, Zenon DEF ConnectivityChanged, Restart, OnionServiceLost, CapabilityExchanged, UpdateAll
  <2> QED BY <1>g, <2>1, RequeueAllStill, AllStill, Zenon
<1> QED
  BY <1>1, <1>2, <1>3, <1>4, <1>5, <1>6, <1>7, <1>8, <1>9, <1>10, <1>11, <1>12, <1>13, <1>14, Zenon DEF Next

-----------------------------------------------------------------------------
(* Theorem                                                                 *)

\* The outbox implements the lifecycle, for any set of messages and any retry
\* budget: the sender sees each message move by the legal steps only, and no
\* event moves two messages.
THEOREM OutboxImplementsLifecycle == Spec => ImplementsLifecycle
<1>1. Init => Lifecycle!Init
  BY AbstractStates DEF Init, Lifecycle!Init, Seen
<1>2. Inv /\ [Next]_vars => [Lifecycle!Next]_Seen
  <2>1. UNCHANGED vars => Seen' = Seen
    BY Zenon DEF vars, Seen
  <2> QED BY <2>1, StepRefines, Zenon
<1> QED BY <1>1, <1>2, OutboxInvariant, PTL DEF Spec, ImplementsLifecycle, Lifecycle!Spec

-----------------------------------------------------------------------------
\* A sequence without repetitions.
OnceEach(s) == \A i, j \in DOMAIN s : s[i] = s[j] => i = j

\* The rows of the running flush are in the outbox, and between the statements
\* of an encryption the flush has a conversation.  A row has at most one deadline.
FlushOnRows ==
    /\ due \in Seq(Keys) /\ OnceEach(due)
    /\ Range(todo) \subseteq rows
    /\ step = "snapshot" => group[Head(todo)[1]] # 0

\* Memory and snapshot agree, but for the one encryption under way.
MemoryAhead ==
    \A c \in Contacts :
        ratchet[c] = IF step = "snapshot" /\ Head(todo)[1] = c THEN snapshot[c] + 1 ELSE snapshot[c]

\* The groups of a contact are numbered in the order of its pairings.
GroupsCounted ==
    /\ \A c \in Contacts : group[c] \in {0, groups[c]}
    /\ \A k \in rows : cipher[k].group <= groups[k[1]]

\* The ratchet in memory is past every stored ciphertext of its group.
MemoryCoversOutbox ==
    \A k \in rows :
        <<k[1], group[k[1]]>> \notin torn /\ cipher[k].group = group[k[1]] => cipher[k].gen < ratchet[k[1]]

\* The inductive invariant.
RRInv ==
    /\ ReceiptTypeOK /\ FlushOnRows /\ MemoryAhead /\ GroupsCounted
    /\ MemoryCoversOutbox /\ CiphertextsDistinct /\ SnapshotCoversOutbox

-----------------------------------------------------------------------------
(* Sequences                                                               *)

\* The rest of a sequence has no other elements.
LEMMA TailRange ==
    ASSUME NEW S, NEW s \in Seq(S), s # <<>>
    PROVE  /\ Head(s) \in Range(s) /\ Head(s) \in S
           /\ Tail(s) \in Seq(S) /\ Range(Tail(s)) \subseteq Range(s)
           /\ Tail(s) = <<>> <=> Len(s) = 1
<1>1. /\ Tail(s) \in Seq(S) /\ Len(Tail(s)) = Len(s) - 1 /\ Head(s) \in S
      /\ \A i \in 1 .. Len(Tail(s)) : Tail(s)[i] = s[i+1]
  OBVIOUS
<1>2. Len(s) \in Nat \ {0} /\ DOMAIN s = 1..Len(s)
  OBVIOUS
<1>3. DOMAIN Tail(s) = 1..Len(Tail(s))
  BY <1>1
<1>4. Head(s) = s[1]
  OBVIOUS
<1>5. Tail(s) = <<>> <=> Len(Tail(s)) = 0
  <2> DEFINE t == Tail(s)
  <2>1. t \in Seq(S) /\ <<>> \in Seq(S)
    BY <1>1
  <2> HIDE DEF t
  <2>2. ASSUME Len(t) = 0 PROVE t = <<>>
    <3>1. DOMAIN t = {} /\ DOMAIN <<>> = {}
      BY <2>1, <2>2
    <3>2. t = [i \in DOMAIN t |-> t[i]] /\ <<>> = [i \in DOMAIN <<>> |-> <<>>[i]]
      BY <2>1
    <3> QED
      BY <3>1, <3>2, Zenon
  <2> QED
    BY <2>1, <2>2, Zenon DEF t
<1> QED
  BY <1>1, <1>2, <1>3, <1>4, <1>5 DEF Range

\* Appending adds one element.
LEMMA AppendRange ==
    ASSUME NEW S, NEW s \in Seq(S), NEW e \in S
    PROVE  /\ Append(s, e) \in Seq(S) /\ Append(s, e) # <<>>
           /\ Range(Append(s, e)) \subseteq Range(s) \cup {e}
           /\ OnceEach(s) /\ e \notin Range(s) => OnceEach(Append(s, e))
<1>1. /\ Append(s, e) \in Seq(S) /\ Append(s, e) # <<>>
      /\ Len(Append(s, e)) = Len(s)+1
      /\ \A i \in 1.. Len(s) : Append(s, e)[i] = s[i]
      /\ Append(s, e)[Len(s)+1] = e
  OBVIOUS
<1>2. /\ DOMAIN s = 1..Len(s) /\ Len(s) \in Nat
      /\ DOMAIN Append(s, e) = 1..Len(Append(s, e))
  BY <1>1
<1>3. Range(Append(s, e)) \subseteq Range(s) \cup {e}
  BY <1>1, <1>2 DEF Range
<1>4. OnceEach(s) /\ e \notin Range(s) => OnceEach(Append(s, e))
  BY <1>1, <1>2 DEF Range, OnceEach
<1> QED
  BY <1>1, <1>3, <1>4, Zenon

\* What is left after removing the element at one position.
LEMMA RemoveAtPositions ==
    ASSUME NEW S, NEW s \in Seq(S), NEW i \in 1..Len(s)
    PROVE  /\ RemoveAt(s, i) \in Seq(S) /\ Len(RemoveAt(s, i)) = Len(s) - 1
           /\ \A j \in 1..(Len(s) - 1) : RemoveAt(s, i)[j] = IF j < i THEN s[j] ELSE s[j+1]
<1> DEFINE a == SubSeq(s, 1, i-1)
           b == SubSeq(s, i+1, Len(s))
<1>1. Len(s) \in Nat /\ i \in Int /\ \A j \in 1..Len(s) : s[j] \in S
  OBVIOUS
<1>2. /\ a \in Seq(S) /\ Len(a) = i - 1
      /\ \A j \in 1..(i-1) : a[j] = s[j]
  <2>1. /\ a \in Seq(S) /\ Len(a) = IF 1 <= i-1 THEN (i-1)-1+1 ELSE 0
        /\ \A j \in 1 .. (i-1)-1+1 : a[j] = s[1+j-1]
    BY <1>1
  <2> HIDE DEF a
  <2> QED
    BY <1>1, <2>1
<1>3. /\ b \in Seq(S) /\ Len(b) = Len(s) - i
      /\ \A j \in 1..(Len(s)-i) : b[j] = s[i+j]
  <2>1. /\ b \in Seq(S) /\ Len(b) = IF i+1 <= Len(s) THEN Len(s)-(i+1)+1 ELSE 0
        /\ \A j \in 1 .. Len(s)-(i+1)+1 : b[j] = s[(i+1)+j-1]
    BY <1>1
  <2> HIDE DEF b
  <2>2. \A j \in 1..(Len(s)-i) : (i+1)+j-1 = i+j /\ j \in 1 .. Len(s)-(i+1)+1
    BY <1>1
  <2> QED
    BY <1>1, <2>1, <2>2
<1>4. RemoveAt(s, i) = a \o b
  BY Zenon DEF RemoveAt
<1> HIDE DEF a, b
<1>5. /\ a \o b \in Seq(S) /\ Len(a \o b) = Len(a) + Len(b)
      /\ \A j \in 1 .. Len(a) + Len(b) : (a \o b)[j] = IF j <= Len(a) THEN a[j] ELSE b[j - Len(a)]
  <2>1. a \in Seq(S) /\ b \in Seq(S)
    BY <1>2, <1>3, Zenon
  <2>2. a \o b \in Seq(S) /\ Len(a \o b) = Len(a) + Len(b)
    BY <2>1
  <2>3. ASSUME NEW j \in 1 .. Len(a) + Len(b)
        PROVE  (a \o b)[j] = IF j <= Len(a) THEN a[j] ELSE b[j - Len(a)]
    BY <2>1
  <2> QED
    BY <2>2, <2>3, Zenon
<1>6. ASSUME NEW j \in 1..(Len(s) - 1)
      PROVE  RemoveAt(s, i)[j] = IF j < i THEN s[j] ELSE s[j+1]
  <2>1. j \in 1 .. Len(a) + Len(b)
    BY <1>1, <1>2, <1>3
  <2>2. CASE j < i
    BY <1>1, <1>2, <1>4, <1>5, <2>1, <2>2
  <2>3. CASE ~(j < i)
    <3>1. (a \o b)[j] = b[j - (i-1)]
      BY <1>1, <1>2, <1>5, <2>1, <2>3
    <3>2. j - (i-1) \in 1..(Len(s)-i) /\ i + (j - (i-1)) = j + 1
      BY <1>1, <2>3
    <3>3. b[j - (i-1)] = s[i + (j - (i-1))]
      BY <1>3, <3>2, Zenon
    <3> QED
      BY <1>4, <2>3, <3>1, <3>2, <3>3, Zenon
  <2> QED
    BY <2>2, <2>3, Zenon
<1> QED
  BY <1>1, <1>2, <1>3, <1>4, <1>5, <1>6

\* Without(k) has no deadline of k, and every other one is an earlier one.
LEMMA WithoutRange ==
    ASSUME due \in Seq(Keys), OnceEach(due), NEW k
    PROVE  /\ Without(k) \in Seq(Keys) /\ OnceEach(Without(k))
           /\ Range(Without(k)) \subseteq Range(due) \ {k}
<1>1. CASE Due(k)
  <2> DEFINE i == CHOOSE i \in DOMAIN due : due[i] = k
             r == RemoveAt(due, i)
  <2>1. i \in DOMAIN due /\ due[i] = k
    BY <1>1, Zenon DEF Due, Range
  <2>2. Without(k) = r
    BY <1>1, Zenon DEF Without
  <2>3. Len(due) \in Nat /\ DOMAIN due = 1..Len(due) /\ i \in 1..Len(due)
    BY <2>1
  <2> HIDE DEF i
  <2>4. /\ r \in Seq(Keys) /\ Len(r) = Len(due) - 1
        /\ \A j \in 1..(Len(due) - 1) : r[j] = IF j < i THEN due[j] ELSE due[j+1]
    BY <2>3, RemoveAtPositions, Zenon
  <2>5. DOMAIN r = 1..(Len(due) - 1)
    BY <2>4
  <2> HIDE DEF r
  <2>6. OnceEach(r)
    <3> SUFFICES ASSUME NEW a \in DOMAIN r, NEW b \in DOMAIN r, r[a] = r[b] PROVE a = b
      BY Zenon DEF OnceEach
    <3> DEFINE pos(j) == IF j < i THEN j ELSE j + 1
    <3>1. pos(a) \in 1..Len(due) /\ r[a] = due[pos(a)] /\ pos(b) \in 1..Len(due) /\ r[b] = due[pos(b)]
      BY <2>3, <2>4, <2>5
    <3>2. pos(a) = pos(b)
      BY <2>3, <3>1, Zenon DEF OnceEach
    <3> QED
      BY <2>3, <2>5, <3>2
  <2>7. \A j \in DOMAIN r : r[j] \in Range(due) /\ r[j] # k
    <3> TAKE j \in DOMAIN r
    <3>1. PICK h \in 1..Len(due) : h # i /\ r[j] = due[h]
      BY <2>3, <2>4, <2>5
    <3> QED
      BY <2>1, <2>3, <3>1, Zenon DEF OnceEach, Range
  <2> QED
    BY <2>2, <2>4, <2>6, <2>7, Zenon DEF Range
<1>2. CASE ~Due(k)
  BY <1>2, Zenon DEF Without, Due
<1> QED
  BY <1>1, <1>2, Zenon

-----------------------------------------------------------------------------
(* One lemma per group of actions                                          *)

\* The parts of the invariant about MLS positions and ciphertexts.
Positions == MemoryAhead /\ GroupsCounted /\ MemoryCoversOutbox /\ CiphertextsDistinct /\ SnapshotCoversOutbox

\* Positions only depend on the rows, their ciphertexts and the MLS state, as
\* long as no encryption begins or ends.
LEMMA PositionsKept ==
    ASSUME Positions, UNCHANGED <<mls, cipher>>, rows' \subseteq rows,
           step # "snapshot", step' # "snapshot"
    PROVE  Positions'
<1>1. UNCHANGED <<group, groups, ratchet, snapshot, torn, cipher>>
  BY Zenon DEF mls
<1>2. MemoryAhead'
  BY <1>1, Zenon DEF Positions, MemoryAhead
<1>3. GroupsCounted' /\ MemoryCoversOutbox'
  BY <1>1, Zenon DEF Positions, GroupsCounted, MemoryCoversOutbox
<1>4. CiphertextsDistinct' /\ SnapshotCoversOutbox'
  BY <1>1, Zenon DEF Positions, CiphertextsDistinct, SnapshotCoversOutbox
<1> QED
  BY <1>2, <1>3, <1>4, Zenon DEF Positions

\* The head of the flush is a row of the outbox.
LEMMA HeadIsRow ==
    ASSUME ReceiptTypeOK, FlushOnRows, NEW k, Processing(k)
    PROVE  /\ k \in rows /\ k \in Keys /\ k[1] \in Contacts
           /\ todo # <<>> /\ k = Head(todo)
           /\ Tail(todo) \in Seq(Keys) /\ Range(Tail(todo)) \subseteq rows
           /\ Tail(todo) = <<>> <=> Len(todo) = 1
<1>1. todo \in Seq(Keys) /\ todo # <<>> /\ k = Head(todo)
  BY Zenon DEF ReceiptTypeOK, Processing
<1>2. /\ Head(todo) \in Range(todo) /\ Head(todo) \in Keys
      /\ Tail(todo) \in Seq(Keys) /\ Range(Tail(todo)) \subseteq Range(todo)
      /\ Tail(todo) = <<>> <=> Len(todo) = 1
  BY <1>1, TailRange, Zenon
<1>3. k[1] \in Contacts
  BY <1>1, <1>2, Zenon DEF Keys
<1> QED
  BY <1>1, <1>2, <1>3, Zenon DEF FlushOnRows

\* The end of one record keeps the rest of the flush on its rows.
LEMMA ContinueKeeps ==
    ASSUME ReceiptTypeOK, FlushOnRows, NEW k, Processing(k), Continue
    PROVE  /\ todo' \in Seq(Keys) /\ Range(todo') \subseteq rows
           /\ step' \in {"idle", "row"}
           /\ step' = "idle" <=> todo' = <<>>
<1>1. /\ Tail(todo) \in Seq(Keys) /\ Range(Tail(todo)) \subseteq rows
      /\ Tail(todo) = <<>> <=> Len(todo) = 1
  BY HeadIsRow, Zenon
<1>2. todo' = Tail(todo) /\ step' = IF Len(todo) = 1 THEN "idle" ELSE "row"
  BY Zenon DEF Continue
<1> QED
  BY <1>1, <1>2, Zenon

\* A message, a delivery that fails or a deadline that passes.
LEMMA IdleStep ==
    ASSUME RRInv,
           \/ \E c \in Contacts : Receive(c)
           \/ \E k \in Keys : DeliveryFails(k) \/ Elapse(k)
           \/ RetryDue
    PROVE  RRInv'
<1>1. /\ step = "idle" /\ step' # "snapshot"
      /\ UNCHANGED <<mls, cipher, rows, stops>>
  BY Zenon DEF Receive, DeliveryFails, Elapse, RetryDue
<1>2. Positions'
  BY <1>1, PositionsKept, Zenon DEF RRInv, Positions
<1>3. UNCHANGED <<group, groups, ratchet, snapshot, torn>>
  BY <1>1, Zenon DEF mls
<1>4. due' \in Seq(Keys) /\ OnceEach(due') /\ Range(due') \subseteq rows
  <2>1. due \in Seq(Keys) /\ OnceEach(due) /\ Range(due) \subseteq rows
    BY Zenon DEF RRInv, ReceiptTypeOK, FlushOnRows
  <2>2. CASE \E k \in Keys : Elapse(k)
    <3>1. PICK k \in Keys : Elapse(k)
      BY <2>2, Zenon
    <3>2. due' = Append(due, k) /\ k \in rows /\ k \notin Range(due)
      BY <3>1, Zenon DEF Elapse, Due
    <3> QED
      BY <2>1, <3>2, AppendRange, Zenon
  <2>3. CASE due' = due
    BY <2>1, <2>3, Zenon
  <2> QED
    BY <2>2, <2>3, Zenon DEF Receive, DeliveryFails, RetryDue
<1>5. /\ todo' \in Seq(Keys) /\ Range(todo') \subseteq rows
      /\ step' \in {"idle", "row"} /\ (step' = "idle" <=> todo' = <<>>)
  BY Zenon DEF RRInv, ReceiptTypeOK, FlushOnRows, Receive, DeliveryFails, Elapse, RetryDue
<1>6. incoming' \in [Contacts -> 0..MaxMessages] /\ transport' \subseteq Keys
  <2>1. incoming \in [Contacts -> 0..MaxMessages] /\ transport \subseteq Keys
    BY Zenon DEF RRInv, ReceiptTypeOK
  <2>2. CASE \E c \in Contacts : Receive(c)
    <3>1. PICK c \in Contacts : Receive(c)
      BY <2>2, Zenon
    <3>2. incoming' = [incoming EXCEPT ![c] = @ + 1] /\ incoming[c] < MaxMessages /\ transport' = transport
      BY <3>1, Zenon DEF Receive
    <3> QED
      BY <2>1, <3>2, ReadReceiptsAssumption
  <2>3. CASE incoming' = incoming /\ transport' \subseteq transport
    BY <2>1, <2>3, Zenon
  <2> QED
    BY <2>2, <2>3, Zenon DEF DeliveryFails, Elapse, RetryDue
<1>7. ReceiptTypeOK'
  BY <1>1, <1>3, <1>4, <1>5, <1>6, Zenon DEF RRInv, ReceiptTypeOK
<1>8. FlushOnRows'
  BY <1>1, <1>4, <1>5, Zenon DEF FlushOnRows
<1> QED
  BY <1>2, <1>7, <1>8, Zenon DEF RRInv, Positions

\* A new row has no ciphertext yet.
LEMMA SendReadReceiptsStep ==
    ASSUME RRInv, NEW c \in Contacts, SendReadReceipts(c)
    PROVE  RRInv'
<1> DEFINE k == <<c, incoming[c]>>
<1>1. /\ step = "idle" /\ incoming[c] > 0
      /\ rows' = rows \cup {k} /\ due' = After(k) /\ todo' = due' /\ step' = "row"
      /\ UNCHANGED <<incoming, mls, cipher, transport, stops>>
  BY Zenon DEF SendReadReceipts
<1>2. UNCHANGED <<group, groups, ratchet, snapshot, torn>>
  BY <1>1, Zenon DEF mls
<1>3. k \in Keys /\ k[1] = c
  BY <1>1 DEF Keys, RRInv, ReceiptTypeOK
<1>4. k \notin rows => cipher[k] = None
  BY <1>3, Zenon DEF RRInv, ReceiptTypeOK
<1> HIDE DEF k
<1>5. due \in Seq(Keys) /\ OnceEach(due) /\ Range(due) \subseteq rows
  BY Zenon DEF RRInv, ReceiptTypeOK, FlushOnRows
<1>6. After(k) \in Seq(Keys) /\ OnceEach(After(k)) /\ After(k) # <<>> /\ Range(After(k)) \subseteq rows \cup {k}
  <2>1. CASE Due(k)
    <3>1. due # <<>>
      BY <2>1 DEF Due, Range
    <3> QED
      BY <1>5, <2>1, <3>1, Zenon DEF After
  <2>2. CASE ~Due(k)
    BY <1>3, <1>5, <2>2, AppendRange, Zenon DEF After, Due
  <2> QED
    BY <2>1, <2>2, Zenon
<1>7. ReceiptTypeOK'
  BY <1>1, <1>2, <1>3, <1>6, Zenon DEF RRInv, ReceiptTypeOK
<1>8. FlushOnRows' /\ MemoryAhead'
  BY <1>1, <1>2, <1>6, Zenon DEF RRInv, FlushOnRows, MemoryAhead
<1>9. /\ None.group = 0 /\ None.gen = 0
      /\ \A x \in Contacts : groups[x] \in Nat /\ groups[x] >= 1
      /\ \A x \in Contacts : ratchet[x] \in Nat /\ ratchet[x] >= 1 /\ snapshot[x] \in Nat /\ snapshot[x] >= 1
  BY DEF None, RRInv, ReceiptTypeOK
<1>10. GroupsCounted'
  BY <1>1, <1>2, <1>3, <1>4, <1>9 DEF RRInv, GroupsCounted
<1>11. MemoryCoversOutbox'
  BY <1>1, <1>2, <1>3, <1>4, <1>9 DEF RRInv, MemoryCoversOutbox
<1>12. SnapshotCoversOutbox'
  BY <1>1, <1>2, <1>3, <1>4, <1>9 DEF RRInv, SnapshotCoversOutbox
<1>13. CiphertextsDistinct'
  BY <1>1, <1>2, <1>3, <1>4 DEF RRInv, CiphertextsDistinct
<1> QED
  BY <1>7, <1>8, <1>10, <1>11, <1>12, <1>13, Zenon DEF RRInv

\* No conversation: the flush ends.
LEMMA FlushAbortsStep ==
    ASSUME RRInv, NEW k \in Keys, FlushAborts(k)
    PROVE  RRInv'
<1>1. /\ step = "row" /\ todo' = <<>> /\ step' = "idle"
      /\ UNCHANGED <<incoming, mls, rows, cipher, due, transport, stops>>
  BY Zenon DEF FlushAborts
<1>2. UNCHANGED <<group, groups, ratchet, snapshot, torn>>
  BY <1>1, Zenon DEF mls
<1>3. Positions'
  BY <1>1, PositionsKept, Zenon DEF RRInv, Positions
<1>4. todo' \in Seq(Keys) /\ Range(todo') = {}
  BY <1>1 DEF Range
<1>5. ReceiptTypeOK'
  BY <1>1, <1>2, <1>4, Zenon DEF RRInv, ReceiptTypeOK
<1>6. FlushOnRows'
  BY <1>1, <1>4, Zenon DEF RRInv, FlushOnRows
<1> QED
  BY <1>3, <1>5, <1>6, Zenon DEF RRInv, Positions

\* One record ends, with or without a place in the transport.
LEMMA RecordEndsStep ==
    ASSUME RRInv, NEW k \in Keys, EncryptFails(k) \/ DispatchQueued(k) \/ DispatchFails(k)
    PROVE  RRInv'
<1>1. /\ Processing(k) /\ Continue /\ step \in {"row", "dispatch"}
      /\ UNCHANGED <<incoming, mls, rows, cipher, stops>>
  BY Zenon DEF EncryptFails, DispatchQueued, DispatchFails, HasCiphertext
<1>2. UNCHANGED <<group, groups, ratchet, snapshot, torn>>
  BY <1>1, Zenon DEF mls
<1>3. /\ todo' \in Seq(Keys) /\ Range(todo') \subseteq rows
      /\ step' \in {"idle", "row"} /\ (step' = "idle" <=> todo' = <<>>)
  BY <1>1, ContinueKeeps, Zenon DEF RRInv
<1>4. Positions'
  BY <1>1, <1>3, PositionsKept, Zenon DEF RRInv, Positions
<1>5. due' = due \/ due' = Without(k)
  BY Zenon DEF EncryptFails, DispatchQueued, DispatchFails
<1>6. due' \in Seq(Keys) /\ OnceEach(due') /\ Range(due') \subseteq rows
  BY <1>5, WithoutRange, Zenon DEF RRInv, ReceiptTypeOK, FlushOnRows
<1>7. transport' \subseteq Keys
  BY Zenon DEF EncryptFails, DispatchQueued, DispatchFails, RRInv, ReceiptTypeOK
<1>8. ReceiptTypeOK'
  BY <1>1, <1>2, <1>3, <1>6, <1>7, Zenon DEF RRInv, ReceiptTypeOK
<1>9. FlushOnRows'
  BY <1>1, <1>3, <1>6, Zenon DEF FlushOnRows
<1> QED
  BY <1>4, <1>8, <1>9, Zenon DEF RRInv, Positions

\* An encryption takes the next position of the ratchet.
LEMMA EncryptStep ==
    ASSUME RRInv, NEW k \in Keys, Encrypt(k)
    PROVE  RRInv'
<1> DEFINE c == k[1]
           w == [group |-> group[c], gen |-> ratchet[c]]
<1>1. /\ step = "row" /\ Processing(k) /\ cipher[k] = None /\ group[c] # 0 /\ ratchet[c] < MaxGen
      /\ cipher' = [cipher EXCEPT ![k] = w]
      /\ ratchet' = [ratchet EXCEPT ![c] = @ + 1]
      /\ due' = Without(k) /\ step' = "snapshot"
      /\ UNCHANGED <<incoming, group, groups, snapshot, torn, rows, todo, transport, stops>>
  BY Zenon DEF Encrypt
<1>2. /\ k \in rows /\ c \in Contacts /\ todo # <<>> /\ k = Head(todo)
  BY <1>1, HeadIsRow, Zenon DEF RRInv
<1>3. w \in Ciphertexts /\ w.group = group[c] /\ w.gen = ratchet[c]
  BY <1>1, <1>2 DEF Ciphertexts, RRInv, ReceiptTypeOK
<1> HIDE DEF w
<1>4. due' \in Seq(Keys) /\ OnceEach(due') /\ Range(due') \subseteq rows
  BY <1>1, WithoutRange, Zenon DEF RRInv, ReceiptTypeOK, FlushOnRows
<1>5. /\ ratchet' \in [Contacts -> 1..MaxGen]
      /\ \A x \in Contacts : ratchet'[x] = IF x = c THEN ratchet[x] + 1 ELSE ratchet[x]
  <2>1. ratchet \in [Contacts -> 1..MaxGen] /\ MaxGen \in Nat
    BY ReadReceiptsAssumption, Zenon DEF RRInv, ReceiptTypeOK
  <2>2. ratchet[c] + 1 \in 1..MaxGen
    BY <1>1, <1>2, <2>1
  <2> HIDE DEF c
  <2> QED
    BY <1>1, <1>2, <2>1, <2>2, Zenon
<1>6. /\ cipher' \in [Keys -> Ciphertexts \cup {None}]
      /\ \A j \in Keys : cipher'[j] = IF j = k THEN w ELSE cipher[j]
  BY <1>1, <1>3, Zenon DEF RRInv, ReceiptTypeOK
<1>7. ReceiptTypeOK'
  BY <1>1, <1>2, <1>4, <1>5, <1>6, Zenon DEF RRInv, ReceiptTypeOK
<1>8. FlushOnRows'
  BY <1>1, <1>2, <1>4, ZenonT(30) DEF RRInv, FlushOnRows
<1>9. MemoryAhead'
  BY <1>1, <1>2, <1>5, Zenon DEF RRInv, MemoryAhead
<1>10. /\ \A x \in Contacts : groups[x] \in Nat /\ ratchet[x] \in Nat /\ group[x] \in {0, groups[x]}
       /\ \A j \in rows : j \in Keys /\ j[1] \in Contacts /\ cipher[j].gen \in Nat
  <2>1. \A j \in Keys : j[1] \in Contacts
    BY Zenon DEF Keys
  <2>2. \A j \in Keys : cipher[j] \in Ciphertexts \cup {None}
    BY Zenon DEF RRInv, ReceiptTypeOK
  <2>3. \A x \in Ciphertexts \cup {None} : x.gen \in Nat
    BY ReadReceiptsAssumption DEF Ciphertexts, None
  <2>4. rows \subseteq Keys
    BY Zenon DEF RRInv, ReceiptTypeOK
  <2>5. \A x \in Contacts : groups[x] \in Nat /\ ratchet[x] \in Nat /\ group[x] \in {0, groups[x]}
    BY DEF RRInv, ReceiptTypeOK, GroupsCounted
  <2> QED
    BY <2>1, <2>2, <2>3, <2>4, <2>5, Zenon
<1>11. GroupsCounted'
  BY <1>1, <1>2, <1>3, <1>6, <1>10 DEF RRInv, GroupsCounted
<1>12. MemoryCoversOutbox'
  BY <1>1, <1>2, <1>3, <1>5, <1>6, <1>10 DEF RRInv, MemoryCoversOutbox
<1>13. \A j \in rows : j # k /\ j[1] = c /\ <<c, group[c]>> \notin torn => cipher[j] # w
  BY <1>3, <1>10 DEF RRInv, MemoryCoversOutbox
<1>14. CiphertextsDistinct'
  BY <1>1, <1>2, <1>3, <1>6, <1>10, <1>13 DEF RRInv, CiphertextsDistinct
<1>15. SnapshotCoversOutbox'
  BY <1>1, Zenon DEF SnapshotCoversOutbox
<1> QED
  BY <1>7, <1>8, <1>9, <1>11, <1>12, <1>14, <1>15, Zenon DEF RRInv

\* The snapshot catches up with the memory.
LEMMA PersistSnapshotStep ==
    ASSUME RRInv, NEW k \in Keys, PersistSnapshot(k)
    PROVE  RRInv'
<1>1. /\ step = "snapshot" /\ Processing(k) /\ step' = "dispatch"
      /\ snapshot' = [snapshot EXCEPT ![k[1]] = ratchet[k[1]]]
      /\ UNCHANGED <<incoming, group, groups, ratchet, torn, rows, cipher, due, todo, transport, stops>>
  BY Zenon DEF PersistSnapshot
<1>2. /\ k \in rows /\ k[1] \in Contacts /\ todo # <<>> /\ k = Head(todo)
  BY <1>1, HeadIsRow, Zenon DEF RRInv
<1>3. snapshot' \in [Contacts -> 1..MaxGen]
  BY <1>1, <1>2, Zenon DEF RRInv, ReceiptTypeOK
<1>4. \A x \in Contacts : snapshot'[x] = ratchet[x]
  BY <1>1, <1>2, Zenon DEF RRInv, ReceiptTypeOK, MemoryAhead
<1>5. ReceiptTypeOK'
  BY <1>1, <1>3, Zenon DEF RRInv, ReceiptTypeOK
<1>6. FlushOnRows' /\ MemoryAhead'
  BY <1>1, <1>4, Zenon DEF RRInv, FlushOnRows, MemoryAhead
<1>7. GroupsCounted' /\ MemoryCoversOutbox' /\ CiphertextsDistinct'
  BY <1>1, Zenon DEF RRInv, GroupsCounted, MemoryCoversOutbox, CiphertextsDistinct
<1>8. \A j \in rows : j[1] \in Contacts
  BY Zenon DEF RRInv, ReceiptTypeOK, Keys
<1>9. SnapshotCoversOutbox'
  BY <1>1, <1>4, <1>8, Zenon DEF RRInv, MemoryCoversOutbox, SnapshotCoversOutbox
<1> QED
  BY <1>5, <1>6, <1>7, <1>9, Zenon DEF RRInv

\* An acknowledged row goes away with its ciphertext.
LEMMA AckStep ==
    ASSUME RRInv, NEW k \in Keys, Ack(k)
    PROVE  RRInv'
<1>1. /\ step = "idle" /\ transport' = transport \ {k} /\ rows' = rows \ {k}
      /\ cipher' = [cipher EXCEPT ![k] = None] /\ due' = Without(k)
      /\ UNCHANGED <<incoming, mls, todo, step, stops>>
  BY Zenon DEF Ack
<1>2. UNCHANGED <<group, groups, ratchet, snapshot, torn>>
  BY <1>1, Zenon DEF mls
<1>3. /\ cipher' \in [Keys -> Ciphertexts \cup {None}]
      /\ \A j \in Keys : cipher'[j] = IF j = k THEN None ELSE cipher[j]
  BY <1>1, Zenon DEF RRInv, ReceiptTypeOK
<1>4. due' \in Seq(Keys) /\ OnceEach(due') /\ Range(due') \subseteq rows \ {k}
  BY <1>1, WithoutRange, Zenon DEF RRInv, ReceiptTypeOK, FlushOnRows
<1>5. todo = <<>> /\ Range(todo) = {}
  BY <1>1 DEF RRInv, ReceiptTypeOK, Range
<1>6. ReceiptTypeOK'
  BY <1>1, <1>2, <1>3, <1>4, Zenon DEF RRInv, ReceiptTypeOK
<1>7. FlushOnRows' /\ MemoryAhead'
  BY <1>1, <1>2, <1>4, <1>5, Zenon DEF RRInv, FlushOnRows, MemoryAhead
<1>8. \A j \in rows' : j \in rows /\ j \in Keys /\ cipher'[j] = cipher[j]
  BY <1>1, <1>3, Zenon DEF RRInv, ReceiptTypeOK
<1>9. GroupsCounted' /\ MemoryCoversOutbox'
  BY <1>1, <1>2, <1>8, Zenon DEF RRInv, GroupsCounted, MemoryCoversOutbox
<1>10. CiphertextsDistinct' /\ SnapshotCoversOutbox'
  BY <1>1, <1>2, <1>8 DEF RRInv, CiphertextsDistinct, SnapshotCoversOutbox
<1> QED
  BY <1>6, <1>7, <1>9, <1>10, Zenon DEF RRInv

\* A removed relationship leaves its ciphertexts; group 0 has none of them.
LEMMA RemoveRelationshipStep ==
    ASSUME RRInv, NEW c \in Contacts, RemoveRelationship(c)
    PROVE  RRInv'
<1>1. /\ step = "idle" /\ group' = [group EXCEPT ![c] = 0]
      /\ UNCHANGED <<groups, ratchet, snapshot, torn, rows, cipher, due, todo, step, transport, stops>>
  BY Zenon DEF RemoveRelationship
<1>2. incoming' \in [Contacts -> 0..MaxMessages]
  <2>1. incoming \in [Contacts -> 0..MaxMessages] /\ 0 \in 0..MaxMessages
    BY ReadReceiptsAssumption DEF RRInv, ReceiptTypeOK
  <2>2. incoming' = incoming \/ incoming' = [incoming EXCEPT ![c] = 0]
    BY Zenon DEF RemoveRelationship
  <2> QED
    BY <2>1, <2>2, Zenon
<1>3. /\ group' \in [Contacts -> 0..MaxGroups]
      /\ \A x \in Contacts : group'[x] = IF x = c THEN 0 ELSE group[x]
  BY <1>1, ReadReceiptsAssumption DEF RRInv, ReceiptTypeOK
<1>4. ReceiptTypeOK'
  BY <1>1, <1>2, <1>3, Zenon DEF RRInv, ReceiptTypeOK
<1>5. FlushOnRows' /\ MemoryAhead' /\ CiphertextsDistinct'
  BY <1>1, Zenon DEF RRInv, FlushOnRows, MemoryAhead, CiphertextsDistinct
<1>6. \A k \in rows : k \in Keys /\ k[1] \in Contacts
  BY Zenon DEF RRInv, ReceiptTypeOK, Keys
<1>7. GroupsCounted'
  BY <1>1, <1>3, <1>6, Zenon DEF RRInv, GroupsCounted
<1>8. \A k \in rows : cipher[k].group = 0 => cipher[k].gen = 0
  <2>1. \A k \in rows : cipher[k] \in Ciphertexts \cup {None}
    BY <1>6, Zenon DEF RRInv, ReceiptTypeOK
  <2>2. \A w \in Ciphertexts \cup {None} : w.group = 0 => w.gen = 0
    BY ReadReceiptsAssumption DEF Ciphertexts, None
  <2> QED
    BY <2>1, <2>2, Zenon
<1>9. \A k \in rows : 0 < ratchet[k[1]] /\ 0 < snapshot[k[1]]
  <2>1. \A x \in Contacts : ratchet[x] \in 1..MaxGen /\ snapshot[x] \in 1..MaxGen
    BY Zenon DEF RRInv, ReceiptTypeOK
  <2>2. \A g \in 1..MaxGen : 0 < g
    BY ReadReceiptsAssumption
  <2> QED
    BY <1>6, <2>1, <2>2, Zenon
<1>10. MemoryCoversOutbox'
  BY <1>1, <1>3, <1>6, <1>8, <1>9, Zenon DEF RRInv, MemoryCoversOutbox
<1>11. SnapshotCoversOutbox'
  BY <1>1, <1>3, <1>6, <1>8, <1>9, Zenon DEF RRInv, SnapshotCoversOutbox
<1> QED
  BY <1>4, <1>5, <1>7, <1>10, <1>11, Zenon DEF RRInv

\* A new pairing begins a group that no stored ciphertext has.
LEMMA PairAgainStep ==
    ASSUME RRInv, NEW c \in Contacts, PairAgain(c)
    PROVE  RRInv'
<1>1. /\ step = "idle" /\ groups[c] < MaxGroups
      /\ groups' = [groups EXCEPT ![c] = @ + 1] /\ group' = [group EXCEPT ![c] = groups'[c]]
      /\ ratchet' = [ratchet EXCEPT ![c] = 1] /\ snapshot' = [snapshot EXCEPT ![c] = 1]
      /\ UNCHANGED <<incoming, torn, rows, cipher, due, todo, step, transport, stops>>
  BY Zenon DEF PairAgain
<1>2. /\ groups \in [Contacts -> 1..MaxGroups] /\ group \in [Contacts -> 0..MaxGroups]
      /\ ratchet \in [Contacts -> 1..MaxGen] /\ snapshot \in [Contacts -> 1..MaxGen]
      /\ MaxGroups \in Nat \ {0} /\ MaxGen \in Nat \ {0}
  BY ReadReceiptsAssumption, Zenon DEF RRInv, ReceiptTypeOK
<1>3. /\ groups' \in [Contacts -> 1..MaxGroups]
      /\ \A x \in Contacts : groups'[x] = IF x = c THEN groups[c] + 1 ELSE groups[x]
  <2>1. groups[c] + 1 \in 1..MaxGroups
    BY <1>1, <1>2
  <2> QED
    BY <1>1, <1>2, <2>1, Zenon
<1>4. /\ group' \in [Contacts -> 0..MaxGroups]
      /\ \A x \in Contacts : group'[x] = IF x = c THEN groups[c] + 1 ELSE group[x]
  BY <1>1, <1>2, <1>3
<1>5. /\ ratchet' \in [Contacts -> 1..MaxGen] /\ snapshot' \in [Contacts -> 1..MaxGen]
      /\ \A x \in Contacts : ratchet'[x] = IF x = c THEN 1 ELSE ratchet[x]
      /\ \A x \in Contacts : snapshot'[x] = IF x = c THEN 1 ELSE snapshot[x]
  BY <1>1, <1>2
<1>6. ReceiptTypeOK'
  BY <1>1, <1>3, <1>4, <1>5, Zenon DEF RRInv, ReceiptTypeOK
<1>7. FlushOnRows' /\ CiphertextsDistinct'
  BY <1>1, Zenon DEF RRInv, FlushOnRows, CiphertextsDistinct
<1>8. MemoryAhead'
  BY <1>1, <1>5, Zenon DEF RRInv, MemoryAhead
<1>9. \A k \in rows : k[1] \in Contacts /\ cipher[k].group \in Nat /\ cipher[k].group <= groups[k[1]]
  <2>1. \A k \in rows : k \in Keys /\ k[1] \in Contacts
    BY Zenon DEF RRInv, ReceiptTypeOK, Keys
  <2>2. \A k \in rows : cipher[k] \in Ciphertexts \cup {None}
    BY <2>1, Zenon DEF RRInv, ReceiptTypeOK
  <2>3. \A w \in Ciphertexts \cup {None} : w.group \in Nat
    BY ReadReceiptsAssumption DEF Ciphertexts, None
  <2> QED
    BY <2>1, <2>2, <2>3, Zenon DEF RRInv, GroupsCounted
<1>10. GroupsCounted'
  BY <1>1, <1>2, <1>3, <1>4, <1>9 DEF RRInv, GroupsCounted
<1>11. \A k \in rows : k[1] = c => cipher[k].group # group'[k[1]]
  BY <1>2, <1>4, <1>9
<1>12. MemoryCoversOutbox'
  BY <1>1, <1>4, <1>5, <1>9, <1>11, ZenonT(30) DEF RRInv, MemoryCoversOutbox
<1>13. SnapshotCoversOutbox'
  BY <1>1, <1>4, <1>5, <1>9, <1>11, Zenon DEF RRInv, SnapshotCoversOutbox
<1> QED
  BY <1>6, <1>7, <1>8, <1>10, <1>12, <1>13, Zenon DEF RRInv

\* A restart goes back to the snapshots; where they do not cover the outbox, the
\* group is torn from now on.
LEMMA ReceiptRestartStep ==
    ASSUME RRInv, ReceiptRestart
    PROVE  RRInv'
<1> DEFINE h == Head(todo)[1]
<1>1. /\ stops < MaxStops /\ stops' = stops + 1 /\ ratchet' = snapshot
      /\ torn' = IF step = "snapshot" THEN torn \cup {<<h, group[h]>>} ELSE torn
      /\ todo' = <<>> /\ step' = "idle" /\ transport' = {}
      /\ UNCHANGED <<incoming, group, groups, snapshot, rows, cipher, due>>
  BY Zenon DEF ReceiptRestart
<1>2. step = "snapshot" => h \in Contacts /\ group[h] \in 1..MaxGroups
  <2>1. SUFFICES ASSUME step = "snapshot" PROVE h \in Contacts /\ group[h] \in 1..MaxGroups
    OBVIOUS
  <2>2. Processing(Head(todo))
    BY <2>1, Zenon DEF RRInv, ReceiptTypeOK, Processing
  <2>3. h \in Contacts
    BY <2>2, HeadIsRow, Zenon DEF RRInv
  <2>4. group[h] # 0
    BY <2>1, Zenon DEF RRInv, FlushOnRows
  <2> HIDE DEF h
  <2> QED
    BY <2>3, <2>4, ReadReceiptsAssumption DEF RRInv, ReceiptTypeOK
<1>3. torn' \subseteq Contacts \X (1..MaxGroups) /\ torn \subseteq torn'
  BY <1>1, <1>2 DEF RRInv, ReceiptTypeOK
<1>4. stops' \in 0..MaxStops
  BY <1>1, ReadReceiptsAssumption DEF RRInv, ReceiptTypeOK
<1>5. todo' \in Seq(Keys) /\ Range(todo') = {}
  BY <1>1 DEF Range
<1>6. ReceiptTypeOK'
  BY <1>1, <1>3, <1>4, <1>5, Zenon DEF RRInv, ReceiptTypeOK
<1>7. FlushOnRows' /\ MemoryAhead' /\ GroupsCounted'
  BY <1>1, <1>5, Zenon DEF RRInv, FlushOnRows, MemoryAhead, GroupsCounted
<1>8. CiphertextsDistinct'
  BY <1>1, <1>3, Zenon DEF RRInv, CiphertextsDistinct
<1>9. \A k \in rows : k[1] \in Contacts
  BY Zenon DEF RRInv, ReceiptTypeOK, Keys
<1>10. SnapshotCoversOutbox'
  <2>1. CASE step # "snapshot"
    BY <1>1, <1>3, <2>1, Zenon DEF RRInv, SnapshotCoversOutbox
  <2>2. CASE step = "snapshot"
    <3>1. \A k \in rows : k[1] # h => ratchet[k[1]] = snapshot[k[1]]
      BY <1>9, <2>2, Zenon DEF RRInv, MemoryAhead
    <3>2. \A k \in rows : k[1] = h => <<k[1], group[k[1]]>> \in torn'
      BY <1>1, <2>2, Zenon
    <3> QED
      BY <1>1, <1>3, <3>1, <3>2, Zenon DEF RRInv, MemoryCoversOutbox, SnapshotCoversOutbox
  <2> QED
    BY <2>1, <2>2, Zenon
<1>11. MemoryCoversOutbox'
  BY <1>1, <1>10, Zenon DEF MemoryCoversOutbox, SnapshotCoversOutbox
<1> QED
  BY <1>6, <1>7, <1>8, <1>10, <1>11, Zenon DEF RRInv

-----------------------------------------------------------------------------
(* The theorem                                                             *)

\* The invariant holds in an empty outbox.
LEMMA InitRRInv == ReceiptInit => RRInv
<1> SUFFICES ASSUME ReceiptInit PROVE RRInv
  OBVIOUS
<1>1. /\ rows = {} /\ due = <<>> /\ todo = <<>> /\ step = "idle" /\ torn = {} /\ transport = {} /\ stops = 0
  BY Zenon DEF ReceiptInit
<1>2. /\ incoming = [c \in Contacts |-> 0] /\ group = [c \in Contacts |-> 1] /\ groups = [c \in Contacts |-> 1]
      /\ ratchet = [c \in Contacts |-> 1] /\ snapshot = [c \in Contacts |-> 1] /\ cipher = [k \in Keys |-> None]
  BY Zenon DEF ReceiptInit
<1>3. Range(<<>>) = {} /\ OnceEach(<<>>)
  BY DEF Range, OnceEach
<1>4. ReceiptTypeOK
  BY <1>1, <1>2, <1>3, ReadReceiptsAssumption DEF ReceiptTypeOK
<1>5. FlushOnRows /\ MemoryAhead
  BY <1>1, <1>2, <1>3 DEF FlushOnRows, MemoryAhead
<1>6. GroupsCounted /\ MemoryCoversOutbox /\ CiphertextsDistinct /\ SnapshotCoversOutbox
  BY <1>1, <1>2, Zenon DEF GroupsCounted, MemoryCoversOutbox, CiphertextsDistinct, SnapshotCoversOutbox
<1> QED
  BY <1>4, <1>5, <1>6, Zenon DEF RRInv

\* Every step keeps the invariant.
LEMMA NextRRInv == RRInv /\ [ReceiptNext]_receiptVars => RRInv'
<1> SUFFICES ASSUME RRInv, [ReceiptNext]_receiptVars PROVE RRInv'
  OBVIOUS
<1>1. CASE \E c \in Contacts : SendReadReceipts(c) \/ RemoveRelationship(c) \/ PairAgain(c)
  BY <1>1, SendReadReceiptsStep, RemoveRelationshipStep, PairAgainStep, Zenon
<1>2. CASE \E k \in Keys : Flush(k)
  BY <1>2, FlushAbortsStep, EncryptStep, PersistSnapshotStep, RecordEndsStep, Zenon DEF Flush
<1>3. CASE \E k \in Keys : Ack(k)
  BY <1>3, AckStep, Zenon
<1>4. CASE (\E c \in Contacts : Receive(c)) \/ (\E k \in Keys : DeliveryFails(k) \/ Elapse(k)) \/ RetryDue
  BY <1>4, IdleStep, Zenon
<1>5. CASE ReceiptRestart
  BY <1>5, ReceiptRestartStep, Zenon
<1>6. CASE UNCHANGED receiptVars
  BY <1>6, ZenonT(30) DEF receiptVars, mls, RRInv, ReceiptTypeOK, FlushOnRows, MemoryAhead, GroupsCounted, MemoryCoversOutbox,
              CiphertextsDistinct, SnapshotCoversOutbox
<1> QED
  BY <1>1, <1>2, <1>3, <1>4, <1>5, <1>6, Zenon DEF ReceiptNext

\* flush_pending_read_receipts never uses a position of the sending ratchet twice,
\* and keeps the stored snapshot past the stored ciphertexts, whatever fails and
\* whenever the engine restarts: only a group that a crash inside
\* persist_read_receipt_encryption has torn is excepted.
THEOREM RatchetInvariant == ReceiptSpec => []RatchetInv
<1>1. RRInv => RatchetInv
  BY Zenon DEF RRInv, RatchetInv
<1> QED
  BY <1>1, InitRRInv, NextRRInv, PTL DEF ReceiptSpec
================================================================================
