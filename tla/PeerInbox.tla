------------------------------ MODULE PeerInbox ------------------------------
(***************************************************************************)
(* The receiving side of one relationship: what an engine does with the    *)
(* application envelopes of one contact.                                   *)
(*                                                                         *)
(* An envelope that arrives on an authenticated peer session is stored in  *)
(* `inbound_peer_envelopes`, acknowledged as Persisted, decrypted and      *)
(* applied in one transaction, and only then marked and acknowledged as    *)
(* Delivered or Rejected.  Those are separate durable steps and the        *)
(* process may be killed between any two of them; at the next start the    *)
(* engine replays what it finds.  An envelope that arrives through the     *)
(* relay has no inbox row.  One that arrives before the MLS Welcome is     *)
(* deferred and replayed when the Welcome is committed.                    *)
(*                                                                         *)
(* MLS decrypts a ciphertext once: the ratchet secret is gone when the     *)
(* snapshot of the conversation has been saved (`spent`).  What makes a    *)
(* replay harmless is the record in `received_envelopes`, which some kinds *)
(* of payload write in the same transaction and others do not write.       *)
(***************************************************************************)
EXTENDS Naturals, FiniteSets

CONSTANTS
    Messages,       \* envelopes that carry a chat message
    Receipts,       \* envelopes that carry a delivery receipt
    Capabilities,   \* capability offers, their acknowledgements and revocations
    Transients,     \* typing, presence and read receipts
    Relayed,        \* the envelopes that travel through the relay
    Undecryptable,  \* the envelopes MLS cannot decrypt at all
    MaxCrashes      \* bound on the number of times the process is killed

Envelopes == Messages \cup Receipts \cup Capabilities \cup Transients

\* An envelope carries one payload.
ASSUME EnvelopesAssumption ==
    /\ Relayed \subseteq Envelopes
    /\ Undecryptable \subseteq Envelopes
    /\ Transients \cap (Messages \cup Receipts \cup Capabilities) = {}
    /\ Receipts \cap (Messages \cup Capabilities) = {}
    /\ MaxCrashes \in Nat

VARIABLES
    inbox,     \* state of the row of inbound_peer_envelopes
    deferred,  \* rows of pending_application_envelopes
    received,  \* rows of received_envelopes
    spent,     \* envelopes the saved MLS snapshot cannot decrypt again
    message,   \* the visible message of a Messages envelope
    receipt,   \* the outgoing delivery receipt of a message
    handed,    \* receipts handed to the peer transport by this process
    contact,   \* welcomed: the MLS conversation exists; accepts: not blocked by
               \* the user; blocked: member of crypto_blocked_peers
    phase,     \* which loop the engine is in
    at,        \* how far the engine is with an envelope
    acks,      \* acknowledgements ever sent for an envelope
    crashes

durable == <<inbox, deferred, received, spent, message, receipt>>
vars == <<durable, handed, contact, phase, at, acks, crashes>>

Recorded == Messages \cup Receipts \cup Capabilities
RowState == {"none", "PERSISTED", "DELIVERED", "REJECTED"}
AckKind == {"Persisted", "Delivered", "Rejected"}
\* "dead": PENDING with next_attempt_at = i64::MAX.
ReceiptState == {"none", "PENDING", "SENT", "DELIVERED", "dead"}
OpenReceipt == {"PENDING", "SENT"}
Outcome == {"committed", "failed", "undecryptable"}
Position == {"idle", "waiting", "stored"} \cup Outcome

Init ==
    /\ inbox = [e \in Envelopes |-> "none"]
    /\ deferred = {}
    /\ received = {}
    /\ spent = {}
    /\ message = [m \in Messages |-> "absent"]
    /\ receipt = [m \in Messages |-> "none"]
    /\ handed = {}
    /\ contact = [welcomed |-> FALSE, accepts |-> TRUE, blocked |-> FALSE]
    /\ phase = "run"
    /\ at = [e \in Envelopes |-> "idle"]
    /\ acks = [e \in Envelopes |-> {}]
    /\ crashes = 0

Idle == \A e \in Envelopes : at[e] = "idle"
NoneBusy == \A e \in Envelopes : at[e] \in {"idle", "waiting"}

-----------------------------------------------------------------------------
(* Delivery receipts going out                                             *)

\* What a flush makes of one receipt: untouched when it is not due, SENT when
\* it was encrypted and handed to the transport, and requeued or given up when
\* the transport refused it, as it does for a blocked peer.
flush_receipt(r) ==
    IF r \in OpenReceipt
    THEN {r, "PENDING", "dead"} \cup (IF contact.blocked THEN {} ELSE {"SENT"})
    ELSE {r}

flush_pending_receipt_effects(r) ==
    /\ receipt' \in {f \in [Messages -> ReceiptState] : \A m \in Messages : f[m] \in flush_receipt(r[m])}
    /\ handed' = handed \cup {m \in Messages : receipt'[m] = "SENT"}

requeue_after_disconnect ==
    [m \in Messages |-> IF receipt[m] = "SENT" THEN "PENDING" ELSE receipt[m]]

-----------------------------------------------------------------------------
(* Applying one envelope                                                   *)

decrypt(e) == e \notin Undecryptable \cup spent

\* Seeded fault: only receipts are recorded.
Faulty_put_received_envelope(e) == received' = received \cup ({e} \cap Receipts)

put_received_envelope(e) == received' = received \cup ({e} \cap Recorded)

Shows(e) == e \in Messages /\ contact.accepts

\* A message id that is stored already keeps its row.
receive_message_reply(e) == [message EXCEPT ![e] = "visible"]

\* Seeded fault: neither the record nor the snapshot is saved.
Faulty_CommitUnrecorded(e) ==
    /\ decrypt(e)
    /\ message' = IF Shows(e) THEN receive_message_reply(e) ELSE message
    /\ flush_pending_receipt_effects(IF Shows(e) THEN [receipt EXCEPT ![e] = "PENDING"] ELSE receipt)
    /\ UNCHANGED <<received, spent>>

\* The transaction of the decrypted payload, and the flush after the commit.
Commit(e) ==
    /\ decrypt(e)
    /\ put_received_envelope(e)
    /\ spent' = spent \cup {e}
    /\ message' = IF Shows(e) THEN receive_message_reply(e) ELSE message
    /\ flush_pending_receipt_effects(IF Shows(e) THEN [receipt EXCEPT ![e] = "PENDING"] ELSE receipt)

\* The outcome is "failed" when the payload decrypts but its transaction is
\* rolled back: a delivery receipt the message rules refuse.
Apply(e, outcome) ==
    \/ /\ e \in received
       /\ outcome = "committed"
       /\ flush_pending_receipt_effects(receipt)
       /\ UNCHANGED <<received, spent, message>>
    \/ /\ e \notin received
       /\ outcome = "committed"
       /\ Commit(e)
    \/ /\ e \notin received
       /\ outcome = IF decrypt(e) THEN "failed" ELSE "undecryptable"
       /\ decrypt(e) => e \in Receipts
       /\ UNCHANGED <<received, spent, message, receipt, handed>>

\* The envelopes that wait for the Welcome.
pending_application_envelopes == deferred
put_pending_application_envelope(e) == deferred' = deferred \cup {e}
remove_pending_application_envelope(e) == deferred' = deferred \ {e}

\* handle_application_envelope while the conversation exists.
handle_application_envelope(e, outcome) ==
    /\ contact.welcomed
    /\ Apply(e, outcome)

\* ... and before it does.
DeferEnvelope(e) ==
    /\ ~contact.welcomed
    /\ e \notin received
    /\ put_pending_application_envelope(e)

-----------------------------------------------------------------------------
(* Envelopes of a peer session                                             *)

\* Seeded fault: the envelope is acknowledged without being stored.
Faulty_store_inbound_peer_envelope(e) == inbox' = inbox

store_inbound_peer_envelope(e) ==
    inbox' = IF inbox[e] = "none" THEN [inbox EXCEPT ![e] = "PERSISTED"] ELSE inbox

\* PeerTransportEvent::InboundMessage up to the Persisted acknowledgement; the
\* peer may send an envelope any number of times.  A session is only accepted
\* from a contact, and a contact is created together with its conversation.
InboundMessage(e) ==
    /\ phase = "run" /\ Idle
    /\ contact.welcomed
    /\ e \in Envelopes \ Relayed
    /\ store_inbound_peer_envelope(e)
    /\ IF inbox[e] = "DELIVERED"
       THEN /\ acks' = [acks EXCEPT ![e] = @ \cup {"Persisted", "Delivered"}]
            /\ UNCHANGED at
       ELSE /\ acks' = [acks EXCEPT ![e] = @ \cup {"Persisted"}]
            /\ at' = [at EXCEPT ![e] = "stored"]
    /\ UNCHANGED <<deferred, received, spent, message, receipt, handed, contact, phase, crashes>>

\* The transaction of an envelope that was just stored, or of the next one in
\* the replay loop the engine is in.
HandleEnvelope(e, outcome) ==
    /\ at[e] = "stored" \/ (at[e] = "waiting" /\ NoneBusy)
    /\ handle_application_envelope(e, outcome)
    /\ at' = [at EXCEPT ![e] = outcome]
    /\ UNCHANGED <<inbox, deferred, contact, phase, acks, crashes>>

complete_inbound_peer_envelope(e) == inbox' = [inbox EXCEPT ![e] = "DELIVERED"]
reject_inbound_peer_envelope(e) == inbox' = [inbox EXCEPT ![e] = "REJECTED"]

CompleteInbound(e) ==
    /\ phase = "run" /\ at[e] = "committed"
    /\ complete_inbound_peer_envelope(e)
    /\ acks' = [acks EXCEPT ![e] = @ \cup {"Delivered"}]
    /\ at' = [at EXCEPT ![e] = "idle"]
    /\ UNCHANGED <<deferred, received, spent, message, receipt, handed, contact, phase, crashes>>

\* Only an error that is_cryptographic_inbound_error recognises blocks the peer.
RejectInbound(e) ==
    /\ phase = "run" /\ at[e] \in {"failed", "undecryptable"}
    /\ reject_inbound_peer_envelope(e)
    /\ acks' = [acks EXCEPT ![e] = @ \cup {"Rejected"}]
    /\ contact' = [contact EXCEPT !.blocked = @ \/ at[e] = "undecryptable"]
    /\ at' = [at EXCEPT ![e] = "idle"]
    /\ UNCHANGED <<deferred, received, spent, message, receipt, handed, phase, crashes>>

-----------------------------------------------------------------------------
(* Envelopes of the relay, and the Welcome                                 *)

RelayEnvelopeDeferred(e) ==
    /\ phase = "run" /\ Idle
    /\ e \in Relayed
    /\ DeferEnvelope(e)
    /\ UNCHANGED <<inbox, received, spent, message, receipt, handed, contact, phase, at, acks, crashes>>

RelayEnvelopeApplied(e, outcome) ==
    /\ phase = "run" /\ Idle
    /\ e \in Relayed
    /\ handle_application_envelope(e, outcome)
    /\ UNCHANGED <<inbox, deferred, contact, phase, at, acks, crashes>>

Loop(S) == [e \in Envelopes |-> IF e \in S THEN "waiting" ELSE "idle"]

\* The transaction that creates contact and conversation; the replay follows.
commit_contact_with_conversation ==
    /\ phase = "run" /\ Idle
    /\ ~contact.welcomed
    /\ contact' = [contact EXCEPT !.welcomed = TRUE, !.blocked = FALSE]
    /\ phase' = "welcome"
    /\ at' = Loop(pending_application_envelopes)
    /\ UNCHANGED <<durable, handed, acks, crashes>>

\* drain_pending_pre_welcome after handling one deferred envelope.
DrainRemove(e) ==
    /\ phase \in {"welcome", "startup"} /\ at[e] = "committed"
    /\ remove_pending_application_envelope(e)
    /\ at' = [at EXCEPT ![e] = "idle"]
    /\ UNCHANGED <<inbox, received, spent, message, receipt, handed, contact, phase, acks, crashes>>

DrainKeep(e) ==
    /\ phase \in {"welcome", "startup"} /\ at[e] \in {"failed", "undecryptable"}
    /\ at' = [at EXCEPT ![e] = "idle"]
    /\ UNCHANGED <<durable, handed, contact, phase, acks, crashes>>

-----------------------------------------------------------------------------
(* Crash and recovery                                                      *)

rejected_inbound_peer_senders == \E e \in Envelopes : inbox[e] = "REJECTED"

\* Seeded fault: deferred envelopes are only replayed when the Welcome is committed.
Faulty_Startup ==
    /\ phase' = "startup"
    /\ at' = Loop({})

\* run() before its input loop: every contact's deferred envelopes, ...
Startup ==
    /\ phase' = "startup"
    /\ at' = Loop(IF contact.welcomed THEN pending_application_envelopes ELSE {})

\* The process is killed at any point and started again.
Restart ==
    /\ crashes < MaxCrashes
    /\ crashes' = crashes + 1
    /\ receipt' = requeue_after_disconnect
    /\ handed' = {}
    /\ contact' = [contact EXCEPT !.blocked = rejected_inbound_peer_senders]
    /\ Startup
    /\ UNCHANGED <<inbox, deferred, received, spent, message, acks>>

\* ... then recover_pending_inbound_peer_envelopes ...
pending_inbound_peer_envelopes == {e \in Envelopes : inbox[e] = "PERSISTED"}

\* Seeded fault: stored envelopes are not replayed.
Faulty_BeginRecovery ==
    /\ phase = "startup" /\ Idle
    /\ phase' = "recover"
    /\ at' = Loop({})
    /\ UNCHANGED <<durable, handed, contact, acks, crashes>>

BeginRecovery ==
    /\ phase = "startup" /\ Idle
    /\ phase' = "recover"
    /\ at' = Loop(pending_inbound_peer_envelopes)
    /\ UNCHANGED <<durable, handed, contact, acks, crashes>>

RecoverComplete(e) ==
    /\ phase = "recover" /\ at[e] = "committed"
    /\ complete_inbound_peer_envelope(e)
    /\ at' = [at EXCEPT ![e] = "idle"]
    /\ UNCHANGED <<deferred, received, spent, message, receipt, handed, contact, phase, acks, crashes>>

\* ... which blocks the peer whatever the error was ...
RecoverReject(e) ==
    /\ phase = "recover" /\ at[e] \in {"failed", "undecryptable"}
    /\ reject_inbound_peer_envelope(e)
    /\ contact' = [contact EXCEPT !.blocked = TRUE]
    /\ at' = [at EXCEPT ![e] = "idle"]
    /\ UNCHANGED <<deferred, received, spent, message, receipt, handed, phase, acks, crashes>>

\* ... and then the input loop.
EnterInputLoop ==
    /\ phase \in {"recover", "welcome"} /\ Idle
    /\ phase' = "run"
    /\ UNCHANGED <<durable, handed, contact, at, acks, crashes>>

-----------------------------------------------------------------------------
(* Other inputs                                                            *)

UnchangedInbound == UNCHANGED <<inbox, deferred, received, spent, phase, at, acks, crashes>>

\* The user deletes a visible message; its receipt and its record stay.
command_delete_message_local(m) ==
    /\ phase = "run" /\ Idle
    /\ message[m] = "visible"
    /\ message' = [message EXCEPT ![m] = "deleted"]
    /\ UnchangedInbound
    /\ UNCHANGED <<receipt, handed, contact>>

set_blocked ==
    /\ phase = "run" /\ Idle
    /\ contact.welcomed
    /\ contact' = [contact EXCEPT !.accepts = ~@]
    /\ UnchangedInbound
    /\ UNCHANGED <<message, receipt, handed>>

\* RetryKind::Receipt, and Connect.
ReceiptFlush ==
    /\ phase = "run" /\ Idle
    /\ flush_pending_receipt_effects(receipt)
    /\ UnchangedInbound
    /\ UNCHANGED <<message, contact>>

\* The peer acknowledged the receipt in any way, ...
complete_delivery_receipt(m) ==
    /\ phase = "run" /\ Idle
    /\ m \in handed
    /\ receipt' = [receipt EXCEPT ![m] = "DELIVERED"]
    /\ UnchangedInbound
    /\ UNCHANGED <<message, handed, contact>>

\* ... or its session failed.
handle_failed_peer_receipt_delivery(m) ==
    /\ phase = "run" /\ Idle
    /\ m \in handed
    /\ \E r \in {"PENDING", "dead"} : receipt' = [receipt EXCEPT ![m] = r]
    /\ UnchangedInbound
    /\ UNCHANGED <<message, handed, contact>>

TransportLost ==
    /\ phase = "run" /\ Idle
    /\ receipt' = requeue_after_disconnect
    /\ UnchangedInbound
    /\ UNCHANGED <<message, handed, contact>>

-----------------------------------------------------------------------------
(* The specification                                                       *)

\* What the engine does by itself once it has started with something.
EngineStep ==
    \/ \E e \in Envelopes : \/ \E o \in Outcome : HandleEnvelope(e, o)
                            \/ CompleteInbound(e)
                            \/ RejectInbound(e)
                            \/ DrainRemove(e)
                            \/ DrainKeep(e)
                            \/ RecoverComplete(e)
                            \/ RecoverReject(e)
    \/ BeginRecovery
    \/ EnterInputLoop

Next ==
    \/ EngineStep
    \/ \E e \in Envelopes : \/ InboundMessage(e)
                            \/ RelayEnvelopeDeferred(e)
                            \/ \E o \in Outcome : RelayEnvelopeApplied(e, o)
    \/ \E m \in Messages : \/ command_delete_message_local(m)
                           \/ complete_delivery_receipt(m)
                           \/ handle_failed_peer_receipt_delivery(m)
    \/ commit_contact_with_conversation
    \/ set_blocked
    \/ ReceiptFlush
    \/ TransportLost
    \/ Restart

Spec == Init /\ [][Next]_vars

\* The actor runs a handler to its end unless the process is killed.
FairSpec == Spec /\ WF_vars(EngineStep)

-----------------------------------------------------------------------------
(* Properties                                                              *)

\* Every variable has its type, and the engine works on one envelope at a time:
\* the actor is a single task (actor/run.rs).
TypeOK ==
    /\ inbox \in [Envelopes -> RowState]
    /\ deferred \subseteq Envelopes
    /\ received \subseteq Envelopes
    /\ spent \subseteq Envelopes
    /\ message \in [Messages -> {"absent", "visible", "deleted"}]
    /\ receipt \in [Messages -> ReceiptState]
    /\ handed \subseteq Messages
    /\ contact \in [welcomed : BOOLEAN, accepts : BOOLEAN, blocked : BOOLEAN]
    /\ phase \in {"run", "welcome", "startup", "recover"}
    /\ at \in [Envelopes -> Position]
    /\ acks \in [Envelopes -> SUBSET AckKind]
    /\ crashes \in 0..MaxCrashes
    /\ \A e, f \in Envelopes : at[e] \notin {"idle", "waiting"} /\ at[f] \notin {"idle", "waiting"} => e = f

\* An acknowledgement is a promise about durable state: Persisted means the
\* envelope survives a crash, Delivered that its effect was committed
\* (PeerTransportEvent::InboundMessage acknowledges after the write).
AckedIsDurable ==
    \A e \in Envelopes :
        /\ "Persisted" \in acks[e] => inbox[e] # "none"
        /\ "Delivered" \in acks[e] => e \in spent

\* A message that decrypts is never quarantined, wherever the process was
\* killed while it was being applied (recover_pending_inbound_peer_envelopes
\* replays it and finds its received_envelopes record).
MessageNeverQuarantined ==
    \A e \in (Messages \cup Capabilities) \ Undecryptable : inbox[e] # "REJECTED"

\* The receipt of a message exists exactly when the message was shown: it is
\* written in the transaction that shows it, and not for a contact the user
\* has blocked (application_envelope.rs, Message).
ReceiptIffShown == \A m \in Messages : receipt[m] # "none" <=> message[m] # "absent"

\* The promises of the receiver, in well-typed states: to the sender by an
\* acknowledgement, to the other user by a delivery receipt.
InboxInv == TypeOK /\ AckedIsDurable /\ ReceiptIffShown

\* Once the engine takes inputs after the Welcome, every recorded envelope that
\* decrypts has left the deferred table, also when the process was killed
\* between the Welcome and the replay (drain_pending_pre_welcome).  A receipt
\* may have been refused.
DeferredReplayed ==
    phase = "run" /\ Idle /\ contact.welcomed
        => deferred \cap (Messages \cup Capabilities) \subseteq Undecryptable

\* A message the user deleted does not come back when its envelope arrives
\* again (received_envelope check of handle_application_envelope).
NoResurrection ==
    [][\A m \in Messages : message[m] = "deleted" => message'[m] = "deleted"]_vars

\* A row that is PERSISTED, so already acknowledged, is eventually applied or
\* rejected; after a crash the startup recovery does it.
PersistedIsResolved ==
    \A e \in Envelopes : inbox[e] = "PERSISTED" ~> inbox[e] \in {"DELIVERED", "REJECTED"}
=============================================================================
