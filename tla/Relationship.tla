----------------------------- MODULE Relationship -----------------------------
(***************************************************************************)
(* One installation's side of the relationship with one contact: pairing,  *)
(* removal by the user, removal announced by the contact, and pairing      *)
(* again.                                                                  *)
(*                                                                         *)
(* A removal leaves a tombstone.  Frames of the old relationship may still *)
(* arrive afterwards (an endpoint, a notice, a late retry of the command), *)
(* and the process may be killed at any time, upon which everything kept   *)
(* in memory is rebuilt from the tables.  The tombstone has to keep the    *)
(* relationship removed through all of that, and only a new verified       *)
(* pairing may lift it.                                                    *)
(*                                                                         *)
(* Every pairing creates a new MLS group; a group is its ordinal, and the  *)
(* position of its sending ratchet is the number of ciphertexts made.  The *)
(* signed steps of the pairing itself are the module Pairing; the listener *)
(* and the capabilities are PeerEndpoints; leases and retries are          *)
(* MessageOutbox.                                                          *)
(***************************************************************************)
EXTENDS Naturals, FiniteSets

CONSTANTS
    Commands,     \* command ids of RequestRelationshipRemoval; each mints the
                  \* removal_id of the tombstone it writes
    Notices,      \* removals the contact announces
    NoticeGroup,  \* the group a notice is encrypted in
    NoticeEpoch,  \* the relationship_epoch a notice carries, 0 when absent
    Messages,
    MaxGroups,    \* bound on pairings
    MaxSequence,  \* bound on the contact's endpoint sequence
    MaxSends,     \* bound on ciphertexts in one group
    RELATIONSHIP_REMOVAL_MAX_ATTEMPTS

ASSUME RelationshipAssumption ==
    /\ Commands \cap Notices = {} /\ "none" \notin Commands \cup Notices
    /\ NoticeGroup \in [Notices -> 1 .. MaxGroups]
    /\ NoticeEpoch \in [Notices -> Nat]
    \* The contact's own removal deletes its group: one notice for each.
    /\ \A m, n \in Notices : NoticeGroup[m] = NoticeGroup[n] => m = n
    /\ RELATIONSHIP_REMOVAL_MAX_ATTEMPTS \in Nat \ {0}
    /\ MaxGroups \in Nat /\ MaxSequence \in Nat /\ MaxSends \in Nat

VARIABLES
    contact,       \* row of contacts: none, open, or blocked
    boundary,      \* relationship_boundaries.relationship_epoch
    tombstone,     \* row of relationship_tombstones
    mls,           \* row of conversation_mls
    conversation,  \* the same group as held by the running process
    pairings,      \* groups created so far, and whether one more is on its way
    endpoint,      \* sequence in contact_peer_endpoints, 0 without a row
    bootstrap,     \* sequence in pending_peer_endpoint_inbox
    message,       \* state and the group of the stored wire_ciphertext
    leased,        \* rows of outbound_deliveries
    received,      \* notices recorded in received_envelopes
    deferred,      \* notices kept in pending_application_envelopes
    removals,      \* rows of relationship_removal_outbox
    acks,          \* rows of relationship_removal_ack_outbox
    completed      \* removal operations in state Completed

tables == <<contact, boundary, tombstone, mls, endpoint, bootstrap, message,
            leased, received, deferred, removals, acks, completed>>
vars == <<tables, conversation, pairings>>

NoGroup == [group |-> 0, sent |-> 0]
NoTombstone == [id |-> "none", epoch |-> 0]
NoRow == [state |-> "none", epoch |-> 0, attempts |-> 0]
Unwritten == [state |-> "absent", wire |-> 0]

Ids == Commands \cup Notices
Removed == tombstone # NoTombstone
\* The tombstone in force was written by the user's own removal.
RemovedHere == tombstone.id \in Commands
Max(a, b) == IF a > b THEN a ELSE b

Init ==
    /\ contact = "none"
    /\ boundary = 0
    /\ tombstone = NoTombstone
    /\ mls = NoGroup
    /\ conversation = NoGroup
    /\ pairings = [made |-> 0, open |-> FALSE]
    /\ endpoint = 0
    /\ bootstrap = 0
    /\ message = [m \in Messages |-> Unwritten]
    /\ leased = {}
    /\ received = {}
    /\ deferred = {}
    /\ removals = [c \in Commands |-> NoRow]
    /\ acks = [n \in Notices |-> NoRow]
    /\ completed = {}

-----------------------------------------------------------------------------
(* What the tables accept                                                  *)

\* Inside a runtime transaction the snapshot is dropped under a tombstone.
put_conversation_mls_snapshot(row, g, tomb) == IF tomb = NoTombstone THEN g ELSE row

\* Seeded fault: an endpoint is stored whatever the tombstone says.
Faulty_EndpointUnguarded(sequence) == Max(endpoint, sequence)

put_contact_peer_endpoint(sequence) == IF Removed THEN endpoint ELSE Max(endpoint, sequence)

put_pending_peer_endpoint_inbox(sequence) == Max(bootstrap, sequence)

\* The successor check and the table both ask for a larger sequence.
apply_peer_endpoint(sequence) == IF sequence > endpoint THEN put_contact_peer_endpoint(sequence) ELSE endpoint

persist_outbound_encryption(g) == put_conversation_mls_snapshot(mls, g, tombstone)

put_relationship_removal_ack(notices) ==
    [n \in Notices |-> IF n \in notices /\ acks[n] = NoRow THEN [NoRow EXCEPT !.state = "PENDING"] ELSE acks[n]]

put_received_envelope(notices) == received \cup notices

Pending(m) == message[m].state = "pending"

fail_pending_messages == [m \in Messages |-> IF Pending(m) THEN [message[m] EXCEPT !.state = "failed"] ELSE message[m]]

\* Both kinds of tombstone keep the larger epoch and its removal_id.
UpsertTombstone(id, epoch) ==
    [id |-> IF epoch >= tombstone.epoch THEN id ELSE tombstone.id, epoch |-> Max(tombstone.epoch, epoch)]

Stale(epoch) == Removed /\ epoch < tombstone.epoch

current_relationship_epoch == boundary

MarkDispatched(row, dispatched) ==
    IF row.state \notin {"PENDING", "DISPATCHED", "WAITING_FOR_ACK"} THEN row
    ELSE [row EXCEPT !.attempts = @ + 1,
                     !.state = IF row.attempts + 1 >= RELATIONSHIP_REMOVAL_MAX_ATTEMPTS THEN "DEAD_LETTER" ELSE dispatched]

mark_relationship_removal_dispatched(row) == MarkDispatched(row, "WAITING_FOR_ACK")
mark_relationship_removal_ack_dispatched(row) == MarkDispatched(row, "DISPATCHED")

-----------------------------------------------------------------------------
(* Pairing                                                                 *)

\* Both sides refuse to pair with a contact that is not blocked.
StartPairing ==
    /\ contact # "open"
    /\ ~pairings.open
    /\ pairings.made < MaxGroups
    /\ pairings' = [pairings EXCEPT !.open = TRUE]
    /\ UNCHANGED <<tables, conversation>>

\* Rejected, cancelled or expired.
PairingEnds ==
    /\ pairings.open
    /\ pairings' = [pairings EXCEPT !.open = FALSE]
    /\ UNCHANGED <<tables, conversation>>

\* Seeded fault: the tombstone's epoch is forgotten.
Faulty_BoundaryOnly == boundary + 1

begin_verified_relationship == Max(boundary, tombstone.epoch) + 1

\* Seeded fault: the snapshot is stored before the tombstone is deleted.
Faulty_SnapshotFirst(g) == put_conversation_mls_snapshot(mls, g, tombstone)

NewSnapshot(g) == put_conversation_mls_snapshot(mls, g, NoTombstone)

\* The bootstrap that waited for the contact is applied and its row removed.
apply_pending_peer_endpoint == Max(endpoint, bootstrap)

\* The transaction of commit_contact_with_conversation.
CommitContact ==
    LET g == [group |-> pairings.made + 1, sent |-> 0] IN
    /\ pairings.open
    /\ pairings' = [made |-> g.group, open |-> FALSE]
    /\ boundary' = begin_verified_relationship
    /\ mls' = NewSnapshot(g)
    /\ conversation' = g
    /\ UNCHANGED <<removals, completed>>

\* After the commit the deferred bootstrap is applied, the envelopes deferred
\* until this Welcome are replayed, and the endpoint signed into the invite or
\* Welcome is stored.  A notice of the new group among the deferred envelopes
\* removes the relationship that was just created.
commit_contact_with_conversation(carried) ==
    LET notice == {n \in deferred : NoticeGroup[n] = pairings.made + 1}
        known == apply_pending_peer_endpoint
    IN  /\ CommitContact
        /\ bootstrap' = 0
        /\ deferred' = deferred \ notice
        /\ received' = put_received_envelope(notice)
        /\ acks' = put_relationship_removal_ack(notice)
        /\ IF notice = {}
           THEN /\ contact' = "open"
                /\ tombstone' = NoTombstone
                /\ endpoint' = Max(known, carried)
                /\ UNCHANGED <<message, leased>>
           ELSE /\ contact' = "blocked"
                /\ tombstone' \in {[id |-> n, epoch |-> NoticeEpoch[n]] : n \in notice}
                /\ endpoint' = known
                /\ message' = fail_pending_messages
                /\ leased' = {}

\* The process is killed after the commit: the group comes back from its
\* snapshot, and what follows the commit never happens.
CommitThenCrash ==
    /\ CommitContact
    /\ contact' = "open"
    /\ tombstone' = NoTombstone
    /\ UNCHANGED <<endpoint, bootstrap, deferred, received, acks, message, leased>>

-----------------------------------------------------------------------------
(* Removal                                                                 *)

remove_relationship_with_id(c, epoch, preserve) ==
    IF Stale(epoch) THEN UNCHANGED <<tombstone, removals, contact, message, leased, mls, endpoint, bootstrap, received>>
    ELSE /\ tombstone' = UpsertTombstone(c, epoch)
         /\ removals' = [removals EXCEPT ![c] = [state |-> "PENDING", epoch |-> epoch, attempts |-> 0]]
         /\ contact' = "blocked"
         /\ message' = IF preserve THEN fail_pending_messages ELSE [m \in Messages |-> Unwritten]
         /\ leased' = {}
         /\ mls' = NoGroup
         /\ endpoint' = 0
         /\ bootstrap' = 0
         /\ received' = {}

\* Seeded fault: the operation is completed outside the transaction, and never.
Faulty_OperationLeftRunning(c, preserve) ==
    /\ remove_relationship_with_id(c, current_relationship_epoch + 1, preserve)
    /\ UNCHANGED <<boundary, deferred, acks, completed>>

\* A command whose operation is Completed (a retry that outlived its replay
\* record) changes no table.
request(c, preserve) ==
    IF c \in completed THEN UNCHANGED tables
    ELSE /\ remove_relationship_with_id(c, current_relationship_epoch + 1, preserve)
         /\ completed' = completed \cup {c}
         /\ UNCHANGED <<boundary, deferred, acks>>

\* The memory is cleared whatever the transaction did.
command_request_relationship_removal(c, preserve) ==
    /\ contact # "none"
    /\ request(c, preserve)
    /\ conversation' = NoGroup
    /\ UNCHANGED pairings

\* The group and the endpoint of the contact stay.
apply_remote_relationship_removal(n) ==
    IF Stale(NoticeEpoch[n]) THEN UNCHANGED <<tombstone, contact, message, leased>>
    ELSE /\ tombstone' = UpsertTombstone(n, NoticeEpoch[n])
         /\ contact' = "blocked"
         /\ message' = fail_pending_messages
         /\ leased' = {}

\* The contact may be one group ahead: it commits a pairing first.
Announced(n) ==
    \/ NoticeGroup[n] <= pairings.made
    \/ pairings.open /\ NoticeGroup[n] = pairings.made + 1

\* A notice of the group in memory decrypts.  Its acknowledgement is stored
\* even when its epoch is stale.
RelationshipRemoved(n) ==
    /\ Announced(n)
    /\ n \notin received
    /\ conversation.group = NoticeGroup[n]
    /\ apply_remote_relationship_removal(n)
    /\ acks' = put_relationship_removal_ack({n})
    /\ received' = put_received_envelope({n})
    /\ UNCHANGED <<boundary, mls, conversation, pairings, endpoint, bootstrap, deferred, removals, completed>>

\* Without a group the envelope waits for a Welcome.
DeferNotice(n) ==
    /\ Announced(n)
    /\ n \notin received
    /\ conversation = NoGroup
    /\ deferred' = deferred \cup {n}
    /\ UNCHANGED <<contact, boundary, tombstone, mls, conversation, pairings, endpoint, bootstrap, message,
                   leased, received, removals, acks, completed>>

-----------------------------------------------------------------------------
(* What goes on around a removal                                           *)

PeerEndpointBootstrap(sequence) ==
    /\ IF contact = "none"
       THEN bootstrap' = put_pending_peer_endpoint_inbox(sequence) /\ UNCHANGED endpoint
       ELSE endpoint' = apply_peer_endpoint(sequence) /\ UNCHANGED bootstrap
    /\ UNCHANGED <<contact, boundary, tombstone, mls, conversation, pairings, message, leased, received,
                   deferred, removals, acks, completed>>

CanEncrypt == conversation # NoGroup /\ conversation.sent < MaxSends
Encrypted == [conversation EXCEPT !.sent = @ + 1]

\* A capability offer.  The snapshot is written outside a runtime transaction,
\* where no tombstone is consulted; when the transport refuses the frame, group
\* and row return to the position before it.
send_ephemeral_payload(handed) ==
    /\ CanEncrypt
    /\ conversation' = IF handed THEN Encrypted ELSE conversation
    /\ mls' = conversation'
    /\ UNCHANGED <<contact, boundary, tombstone, pairings, endpoint, bootstrap, message, leased, received,
                   deferred, removals, acks, completed>>

send_message_command(m) ==
    /\ CanEncrypt
    /\ contact = "open"
    /\ message[m] = Unwritten
    /\ message' = [message EXCEPT ![m] = [state |-> "pending", wire |-> conversation.group]]
    /\ leased' = leased \cup {m}
    /\ conversation' = Encrypted
    /\ mls' = persist_outbound_encryption(Encrypted)
    /\ UNCHANGED <<contact, boundary, tombstone, pairings, endpoint, bootstrap, received, deferred, removals,
                   acks, completed>>

\* The stored ciphertext is sent again, whatever group it was made in.
command_retry_message(m) ==
    /\ contact = "open"
    /\ message[m].state = "failed"
    /\ message' = [message EXCEPT ![m].state = "pending"]
    /\ leased' = leased \cup {m}
    /\ UNCHANGED <<contact, boundary, tombstone, mls, conversation, pairings, endpoint, bootstrap, received,
                   deferred, removals, acks, completed>>

MessageAcknowledged(m) ==
    /\ Pending(m)
    /\ message' = [message EXCEPT ![m].state = "sent"]
    /\ leased' = leased \ {m}
    /\ UNCHANGED <<contact, boundary, tombstone, mls, conversation, pairings, endpoint, bootstrap, received,
                   deferred, removals, acks, completed>>

\* Any contact may be blocked or unblocked in its settings, a removed one too.
update_settings(blocked) == contact # "none" /\ contact' = IF blocked THEN "blocked" ELSE "open"

command_update_contact_settings(blocked) ==
    /\ update_settings(blocked)
    /\ UNCHANGED <<boundary, tombstone, mls, conversation, pairings, endpoint, bootstrap, message, leased,
                   received, deferred, removals, acks, completed>>

\* Only the notice the tombstone in force names is due.
due_relationship_removals ==
    {c \in Commands : removals[c].state \in {"PENDING", "DISPATCHED", "WAITING_FOR_ACK"} /\ tombstone.id = c}

\* A notice needs the group to be encrypted in; without it the row stays due.
flush_pending_relationship_removals ==
    LET sent == IF CanEncrypt THEN due_relationship_removals ELSE {} IN
    /\ removals' = [c \in Commands |-> IF c \in sent THEN mark_relationship_removal_dispatched(removals[c]) ELSE removals[c]]
    /\ conversation' = IF sent = {} THEN conversation ELSE Encrypted
    /\ mls' = IF sent = {} THEN mls ELSE Encrypted

due_relationship_removal_acks == {n \in Notices : acks[n].state \in {"PENDING", "DISPATCHED"}}

\* `queued` are the acknowledgements the peer transport took.
flush_pending_relationship_removal_acks(queued) ==
    acks' = [n \in Notices |-> IF n \in queued THEN mark_relationship_removal_ack_dispatched(acks[n]) ELSE acks[n]]

flush_pending_send_effects(queued) ==
    /\ queued \subseteq due_relationship_removal_acks
    /\ flush_pending_relationship_removal_acks(queued)
    /\ flush_pending_relationship_removals
    /\ UNCHANGED <<contact, boundary, tombstone, pairings, endpoint, bootstrap, message, leased, received,
                   deferred, completed>>

\* The contact's transport answers the acknowledgement: one more attempt.
RelationshipRemovalAckAnswered(n) ==
    /\ acks[n].attempts > 0
    /\ acks' = [acks EXCEPT ![n] = mark_relationship_removal_ack_dispatched(@)]
    /\ UNCHANGED <<contact, boundary, tombstone, mls, conversation, pairings, endpoint, bootstrap, message,
                   leased, received, deferred, removals, completed>>

\* The process is killed; at the next start the groups are restored.
Restart ==
    /\ conversation' = mls
    /\ UNCHANGED <<tables, pairings>>

Next ==
    \/ StartPairing
    \/ PairingEnds
    \/ \E carried \in 0 .. MaxSequence : commit_contact_with_conversation(carried)
    \/ CommitThenCrash
    \/ \E c \in Commands, preserve \in BOOLEAN : command_request_relationship_removal(c, preserve)
    \/ \E n \in Notices : RelationshipRemoved(n) \/ DeferNotice(n) \/ RelationshipRemovalAckAnswered(n)
    \/ \E sequence \in 1 .. MaxSequence : PeerEndpointBootstrap(sequence)
    \/ \E handed \in BOOLEAN : send_ephemeral_payload(handed)
    \/ \E m \in Messages : send_message_command(m) \/ command_retry_message(m) \/ MessageAcknowledged(m)
    \/ \E blocked \in BOOLEAN : command_update_contact_settings(blocked)
    \/ \E queued \in SUBSET Notices : flush_pending_send_effects(queued)
    \/ Restart

Spec == Init /\ [][Next]_vars

-----------------------------------------------------------------------------
(* Properties                                                              *)

Group == [group : 0 .. MaxGroups, sent : 0 .. MaxSends]
Row == [state : {"none", "PENDING", "DISPATCHED", "WAITING_FOR_ACK", "DEAD_LETTER"},
        epoch : Nat, attempts : 0 .. RELATIONSHIP_REMOVAL_MAX_ATTEMPTS]

\* Every table and the memory hold values of the shape the code gives them, no
\* attempt counter passes RELATIONSHIP_REMOVAL_MAX_ATTEMPTS, and a message has
\* its row of outbound_deliveries exactly while it is still to be sent, through
\* removals, retries and acknowledgements.
TypeOK ==
    /\ contact \in {"none", "open", "blocked"}
    /\ boundary \in Nat
    /\ tombstone \in [id : Ids \cup {"none"}, epoch : Nat]
    /\ mls \in Group /\ conversation \in Group
    /\ pairings \in [made : 0 .. MaxGroups, open : BOOLEAN]
    /\ endpoint \in 0 .. MaxSequence /\ bootstrap \in 0 .. MaxSequence
    /\ message \in [Messages -> [state : {"absent", "pending", "failed", "sent"}, wire : 0 .. MaxGroups]]
    /\ leased = {m \in Messages : Pending(m)}
    /\ received \subseteq Notices /\ deferred \subseteq Notices
    /\ removals \in [Commands -> Row] /\ acks \in [Notices -> Row]
    /\ completed \subseteq Commands

\* While the tombstone of the user's own removal stands, the relationship stays
\* removed: no MLS group in the database or in memory, and no endpoint to dial,
\* whatever late endpoint, notice, retry or restart comes in between.  Only a
\* committed pairing ends this (the comment on begin_verified_relationship).
RemovedStaysRemoved == RemovedHere => mls = NoGroup /\ conversation = NoGroup /\ endpoint = 0 /\ bootstrap = 0

\* The tombstone of a local removal, its row in relationship_removal_outbox and
\* its completed operation appear together and agree: the row exists under the
\* tombstone's removal_id and announces the tombstone's epoch.
NoticeForTombstone ==
    RemovedHere => /\ removals[tombstone.id].state # "none"
                   /\ removals[tombstone.id].epoch = tombstone.epoch
                   /\ tombstone.id \in completed

\* The tables of a removal are well typed and agree with each other.
RemovalInv == TypeOK /\ NoticeForTombstone

\* Outside a tombstone the saved snapshot is at the position of the group in
\* memory, so that a restart cannot make the group encrypt at a position it has
\* used; and it is the group of the last pairing, never one that was removed.
SnapshotCurrent ==
    ~Removed /\ conversation # NoGroup => mls = conversation /\ mls.group = pairings.made

\* Epochs only advance: the boundary never decreases, a tombstone in force never
\* takes a smaller epoch, and the pairing that lifts a tombstone opens an epoch
\* beyond it, so that a removal of the old relationship stays recognisable.
EpochsAdvance ==
    [][/\ boundary' >= boundary
       /\ Removed /\ tombstone' # NoTombstone /\ boundary' = boundary => tombstone'.epoch >= tombstone.epoch
       /\ boundary' # boundary => boundary' > tombstone.epoch]_vars
=============================================================================
