----------------------------- MODULE EngineProofs -----------------------------
(***************************************************************************)
(* Theorems about two parts of one engine: the relationship with a contact *)
(* (Relationship) and the scheduler of the retries (EngineScheduler).      *)
(*                                                                         *)
(* Relationship, for any removals, notices, messages and bounds. The       *)
(* invariant RInv has three parts that hold each other up: the tombstone   *)
(* of a local removal keeps everything of the relationship away, it agrees *)
(* with its notice, and outside a tombstone what is in memory is what was  *)
(* saved. None of them alone survives a restart or a late frame.           *)
(*                                                                         *)
(* EngineScheduler, for any retry kinds, inbox capacity and number of      *)
(* inputs. A timer of the current generation, in the inbox or still in the *)
(* batch of the task, is due: the passing of time makes nothing less due,  *)
(* and every input that could is followed by a new generation. A task      *)
(* whose plan is current sends nothing but such timers, so that the last   *)
(* one it sent before it waits for another generation is still in the      *)
(* inbox.                                                                  *)
(***************************************************************************)
EXTENDS Relationship, EngineScheduler, TLAPS

-----------------------------------------------------------------------------
MlsGroup == [group : Nat, sent : Nat]
RowState == {"none", "PENDING", "DISPATCHED", "WAITING_FOR_ACK", "DEAD_LETTER"}
NoticeRow == [state : RowState, epoch : Nat, attempts : Nat]

\* The types the proofs need, without the bounds of an instance.
Typed ==
    /\ boundary \in Nat
    /\ tombstone \in [id : Ids \cup {"none"}, epoch : Nat]
    /\ mls \in MlsGroup /\ conversation \in MlsGroup
    /\ pairings \in [made : Nat, open : BOOLEAN]
    /\ removals \in [Commands -> NoticeRow]
    /\ deferred \subseteq Notices

\* Without a contact no tombstone is ever written, so that an endpoint kept for
\* a contact to come cannot meet one.
NoContactNoTombstone == contact = "none" => ~Removed

\* A command that was completed clears the memory of a later pairing: the saved
\* group may be ahead of a memory without one, and Restart brings it back.
SavedCurrent ==
    ~Removed => /\ mls # NoGroup => mls.group = pairings.made
                /\ conversation # NoGroup => conversation = mls

\* The inductive invariant.
RInv == Typed /\ NoContactNoTombstone /\ RemovedStaysRemoved /\ NoticeForTombstone /\ SavedCurrent

-----------------------------------------------------------------------------
(* Tombstones                                                              *)

\* A local tombstone is a tombstone, and one of a notice is not local.
LEMMA TombstoneIds ==
    ASSUME Typed
    PROVE  /\ "none" \notin Commands /\ "none" \notin Notices
           /\ \A n \in Notices : n \notin Commands
           /\ RemovedHere => Removed
BY RelationshipAssumption DEF RemovedHere, Removed, NoTombstone

\* A removal that is not stale writes its own tombstone, and the epoch does not
\* decrease.
LEMMA UpsertIs ==
    ASSUME Typed, NEW id \in Ids, NEW epoch \in Nat, ~Stale(epoch)
    PROVE  /\ UpsertTombstone(id, epoch) = [id |-> id, epoch |-> epoch]
           /\ UpsertTombstone(id, epoch) # NoTombstone
           /\ epoch >= tombstone.epoch
<1>1. tombstone.epoch \in Nat
  BY Zenon DEF Typed
<1>2. epoch >= tombstone.epoch
  BY <1>1 DEF Stale, Removed, NoTombstone
<1>3. Max(tombstone.epoch, epoch) = epoch
  BY <1>1, <1>2 DEF Max
<1>4. id # "none"
  BY RelationshipAssumption, Zenon DEF Ids
<1> QED BY <1>2, <1>3, <1>4, Zenon DEF UpsertTombstone, NoTombstone

\* Encrypting keeps the group.
LEMMA EncryptedIs ==
    ASSUME Typed
    PROVE  Encrypted \in MlsGroup /\ Encrypted.group = conversation.group
BY DEF Typed, MlsGroup, Encrypted

-----------------------------------------------------------------------------
(* Steps                                                                   *)

\* A pairing commits a group of its own under no tombstone, or under the
\* tombstone of a notice that waited for it.
LEMMA CommitKeeps ==
    ASSUME RInv, CommitContact, contact' # "none", deferred' \subseteq Notices,
           tombstone' = NoTombstone \/ \E n \in Notices : tombstone' = [id |-> n, epoch |-> NoticeEpoch[n]]
    PROVE  RInv'
<1> DEFINE g == [group |-> pairings.made + 1, sent |-> 0]
<1>1. g \in MlsGroup /\ g.group = pairings.made + 1
  BY DEF RInv, Typed, MlsGroup
<1>2. /\ pairings' = [made |-> g.group, open |-> FALSE]
      /\ boundary' = begin_verified_relationship
      /\ mls' = g /\ conversation' = g
      /\ removals' = removals
  BY Zenon DEF CommitContact, NewSnapshot, put_conversation_mls_snapshot
<1>3. boundary' \in Nat
  <2>1. boundary \in Nat /\ tombstone.epoch \in Nat
    BY Zenon DEF RInv, Typed
  <2> QED BY <1>2, <2>1 DEF begin_verified_relationship, Max
<1>4. tombstone' \in [id : Ids \cup {"none"}, epoch : Nat]
  BY RelationshipAssumption DEF NoTombstone, Ids
<1>5. Typed'
  BY <1>1, <1>2, <1>3, <1>4 DEF RInv, Typed
<1>6. ~RemovedHere'
  BY RelationshipAssumption DEF RemovedHere, NoTombstone
<1>7. SavedCurrent'
  BY <1>1, <1>2, Zenon DEF SavedCurrent
<1> QED BY <1>5, <1>6, <1>7, Zenon DEF RInv, NoContactNoTombstone, RemovedStaysRemoved, NoticeForTombstone

\* The user's removal writes tombstone, notice and operation in one transaction
\* and clears everything else.
LEMMA RemovalKeeps ==
    ASSUME RInv, NEW c \in Commands, NEW preserve \in BOOLEAN,
           command_request_relationship_removal(c, preserve)
    PROVE  RInv'
<1>1. NoGroup \in MlsGroup
  BY Zenon DEF NoGroup, MlsGroup
<1>2. conversation' = NoGroup /\ pairings' = pairings /\ contact # "none" /\ request(c, preserve)
  BY Zenon DEF command_request_relationship_removal
<1>3. CASE c \in completed
  BY <1>1, <1>2, <1>3 DEF request, tables, RInv, Typed, NoContactNoTombstone, RemovedStaysRemoved,
     NoticeForTombstone, SavedCurrent, RemovedHere, Removed
<1>4. CASE c \notin completed /\ Stale(current_relationship_epoch + 1)
  BY <1>1, <1>2, <1>4, Zenon DEF request, remove_relationship_with_id, RInv, Typed, NoContactNoTombstone,
     RemovedStaysRemoved, NoticeForTombstone, SavedCurrent, RemovedHere, Removed
<1>5. CASE c \notin completed /\ ~Stale(current_relationship_epoch + 1)
  <2> DEFINE epoch == boundary + 1
             row == [state |-> "PENDING", epoch |-> epoch, attempts |-> 0]
  <2>1. epoch \in Nat /\ row \in NoticeRow /\ c \in Ids
    BY DEF RInv, Typed, NoticeRow, RowState, Ids
  <2>2. /\ tombstone' = UpsertTombstone(c, epoch)
        /\ removals' = [removals EXCEPT ![c] = row]
        /\ contact' = "blocked" /\ mls' = NoGroup /\ endpoint' = 0 /\ bootstrap' = 0
        /\ completed' = completed \cup {c} /\ boundary' = boundary /\ deferred' = deferred
    BY <1>2, <1>5, Zenon DEF request, remove_relationship_with_id, current_relationship_epoch
  <2>3. tombstone' = [id |-> c, epoch |-> epoch] /\ tombstone' # NoTombstone
    BY <1>5, <2>1, <2>2, UpsertIs, Zenon DEF RInv, current_relationship_epoch
  <2>4. removals' \in [Commands -> NoticeRow] /\ removals'[c] = row
    BY <2>1, <2>2, Zenon DEF RInv, Typed
  <2>5. Typed'
    BY <1>1, <1>2, <2>1, <2>2, <2>3, <2>4 DEF RInv, Typed
  <2> QED BY <1>2, <2>2, <2>3, <2>4, <2>5 DEF RInv, NoContactNoTombstone, RemovedStaysRemoved,
             NoticeForTombstone, SavedCurrent, Removed
<1> QED BY <1>3, <1>4, <1>5, Zenon

\* A notice can be decrypted only while no local removal stands, and its own
\* tombstone is not local.
LEMMA NoticeKeeps ==
    ASSUME RInv, NEW n \in Notices, RelationshipRemoved(n)
    PROVE  RInv'
<1>1. NoticeGroup[n] \in Nat /\ NoticeGroup[n] # 0 /\ NoticeEpoch[n] \in Nat /\ n \in Ids
  BY RelationshipAssumption DEF Ids
<1>2. ~RemovedHere
  BY <1>1 DEF RelationshipRemoved, RInv, RemovedStaysRemoved, NoGroup
<1>3. /\ UNCHANGED <<boundary, mls, conversation, pairings, deferred, removals, completed>>
      /\ apply_remote_relationship_removal(n)
  BY Zenon DEF RelationshipRemoved
<1>4. CASE Stale(NoticeEpoch[n])
  BY <1>2, <1>3, <1>4, Zenon DEF apply_remote_relationship_removal, RInv, Typed, NoContactNoTombstone,
     RemovedStaysRemoved, NoticeForTombstone, SavedCurrent, RemovedHere, Removed
<1>5. CASE ~Stale(NoticeEpoch[n])
  <2>1. tombstone' = UpsertTombstone(n, NoticeEpoch[n]) /\ contact' = "blocked"
    BY <1>3, <1>5, Zenon DEF apply_remote_relationship_removal
  <2>2. tombstone' = [id |-> n, epoch |-> NoticeEpoch[n]] /\ tombstone' # NoTombstone
    BY <1>1, <1>5, <2>1, UpsertIs, Zenon DEF RInv
  <2>3. Typed'
    BY <1>1, <1>3, <2>2, Zenon DEF RInv, Typed
  <2>4. ~RemovedHere'
    BY <2>2, RelationshipAssumption, Zenon DEF RemovedHere
  <2> QED BY <2>1, <2>2, <2>3, <2>4, Zenon DEF RInv, NoContactNoTombstone, RemovedStaysRemoved,
             NoticeForTombstone, SavedCurrent, Removed
<1> QED BY <1>4, <1>5, Zenon

\* A frame can be encrypted only while no local removal stands.
LEMMA EncryptKeeps ==
    ASSUME RInv, CanEncrypt,
           UNCHANGED <<contact, boundary, tombstone, pairings, endpoint, bootstrap, deferred, removals, completed>>,
           conversation' \in {conversation, Encrypted},
           mls' = conversation' \/ (Removed /\ mls' = mls)
    PROVE  RInv'
<1>1. conversation # NoGroup /\ ~RemovedHere
  BY Zenon DEF CanEncrypt, RInv, RemovedStaysRemoved
<1>2. conversation' \in MlsGroup /\ conversation'.group = conversation.group
  BY EncryptedIs, Zenon DEF RInv, Typed
<1>3. Typed'
  BY <1>2, Zenon DEF RInv, Typed
<1>4. SavedCurrent'
  BY <1>1, <1>2, Zenon DEF RInv, SavedCurrent, Removed
<1> QED BY <1>1, <1>3, <1>4, Zenon DEF RInv, NoContactNoTombstone, RemovedStaysRemoved, NoticeForTombstone,
           RemovedHere, Removed

\* The flush dispatches a notice only under its own tombstone, where there is no
\* group to encrypt it in: the rows stay as they are.
LEMMA FlushKeeps ==
    ASSUME RInv, NEW queued, flush_pending_send_effects(queued)
    PROVE  RInv'
<1>1. ~CanEncrypt \/ due_relationship_removals = {}
  BY Zenon DEF RInv, RemovedStaysRemoved, RemovedHere, CanEncrypt, due_relationship_removals
<1>2. UNCHANGED <<contact, boundary, tombstone, pairings, endpoint, bootstrap, deferred, completed, conversation, mls>>
  BY <1>1, Zenon DEF flush_pending_send_effects, flush_pending_relationship_removals
<1>3. removals' = [c \in Commands |-> removals[c]]
  BY <1>1, Zenon DEF flush_pending_send_effects, flush_pending_relationship_removals
<1>4. removals' = removals
  BY <1>3, Zenon DEF RInv, Typed
<1> QED BY <1>2, <1>4, Zenon DEF RInv, Typed, NoContactNoTombstone, RemovedStaysRemoved, NoticeForTombstone,
           SavedCurrent, RemovedHere, Removed

\* Every step keeps the invariant.
LEMMA StepKeeps ==
    ASSUME RInv, [Next]_vars
    PROVE  RInv'
<1> USE DEF tables
<1>1. CASE /\ UNCHANGED <<contact, boundary, tombstone, mls, conversation, pairings, endpoint, bootstrap, removals, completed>>
           /\ deferred' \subseteq Notices
  BY <1>1, Zenon DEF RInv, Typed, NoContactNoTombstone, RemovedStaysRemoved, NoticeForTombstone, SavedCurrent,
     RemovedHere, Removed
<1>2. CASE StartPairing \/ PairingEnds
  <2>1. /\ UNCHANGED <<tables, conversation>>
        /\ pairings'.made = pairings.made /\ pairings' \in [made : Nat, open : BOOLEAN]
    BY <1>2, Zenon DEF StartPairing, PairingEnds, RInv, Typed
  <2> QED BY <2>1, Zenon DEF RInv, Typed, NoContactNoTombstone, RemovedStaysRemoved, NoticeForTombstone,
             SavedCurrent, RemovedHere, Removed
<1>3. ASSUME NEW carried \in 0 .. MaxSequence, commit_contact_with_conversation(carried)
      PROVE  RInv'
  <2>1. /\ CommitContact /\ contact' # "none" /\ deferred' \subseteq Notices
        /\ tombstone' = NoTombstone \/ \E n \in Notices : tombstone' = [id |-> n, epoch |-> NoticeEpoch[n]]
    BY <1>3, Zenon DEF commit_contact_with_conversation, RInv, Typed
  <2> QED BY <2>1, CommitKeeps, Zenon
<1>4. CASE CommitThenCrash
  BY <1>4, CommitKeeps, Zenon DEF CommitThenCrash, RInv, Typed
<1>5. ASSUME NEW c \in Commands, NEW preserve \in BOOLEAN, command_request_relationship_removal(c, preserve)
      PROVE  RInv'
  BY <1>5, RemovalKeeps, Zenon
<1>6. ASSUME NEW n \in Notices, RelationshipRemoved(n) PROVE RInv'
  BY <1>6, NoticeKeeps, Zenon
<1>7. ASSUME NEW n \in Notices, DeferNotice(n) \/ RelationshipRemovalAckAnswered(n) PROVE RInv'
  BY <1>1, <1>7, Zenon DEF DeferNotice, RelationshipRemovalAckAnswered, RInv, Typed
<1>8. ASSUME NEW sequence \in 1 .. MaxSequence, PeerEndpointBootstrap(sequence) PROVE RInv'
  <2>1. UNCHANGED <<contact, boundary, tombstone, mls, conversation, pairings, deferred, removals, completed>>
    BY <1>8, Zenon DEF PeerEndpointBootstrap
  <2>2. Removed => UNCHANGED <<endpoint, bootstrap>>
    BY <1>8, Zenon DEF PeerEndpointBootstrap, apply_peer_endpoint, put_contact_peer_endpoint, RInv, NoContactNoTombstone
  <2>3. RemovedHere => Removed
    BY TombstoneIds, Zenon DEF RInv
  <2> QED BY <2>1, <2>2, <2>3, Zenon DEF RInv, Typed, NoContactNoTombstone, RemovedStaysRemoved,
             NoticeForTombstone, SavedCurrent, RemovedHere, Removed
<1>9. ASSUME NEW handed \in BOOLEAN, send_ephemeral_payload(handed) PROVE RInv'
  <2>1. /\ CanEncrypt
        /\ UNCHANGED <<contact, boundary, tombstone, pairings, endpoint, bootstrap, deferred, removals, completed>>
        /\ conversation' \in {conversation, Encrypted}
    BY <1>9, Zenon DEF send_ephemeral_payload
  <2>2. mls' = conversation'
    BY <1>9, Zenon DEF send_ephemeral_payload
  <2> QED BY <2>1, <2>2, EncryptKeeps, Zenon
<1>10. ASSUME NEW m \in Messages, send_message_command(m) PROVE RInv'
  <2>1. /\ CanEncrypt
        /\ UNCHANGED <<contact, boundary, tombstone, pairings, endpoint, bootstrap, deferred, removals, completed>>
        /\ conversation' \in {conversation, Encrypted}
    BY <1>10, Zenon DEF send_message_command
  <2>2. mls' = conversation' \/ (Removed /\ mls' = mls)
    <3>1. conversation' = Encrypted /\ mls' = IF tombstone = NoTombstone THEN Encrypted ELSE mls
      BY <1>10, Zenon DEF send_message_command, persist_outbound_encryption, put_conversation_mls_snapshot
    <3> QED BY <3>1, Zenon DEF Removed
  <2> QED BY <2>1, <2>2, EncryptKeeps, Zenon
<1>11. ASSUME NEW m \in Messages, command_retry_message(m) \/ MessageAcknowledged(m) PROVE RInv'
  BY <1>1, <1>11, Zenon DEF command_retry_message, MessageAcknowledged, RInv, Typed
<1>12. ASSUME NEW blocked \in BOOLEAN, command_update_contact_settings(blocked) PROVE RInv'
  <2>1. /\ UNCHANGED <<boundary, tombstone, mls, conversation, pairings, endpoint, bootstrap, deferred, removals, completed>>
        /\ contact # "none" /\ contact' # "none"
    BY <1>12, Zenon DEF command_update_contact_settings, update_settings
  <2> QED BY <2>1, Zenon DEF RInv, Typed, NoContactNoTombstone, RemovedStaysRemoved, NoticeForTombstone,
             SavedCurrent, RemovedHere, Removed
<1>13. ASSUME NEW queued \in SUBSET Notices, flush_pending_send_effects(queued) PROVE RInv'
  BY <1>13, FlushKeeps, Zenon
<1>14. CASE Restart
  BY <1>14, Zenon DEF Restart, RInv, Typed, NoContactNoTombstone, RemovedStaysRemoved, NoticeForTombstone,
     SavedCurrent, RemovedHere, Removed
<1>15. CASE UNCHANGED vars
  BY <1>1, <1>15, Zenon DEF vars, RInv, Typed
<1> QED BY <1>2, <1>3, <1>4, <1>5, <1>6, <1>7, <1>8, <1>9, <1>10, <1>11, <1>12, <1>13, <1>14, <1>15, Zenon DEF Next

-----------------------------------------------------------------------------
(* Rows, attempts and leases                                               *)

\* A row still to be dispatched has an attempt left: without this the counter of
\* the last one could pass RELATIONSHIP_REMOVAL_MAX_ATTEMPTS.
Live == {"PENDING", "DISPATCHED", "WAITING_FOR_ACK"}
LiveRow == {r \in Row : r.state \in Live => r.attempts < RELATIONSHIP_REMOVAL_MAX_ATTEMPTS}
AttemptsLeft == removals \in [Commands -> LiveRow] /\ acks \in [Notices -> LiveRow]

\* A pairing on its way has a group left, and what the tables hold was made by a
\* pairing that was committed.
GroupsLeft == pairings.open => pairings.made < MaxGroups

\* The inductive invariant of the tables.
TInv == TypeOK /\ AttemptsLeft /\ GroupsLeft

\* The constants a table is bounded by.
LEMMA Bounds ==
    /\ MaxGroups \in Nat /\ MaxSequence \in Nat /\ MaxSends \in Nat
    /\ RELATIONSHIP_REMOVAL_MAX_ATTEMPTS \in Nat /\ RELATIONSHIP_REMOVAL_MAX_ATTEMPTS > 0
    /\ NoticeEpoch \in [Notices -> Nat]
BY RelationshipAssumption

\* Marking a row dispatched spends an attempt, and the last one makes the row dead.
LEMMA DispatchSpends ==
    ASSUME NEW r \in LiveRow, NEW s \in Live
    PROVE  MarkDispatched(r, s) \in LiveRow
<1>1. r \in Row /\ r.epoch \in Nat /\ r.attempts \in Nat /\ (r.state \in Live => r.attempts < RELATIONSHIP_REMOVAL_MAX_ATTEMPTS)
  BY Bounds DEF LiveRow, Row
<1>2. CASE r.state \notin Live
  BY <1>2, Zenon DEF MarkDispatched, Live
<1>3. CASE r.state \in Live
  <2> DEFINE a == r.attempts + 1
             t == IF a >= RELATIONSHIP_REMOVAL_MAX_ATTEMPTS THEN "DEAD_LETTER" ELSE s
  <2>1. MarkDispatched(r, s) = [r EXCEPT !.attempts = a, !.state = t]
    BY <1>3, Zenon DEF MarkDispatched, Live
  <2>2. a \in 0 .. RELATIONSHIP_REMOVAL_MAX_ATTEMPTS /\ t \in Live \cup {"DEAD_LETTER"}
    BY <1>1, <1>3, Bounds
  <2>3. t \in Live => a < RELATIONSHIP_REMOVAL_MAX_ATTEMPTS
    BY <1>1, Bounds DEF Live
  <2> HIDE DEF a, t
  <2>4. MarkDispatched(r, s) = [state |-> t, epoch |-> r.epoch, attempts |-> a]
    BY <1>1, <2>1, Zenon DEF Row
  <2> QED BY <1>1, <2>2, <2>3, <2>4 DEF LiveRow, Row, Live
<1> QED BY <1>2, <1>3, Zenon

\* A row that is written has all its attempts.
LEMMA FreshRow ==
    ASSUME NEW epoch \in Nat
    PROVE  /\ [state |-> "PENDING", epoch |-> epoch, attempts |-> 0] \in LiveRow
           /\ [NoRow EXCEPT !.state = "PENDING"] \in LiveRow
           /\ NoRow \in LiveRow
<1>1. [NoRow EXCEPT !.state = "PENDING"] = [state |-> "PENDING", epoch |-> 0, attempts |-> 0]
  BY DEF NoRow
<1> QED BY <1>1, Bounds DEF LiveRow, Row, Live, NoRow

\* put_relationship_removal_ack writes rows with all their attempts.
LEMMA AcksWritten ==
    ASSUME TInv, NEW notices
    PROVE  put_relationship_removal_ack(notices) \in [Notices -> LiveRow]
BY FreshRow, Zenon DEF TInv, AttemptsLeft, put_relationship_removal_ack

\* A failed message has no lease.
LEMMA FailedHaveNoLease ==
    ASSUME TInv, leased' = {}, message' = fail_pending_messages \/ message' = [m \in Messages |-> Unwritten]
    PROVE  /\ message' \in [Messages -> [state : {"absent", "pending", "failed", "sent"}, wire : 0 .. MaxGroups]]
           /\ leased' = {m \in Messages : Pending(m)'}
<1>1. message \in [Messages -> [state : {"absent", "pending", "failed", "sent"}, wire : 0 .. MaxGroups]]
  BY Zenon DEF TInv, TypeOK
<1>2. CASE message' = fail_pending_messages
  BY <1>1, <1>2, ZenonT(30) DEF fail_pending_messages, Pending
<1>3. CASE message' = [m \in Messages |-> Unwritten]
  BY <1>3, Bounds DEF Unwritten, Pending
<1> QED BY <1>2, <1>3, Zenon

\* The larger of two sequences is one of the two.
LEMMA MaxIn ==
    ASSUME NEW S, NEW a \in S, NEW b \in S
    PROVE  Max(a, b) \in S
BY Zenon DEF Max

\* The conjuncts of the invariant, one by one.
LEMMA TInvFrom ==
    ASSUME TInv,
           contact' \in {"none", "open", "blocked"}, boundary' \in Nat,
           tombstone' \in [id : Ids \cup {"none"}, epoch : Nat],
           mls' \in Group, conversation' \in Group,
           pairings' \in [made : 0 .. MaxGroups, open : BOOLEAN], GroupsLeft',
           endpoint' \in 0 .. MaxSequence, bootstrap' \in 0 .. MaxSequence,
           message' \in [Messages -> [state : {"absent", "pending", "failed", "sent"}, wire : 0 .. MaxGroups]],
           leased' = {m \in Messages : Pending(m)'},
           received' \subseteq Notices, deferred' \subseteq Notices, completed' \subseteq Commands,
           AttemptsLeft'
    PROVE  TInv'
<1>1. removals' \in [Commands -> Row] /\ acks' \in [Notices -> Row]
  BY Zenon DEF AttemptsLeft, LiveRow
<1> QED BY <1>1, Zenon DEF TInv, TypeOK

\* What does not change stays well typed.
LEMMA Frames ==
    ASSUME TInv
    PROVE  /\ UNCHANGED contact => contact' \in {"none", "open", "blocked"}
           /\ boundary \in Nat /\ (UNCHANGED boundary => boundary' \in Nat)
           /\ tombstone.epoch \in Nat
           /\ UNCHANGED tombstone => tombstone' \in [id : Ids \cup {"none"}, epoch : Nat]
           /\ UNCHANGED mls => mls' \in Group
           /\ UNCHANGED conversation => conversation' \in Group
           /\ UNCHANGED pairings => pairings' \in [made : 0 .. MaxGroups, open : BOOLEAN] /\ GroupsLeft'
           /\ endpoint \in 0 .. MaxSequence /\ (UNCHANGED endpoint => endpoint' \in 0 .. MaxSequence)
           /\ bootstrap \in 0 .. MaxSequence /\ (UNCHANGED bootstrap => bootstrap' \in 0 .. MaxSequence)
           /\ UNCHANGED <<message, leased>> =>
                /\ message' \in [Messages -> [state : {"absent", "pending", "failed", "sent"}, wire : 0 .. MaxGroups]]
                /\ leased' = {m \in Messages : Pending(m)'}
           /\ UNCHANGED received => received' \subseteq Notices
           /\ UNCHANGED deferred => deferred' \subseteq Notices
           /\ UNCHANGED completed => completed' \subseteq Commands
           /\ UNCHANGED <<removals, acks>> => AttemptsLeft'
BY Zenon DEF TInv, TypeOK, GroupsLeft, AttemptsLeft, Pending

\* A tombstone is written by a removal or by a notice.
LEMMA TombstoneTyped ==
    ASSUME TInv, NEW id \in Ids, NEW epoch \in Nat
    PROVE  UpsertTombstone(id, epoch) \in [id : Ids \cup {"none"}, epoch : Nat]
<1>1. tombstone.epoch \in Nat /\ tombstone.id \in Ids \cup {"none"}
  BY Zenon DEF TInv, TypeOK
<1>2. Max(tombstone.epoch, epoch) \in Nat
  BY <1>1, MaxIn, Zenon
<1> QED BY <1>1, <1>2, Zenon DEF UpsertTombstone

\* An encryption stays within the bound on ciphertexts.
LEMMA EncryptedInGroup ==
    ASSUME TInv, CanEncrypt
    PROVE  Encrypted \in Group
<1>1. conversation.group \in 0 .. MaxGroups /\ conversation.sent \in Nat /\ conversation.sent < MaxSends
  BY Bounds DEF TInv, TypeOK, Group, CanEncrypt
<1>2. conversation.sent + 1 \in 0 .. MaxSends
  BY <1>1, Bounds
<1>3. Encrypted = [group |-> conversation.group, sent |-> conversation.sent + 1]
  BY DEF TInv, TypeOK, Group, Encrypted
<1> QED BY <1>1, <1>2, <1>3, Zenon DEF Group

\* A commit takes the group that was left for it.
LEMMA CommitTyped ==
    ASSUME TInv, CommitContact
    PROVE  /\ boundary' \in Nat /\ mls' \in Group /\ conversation' \in Group
           /\ pairings' \in [made : 0 .. MaxGroups, open : BOOLEAN] /\ GroupsLeft'
           /\ UNCHANGED <<removals, completed>>
<1> DEFINE k == pairings.made + 1
           g == [group |-> k, sent |-> 0]
<1>1. k \in 0 .. MaxGroups
  BY Bounds DEF TInv, TypeOK, GroupsLeft, CommitContact
<1>2. g \in Group /\ g.group = k
  BY <1>1, Bounds DEF Group
<1>3. /\ pairings' = [made |-> k, open |-> FALSE]
      /\ boundary' = Max(boundary, tombstone.epoch) + 1
      /\ mls' = g /\ conversation' = g
      /\ UNCHANGED <<removals, completed>>
  BY Zenon DEF CommitContact, NewSnapshot, put_conversation_mls_snapshot, begin_verified_relationship
<1>4. Max(boundary, tombstone.epoch) \in Nat
  BY Frames, MaxIn, Zenon
<1>5. boundary' \in Nat
  BY <1>3, <1>4
<1> HIDE DEF k, g
<1> QED BY <1>1, <1>2, <1>3, <1>5, Zenon DEF GroupsLeft

\* The commit and what follows it: an endpoint, and the notices that waited.
LEMMA CommitKeepsTables ==
    ASSUME TInv, NEW carried \in 0 .. MaxSequence, commit_contact_with_conversation(carried)
    PROVE  TInv'
<1> DEFINE notice == {n \in deferred : NoticeGroup[n] = pairings.made + 1}
<1>1. CommitContact /\ bootstrap' = 0 /\ deferred' = deferred \ notice
      /\ received' = received \cup notice /\ acks' = put_relationship_removal_ack(notice)
  BY Zenon DEF commit_contact_with_conversation, put_received_envelope
<1>2. notice \subseteq Notices /\ deferred' \subseteq Notices /\ received' \subseteq Notices
  BY <1>1, Zenon DEF TInv, TypeOK
<1>3. 0 \in 0 .. MaxSequence /\ apply_pending_peer_endpoint \in 0 .. MaxSequence
  BY Frames, Bounds DEF apply_pending_peer_endpoint, Max
<1>4. AttemptsLeft'
  <2>1. removals' = removals
    BY <1>1, CommitTyped, Zenon
  <2> QED BY <1>1, <2>1, AcksWritten, Zenon DEF TInv, AttemptsLeft
<1>5. CASE notice = {}
  <2>1. /\ contact' = "open" /\ tombstone' = NoTombstone
        /\ endpoint' = Max(apply_pending_peer_endpoint, carried)
        /\ UNCHANGED <<message, leased>>
    BY <1>5, Zenon DEF commit_contact_with_conversation
  <2>2. endpoint' \in 0 .. MaxSequence
    BY <1>3, <2>1, MaxIn, ZenonT(30)
  <2>3. tombstone' \in [id : Ids \cup {"none"}, epoch : Nat]
    BY <2>1, Zenon DEF NoTombstone
  <2> HIDE DEF notice
  <2> QED BY <1>1, <1>2, <1>3, <1>4, <2>1, <2>2, <2>3, CommitTyped, Frames, TInvFrom, Zenon
<1>6. CASE notice # {}
  <2>1. /\ contact' = "blocked"
        /\ tombstone' \in {[id |-> n, epoch |-> NoticeEpoch[n]] : n \in notice}
        /\ endpoint' = apply_pending_peer_endpoint
        /\ message' = fail_pending_messages /\ leased' = {}
    BY <1>6, ZenonT(30) DEF commit_contact_with_conversation
  <2>2. tombstone' \in [id : Ids \cup {"none"}, epoch : Nat]
    BY <1>2, <2>1, Bounds DEF Ids
  <2> HIDE DEF notice
  <2> QED BY <1>1, <1>2, <1>3, <1>4, <2>1, <2>2, CommitTyped, Frames, FailedHaveNoLease, TInvFrom, Zenon
<1> QED BY <1>5, <1>6, Zenon

\* The same commit without what follows it.
LEMMA CrashedCommitKeepsTables ==
    ASSUME TInv, CommitThenCrash
    PROVE  TInv'
<1>1. /\ CommitContact /\ contact' = "open" /\ tombstone' = NoTombstone
      /\ UNCHANGED <<endpoint, bootstrap, deferred, received, acks, message, leased>>
  BY Zenon DEF CommitThenCrash
<1>2. tombstone' \in [id : Ids \cup {"none"}, epoch : Nat]
  BY <1>1, Zenon DEF NoTombstone
<1> QED BY <1>1, <1>2, CommitTyped, Frames, TInvFrom, Zenon

\* The user's removal empties the tables and writes a row of its own.
LEMMA RemovalKeepsTables ==
    ASSUME TInv, NEW c \in Commands, NEW preserve \in BOOLEAN,
           command_request_relationship_removal(c, preserve)
    PROVE  TInv'
<1>1. NoGroup \in Group
  BY Bounds DEF NoGroup, Group
<1>2. conversation' = NoGroup /\ pairings' = pairings /\ request(c, preserve)
  BY Zenon DEF command_request_relationship_removal
<1>3. CASE c \in completed
  <2>1. UNCHANGED tables
    BY <1>2, <1>3, Zenon DEF request
  <2> QED BY <1>1, <1>2, <2>1, Frames, TInvFrom, Zenon DEF tables
<1>4. CASE c \notin completed
  <2>1. /\ remove_relationship_with_id(c, boundary + 1, preserve)
        /\ completed' = completed \cup {c} /\ UNCHANGED <<boundary, deferred, acks>>
    BY <1>2, <1>4, Zenon DEF request, current_relationship_epoch
  <2>2. completed' \subseteq Commands
    BY <2>1, Zenon DEF TInv, TypeOK
  <2>3. CASE Stale(boundary + 1)
    BY <1>1, <1>2, <2>1, <2>2, <2>3, Frames, TInvFrom, Zenon DEF remove_relationship_with_id
  <2>4. CASE ~Stale(boundary + 1)
    <3> DEFINE row == [state |-> "PENDING", epoch |-> boundary + 1, attempts |-> 0]
    <3>1. /\ tombstone' = UpsertTombstone(c, boundary + 1)
          /\ removals' = [removals EXCEPT ![c] = row]
          /\ contact' = "blocked" /\ leased' = {} /\ mls' = NoGroup
          /\ endpoint' = 0 /\ bootstrap' = 0 /\ received' = {}
          /\ message' = fail_pending_messages \/ message' = [m \in Messages |-> Unwritten]
      BY <2>1, <2>4, Zenon DEF remove_relationship_with_id
    <3>2. boundary + 1 \in Nat /\ c \in Ids /\ 0 \in 0 .. MaxSequence
      BY Frames, Bounds DEF Ids
    <3>3. row \in LiveRow
      BY <3>2, FreshRow, Zenon
    <3>4. tombstone' \in [id : Ids \cup {"none"}, epoch : Nat]
      BY <3>1, <3>2, TombstoneTyped, Zenon
    <3> HIDE DEF row
    <3>5. AttemptsLeft'
      BY <2>1, <3>1, <3>3, Zenon DEF TInv, AttemptsLeft
    <3> QED BY <1>1, <1>2, <2>1, <2>2, <3>1, <3>2, <3>4, <3>5, Frames, FailedHaveNoLease, TInvFrom, Zenon
  <2> QED BY <2>3, <2>4, Zenon
<1> QED BY <1>3, <1>4, Zenon

\* A notice of the contact writes its tombstone and an acknowledgement.
LEMMA NoticeKeepsTables ==
    ASSUME TInv, NEW n \in Notices, RelationshipRemoved(n)
    PROVE  TInv'
<1>1. /\ apply_remote_relationship_removal(n)
      /\ acks' = put_relationship_removal_ack({n}) /\ received' = received \cup {n}
      /\ UNCHANGED <<boundary, mls, conversation, pairings, endpoint, bootstrap, deferred, removals, completed>>
  BY Zenon DEF RelationshipRemoved, put_received_envelope
<1>2. received' \subseteq Notices
  BY <1>1, Zenon DEF TInv, TypeOK
<1>3. AttemptsLeft'
  BY <1>1, AcksWritten, Zenon DEF TInv, AttemptsLeft
<1>4. CASE Stale(NoticeEpoch[n])
  BY <1>1, <1>2, <1>3, <1>4, Frames, TInvFrom, Zenon DEF apply_remote_relationship_removal
<1>5. CASE ~Stale(NoticeEpoch[n])
  <2>1. /\ tombstone' = UpsertTombstone(n, NoticeEpoch[n]) /\ contact' = "blocked"
        /\ message' = fail_pending_messages /\ leased' = {}
    BY <1>1, <1>5, Zenon DEF apply_remote_relationship_removal
  <2>2. n \in Ids /\ NoticeEpoch[n] \in Nat
    BY Bounds, Zenon DEF Ids
  <2>3. tombstone' \in [id : Ids \cup {"none"}, epoch : Nat]
    BY <2>1, <2>2, TombstoneTyped, Zenon
  <2> QED BY <1>1, <1>2, <1>3, <2>1, <2>3, Frames, FailedHaveNoLease, TInvFrom, Zenon
<1> QED BY <1>4, <1>5, Zenon

\* A message takes a lease when it becomes pending, and gives it back when it is sent.
LEMMA MessageKeepsTables ==
    ASSUME TInv, NEW m \in Messages,
           send_message_command(m) \/ command_retry_message(m) \/ MessageAcknowledged(m)
    PROVE  TInv'
<1> DEFINE MessageRow == [state : {"absent", "pending", "failed", "sent"}, wire : 0 .. MaxGroups]
<1>1. /\ UNCHANGED <<contact, boundary, tombstone, pairings, endpoint, bootstrap, received, deferred, removals,
                     acks, completed>>
  BY Zenon DEF send_message_command, command_retry_message, MessageAcknowledged
<1>2. mls' \in Group /\ conversation' \in Group
  <2>1. CASE send_message_command(m)
    <3>1. conversation' = Encrypted /\ (mls' = Encrypted \/ mls' = mls) /\ CanEncrypt
      BY <2>1, Zenon DEF send_message_command, persist_outbound_encryption, put_conversation_mls_snapshot
    <3> QED BY <3>1, EncryptedInGroup, Zenon DEF TInv, TypeOK
  <2>2. CASE command_retry_message(m) \/ MessageAcknowledged(m)
    BY <2>2, Frames, Zenon DEF command_retry_message, MessageAcknowledged
  <2> QED BY <2>1, <2>2, Zenon
<1>3. message \in [Messages -> MessageRow] /\ leased = {x \in Messages : message[x].state = "pending"}
  BY Zenon DEF TInv, TypeOK, Pending
<1>4. PICK r \in MessageRow : /\ message' = [message EXCEPT ![m] = r]
                              /\ leased' = IF r.state = "pending" THEN leased \cup {m} ELSE leased \ {m}
  <2>1. CASE send_message_command(m)
    <3>1. [state |-> "pending", wire |-> conversation.group] \in MessageRow
      BY Zenon DEF TInv, TypeOK, Group
    <3> QED BY <2>1, <3>1, Zenon DEF send_message_command
  <2>2. CASE command_retry_message(m)
    <3>1. [message[m] EXCEPT !.state = "pending"] \in MessageRow /\ [message[m] EXCEPT !.state = "pending"].state = "pending"
      BY <1>3, Zenon
    <3> QED BY <2>2, <3>1, Zenon DEF command_retry_message
  <2>3. CASE MessageAcknowledged(m)
    <3>1. [message[m] EXCEPT !.state = "sent"] \in MessageRow /\ [message[m] EXCEPT !.state = "sent"].state = "sent"
      BY <1>3, Zenon
    <3> QED BY <2>3, <3>1, Zenon DEF MessageAcknowledged
  <2> QED BY <2>1, <2>2, <2>3, Zenon
<1>5. message' \in [Messages -> MessageRow] /\ leased' = {x \in Messages : Pending(x)'}
  BY <1>3, <1>4, Zenon DEF Pending
<1> QED BY <1>1, <1>2, <1>5, Frames, TInvFrom, Zenon

\* A flush spends one attempt of each row it dispatches.
LEMMA FlushKeepsTables ==
    ASSUME TInv, NEW queued \in SUBSET Notices, flush_pending_send_effects(queued)
    PROVE  TInv'
<1>1. /\ UNCHANGED <<contact, boundary, tombstone, pairings, endpoint, bootstrap, message, leased, received,
                     deferred, completed>>
      /\ flush_pending_relationship_removals
      /\ flush_pending_relationship_removal_acks(queued)
  BY Zenon DEF flush_pending_send_effects
<1>2. mls' \in Group /\ conversation' \in Group
  BY <1>1, EncryptedInGroup, Zenon DEF flush_pending_relationship_removals, TInv, TypeOK
<1>3. "WAITING_FOR_ACK" \in Live /\ "DISPATCHED" \in Live
  BY Zenon DEF Live
<1>4. removals' \in [Commands -> LiveRow]
  <2>1. \A c \in Commands : removals[c] \in LiveRow /\ mark_relationship_removal_dispatched(removals[c]) \in LiveRow
    BY <1>3, DispatchSpends, Zenon DEF mark_relationship_removal_dispatched, TInv, AttemptsLeft
  <2> QED BY <1>1, <2>1, Zenon DEF flush_pending_relationship_removals
<1>5. acks' \in [Notices -> LiveRow]
  <2>1. \A n \in Notices : acks[n] \in LiveRow /\ mark_relationship_removal_ack_dispatched(acks[n]) \in LiveRow
    BY <1>3, DispatchSpends, Zenon DEF mark_relationship_removal_ack_dispatched, TInv, AttemptsLeft
  <2> QED BY <1>1, <2>1, Zenon DEF flush_pending_relationship_removal_acks
<1>6. AttemptsLeft'
  BY <1>4, <1>5, Zenon DEF AttemptsLeft
<1> QED BY <1>1, <1>2, <1>6, Frames, TInvFrom, Zenon

\* Every step keeps the tables within their bounds.
LEMMA StepKeepsTables ==
    ASSUME TInv, [Next]_vars
    PROVE  TInv'
<1>1. CASE StartPairing \/ PairingEnds
  <2>1. UNCHANGED <<tables, conversation>>
    BY <1>1, Zenon DEF StartPairing, PairingEnds
  <2>2. pairings' \in [made : 0 .. MaxGroups, open : BOOLEAN] /\ GroupsLeft'
    BY <1>1, Zenon DEF StartPairing, PairingEnds, TInv, TypeOK, GroupsLeft
  <2> QED BY <2>1, <2>2, Frames, TInvFrom, Zenon DEF tables
<1>2. ASSUME NEW n \in Notices, DeferNotice(n) PROVE TInv'
  <2>1. deferred' \subseteq Notices
    BY <1>2, Zenon DEF DeferNotice, TInv, TypeOK
  <2> QED BY <1>2, <2>1, Frames, TInvFrom, Zenon DEF DeferNotice
<1>3. ASSUME NEW n \in Notices, RelationshipRemovalAckAnswered(n) PROVE TInv'
  <2>1. "DISPATCHED" \in Live /\ acks[n] \in LiveRow
    BY Zenon DEF Live, TInv, AttemptsLeft
  <2>2. AttemptsLeft'
    BY <1>3, <2>1, DispatchSpends, Zenon DEF RelationshipRemovalAckAnswered, mark_relationship_removal_ack_dispatched, TInv, AttemptsLeft
  <2> QED BY <1>3, <2>2, Frames, TInvFrom, Zenon DEF RelationshipRemovalAckAnswered
<1>4. ASSUME NEW sequence \in 1 .. MaxSequence, PeerEndpointBootstrap(sequence) PROVE TInv'
  <2>1. sequence \in 0 .. MaxSequence
    OBVIOUS
  <2>2. endpoint' \in 0 .. MaxSequence /\ bootstrap' \in 0 .. MaxSequence
    BY <1>4, <2>1, Frames, Zenon DEF PeerEndpointBootstrap, put_pending_peer_endpoint_inbox, apply_peer_endpoint, put_contact_peer_endpoint, Max
  <2> QED BY <1>4, <2>2, Frames, TInvFrom, Zenon DEF PeerEndpointBootstrap
<1>5. ASSUME NEW handed \in BOOLEAN, send_ephemeral_payload(handed) PROVE TInv'
  <2>1. mls' \in Group /\ conversation' \in Group
    BY <1>5, EncryptedInGroup, Zenon DEF send_ephemeral_payload, TInv, TypeOK
  <2> QED BY <1>5, <2>1, Frames, TInvFrom, Zenon DEF send_ephemeral_payload
<1>6. ASSUME NEW blocked \in BOOLEAN, command_update_contact_settings(blocked) PROVE TInv'
  BY <1>6, Frames, TInvFrom, Zenon DEF command_update_contact_settings, update_settings
<1>7. CASE Restart
  <2>1. conversation' \in Group
    BY <1>7, Zenon DEF Restart, TInv, TypeOK
  <2> QED BY <1>7, <2>1, Frames, TInvFrom, Zenon DEF Restart, tables
<1>8. CASE UNCHANGED vars
  BY <1>8, Frames, TInvFrom, Zenon DEF vars, tables
<1> QED BY <1>1, <1>2, <1>3, <1>4, <1>5, <1>6, <1>7, <1>8, CommitKeepsTables, CrashedCommitKeepsTables,
           RemovalKeepsTables, NoticeKeepsTables, MessageKeepsTables, FlushKeepsTables, Zenon DEF Next

-----------------------------------------------------------------------------
(* Epochs                                                                  *)

\* What one step may do to the epochs.
EpochStep ==
    /\ boundary' >= boundary
    /\ Removed /\ tombstone' # NoTombstone /\ boundary' = boundary => tombstone'.epoch >= tombstone.epoch
    /\ boundary' # boundary => boundary' > tombstone.epoch

\* Only a committed pairing moves the boundary, past the tombstone it lifts; and
\* only a removal that is not stale replaces a tombstone.
LEMMA StepEpochs ==
    ASSUME RInv, [Next]_vars
    PROVE  EpochStep
<1>1. boundary \in Nat /\ tombstone.epoch \in Nat
  BY Zenon DEF RInv, Typed
<1>2. CASE UNCHANGED <<boundary, tombstone>>
  BY <1>1, <1>2 DEF EpochStep
<1>3. CASE CommitContact
  <2>1. boundary' = Max(boundary, tombstone.epoch) + 1
    BY <1>3, Zenon DEF CommitContact, begin_verified_relationship
  <2>2. boundary' \in Nat /\ boundary' > boundary /\ boundary' > tombstone.epoch
    BY <1>1, <2>1 DEF Max
  <2> QED BY <1>1, <2>2 DEF EpochStep
<1>4. ASSUME NEW id \in Ids, NEW epoch \in Nat, ~Stale(epoch), boundary' = boundary,
             tombstone' = UpsertTombstone(id, epoch)
      PROVE  EpochStep
  BY <1>1, <1>4, UpsertIs DEF EpochStep, RInv
<1>5. ASSUME NEW c \in Commands, NEW preserve \in BOOLEAN, command_request_relationship_removal(c, preserve)
      PROVE  EpochStep
  <2>1. c \in Ids /\ boundary + 1 \in Nat
    BY <1>1 DEF Ids
  <2> QED BY <1>2, <1>4, <1>5, <2>1, Zenon DEF command_request_relationship_removal, request,
             remove_relationship_with_id, current_relationship_epoch, tables
<1>6. ASSUME NEW n \in Notices, RelationshipRemoved(n) PROVE EpochStep
  <2>1. n \in Ids /\ NoticeEpoch[n] \in Nat
    BY RelationshipAssumption, Zenon DEF Ids
  <2> QED BY <1>2, <1>4, <1>6, <2>1, Zenon DEF RelationshipRemoved, apply_remote_relationship_removal
<1>7. CASE \/ StartPairing \/ PairingEnds \/ Restart \/ UNCHANGED vars
           \/ \E n \in Notices : DeferNotice(n) \/ RelationshipRemovalAckAnswered(n)
           \/ \E sequence \in 1 .. MaxSequence : PeerEndpointBootstrap(sequence)
           \/ \E handed \in BOOLEAN : send_ephemeral_payload(handed)
           \/ \E m \in Messages : send_message_command(m) \/ command_retry_message(m) \/ MessageAcknowledged(m)
           \/ \E blocked \in BOOLEAN : command_update_contact_settings(blocked)
           \/ \E queued \in SUBSET Notices : flush_pending_send_effects(queued)
  BY <1>2, <1>7, Zenon DEF StartPairing, PairingEnds, Restart, vars, tables, DeferNotice, RelationshipRemovalAckAnswered,
     PeerEndpointBootstrap, send_ephemeral_payload, send_message_command, command_retry_message,
     MessageAcknowledged, command_update_contact_settings, update_settings, flush_pending_send_effects
<1>8. ASSUME NEW carried \in 0 .. MaxSequence, commit_contact_with_conversation(carried) PROVE EpochStep
  BY <1>3, <1>8, Zenon DEF commit_contact_with_conversation
<1>9. CASE CommitThenCrash
  BY <1>3, <1>9, Zenon DEF CommitThenCrash
<1> QED BY <1>5, <1>6, <1>7, <1>8, <1>9, Zenon DEF Next

-----------------------------------------------------------------------------
(* Theorems                                                                *)

\* Every reachable state satisfies the inductive invariant: tombstone, notice,
\* contact and the saved and the live MLS group agree, whatever the order of
\* removals, late frames, pairings and restarts.
THEOREM RelationshipInvariant == Spec => []RInv
<1>1. Init => RInv
  BY RelationshipAssumption DEF Init, RInv, Typed, NoContactNoTombstone, RemovedStaysRemoved, NoticeForTombstone,
     SavedCurrent, RemovedHere, Removed, NoTombstone, NoGroup, NoRow, MlsGroup, NoticeRow, RowState, Ids
<1> QED BY <1>1, StepKeeps, PTL DEF Spec

\* The tables are well typed, no attempt counter passes its limit, a message has a
\* lease exactly while it is to be sent, and the tombstone of a local removal agrees
\* with its notice and its operation.
THEOREM RemovalInvariant == Spec => []RemovalInv
<1>1. Init => TInv
  <2> SUFFICES ASSUME Init PROVE TInv
    OBVIOUS
  <2>1. NoRow \in LiveRow /\ NoRow \in Row
    BY FreshRow, Zenon DEF LiveRow
  <2>2. AttemptsLeft /\ removals \in [Commands -> Row] /\ acks \in [Notices -> Row]
    BY <2>1, Zenon DEF Init, AttemptsLeft
  <2>3. mls \in Group /\ conversation \in Group /\ tombstone \in [id : Ids \cup {"none"}, epoch : Nat]
    BY Bounds DEF Init, NoGroup, Group, NoTombstone
  <2>4. pairings \in [made : 0 .. MaxGroups, open : BOOLEAN] /\ GroupsLeft
    BY Bounds DEF Init, GroupsLeft
  <2>5. /\ message \in [Messages -> [state : {"absent", "pending", "failed", "sent"}, wire : 0 .. MaxGroups]]
        /\ leased = {m \in Messages : Pending(m)}
    BY Bounds DEF Init, Unwritten, Pending
  <2>6. /\ contact \in {"none", "open", "blocked"} /\ boundary \in Nat
        /\ endpoint \in 0 .. MaxSequence /\ bootstrap \in 0 .. MaxSequence
        /\ received \subseteq Notices /\ deferred \subseteq Notices /\ completed \subseteq Commands
    BY Bounds DEF Init
  <2> QED BY <2>2, <2>3, <2>4, <2>5, <2>6, Zenon DEF TInv, TypeOK
<1>2. Spec => []TInv
  BY <1>1, StepKeepsTables, PTL DEF Spec
<1>3. TInv /\ RInv => RemovalInv
  BY Zenon DEF TInv, RInv, RemovalInv
<1> QED BY <1>2, <1>3, RelationshipInvariant, PTL

\* A relationship the user removed stays removed until a pairing is committed.
THEOREM StaysRemoved == Spec => []RemovedStaysRemoved
<1>1. RInv => RemovedStaysRemoved
  BY Zenon DEF RInv
<1> QED BY <1>1, RelationshipInvariant, PTL

\* The tombstone of a local removal comes with its notice and its operation.
THEOREM TombstoneHasNotice == Spec => []NoticeForTombstone
<1>1. RInv => NoticeForTombstone
  BY Zenon DEF RInv
<1> QED BY <1>1, RelationshipInvariant, PTL

\* Outside a tombstone a restart resumes the group of the last pairing at the
\* position it had in memory.
THEOREM SnapshotIsCurrent == Spec => []SnapshotCurrent
<1>1. RInv => SnapshotCurrent
  BY Zenon DEF RInv, SavedCurrent, SnapshotCurrent
<1> QED BY <1>1, RelationshipInvariant, PTL

\* Epochs only advance, from begin_verified_relationship and the stale-epoch
\* guard of the two removals.
THEOREM EpochsOnlyAdvance == Spec => EpochsAdvance
<1>1. RInv /\ [Next]_vars => [EpochStep]_vars
  BY StepEpochs, Zenon
<1> QED BY <1>1, RelationshipInvariant, PTL DEF Spec, EpochsAdvance, EpochStep

-----------------------------------------------------------------------------
DueNow == {t \in Timers : IsDue(t)}

\* The timers of the current generation in q are due.
CurrentAreDue(q) == \A i \in DOMAIN q : q[i] \in Timers => q[i] \in DueNow

\* The batch of a current plan is of the current generation.
BatchIsCurrent == task.fresh => \A i \in DOMAIN task.batch : task.batch[i] \in Timers

TaskType == [phase : {"wait", "send", "hold"}, fresh : BOOLEAN, batch : Seq(Timers \cup {"obsolete"})]

\* The durable rows and the actor.
StoreTyped ==
    /\ deadline \in [Deadlines -> {"none", "later", "due"}]
    /\ runnable \in BOOLEAN
    /\ busy \in {"no", "command", "operation"}
    /\ derived \in 0 .. MaxInputs
    /\ inputs \in 0 .. MaxInputs
    /\ overtook \in [Deadlines -> SUBSET Deadlines]

\* The inbox and the task.
LoopTyped ==
    /\ recheck \in BOOLEAN
    /\ inbox \in Seq(Input) /\ Len(inbox) <= ENGINE_INBOX_CAPACITY
    /\ task \in TaskType
    /\ task.phase = "send" <=> task.batch # <<>>

Queues == LoopTyped /\ NoLostWakeup /\ CurrentAreDue(inbox) /\ CurrentAreDue(task.batch) /\ BatchIsCurrent

\* The inductive invariant.
EInv == StoreTyped /\ Queues

\* The names of the three timers, of the retry kinds and of the operation.
LEMMA Names ==
    /\ RetryKinds \subseteq Deadlines /\ "Operation" \in Deadlines
    /\ "RelayPoll" \in Deadlines /\ "PeerProbeRound" \in Deadlines
    /\ Timers \subseteq Input /\ "obsolete" \in Input \ Timers
    /\ "input" \in Input \ Timers /\ "outcome" \in Input \ Timers
    /\ MaxInputs \in Nat /\ ENGINE_INBOX_CAPACITY \in Nat \ {0}
BY SchedulerAssumption, Zenon DEF Deadlines, Input, Timers

\* The parts of the type invariant.
LEMMA TypeParts == SchedulerTypeOK <=> StoreTyped /\ LoopTyped
BY Zenon DEF SchedulerTypeOK, StoreTyped, LoopTyped, TaskType

-----------------------------------------------------------------------------
(* Time and plans                                                          *)

\* What is due stays due while nothing is handled.
LEMMA DueStays ==
    ASSUME StoreTyped, UNCHANGED <<runnable, busy>>, recheck => recheck',
           \A d \in Deadlines : deadline[d] = "due" => deadline'[d] = "due",
           \A d \in Deadlines : deadline[d] # "none" => deadline'[d] # "none"
    PROVE  DueNow \subseteq DueNow'
<1> SUFFICES ASSUME NEW t \in Timers, IsDue(t) PROVE IsDue(t)'
  BY Zenon DEF DueNow
<1>1. OperationBlocked' <=> OperationBlocked
  BY Zenon DEF OperationBlocked
<1>2. PendingKinds # {} => PendingKinds' # {}
  BY Names, Zenon DEF PendingKinds
<1>3. Blocked => Blocked'
  BY <1>1, <1>2, Names, Zenon DEF Blocked
<1>4. RetryWakeupDue => RetryWakeupDue'
  BY <1>1, <1>3, Names, Zenon DEF RetryWakeupDue
<1> QED BY <1>4, Names, Zenon DEF IsDue, Timers

\* The timers of a sequence that became longer by one that is due are due.
LEMMA AppendKeepsDue ==
    ASSUME NEW q \in Seq(Input), CurrentAreDue(q), NEW x \in Input, x \in Timers => x \in DueNow
    PROVE  CurrentAreDue(Append(q, x))
BY DEF CurrentAreDue

\* send_replace leaves no timer of the current generation anywhere.
LEMMA PublishStep ==
    ASSUME EInv, NEW rest \in Seq(Input), Len(rest) <= ENGINE_INBOX_CAPACITY, Publish(rest)
    PROVE  Queues'
<1> DEFINE q == [i \in DOMAIN rest |-> IF rest[i] \in Timers THEN "obsolete" ELSE rest[i]]
           b == [i \in DOMAIN task.batch |-> "obsolete"]
<1>1. inbox' = q /\ task' = [task EXCEPT !.fresh = FALSE, !.batch = b] /\ recheck' = FALSE
  BY Zenon DEF Publish
<1>2. task \in TaskType /\ task.batch \in Seq(Timers \cup {"obsolete"}) /\ (task.phase = "send" <=> task.batch # <<>>)
  BY Zenon DEF EInv, Queues, LoopTyped, TaskType
<1>3. q \in Seq(Input) /\ Len(q) = Len(rest) /\ \A i \in DOMAIN q : q[i] \notin Timers
  <2>1. DOMAIN rest = 1 .. Len(rest) /\ Len(rest) \in Nat /\ rest \in [1 .. Len(rest) -> Input]
    OBVIOUS
  <2>2. \A i \in 1 .. Len(rest) : q[i] \in Input \ Timers
    BY <2>1, Names, Zenon
  <2>3. q \in [1 .. Len(rest) -> Input]
    BY <2>1, <2>2, Zenon
  <2> QED BY <2>1, <2>2, <2>3
<1>4. b \in Seq(Timers \cup {"obsolete"}) /\ (b # <<>> <=> task.batch # <<>>) /\ \A i \in DOMAIN b : b[i] \notin Timers
  <2>1. DOMAIN task.batch = 1 .. Len(task.batch) /\ Len(task.batch) \in Nat
    BY <1>2
  <2>2. b \in [1 .. Len(task.batch) -> Timers \cup {"obsolete"}]
    BY <2>1, Zenon
  <2>3. b \in Seq(Timers \cup {"obsolete"}) /\ Len(b) = Len(task.batch)
    BY <2>1, <2>2
  <2>4. b # <<>> <=> task.batch # <<>>
    BY <1>2, <2>3
  <2> QED BY <2>3, <2>4, Names, Zenon
<1> HIDE DEF q, b
<1>5. task' = [phase |-> task.phase, fresh |-> FALSE, batch |-> b]
  BY <1>1, <1>2, Zenon DEF TaskType
<1>6. task' \in TaskType
  BY <1>2, <1>4, <1>5, Zenon DEF TaskType
<1>7. LoopTyped'
  BY <1>1, <1>2, <1>3, <1>4, <1>5, <1>6, Zenon DEF LoopTyped
<1>8. NoLostWakeup' /\ BatchIsCurrent'
  BY <1>5, Zenon DEF NoLostWakeup, BatchIsCurrent
<1>9. CurrentAreDue(inbox)' /\ CurrentAreDue(task.batch)'
  BY <1>1, <1>3, <1>4, <1>5, Zenon DEF CurrentAreDue
<1> QED BY <1>7, <1>8, <1>9, Zenon DEF Queues

\* due_kinds holds timers that are due.
LEMMA DueKinds ==
    /\ due_kinds \in Seq(Timers \cup {"obsolete"})
    /\ \A i \in DOMAIN due_kinds : due_kinds[i] \in DueNow
<1>1. ASSUME NEW t \in Timers PROVE WhenDue(t) \in Seq(DueNow)
  <2>1. CASE IsDue(t)
    <3>1. t \in DueNow
      BY <2>1, Zenon DEF DueNow
    <3>2. WhenDue(t) = <<t>>
      BY <2>1, Zenon DEF WhenDue
    <3> QED BY <3>1, <3>2
  <2>2. CASE ~IsDue(t)
    BY <2>2 DEF WhenDue
  <2> QED BY <2>1, <2>2, Zenon
<1>2. WhenDue("RelayPoll") \in Seq(DueNow) /\ WhenDue("PeerProbeRound") \in Seq(DueNow) /\ WhenDue("RetryDue") \in Seq(DueNow)
  BY <1>1, Zenon DEF Timers
<1>3. due_kinds \in Seq(DueNow)
  BY <1>2 DEF due_kinds
<1>4. \A i \in DOMAIN due_kinds : due_kinds[i] \in DueNow
  BY <1>3
<1>5. due_kinds \in Seq(Timers \cup {"obsolete"})
  BY <1>3 DEF DueNow
<1> QED BY <1>4, <1>5, Zenon

\* The rest of the inbox after its first input.
LEMMA RestOfInbox ==
    ASSUME EInv, inbox # <<>>
    PROVE  /\ Head(inbox) \in Input /\ Tail(inbox) \in Seq(Input) /\ Len(Tail(inbox)) <= ENGINE_INBOX_CAPACITY
           /\ Head(inbox) = inbox[1] /\ 1 \in DOMAIN inbox
           /\ \A i \in DOMAIN Tail(inbox) : i + 1 \in DOMAIN inbox /\ Tail(inbox)[i] = inbox[i + 1]
           /\ \A i \in DOMAIN inbox : i # 1 => i - 1 \in DOMAIN Tail(inbox) /\ inbox[i] = Tail(inbox)[i - 1]
<1>1. inbox \in Seq(Input) /\ Len(inbox) <= ENGINE_INBOX_CAPACITY
  BY Zenon DEF EInv, Queues, LoopTyped
<1>2. /\ Head(inbox) \in Input /\ Tail(inbox) \in Seq(Input) /\ Len(Tail(inbox)) = Len(inbox) - 1
      /\ \A i \in 1 .. Len(Tail(inbox)) : Tail(inbox)[i] = inbox[i + 1]
  BY <1>1
<1>3. DOMAIN inbox = 1 .. Len(inbox) /\ DOMAIN Tail(inbox) = 1 .. Len(Tail(inbox)) /\ Len(inbox) \in Nat
  BY <1>1, <1>2
<1>4. Len(inbox) # 0 /\ Head(inbox) = inbox[1]
  BY <1>1
<1> QED BY <1>1, <1>2, <1>3, <1>4, Names

-----------------------------------------------------------------------------
(* Steps of the task and of time                                           *)

\* A step that changes neither inbox nor batch and makes nothing less due.
LEMMA QueuesStay ==
    ASSUME EInv, UNCHANGED inbox, task'.batch = task.batch, task' \in TaskType,
           task'.phase = "send" <=> task.phase = "send", recheck' \in BOOLEAN,
           task'.phase # "hold" \/ task' = task, task'.fresh => task.fresh \/ task'.phase = "wait",
           DueNow \subseteq DueNow'
    PROVE  Queues'
<1>1. LoopTyped'
  BY Zenon DEF EInv, Queues, LoopTyped
<1>2. NoLostWakeup'
  BY Zenon DEF EInv, Queues, NoLostWakeup
<1>3. CurrentAreDue(inbox)' /\ CurrentAreDue(task.batch)'
  BY Zenon DEF EInv, Queues, CurrentAreDue
<1>4. BatchIsCurrent'
  <2>1. CASE task'.fresh /\ ~task.fresh
    <3>1. task.batch = <<>>
      BY <2>1, <1>1, Zenon DEF LoopTyped
    <3> QED BY <3>1 DEF BatchIsCurrent
  <2>2. CASE task'.fresh /\ task.fresh
    BY <2>2, Zenon DEF EInv, Queues, BatchIsCurrent
  <2>3. CASE ~task'.fresh
    BY <2>3, Zenon DEF BatchIsCurrent
  <2> QED BY <2>1, <2>2, <2>3, Zenon
<1> QED BY <1>1, <1>2, <1>3, <1>4, Zenon DEF Queues

\* The task takes a new plan.
LEMMA TakesPlanStep ==
    ASSUME EInv, PlanChanged \/ GenerationChanged
    PROVE  EInv'
<1>1. UNCHANGED <<deadline, runnable, busy, recheck, inbox, derived, inputs, overtook>>
  BY Zenon DEF PlanChanged, GenerationChanged
<1>2. task \in TaskType /\ StoreTyped /\ recheck \in BOOLEAN /\ (task.phase = "send" <=> task.batch # <<>>)
  BY Zenon DEF EInv, Queues, LoopTyped
<1>3. task' = [phase |-> "wait", fresh |-> TRUE, batch |-> task.batch] /\ task.phase # "send"
  BY <1>2, Zenon DEF PlanChanged, GenerationChanged, TaskType
<1>4. task' \in TaskType
  BY <1>2, <1>3, Zenon DEF TaskType
<1>5. DueNow \subseteq DueNow'
  BY <1>1, <1>2, DueStays, Zenon
<1>6. Queues'
  BY <1>1, <1>2, <1>3, <1>4, <1>5, QueuesStay, Zenon
<1>7. StoreTyped'
  BY <1>1, <1>2, Zenon DEF StoreTyped
<1> QED BY <1>6, <1>7, Zenon DEF EInv

\* The batch of a current plan is due, that of another is obsolete.
LEMMA DeadlineReachedStep ==
    ASSUME EInv, DeadlineReached
    PROVE  EInv'
<1>1. UNCHANGED <<deadline, runnable, busy, recheck, inbox, derived, inputs, overtook>>
  BY Zenon DEF DeadlineReached
<1>2. task \in TaskType /\ StoreTyped /\ recheck \in BOOLEAN
  BY Zenon DEF EInv, Queues, LoopTyped
<1>3. DueNow \subseteq DueNow'
  BY <1>1, <1>2, DueStays, Zenon
<1>4. PICK b : /\ task' = [phase |-> "send", fresh |-> task.fresh, batch |-> b]
               /\ \/ task.fresh /\ b = due_kinds /\ due_kinds # <<>>
                  \/ ~task.fresh /\ b = <<"obsolete">>
  BY <1>2, Zenon DEF DeadlineReached, TaskType
<1>5. /\ b \in Seq(Timers \cup {"obsolete"}) /\ b # <<>>
      /\ \A i \in DOMAIN b : b[i] \in Timers => b[i] \in DueNow'
      /\ task.fresh => \A i \in DOMAIN b : b[i] \in Timers
  <2>1. CASE task.fresh /\ b = due_kinds /\ due_kinds # <<>>
    BY <2>1, <1>3, DueKinds, Zenon DEF DueNow
  <2>2. CASE ~task.fresh /\ b = <<"obsolete">>
    BY <2>2, Names
  <2> QED BY <1>4, <2>1, <2>2, Zenon
<1>6. task' \in TaskType
  BY <1>2, <1>4, <1>5, Zenon DEF TaskType
<1>7. LoopTyped'
  BY <1>1, <1>4, <1>5, <1>6, Zenon DEF EInv, Queues, LoopTyped
<1>8. NoLostWakeup' /\ BatchIsCurrent'
  BY <1>4, <1>5, Zenon DEF NoLostWakeup, BatchIsCurrent
<1>9. CurrentAreDue(inbox)'
  BY <1>1, <1>3, Zenon DEF EInv, Queues, CurrentAreDue
<1>10. CurrentAreDue(task.batch)'
  BY <1>4, <1>5, Zenon DEF CurrentAreDue
<1>11. StoreTyped'
  BY <1>1, <1>2, Zenon DEF StoreTyped
<1> QED BY <1>7, <1>8, <1>9, <1>10, <1>11, Zenon DEF EInv, Queues
\* One timer of the batch goes into the inbox; the last one of a current plan is
\* what the waiting task relies on.
LEMMA SendTimerStep ==
    ASSUME EInv, SendTimer
    PROVE  EInv'
<1>1. UNCHANGED <<deadline, runnable, busy, recheck, derived, inputs, overtook>>
  BY Zenon DEF SendTimer
<1>2. /\ task \in TaskType /\ StoreTyped /\ recheck \in BOOLEAN
      /\ task.phase = "send" /\ task.batch # <<>> /\ task.batch \in Seq(Timers \cup {"obsolete"})
      /\ inbox \in Seq(Input) /\ Len(inbox) < ENGINE_INBOX_CAPACITY
  BY Zenon DEF EInv, Queues, LoopTyped, TaskType, SendTimer
<1>3. DueNow \subseteq DueNow'
  BY <1>1, <1>2, DueStays, Zenon
<1> DEFINE x == Head(task.batch)
           b == Tail(task.batch)
           ph == IF Len(task.batch) = 1 THEN "hold" ELSE "send"
<1>4. /\ x \in Timers \cup {"obsolete"} /\ x = task.batch[1] /\ 1 \in DOMAIN task.batch
      /\ b \in Seq(Timers \cup {"obsolete"})
      /\ \A i \in DOMAIN b : i + 1 \in DOMAIN task.batch /\ b[i] = task.batch[i + 1]
      /\ ph = "send" <=> b # <<>>
  <2>1. /\ Head(task.batch) \in Timers \cup {"obsolete"} /\ b \in Seq(Timers \cup {"obsolete"})
        /\ Len(b) = Len(task.batch) - 1
        /\ \A i \in 1 .. Len(b) : b[i] = task.batch[i + 1]
    BY <1>2
  <2>2. /\ DOMAIN task.batch = 1 .. Len(task.batch) /\ DOMAIN b = 1 .. Len(b)
        /\ Len(task.batch) \in Nat \ {0} /\ Len(b) \in Nat
    BY <1>2, <2>1
  <2>3. Head(task.batch) = task.batch[1]
    BY <1>2
  <2> HIDE DEF b
  <2>4. b # <<>> <=> Len(b) # 0
    <3>1. b = <<>> => Len(b) = 0
      OBVIOUS
    <3>2. ASSUME Len(b) = 0 PROVE b = <<>>
      <4>1. DOMAIN b = DOMAIN <<>>
        BY <2>2, <3>2
      <4> QED
        BY <2>1, <4>1, <3>2
    <3> QED
      BY <3>1, <3>2, Zenon
  <2> QED BY <2>1, <2>2, <2>3, <2>4
<1>5. inbox' = Append(inbox, x) /\ task' = [phase |-> ph, fresh |-> task.fresh, batch |-> b]
  BY <1>2, Zenon DEF SendTimer, TaskType
<1>6. ph \in {"hold", "send"}
  OBVIOUS
<1> HIDE DEF x, b, ph
<1>7. x \in Input
  BY <1>4, Names, Zenon
<1>8. task' \in TaskType
  BY <1>2, <1>4, <1>5, <1>6, Zenon DEF TaskType
<1>9. inbox' \in Seq(Input) /\ Len(inbox') = Len(inbox) + 1 /\ Len(inbox') \in DOMAIN inbox' /\ inbox'[Len(inbox')] = x
  BY <1>2, <1>5, <1>7
<1>10. Len(inbox') <= ENGINE_INBOX_CAPACITY
  BY <1>2, <1>9, Names
<1>11. LoopTyped'
  BY <1>1, <1>2, <1>4, <1>5, <1>8, <1>9, <1>10, Zenon DEF LoopTyped
<1>12. x \in Timers => x \in DueNow
  BY <1>4, Zenon DEF EInv, Queues, CurrentAreDue
<1>13. CurrentAreDue(inbox)'
  <2>1. CurrentAreDue(Append(inbox, x))
    BY <1>2, <1>7, <1>12, AppendKeepsDue, Zenon DEF EInv, Queues
  <2> QED BY <1>3, <1>5, <2>1, Zenon DEF CurrentAreDue
<1>14. CurrentAreDue(task.batch)'
  BY <1>3, <1>4, <1>5, Zenon DEF EInv, Queues, CurrentAreDue
<1>15. task.fresh => x \in Timers /\ \A i \in DOMAIN b : b[i] \in Timers
  BY <1>4, Zenon DEF EInv, Queues, BatchIsCurrent
<1>16. NoLostWakeup' /\ BatchIsCurrent'
  BY <1>5, <1>9, <1>15, Zenon DEF NoLostWakeup, BatchIsCurrent
<1>17. StoreTyped'
  BY <1>1, <1>2, Zenon DEF StoreTyped
<1> QED BY <1>11, <1>13, <1>14, <1>16, <1>17, Zenon DEF EInv, Queues

\* Another producer adds an input.
LEMMA ProducerStep ==
    ASSUME EInv, Submit \/ EffectFinished
    PROVE  EInv'
<1>1. UNCHANGED <<deadline, runnable, busy, recheck, derived, task, overtook>>
  BY Zenon DEF Submit, EffectFinished
<1>2. PICK x \in {"input", "outcome"} : inbox' = Append(inbox, x) /\ Len(inbox) < ENGINE_INBOX_CAPACITY
  BY Zenon DEF Submit, EffectFinished
<1>3. x \in Input /\ x \notin Timers
  BY Names, Zenon
<1>4. task \in TaskType /\ StoreTyped /\ recheck \in BOOLEAN /\ inbox \in Seq(Input)
  BY Zenon DEF EInv, Queues, LoopTyped
<1>5. DueNow \subseteq DueNow'
  BY <1>1, <1>4, DueStays, Zenon
<1>6. /\ inbox' \in Seq(Input) /\ Len(inbox') = Len(inbox) + 1
      /\ \A i \in DOMAIN inbox : i \in DOMAIN inbox' /\ inbox'[i] = inbox[i]
  BY <1>2, <1>3, <1>4
<1>7. Len(inbox') <= ENGINE_INBOX_CAPACITY
  BY <1>2, <1>4, <1>6, Names
<1>8. LoopTyped'
  BY <1>1, <1>6, <1>7, Zenon DEF EInv, Queues, LoopTyped
<1>9. CurrentAreDue(inbox)'
  <2>1. CurrentAreDue(Append(inbox, x))
    BY <1>3, <1>4, AppendKeepsDue, Zenon DEF EInv, Queues
  <2> QED BY <1>2, <1>5, <2>1, Zenon DEF CurrentAreDue
<1>10. CurrentAreDue(task.batch)'
  BY <1>1, <1>5, Zenon DEF EInv, Queues, CurrentAreDue
<1>11. NoLostWakeup' /\ BatchIsCurrent'
  BY <1>1, <1>6, Zenon DEF EInv, Queues, NoLostWakeup, BatchIsCurrent
<1>12. inputs' \in 0 .. MaxInputs
  BY <1>4, Names DEF StoreTyped, Submit, EffectFinished
<1>13. StoreTyped'
  BY <1>1, <1>4, <1>12, Zenon DEF StoreTyped
<1> QED BY <1>8, <1>9, <1>10, <1>11, <1>13, Zenon DEF EInv, Queues

\* A deadline passes, or the recheck delay does.
LEMMA TimeStep ==
    ASSUME EInv, RecheckElapses \/ \E d \in Deadlines : Elapse(d)
    PROVE  EInv'
<1>1. UNCHANGED <<runnable, busy, inbox, derived, task, inputs, overtook>>
  BY Zenon DEF RecheckElapses, Elapse
<1>2. StoreTyped /\ task \in TaskType /\ recheck \in BOOLEAN
  BY Zenon DEF EInv, Queues, LoopTyped
<1>3. recheck' \in BOOLEAN /\ (recheck => recheck')
  BY <1>2, Zenon DEF RecheckElapses, Elapse
<1>4. /\ deadline' \in [Deadlines -> {"none", "later", "due"}]
      /\ \A d \in Deadlines : deadline[d] = "due" => deadline'[d] = "due"
      /\ \A d \in Deadlines : deadline[d] # "none" => deadline'[d] # "none"
  BY <1>2, Zenon DEF RecheckElapses, Elapse, StoreTyped
<1>5. DueNow \subseteq DueNow'
  BY <1>1, <1>2, <1>3, <1>4, DueStays, Zenon
<1>6. Queues'
  BY <1>1, <1>2, <1>3, <1>5, QueuesStay, Zenon
<1>7. StoreTyped'
  BY <1>1, <1>2, <1>4, Zenon DEF StoreTyped
<1> QED BY <1>6, <1>7, Zenon DEF EInv
-----------------------------------------------------------------------------
(* Steps of the actor                                                      *)

\* A timer of an older generation leaves the inbox; the timers stay.
LEMMA IgnoreTimerStep ==
    ASSUME EInv, IgnoreTimer
    PROVE  EInv'
<1>1. UNCHANGED <<deadline, runnable, busy, recheck, derived, task, inputs, overtook>>
  BY Zenon DEF IgnoreTimer
<1>2. inbox # <<>> /\ Head(inbox) = "obsolete" /\ inbox' = Tail(inbox)
  BY Zenon DEF IgnoreTimer, Received
<1>3. /\ inbox' \in Seq(Input) /\ Len(inbox') <= ENGINE_INBOX_CAPACITY
      /\ \A i \in DOMAIN inbox' : i + 1 \in DOMAIN inbox /\ inbox'[i] = inbox[i + 1]
      /\ \A i \in DOMAIN inbox : inbox[i] # "obsolete" => i - 1 \in DOMAIN inbox' /\ inbox[i] = inbox'[i - 1]
  BY <1>2, RestOfInbox, Zenon
<1>4. StoreTyped /\ task \in TaskType /\ recheck \in BOOLEAN
  BY Zenon DEF EInv, Queues, LoopTyped
<1>5. DueNow \subseteq DueNow'
  BY <1>1, <1>4, DueStays, Zenon
<1>6. LoopTyped'
  BY <1>1, <1>3, Zenon DEF EInv, Queues, LoopTyped
<1>7. CurrentAreDue(inbox)' /\ CurrentAreDue(task.batch)'
  BY <1>1, <1>3, <1>5, Zenon DEF EInv, Queues, CurrentAreDue
<1>8. NoLostWakeup'
  <2> SUFFICES ASSUME task.phase = "hold", task.fresh PROVE \E i \in DOMAIN inbox' : inbox'[i] \in Timers
    BY <1>1, Zenon DEF NoLostWakeup
  <2>1. PICK i \in DOMAIN inbox : inbox[i] \in Timers
    BY Zenon DEF EInv, Queues, NoLostWakeup
  <2>2. inbox[i] # "obsolete"
    BY <2>1, Names, Zenon
  <2> QED BY <1>3, <2>1, <2>2, Zenon
<1>9. BatchIsCurrent' /\ StoreTyped'
  BY <1>1, <1>4, Zenon DEF EInv, Queues, BatchIsCurrent, StoreTyped
<1> QED BY <1>6, <1>7, <1>8, <1>9, Zenon DEF EInv, Queues

\* A command, a fact, an event, or the outcome of an effect.
LEMMA InputStep ==
    ASSUME EInv, ProcessInput \/ ProcessOutcome
    PROVE  EInv'
<1>1. StoreTyped /\ inbox \in Seq(Input) /\ Len(inbox) <= ENGINE_INBOX_CAPACITY
  BY Zenon DEF EInv, Queues, LoopTyped
<1>2. CASE ProcessInput
  <2>1. Queues'
    <3>1. CASE Publish(inbox)
      BY <1>1, <3>1, PublishStep, Zenon
    <3>2. CASE inbox # <<>> /\ Publish(Tail(inbox))
      BY <3>2, RestOfInbox, PublishStep, Zenon
    <3> QED BY <1>2, <3>1, <3>2, Zenon DEF ProcessInput, Received
  <2>2. derived' \in 0 .. MaxInputs
    BY <1>1, <1>2, Names DEF ProcessInput, StoreTyped
  <2>3. PICK k \in RetryKinds \cup {"Operation"}, v \in {"none", "later", "due"} :
            /\ deadline' = [deadline EXCEPT ![k] = v]
            /\ overtook' = [overtook EXCEPT ![k] = {}]
            /\ busy' \in {busy, "operation", "command"}
    BY <1>2, Zenon DEF ProcessInput
  <2>4. k \in Deadlines
    BY Names, Zenon
  <2>5. deadline' \in [Deadlines -> {"none", "later", "due"}] /\ overtook' \in [Deadlines -> SUBSET Deadlines]
    BY <1>1, <2>3, <2>4, Zenon DEF StoreTyped
  <2>6. runnable' \in BOOLEAN /\ inputs' = inputs
    BY <1>2, Zenon DEF ProcessInput
  <2>7. StoreTyped'
    BY <1>1, <2>2, <2>3, <2>5, <2>6, Zenon DEF StoreTyped
  <2> QED BY <2>1, <2>7, Zenon DEF EInv
<1>3. CASE ProcessOutcome
  <2>1. Queues'
    BY <1>3, RestOfInbox, PublishStep, Zenon DEF ProcessOutcome, Received
  <2>2. PICK v \in {"none", "later", deadline["Operation"]} : deadline' = [deadline EXCEPT !["Operation"] = v]
    BY <1>3, Zenon DEF ProcessOutcome
  <2>3. v \in {"none", "later", "due"}
    BY <1>1, Names, Zenon DEF StoreTyped
  <2>4. deadline' \in [Deadlines -> {"none", "later", "due"}]
    BY <1>1, <2>2, <2>3, Zenon DEF StoreTyped
  <2>5. overtook' \in [Deadlines -> SUBSET Deadlines]
    BY <1>1, <1>3, Zenon DEF ProcessOutcome, StoreTyped
  <2>6. StoreTyped'
    BY <1>1, <1>3, <2>4, <2>5, Zenon DEF ProcessOutcome, StoreTyped
  <2> QED BY <2>1, <2>6, Zenon DEF EInv
<1> QED BY <1>2, <1>3, Zenon

\* What a handler served has been overtaken by nothing since.
LEMMA ServeTyped ==
    ASSUME StoreTyped, NEW served \in SUBSET Deadlines, Serve(served)
    PROVE  overtook' \in [Deadlines -> SUBSET Deadlines]
BY Zenon DEF Serve, StoreTyped

\* A timer of the current generation is run.
LEMMA TimerStep ==
    ASSUME EInv, RelayPoll \/ PeerProbeRound \/ RetryDue
    PROVE  EInv'
<1>1. StoreTyped
  BY Zenon DEF EInv
<1>2. Queues'
  <2>1. PICK t \in Timers : RunsTimer(t)
    BY Zenon DEF RelayPoll, PeerProbeRound, RetryDue, Timers
  <2> QED BY <2>1, RestOfInbox, PublishStep, Zenon DEF RunsTimer, Received
<1>3. CASE RelayPoll
  <2>1. PICK n \in 0 .. (MaxInputs - inputs) : derived' = n /\ inputs' = inputs + n
    BY <1>3, Zenon DEF RelayPoll
  <2>2. derived' \in 0 .. MaxInputs /\ inputs' \in 0 .. MaxInputs
    BY <1>1, <2>1, Names DEF StoreTyped
  <2>3. overtook' \in [Deadlines -> SUBSET Deadlines]
    BY <1>1, <1>3, Names, ServeTyped, Zenon DEF RelayPoll
  <2> QED BY <1>1, <1>2, <1>3, <2>2, <2>3, Names, Zenon DEF RelayPoll, StoreTyped, EInv
<1>4. CASE PeerProbeRound
  <2>1. overtook' \in [Deadlines -> SUBSET Deadlines]
    BY <1>1, <1>4, Names, ServeTyped, Zenon DEF PeerProbeRound
  <2> QED BY <1>1, <1>2, <1>4, <2>1, Names, Zenon DEF PeerProbeRound, StoreTyped, EInv
<1>5. CASE RetryDue
  <2> DEFINE flushed == {k \in RetryKinds : run_retry_scheduler_collect(k)}
             resumed == {d \in {"Operation"} : ~OperationBlocked /\ deadline[d] = "due"}
  <2>1. flushed \cup resumed \subseteq Deadlines
    BY Names, Zenon
  <2>2. overtook' \in [Deadlines -> SUBSET Deadlines]
    <3>1. Serve(flushed \cup resumed)
      BY <1>5, Zenon DEF RetryDue
    <3> HIDE DEF flushed, resumed
    <3> QED BY <1>1, <2>1, <3>1, ServeTyped, Zenon
  <2>3. PICK started \in SUBSET resumed :
            /\ \E next \in [(flushed \ Stuck) \cup (resumed \ started) -> {"none", "later"}] :
                 deadline' = [d \in Deadlines |-> IF d \in DOMAIN next THEN next[d] ELSE deadline[d]]
            /\ busy' = IF started # {} THEN "operation" ELSE busy
    BY <1>5, Zenon DEF RetryDue
  <2>4. UNCHANGED <<runnable, derived, inputs>>
    BY <1>5, Zenon DEF RetryDue
  <2> HIDE DEF flushed, resumed
  <2>5. deadline' \in [Deadlines -> {"none", "later", "due"}]
    <3>1. PICK next \in [(flushed \ Stuck) \cup (resumed \ started) -> {"none", "later"}] :
            deadline' = [d \in Deadlines |-> IF d \in DOMAIN next THEN next[d] ELSE deadline[d]]
      BY <2>3, Zenon
    <3> QED BY <1>1, <3>1, Zenon DEF StoreTyped
  <2>6. StoreTyped'
    BY <1>1, <2>2, <2>3, <2>4, <2>5, Zenon DEF StoreTyped
  <2> QED BY <1>2, <2>6, Zenon DEF EInv
<1> QED BY <1>3, <1>4, <1>5, Zenon

-----------------------------------------------------------------------------
(* Theorems                                                                *)

\* The start of the engine: an empty inbox and a task that sleeps.
LEMMA InitEInv == SchedulerInit => EInv
<1> SUFFICES ASSUME SchedulerInit PROVE EInv
  OBVIOUS
<1>1. inbox \in Seq(Input) /\ Len(inbox) = 0 /\ DOMAIN inbox = {}
  BY DEF SchedulerInit
<1>2. task \in TaskType /\ task.phase = "wait" /\ task.batch = <<>> /\ DOMAIN task.batch = {}
  BY DEF SchedulerInit, TaskType
<1>3. runnable \in BOOLEAN /\ recheck \in BOOLEAN
  BY Zenon DEF SchedulerInit
<1>4. /\ deadline \in [Deadlines -> {"none", "later", "due"}] /\ overtook \in [Deadlines -> SUBSET Deadlines]
      /\ busy \in {"no", "command", "operation"}
  BY Zenon DEF SchedulerInit
<1>5. derived \in 0 .. MaxInputs /\ inputs \in 0 .. MaxInputs
  <2>1. derived = 0 /\ inputs = 0
    BY Zenon DEF SchedulerInit
  <2> QED BY <2>1, Names
<1>6. StoreTyped
  BY <1>3, <1>4, <1>5, Zenon DEF StoreTyped
<1>7. Len(inbox) <= ENGINE_INBOX_CAPACITY
  BY <1>1, Names
<1>8. LoopTyped
  BY <1>1, <1>2, <1>3, <1>7, Zenon DEF LoopTyped
<1> QED BY <1>1, <1>2, <1>6, <1>8, Zenon DEF EInv, Queues, NoLostWakeup, CurrentAreDue, BatchIsCurrent

\* No step of the actor, the task, another producer or time breaks the invariant.
LEMMA NextEInv == EInv /\ [SchedulerNext]_schedulerVars => EInv'
<1> SUFFICES ASSUME EInv, [SchedulerNext]_schedulerVars PROVE EInv'
  BY Zenon
<1>1. CASE UNCHANGED schedulerVars
  BY <1>1 DEF schedulerVars, EInv, StoreTyped, Queues, LoopTyped, NoLostWakeup, CurrentAreDue, BatchIsCurrent, DueNow,
              IsDue, RetryWakeupDue, OperationBlocked, Blocked, PendingKinds
<1>2. CASE Actor
  BY <1>2, IgnoreTimerStep, InputStep, TimerStep, Zenon DEF Actor
<1>3. CASE Task
  BY <1>3, TakesPlanStep, DeadlineReachedStep, SendTimerStep, Zenon DEF Task
<1> QED BY <1>1, <1>2, <1>3, ProducerStep, TimeStep, Zenon DEF SchedulerNext

\* Every reachable state satisfies the inductive invariant.
THEOREM SchedulerHolds == SchedulerSpec => []EInv
BY InitEInv, NextEInv, PTL DEF SchedulerSpec

\* The loop and the scheduler task are well typed and never both wait for the
\* other: spawn_engine_scheduler waits for another generation only while a timer
\* that makes the actor publish one is in the inbox.
THEOREM LoopInvariant == SchedulerSpec => []LoopInv
<1>1. EInv => LoopInv
  BY TypeParts, Zenon DEF EInv, Queues, LoopInv
<1> QED BY <1>1, SchedulerHolds, PTL

\* process_timer_input runs a timer only when its deadline in the current plan has
\* passed, however long it was queued and whatever rescheduled it meanwhile.
THEOREM TimersRunDue == SchedulerSpec => NoEarlyRun
<1>1. EInv /\ [SchedulerNext]_schedulerVars => [\A t \in Timers : RunsTimer(t) => IsDue(t)]_schedulerVars
  <2> SUFFICES ASSUME EInv, NEW t \in Timers, RunsTimer(t) PROVE IsDue(t)
    OBVIOUS
  <2>1. inbox # <<>> /\ Head(inbox) = t
    BY Zenon DEF RunsTimer, Received
  <2>2. inbox[1] = t /\ 1 \in DOMAIN inbox
    BY <2>1, RestOfInbox, Zenon
  <2> QED BY <2>2, Zenon DEF EInv, Queues, CurrentAreDue, DueNow
<1> QED BY <1>1, SchedulerHolds, PTL DEF SchedulerSpec, NoEarlyRun
================================================================================
