----------------------------- MODULE IncomingProofs -----------------------------
(***************************************************************************)
(* Theorems about what reaches an engine: the relay that forwards          *)
(* (RelayBroker) and the inbox that applies (PeerInbox).                   *)
(*                                                                         *)
(* PeerInbox, for any envelopes, any mixture of the two routes and any     *)
(* number of crashes. What carries the proofs is the relation of three     *)
(* durable records: an envelope that has a received_envelopes row is       *)
(* spent, one that is spent and of a recorded kind has a row, and a        *)
(* message that was ever shown has one. A replay therefore either finds    *)
(* the row or can still decrypt.                                           *)
(*                                                                         *)
(* RelayBroker, for any number of connections, handles and pairings and    *)
(* any limits. The invariant adds to the checked properties what their     *)
(* preservation rests on: identifiers in sight were issued before, so that *)
(* a fresh one names nothing; a pairing with an open bridge has not been   *)
(* told its end; and the counter of every connection, open or not, is its  *)
(* number of bridges.                                                      *)
(***************************************************************************)
EXTENDS PeerInbox, RelayBroker, FiniteSetTheorems, TLAPS

-----------------------------------------------------------------------------
(* The inductive invariant of PeerInbox                                    *)

\* The envelopes whose handling cannot fail: they decrypt, and their
\* transaction is not subject to the message rules.
Readable == (Messages \cup Capabilities) \ Undecryptable

\* The records of applied envelopes agree.
RecordsAgree ==
    /\ received \subseteq spent
    /\ spent \cap Recorded \subseteq received
    /\ \A m \in Messages : message[m] # "absent" => m \in received
    /\ \A m \in handed : receipt[m] # "none"

\* What the engine and the inbox say of an envelope is true of the records.
OutcomesAreTrue ==
    /\ \A e \in Envelopes : at[e] = "committed" \/ inbox[e] = "DELIVERED" => e \in spent
    /\ \A e \in Readable : at[e] \notin {"failed", "undecryptable"}

\* Once the conversation exists, a readable deferred envelope is in the replay
\* loop of the Welcome or of the start, and none is left after that loop.
ReplayUnderway ==
    contact.welcomed =>
        /\ phase \in {"run", "recover"} => deferred \cap Readable = {}
        /\ phase \in {"welcome", "startup"} =>
            \A e \in deferred \cap Readable : at[e] \in {"waiting", "committed"}

\* The inductive invariant.
PInv ==
    /\ TypeOK /\ AckedIsDurable /\ ReceiptIffShown /\ MessageNeverQuarantined
    /\ RecordsAgree /\ OutcomesAreTrue /\ ReplayUnderway

-----------------------------------------------------------------------------
(* Receipts and the transaction of an envelope                             *)

\* A flush neither creates nor forgets a receipt.
LEMMA FlushKeepsReceipts ==
    ASSUME NEW r \in [Messages -> ReceiptState], flush_pending_receipt_effects(r),
           handed \subseteq Messages
    PROVE  /\ receipt' \in [Messages -> ReceiptState]
           /\ handed' \subseteq Messages
           /\ \A m \in Messages : receipt'[m] = "none" <=> r[m] = "none"
           /\ \A m \in handed' : m \in handed \/ receipt'[m] # "none"
<1>1. /\ receipt' \in [Messages -> ReceiptState]
      /\ \A m \in Messages : receipt'[m] \in flush_receipt(r[m])
      /\ handed' = handed \cup {m \in Messages : receipt'[m] = "SENT"}
  BY Zenon DEF flush_pending_receipt_effects
<1>2. \A m \in Messages : receipt'[m] = "none" <=> r[m] = "none"
  BY <1>1, Zenon DEF flush_receipt, OpenReceipt
<1> QED
  BY <1>1, <1>2, Zenon

\* The transaction of one envelope keeps the records together, whatever its
\* outcome; a readable envelope is always committed.
LEMMA ApplyKeepsRecords ==
    ASSUME TypeOK, RecordsAgree, ReceiptIffShown,
           NEW e \in Envelopes, NEW o \in Outcome, Apply(e, o)
    PROVE  /\ RecordsAgree' /\ ReceiptIffShown'
           /\ received' \subseteq Envelopes /\ spent' \subseteq Envelopes
           /\ message' \in [Messages -> {"absent", "visible", "deleted"}]
           /\ receipt' \in [Messages -> ReceiptState] /\ handed' \subseteq Messages
           /\ spent \subseteq spent'
           /\ o = "committed" => e \in spent'
           /\ e \in Readable => o = "committed"
           /\ \A m \in Messages : message[m] = "deleted" => message'[m] = "deleted"
<1>1. /\ message \in [Messages -> {"absent", "visible", "deleted"}]
      /\ receipt \in [Messages -> ReceiptState] /\ handed \subseteq Messages
      /\ received \subseteq Envelopes /\ spent \subseteq Envelopes
  BY Zenon DEF TypeOK
<1>2. CASE e \in received /\ o = "committed" /\ flush_pending_receipt_effects(receipt)
           /\ UNCHANGED <<received, spent, message>>
  <2>1. /\ receipt' \in [Messages -> ReceiptState] /\ handed' \subseteq Messages
        /\ \A m \in Messages : receipt'[m] = "none" <=> receipt[m] = "none"
        /\ \A m \in handed' : m \in handed \/ receipt'[m] # "none"
    BY <1>1, <1>2, FlushKeepsReceipts, Zenon
  <2> QED
    BY <1>1, <1>2, <2>1, Zenon DEF RecordsAgree, ReceiptIffShown
<1>3. CASE e \notin received /\ o = "committed" /\ Commit(e)
  <2> DEFINE r == IF Shows(e) THEN [receipt EXCEPT ![e] = "PENDING"] ELSE receipt
  <2>1. r \in [Messages -> ReceiptState]
    BY <1>1, Zenon DEF ReceiptState
  <2>2. flush_pending_receipt_effects(r)
    BY <1>3, Zenon DEF Commit
  <2>3. \A m \in Messages : r[m] = "none" <=> (receipt[m] = "none" /\ ~(Shows(e) /\ m = e))
    BY <1>1, Zenon DEF Shows
  <2> HIDE DEF r
  <2>4. /\ receipt' \in [Messages -> ReceiptState] /\ handed' \subseteq Messages
        /\ \A m \in Messages : receipt'[m] = "none" <=> r[m] = "none"
        /\ \A m \in handed' : m \in handed \/ receipt'[m] # "none"
    BY <1>1, <2>1, <2>2, FlushKeepsReceipts, Zenon
  <2>5. /\ received' = received \cup ({e} \cap Recorded) /\ spent' = spent \cup {e}
        /\ message' = IF Shows(e) THEN [message EXCEPT ![e] = "visible"] ELSE message
    BY <1>3, Zenon DEF Commit, put_received_envelope, receive_message_reply
  <2>6. /\ message' \in [Messages -> {"absent", "visible", "deleted"}]
        /\ \A m \in Messages : message'[m] = IF Shows(e) /\ m = e THEN "visible" ELSE message[m]
    BY <1>1, <2>5, Zenon DEF Shows
  <2>7. ReceiptIffShown'
    BY <2>3, <2>4, <2>6, Zenon DEF ReceiptIffShown
  <2>8. RecordsAgree'
    BY <2>3, <2>4, <2>5, <2>6, Zenon DEF RecordsAgree, Recorded, Shows
  <2>9. \A m \in Messages : message[m] = "deleted" => message'[m] = "deleted"
    BY <1>3, <2>6, Zenon DEF RecordsAgree
  <2> QED
    BY <1>1, <1>3, <2>4, <2>5, <2>6, <2>7, <2>8, <2>9, Zenon DEF Readable
<1>4. CASE /\ e \notin received
           /\ o = IF decrypt(e) THEN "failed" ELSE "undecryptable"
           /\ decrypt(e) => e \in Receipts
           /\ UNCHANGED <<received, spent, message, receipt, handed>>
  <2>1. e \notin Readable
    BY <1>4, EnvelopesAssumption, Zenon DEF RecordsAgree, decrypt, Readable, Recorded
  <2> QED
    BY <1>1, <1>4, <2>1, Zenon DEF RecordsAgree, ReceiptIffShown
<1> QED
  BY <1>2, <1>3, <1>4, Zenon DEF Apply

-----------------------------------------------------------------------------
(* One lemma per action                                                    *)

ContactType == [welcomed : BOOLEAN, accepts : BOOLEAN, blocked : BOOLEAN]

\* Updating the one busy envelope, or the first one, leaves at most one busy.
LEMMA OneBusy ==
    ASSUME TypeOK, NEW e \in Envelopes, NEW p \in Position,
           \A f \in Envelopes : f # e => at[f] \in {"idle", "waiting"},
           at' = [at EXCEPT ![e] = p]
    PROVE  /\ at' \in [Envelopes -> Position]
           /\ \A f \in Envelopes : at'[f] = IF f = e THEN p ELSE at[f]
           /\ \A f, g \in Envelopes :
                at'[f] \notin {"idle", "waiting"} /\ at'[g] \notin {"idle", "waiting"} => f = g
BY Zenon DEF TypeOK

\* A replay loop starts with every envelope idle or waiting.
LEMMA LoopIsIdle ==
    ASSUME NEW S, at' = Loop(S)
    PROVE  /\ at' \in [Envelopes -> Position]
           /\ \A f \in Envelopes : at'[f] = IF f \in S THEN "waiting" ELSE "idle"
BY Zenon DEF Loop, Position, Outcome

\* The transaction of an envelope that was stored or that is next in the loop.
LEMMA HandleEnvelopeStep ==
    ASSUME PInv, NEW e \in Envelopes, NEW o \in Outcome, HandleEnvelope(e, o)
    PROVE  PInv'
<1>1. /\ RecordsAgree' /\ ReceiptIffShown'
      /\ received' \subseteq Envelopes /\ spent' \subseteq Envelopes
      /\ message' \in [Messages -> {"absent", "visible", "deleted"}]
      /\ receipt' \in [Messages -> ReceiptState] /\ handed' \subseteq Messages
      /\ spent \subseteq spent'
      /\ o = "committed" => e \in spent'
      /\ e \in Readable => o = "committed"
  BY ApplyKeepsRecords, Zenon DEF PInv, HandleEnvelope, handle_application_envelope
<1>2. /\ at[e] \in {"stored", "waiting"} /\ at' = [at EXCEPT ![e] = o]
      /\ UNCHANGED <<inbox, deferred, contact, phase, acks, crashes>>
  BY Zenon DEF HandleEnvelope
<1>3. \A f \in Envelopes : f # e => at[f] \in {"idle", "waiting"}
  BY Zenon DEF HandleEnvelope, PInv, TypeOK, NoneBusy
<1>4. /\ at' \in [Envelopes -> Position]
      /\ \A f \in Envelopes : at'[f] = IF f = e THEN o ELSE at[f]
      /\ \A f, g \in Envelopes :
           at'[f] \notin {"idle", "waiting"} /\ at'[g] \notin {"idle", "waiting"} => f = g
  BY <1>2, <1>3, OneBusy, Zenon DEF PInv, Position
<1>5. TypeOK'
  BY <1>1, <1>2, <1>4, Zenon DEF PInv, TypeOK
<1>6. AckedIsDurable' /\ MessageNeverQuarantined'
  BY <1>1, <1>2, Zenon DEF PInv, AckedIsDurable, MessageNeverQuarantined
<1>7. OutcomesAreTrue'
  BY <1>1, <1>2, <1>4, Zenon DEF PInv, OutcomesAreTrue, Readable, Envelopes
<1>8. ReplayUnderway'
  BY <1>1, <1>2, <1>4 DEF PInv, ReplayUnderway, TypeOK
<1> QED
  BY <1>1, <1>5, <1>6, <1>7, <1>8, Zenon DEF PInv

\* An envelope that arrives is stored before it is acknowledged.
LEMMA InboundMessageStep ==
    ASSUME PInv, NEW e \in Envelopes, InboundMessage(e)
    PROVE  PInv'
<1>1. /\ phase = "run" /\ contact.welcomed
      /\ \A f \in Envelopes : at[f] = "idle"
      /\ inbox' = IF inbox[e] = "none" THEN [inbox EXCEPT ![e] = "PERSISTED"] ELSE inbox
      /\ UNCHANGED <<deferred, received, spent, message, receipt, handed, contact, phase, crashes>>
  BY Zenon DEF InboundMessage, Idle, store_inbound_peer_envelope
<1>2. /\ inbox' \in [Envelopes -> RowState]
      /\ inbox'[e] # "none"
      /\ \A f \in Envelopes : inbox'[f] = inbox[f] \/ (f = e /\ inbox'[f] = "PERSISTED")
  BY <1>1, ZenonT(30) DEF PInv, TypeOK, RowState
<1>3. \A f \in Envelopes : inbox[f] # "none" => inbox'[f] # "none"
  BY <1>2, Zenon
<1>4. /\ acks' \in [Envelopes -> SUBSET AckKind]
      /\ \A f \in Envelopes : "Persisted" \in acks'[f] => "Persisted" \in acks[f] \/ f = e
      /\ \A f \in Envelopes : "Delivered" \in acks'[f]
            => "Delivered" \in acks[f] \/ (f = e /\ inbox[e] = "DELIVERED")
  BY DEF InboundMessage, PInv, TypeOK, AckKind
<1>5. /\ at' \in [Envelopes -> Position]
      /\ \A f \in Envelopes : at'[f] \in {"idle", "stored"}
      /\ \A f \in Envelopes : f # e => at'[f] = "idle"
  BY <1>1 DEF InboundMessage, PInv, TypeOK, Position
<1>6. TypeOK'
  BY <1>1, <1>2, <1>4, <1>5, Zenon DEF PInv, TypeOK
<1>7. AckedIsDurable'
  BY <1>1, <1>2, <1>3, <1>4, Zenon DEF PInv, AckedIsDurable, OutcomesAreTrue
<1>8. MessageNeverQuarantined' /\ OutcomesAreTrue'
  BY <1>1, <1>2, <1>5, Zenon DEF PInv, MessageNeverQuarantined, OutcomesAreTrue, Readable, Envelopes
<1>9. ReceiptIffShown' /\ RecordsAgree' /\ ReplayUnderway'
  BY <1>1, Zenon DEF PInv, ReceiptIffShown, RecordsAgree, ReplayUnderway
<1> QED
  BY <1>6, <1>7, <1>8, <1>9, Zenon DEF PInv

\* A committed envelope is marked, in the input loop and in the recovery.
LEMMA CompleteStep ==
    ASSUME PInv, NEW e \in Envelopes, CompleteInbound(e) \/ RecoverComplete(e)
    PROVE  PInv'
<1>1. /\ phase \in {"run", "recover"} /\ at[e] = "committed"
      /\ inbox' = [inbox EXCEPT ![e] = "DELIVERED"]
      /\ at' = [at EXCEPT ![e] = "idle"]
      /\ UNCHANGED <<deferred, received, spent, message, receipt, handed, contact, phase, crashes>>
  BY Zenon DEF CompleteInbound, RecoverComplete, complete_inbound_peer_envelope
<1>2. e \in spent
  BY <1>1, Zenon DEF PInv, OutcomesAreTrue
<1>3. /\ acks' \in [Envelopes -> SUBSET AckKind]
      /\ \A f \in Envelopes : "Persisted" \in acks'[f] => "Persisted" \in acks[f]
      /\ \A f \in Envelopes : "Delivered" \in acks'[f] => "Delivered" \in acks[f] \/ f = e
  BY DEF CompleteInbound, RecoverComplete, PInv, TypeOK, AckKind
<1>4. \A f \in Envelopes : f # e => at[f] \in {"idle", "waiting"}
  BY <1>1, Zenon DEF PInv, TypeOK
<1>5. "idle" \in Position
  BY Zenon DEF Position
<1>6. /\ at' \in [Envelopes -> Position]
      /\ \A f \in Envelopes : at'[f] = IF f = e THEN "idle" ELSE at[f]
      /\ \A f, g \in Envelopes :
           at'[f] \notin {"idle", "waiting"} /\ at'[g] \notin {"idle", "waiting"} => f = g
  BY <1>1, <1>4, <1>5, OneBusy, Zenon DEF PInv
<1>7. /\ inbox' \in [Envelopes -> RowState]
      /\ \A f \in Envelopes : inbox'[f] = IF f = e THEN "DELIVERED" ELSE inbox[f]
  BY <1>1, Zenon DEF PInv, TypeOK, RowState
<1>8. TypeOK'
  BY <1>1, <1>3, <1>6, <1>7, Zenon DEF PInv, TypeOK
<1>9. AckedIsDurable'
  BY <1>1, <1>2, <1>3, <1>7, Zenon DEF PInv, AckedIsDurable
<1>10. MessageNeverQuarantined' /\ OutcomesAreTrue'
  BY <1>1, <1>2, <1>6, <1>7, Zenon DEF PInv, MessageNeverQuarantined, OutcomesAreTrue, Readable, Envelopes
<1>11. ReceiptIffShown' /\ RecordsAgree' /\ ReplayUnderway'
  BY <1>1, Zenon DEF PInv, ReceiptIffShown, RecordsAgree, ReplayUnderway
<1> QED
  BY <1>8, <1>9, <1>10, <1>11, Zenon DEF PInv

\* Only an envelope that may fail is rejected.
LEMMA RejectStep ==
    ASSUME PInv, NEW e \in Envelopes, RejectInbound(e) \/ RecoverReject(e)
    PROVE  PInv'
<1>1. /\ phase \in {"run", "recover"} /\ at[e] \in {"failed", "undecryptable"}
      /\ inbox' = [inbox EXCEPT ![e] = "REJECTED"]
      /\ at' = [at EXCEPT ![e] = "idle"]
      /\ UNCHANGED <<deferred, received, spent, message, receipt, handed, phase, crashes>>
  BY Zenon DEF RejectInbound, RecoverReject, reject_inbound_peer_envelope
<1>2. e \notin Readable
  BY <1>1, Zenon DEF PInv, OutcomesAreTrue
<1>3. contact' \in ContactType /\ contact'.welcomed = contact.welcomed
  BY ZenonT(30) DEF RejectInbound, RecoverReject, PInv, TypeOK, ContactType
<1>4. /\ acks' \in [Envelopes -> SUBSET AckKind]
      /\ \A f \in Envelopes : "Persisted" \in acks'[f] => "Persisted" \in acks[f]
      /\ \A f \in Envelopes : "Delivered" \in acks'[f] => "Delivered" \in acks[f]
  BY DEF RejectInbound, RecoverReject, PInv, TypeOK, AckKind
<1>5. \A f \in Envelopes : f # e => at[f] \in {"idle", "waiting"}
  BY <1>1, Zenon DEF PInv, TypeOK
<1>6. "idle" \in Position
  BY Zenon DEF Position
<1>7. /\ at' \in [Envelopes -> Position]
      /\ \A f \in Envelopes : at'[f] = IF f = e THEN "idle" ELSE at[f]
      /\ \A f, g \in Envelopes :
           at'[f] \notin {"idle", "waiting"} /\ at'[g] \notin {"idle", "waiting"} => f = g
  BY <1>1, <1>5, <1>6, OneBusy, Zenon DEF PInv
<1>8. /\ inbox' \in [Envelopes -> RowState]
      /\ \A f \in Envelopes : inbox'[f] = IF f = e THEN "REJECTED" ELSE inbox[f]
  BY <1>1, Zenon DEF PInv, TypeOK, RowState
<1>9. TypeOK'
  BY <1>1, <1>3, <1>4, <1>7, <1>8, Zenon DEF PInv, TypeOK, ContactType
<1>10. AckedIsDurable'
  BY <1>1, <1>4, <1>8, Zenon DEF PInv, AckedIsDurable
<1>11. MessageNeverQuarantined' /\ OutcomesAreTrue'
  BY <1>1, <1>2, <1>7, <1>8, Zenon DEF PInv, MessageNeverQuarantined, OutcomesAreTrue, Readable, Envelopes
<1>12. ReceiptIffShown' /\ RecordsAgree'
  BY <1>1, Zenon DEF PInv, ReceiptIffShown, RecordsAgree
<1>13. ReplayUnderway'
  BY <1>1, <1>3, Zenon DEF PInv, ReplayUnderway
<1> QED
  BY <1>9, <1>10, <1>11, <1>12, <1>13, Zenon DEF PInv

\* A deferred envelope leaves the table when it was committed, and stays when
\* its handling failed.
LEMMA DrainStep ==
    ASSUME PInv, NEW e \in Envelopes, DrainRemove(e) \/ DrainKeep(e)
    PROVE  PInv'
<1>1. /\ phase \in {"welcome", "startup"} /\ at[e] \in Outcome
      /\ at' = [at EXCEPT ![e] = "idle"]
      /\ UNCHANGED <<inbox, received, spent, message, receipt, handed, contact, phase, acks, crashes>>
  BY Zenon DEF DrainRemove, DrainKeep, durable, Outcome
<1>2. deferred' \subseteq deferred /\ (e \in Readable => e \notin deferred')
  BY Zenon DEF DrainRemove, DrainKeep, remove_pending_application_envelope, durable, PInv, OutcomesAreTrue
<1>3. \A f \in Envelopes : f # e => at[f] \in {"idle", "waiting"}
  BY <1>1, Zenon DEF PInv, TypeOK, Outcome
<1>4. "idle" \in Position
  BY Zenon DEF Position
<1>5. /\ at' \in [Envelopes -> Position]
      /\ \A f \in Envelopes : at'[f] = IF f = e THEN "idle" ELSE at[f]
      /\ \A f, g \in Envelopes :
           at'[f] \notin {"idle", "waiting"} /\ at'[g] \notin {"idle", "waiting"} => f = g
  BY <1>1, <1>3, <1>4, OneBusy, Zenon DEF PInv
<1>6. TypeOK'
  BY <1>1, <1>2, <1>5, Zenon DEF PInv, TypeOK
<1>7. AckedIsDurable' /\ MessageNeverQuarantined' /\ ReceiptIffShown' /\ RecordsAgree'
  BY <1>1, Zenon DEF PInv, AckedIsDurable, MessageNeverQuarantined, ReceiptIffShown, RecordsAgree
<1>8. OutcomesAreTrue'
  BY <1>1, <1>5, Zenon DEF PInv, OutcomesAreTrue, Readable, Envelopes
<1>9. ReplayUnderway'
  BY <1>1, <1>2, <1>5 DEF PInv, TypeOK, ReplayUnderway
<1> QED
  BY <1>6, <1>7, <1>8, <1>9, Zenon DEF PInv

\* What a step does to the loops of the engine, and to nothing else.
LEMMA LoopStep ==
    ASSUME PInv, BeginRecovery \/ EnterInputLoop \/ commit_contact_with_conversation
    PROVE  PInv'
<1>1. /\ Idle
      /\ UNCHANGED <<inbox, deferred, received, spent, message, receipt, handed, acks, crashes>>
  BY Zenon DEF BeginRecovery, EnterInputLoop, commit_contact_with_conversation, durable
<1>2. /\ at' \in [Envelopes -> Position]
      /\ \A f \in Envelopes : at'[f] \in {"idle", "waiting"}
  <2>1. CASE BeginRecovery
    BY <2>1, LoopIsIdle, Zenon DEF BeginRecovery
  <2>2. CASE EnterInputLoop
    BY <2>2, Zenon DEF EnterInputLoop, Idle, PInv, TypeOK
  <2>3. CASE commit_contact_with_conversation
    BY <2>3, LoopIsIdle, Zenon DEF commit_contact_with_conversation
  <2> QED
    BY <2>1, <2>2, <2>3, Zenon
<1>3. contact' \in ContactType /\ phase' \in {"run", "welcome", "startup", "recover"}
  BY Zenon DEF BeginRecovery, EnterInputLoop, commit_contact_with_conversation, PInv, TypeOK, ContactType
<1>4. TypeOK'
  BY <1>1, <1>2, <1>3, Zenon DEF PInv, TypeOK, ContactType
<1>5. AckedIsDurable' /\ MessageNeverQuarantined' /\ ReceiptIffShown' /\ RecordsAgree'
  BY <1>1, Zenon DEF PInv, AckedIsDurable, MessageNeverQuarantined, ReceiptIffShown, RecordsAgree
<1>6. OutcomesAreTrue'
  BY <1>1, <1>2, Zenon DEF PInv, OutcomesAreTrue, Readable, Envelopes
<1>7. ReplayUnderway'
  <2>1. CASE BeginRecovery
    <3>1. phase = "startup" /\ phase' = "recover" /\ contact' = contact
      BY <2>1, Zenon DEF BeginRecovery
    <3> QED
      BY <1>1, <3>1, Zenon DEF PInv, TypeOK, ReplayUnderway, Idle
  <2>2. CASE EnterInputLoop
    <3>1. phase \in {"recover", "welcome"} /\ phase' = "run" /\ contact' = contact
      BY <2>2, Zenon DEF EnterInputLoop
    <3> QED
      BY <1>1, <3>1, Zenon DEF PInv, TypeOK, ReplayUnderway, Idle
  <2>3. CASE commit_contact_with_conversation
    <3>1. phase' = "welcome" /\ at' = Loop(deferred)
      BY <2>3, Zenon DEF commit_contact_with_conversation, pending_application_envelopes
    <3>2. \A f \in Envelopes : f \in deferred => at'[f] = "waiting"
      BY <3>1, LoopIsIdle, Zenon
    <3> QED
      BY <1>1, <3>1, <3>2, Zenon DEF PInv, TypeOK, ReplayUnderway
  <2> QED
    BY <2>1, <2>2, <2>3, Zenon
<1> QED
  BY <1>4, <1>5, <1>6, <1>7, Zenon DEF PInv

\* The relay delivers before the Welcome into the table, and after it to MLS.
LEMMA RelayStep ==
    ASSUME PInv, NEW e \in Envelopes,
           RelayEnvelopeDeferred(e) \/ (\E o \in Outcome : RelayEnvelopeApplied(e, o))
    PROVE  PInv'
<1>1. CASE RelayEnvelopeDeferred(e)
  <2>1. /\ ~contact.welcomed /\ deferred' = deferred \cup {e}
        /\ UNCHANGED <<inbox, received, spent, message, receipt, handed, contact, phase, at, acks, crashes>>
    BY <1>1, Zenon DEF RelayEnvelopeDeferred, DeferEnvelope, put_pending_application_envelope
  <2> QED
    BY <2>1, Zenon DEF PInv, TypeOK, AckedIsDurable, MessageNeverQuarantined, ReceiptIffShown,
                RecordsAgree, OutcomesAreTrue, ReplayUnderway
<1>2. CASE \E o \in Outcome : RelayEnvelopeApplied(e, o)
  <2>1. PICK o \in Outcome : RelayEnvelopeApplied(e, o)
    BY <1>2, Zenon
  <2>2. /\ Apply(e, o)
        /\ UNCHANGED <<inbox, deferred, contact, phase, at, acks, crashes>>
    BY <2>1, Zenon DEF RelayEnvelopeApplied, handle_application_envelope
  <2>3. /\ RecordsAgree' /\ ReceiptIffShown'
        /\ received' \subseteq Envelopes /\ spent' \subseteq Envelopes
        /\ message' \in [Messages -> {"absent", "visible", "deleted"}]
        /\ receipt' \in [Messages -> ReceiptState] /\ handed' \subseteq Messages
        /\ spent \subseteq spent'
    BY <2>2, ApplyKeepsRecords, Zenon DEF PInv
  <2>4. TypeOK'
    BY <2>2, <2>3, Zenon DEF PInv, TypeOK
  <2>5. AckedIsDurable' /\ MessageNeverQuarantined' /\ OutcomesAreTrue' /\ ReplayUnderway'
    BY <2>2, <2>3, Zenon DEF PInv, AckedIsDurable, MessageNeverQuarantined, OutcomesAreTrue, ReplayUnderway
  <2> QED
    BY <2>3, <2>4, <2>5, Zenon DEF PInv
<1> QED
  BY <1>1, <1>2, Zenon

\* What the user and the transport do to messages, receipts and the contact.
LEMMA OtherInputStep ==
    ASSUME PInv,
           \/ set_blocked \/ ReceiptFlush \/ TransportLost
           \/ \E m \in Messages : \/ command_delete_message_local(m)
                                  \/ complete_delivery_receipt(m)
                                  \/ handle_failed_peer_receipt_delivery(m)
    PROVE  PInv'
<1>1. UNCHANGED <<inbox, deferred, received, spent, phase, at, acks, crashes>>
  BY Zenon DEF set_blocked, ReceiptFlush, TransportLost, command_delete_message_local,
         complete_delivery_receipt, handle_failed_peer_receipt_delivery, UnchangedInbound
<1>2. contact' \in ContactType /\ contact'.welcomed = contact.welcomed
  BY ZenonT(30) DEF set_blocked, ReceiptFlush, TransportLost, command_delete_message_local,
         complete_delivery_receipt, handle_failed_peer_receipt_delivery, PInv, TypeOK, ContactType
<1>3. /\ receipt' \in [Messages -> ReceiptState] /\ handed' \subseteq Messages
      /\ \A m \in Messages : receipt'[m] = "none" <=> receipt[m] = "none"
      /\ \A m \in handed' : m \in handed \/ receipt'[m] # "none"
  <2>1. /\ receipt \in [Messages -> ReceiptState] /\ handed \subseteq Messages
        /\ \A m \in handed : receipt[m] # "none"
    BY Zenon DEF PInv, TypeOK, RecordsAgree
  <2>2. CASE ReceiptFlush
    BY <2>1, <2>2, FlushKeepsReceipts, Zenon DEF ReceiptFlush
  <2>3. CASE TransportLost
    BY <2>1, <2>3, Zenon DEF TransportLost, requeue_after_disconnect, ReceiptState
  <2>4. CASE set_blocked \/ \E m \in Messages : command_delete_message_local(m)
    BY <2>1, <2>4, Zenon DEF set_blocked, command_delete_message_local
  <2>5. CASE \E m \in Messages : complete_delivery_receipt(m) \/ handle_failed_peer_receipt_delivery(m)
    BY <2>1, <2>5 DEF complete_delivery_receipt, handle_failed_peer_receipt_delivery, ReceiptState
  <2> QED
    BY <2>2, <2>3, <2>4, <2>5, Zenon
<1>4. /\ message' \in [Messages -> {"absent", "visible", "deleted"}]
      /\ \A m \in Messages : message'[m] = "absent" <=> message[m] = "absent"
  BY Zenon DEF set_blocked, ReceiptFlush, TransportLost, command_delete_message_local,
         complete_delivery_receipt, handle_failed_peer_receipt_delivery, PInv, TypeOK
<1>5. TypeOK'
  BY <1>1, <1>2, <1>3, <1>4, Zenon DEF PInv, TypeOK, ContactType
<1>6. ReceiptIffShown' /\ RecordsAgree'
  BY <1>1, <1>3, <1>4, Zenon DEF PInv, TypeOK, ReceiptIffShown, RecordsAgree
<1>7. AckedIsDurable' /\ MessageNeverQuarantined' /\ OutcomesAreTrue'
  BY <1>1, Zenon DEF PInv, AckedIsDurable, MessageNeverQuarantined, OutcomesAreTrue
<1>8. ReplayUnderway'
  BY <1>1, <1>2, Zenon DEF PInv, ReplayUnderway
<1> QED
  BY <1>5, <1>6, <1>7, <1>8, Zenon DEF PInv

\* A crash loses what was in memory; the start puts the deferred envelopes in
\* its first loop.
LEMMA RestartStep ==
    ASSUME PInv, Restart
    PROVE  PInv'
<1>1. /\ crashes < MaxCrashes /\ crashes' = crashes + 1
      /\ handed' = {} /\ phase' = "startup"
      /\ UNCHANGED <<inbox, deferred, received, spent, message, acks>>
  BY Zenon DEF Restart, Startup
<1>2. /\ receipt' \in [Messages -> ReceiptState]
      /\ \A m \in Messages : receipt'[m] = "none" <=> receipt[m] = "none"
  BY Zenon DEF Restart, requeue_after_disconnect, ReceiptState, PInv, TypeOK
<1>3. contact' \in ContactType /\ contact'.welcomed = contact.welcomed
  BY Zenon DEF Restart, rejected_inbound_peer_senders, PInv, TypeOK, ContactType
<1>4. at' = Loop(IF contact.welcomed THEN deferred ELSE {})
  BY Zenon DEF Restart, Startup, pending_application_envelopes
<1>5. /\ at' \in [Envelopes -> Position]
      /\ \A f \in Envelopes : at'[f] = IF f \in (IF contact.welcomed THEN deferred ELSE {})
                                       THEN "waiting" ELSE "idle"
  BY <1>4, LoopIsIdle, Zenon
<1>6. TypeOK'
  BY <1>1, <1>2, <1>3, <1>5, EnvelopesAssumption DEF PInv, TypeOK, ContactType
<1>7. AckedIsDurable' /\ MessageNeverQuarantined'
  BY <1>1, Zenon DEF PInv, AckedIsDurable, MessageNeverQuarantined
<1>8. ReceiptIffShown' /\ RecordsAgree'
  BY <1>1, <1>2, Zenon DEF PInv, ReceiptIffShown, RecordsAgree
<1>9. OutcomesAreTrue'
  BY <1>1, <1>5, Zenon DEF PInv, OutcomesAreTrue, Readable, Envelopes
<1>10. ReplayUnderway'
  BY <1>1, <1>3, <1>5, Zenon DEF PInv, TypeOK, ReplayUnderway
<1> QED
  BY <1>6, <1>7, <1>8, <1>9, <1>10, Zenon DEF PInv

-----------------------------------------------------------------------------
(* The theorems                                                            *)

\* PInv holds initially.
LEMMA InboxInit == Init => PInv
<1> SUFFICES ASSUME Init PROVE PInv
  OBVIOUS
<1>1. TypeOK
  BY EnvelopesAssumption DEF Init, TypeOK, RowState, ReceiptState, Position
<1>2. AckedIsDurable /\ ReceiptIffShown /\ MessageNeverQuarantined
  BY Zenon DEF Init, AckedIsDurable, ReceiptIffShown, MessageNeverQuarantined, Envelopes
<1>3. RecordsAgree /\ OutcomesAreTrue /\ ReplayUnderway
  BY Zenon DEF Init, RecordsAgree, OutcomesAreTrue, ReplayUnderway, Readable, Envelopes
<1> QED
  BY <1>1, <1>2, <1>3, Zenon DEF PInv

\* PInv is inductive.
LEMMA InboxInductive == Spec => []PInv
<1>1. PInv /\ [Next]_vars => PInv'
  <2> SUFFICES ASSUME PInv, [Next]_vars PROVE PInv'
    BY Zenon
  <2>1. CASE \E e \in Envelopes, o \in Outcome : HandleEnvelope(e, o)
    BY <2>1, HandleEnvelopeStep, Zenon
  <2>2. CASE \E e \in Envelopes : CompleteInbound(e) \/ RecoverComplete(e)
    BY <2>2, CompleteStep, Zenon
  <2>3. CASE \E e \in Envelopes : RejectInbound(e) \/ RecoverReject(e)
    BY <2>3, RejectStep, Zenon
  <2>4. CASE \E e \in Envelopes : DrainRemove(e) \/ DrainKeep(e)
    BY <2>4, DrainStep, Zenon
  <2>5. CASE BeginRecovery \/ EnterInputLoop \/ commit_contact_with_conversation
    BY <2>5, LoopStep, Zenon
  <2>6. CASE \E e \in Envelopes : InboundMessage(e)
    BY <2>6, InboundMessageStep, Zenon
  <2>7. CASE \E e \in Envelopes : \/ RelayEnvelopeDeferred(e)
                                  \/ \E o \in Outcome : RelayEnvelopeApplied(e, o)
    BY <2>7, RelayStep, Zenon
  <2>8. CASE \/ set_blocked \/ ReceiptFlush \/ TransportLost
             \/ \E m \in Messages : \/ command_delete_message_local(m)
                                    \/ complete_delivery_receipt(m)
                                    \/ handle_failed_peer_receipt_delivery(m)
    BY <2>8, OtherInputStep, Zenon
  <2>9. CASE Restart
    BY <2>9, RestartStep, Zenon
  <2>10. CASE UNCHANGED vars
    BY <2>10, Zenon DEF vars, durable, PInv, TypeOK, AckedIsDurable, MessageNeverQuarantined, ReceiptIffShown,
                 RecordsAgree, OutcomesAreTrue, ReplayUnderway
  <2> QED
    BY <2>1, <2>2, <2>3, <2>4, <2>5, <2>6, <2>7, <2>8, <2>9, <2>10, ZenonT(30) DEF Next, EngineStep
<1> QED
  BY <1>1, InboxInit, PTL DEF Spec

\* The promises of the receiver hold through any number of crashes: what was
\* acknowledged as Persisted is stored, what was acknowledged as Delivered was
\* applied, and a receipt exists exactly for what was shown.
THEOREM InboxInvariant == Spec => []InboxInv
<1>1. PInv => InboxInv
  BY Zenon DEF PInv, InboxInv
<1> QED
  BY <1>1, InboxInductive, PTL

\* A message or capability that decrypts is never quarantined, wherever the
\* process was killed while it was applied.
THEOREM NeverQuarantined == Spec => []MessageNeverQuarantined
<1>1. PInv => MessageNeverQuarantined
  BY Zenon DEF PInv
<1> QED
  BY <1>1, InboxInductive, PTL

\* No readable envelope is left in the deferred table when the engine takes
\* inputs after the Welcome.
THEOREM AllDeferredReplayed == Spec => []DeferredReplayed
<1>1. PInv => DeferredReplayed
  BY Zenon DEF PInv, ReplayUnderway, Readable, DeferredReplayed
<1> QED
  BY <1>1, InboxInductive, PTL

\* A deleted message never comes back, whatever arrives again.
THEOREM DeletedStaysDeleted == Spec => NoResurrection
<1> DEFINE Stays == \A m \in Messages : message[m] = "deleted" => message'[m] = "deleted"
<1>1. PInv /\ [Next]_vars => [Stays]_vars
  <2> SUFFICES ASSUME PInv, Next PROVE Stays
    BY Zenon DEF vars
  <2>1. CASE \E e \in Envelopes, o \in Outcome : HandleEnvelope(e, o) \/ RelayEnvelopeApplied(e, o)
    BY <2>1, ApplyKeepsRecords, Zenon DEF PInv, HandleEnvelope, RelayEnvelopeApplied, handle_application_envelope
  <2>2. CASE \E m \in Messages : command_delete_message_local(m)
    BY <2>2, Zenon DEF command_delete_message_local, PInv, TypeOK
  <2>3. CASE message' = message
    BY <2>3, Zenon
  <2>4. \/ \E e \in Envelopes, o \in Outcome : HandleEnvelope(e, o) \/ RelayEnvelopeApplied(e, o)
        \/ \E m \in Messages : command_delete_message_local(m)
        \/ message' = message
    BY Zenon DEF Next, EngineStep, durable, CompleteInbound, RejectInbound, DrainRemove, DrainKeep,
           RecoverComplete, RecoverReject, BeginRecovery, EnterInputLoop, InboundMessage,
           RelayEnvelopeDeferred, complete_delivery_receipt, handle_failed_peer_receipt_delivery,
           commit_contact_with_conversation, set_blocked, ReceiptFlush, TransportLost, Restart
  <2> QED
    BY <2>1, <2>2, <2>3, <2>4, Zenon
<1> QED
  BY <1>1, InboxInductive, PTL DEF Spec, NoResurrection

-----------------------------------------------------------------------------
BridgesOf(c) == {b \in bridges : Joins(b, c)}

\* Every identifier in sight was issued.
Issued ==
    /\ \A s \in slots : s.handle \in used
    /\ \A b \in bridges : b.handle \in used /\ b.pairing \in used
    /\ \A f \in told : f.pairing \in used

\* A bridge is open only as long as its end has not been told.
OpenIsUnended ==
    \A b \in bridges, f \in told : f.kind \in Terminal => f.pairing # b.pairing

CountsExact ==
    /\ IsFiniteSet(bridges)
    /\ \A c \in Connections : paired[c] = Cardinality(BridgesOf(c))

\* The inductive invariant.
BInv ==
    /\ RelayTypeOK /\ PartiesAreOpen /\ HandleUsedOnce
    /\ Issued /\ OpenIsUnended /\ EndingsAgree
    /\ CountsExact

-----------------------------------------------------------------------------
(* Counting                                                                *)

\* The bridges of a connection are finitely many.
LEMMA BridgesFinite ==
    ASSUME NEW c \in Connections, IsFiniteSet(bridges)
    PROVE  IsFiniteSet(BridgesOf(c)) /\ Cardinality(BridgesOf(c)) \in Nat
<1>1. BridgesOf(c) \in SUBSET bridges
  BY Zenon DEF BridgesOf
<1> QED
  BY <1>1, FS_Subset, FS_CardinalityType, Zenon

\* Released takes from a counter exactly the bridges that are removed, and
\* never saturates: the subtraction of the code cannot lose a pairing.
LEMMA ReleasedIsExact ==
    ASSUME CountsExact, NEW B \in SUBSET bridges, NEW c \in Connections
    PROVE  /\ Released(B)[c] = Cardinality({b \in bridges \ B : Joins(b, c)})
           /\ Released(B)[c] \in Nat /\ Released(B)[c] <= paired[c]
<1> DEFINE S == BridgesOf(c)
           T == {b \in B : Joins(b, c)}
           n == Cardinality(T)
<1>1. IsFiniteSet(S) /\ Cardinality(S) \in Nat /\ paired[c] = Cardinality(S)
  BY BridgesFinite, Zenon DEF CountsExact
<1>2. T \in SUBSET S
  BY Zenon DEF BridgesOf
<1>3. IsFiniteSet(T) /\ n \in Nat /\ n <= Cardinality(S)
  BY <1>1, <1>2, FS_Subset, FS_CardinalityType, Zenon
<1>4. S \cap T = T
  BY <1>2, Zenon
<1>5. Cardinality(S \ T) = Cardinality(S) - n
  BY <1>1, <1>4, FS_Difference
<1>6. S \ T = {b \in bridges \ B : Joins(b, c)}
  BY Zenon DEF BridgesOf
<1>7. Released(B)[c] = IF paired[c] > n THEN paired[c] - n ELSE 0
  BY Zenon DEF Released
<1> HIDE DEF S, T, n
<1>8. Released(B)[c] = paired[c] - n
  BY <1>1, <1>3, <1>7
<1> QED
  BY <1>1, <1>3, <1>5, <1>6, <1>8

\* Removing bridges and releasing their parties keeps the counters exact and
\* within their limit.
LEMMA RemovalKeepsCounts ==
    ASSUME RelayTypeOK, CountsExact, NEW B \in SUBSET bridges,
           bridges' = bridges \ B, paired' = Released(B)
    PROVE  CountsExact' /\ paired' \in [Connections -> 0..MAX_PAIRINGS_PER_CONNECTION]
<1>1. IsFiniteSet(bridges')
  BY FS_Difference, Zenon DEF CountsExact
<1>2. ASSUME NEW c \in Connections
      PROVE  /\ paired'[c] = Cardinality(BridgesOf(c)')
             /\ paired'[c] \in 0..MAX_PAIRINGS_PER_CONNECTION
  <2>1. BridgesOf(c)' = {b \in bridges \ B : Joins(b, c)}
    BY Zenon DEF BridgesOf, Joins
  <2>2. paired[c] \in 0..MAX_PAIRINGS_PER_CONNECTION
    BY Zenon DEF RelayTypeOK
  <2> QED
    BY <2>1, <2>2, ReleasedIsExact, LimitsAssumption
<1>3. paired' = [c \in Connections |-> paired'[c]]
  BY Zenon DEF Released
<1> QED
  BY <1>1, <1>2, <1>3, Zenon DEF CountsExact

\* A new bridge between two connections counts once for each of them.
LEMMA BeginCounts ==
    ASSUME BInv, NEW c \in Connections, NEW p \in Pairings, NEW slot \in slots,
           BeginPairing(c, p, slot)
    PROVE  CountsExact' /\ paired' \in [Connections -> 0..MAX_PAIRINGS_PER_CONNECTION]
<1> DEFINE nb == [pairing |-> p, owner |-> slot.owner, joiner |-> c,
                  handle |-> slot.handle, stale |-> FALSE]
<1>1. slot \in Slot /\ slot.owner \in Connections /\ slot.owner # c
  BY Zenon DEF BeginPairing, BInv, RelayTypeOK, Slot
<1>2. bridges' = bridges \cup {nb}
  BY Zenon DEF BeginPairing
<1>3. nb \notin bridges
  BY Zenon DEF BeginPairing, BInv, Issued
<1>4. nb.owner = slot.owner /\ nb.joiner = c
  OBVIOUS
<1>5. paired \in [Connections -> 0..MAX_PAIRINGS_PER_CONNECTION]
  BY Zenon DEF BInv, RelayTypeOK
<1>6. /\ paired' = [paired EXCEPT ![c] = @ + 1, ![slot.owner] = @ + 1]
      /\ paired[c] < MAX_PAIRINGS_PER_CONNECTION
      /\ paired[slot.owner] < MAX_PAIRINGS_PER_CONNECTION
  BY Zenon DEF BeginPairing
<1> HIDE DEF nb
<1>7. IsFiniteSet(bridges')
  BY <1>2, FS_AddElement, Zenon DEF BInv, CountsExact
<1>8. ASSUME NEW x \in Connections
      PROVE  paired'[x] = Cardinality(BridgesOf(x)')
  <2>1. IsFiniteSet(BridgesOf(x)) /\ Cardinality(BridgesOf(x)) \in Nat
        /\ paired[x] = Cardinality(BridgesOf(x))
    BY BridgesFinite, Zenon DEF BInv, CountsExact
  <2>2. CASE x \in {c, slot.owner}
    <3>1. BridgesOf(x)' = BridgesOf(x) \cup {nb}
      BY <1>2, <1>4, <2>2, Zenon DEF BridgesOf, Joins
    <3>2. nb \notin BridgesOf(x)
      BY <1>3, Zenon DEF BridgesOf
    <3>3. Cardinality(BridgesOf(x)') = Cardinality(BridgesOf(x)) + 1
      BY <2>1, <3>1, <3>2, FS_AddElement, Zenon
    <3>4. paired'[x] = paired[x] + 1
      BY <1>1, <1>5, <1>6, <2>2, Zenon
    <3> QED
      BY <2>1, <3>3, <3>4, Zenon
  <2>3. CASE x \notin {c, slot.owner}
    <3>1. BridgesOf(x)' = BridgesOf(x)
      BY <1>2, <1>4, <2>3, Zenon DEF BridgesOf, Joins
    <3>2. paired'[x] = paired[x]
      BY <1>1, <1>5, <1>6, <2>3, Zenon
    <3> QED
      BY <2>1, <3>1, <3>2, Zenon
  <2> QED
    BY <2>2, <2>3, Zenon
<1>9. paired' \in [Connections -> 0..MAX_PAIRINGS_PER_CONNECTION]
  BY <1>1, <1>5, <1>6, LimitsAssumption
<1> QED
  BY <1>7, <1>8, <1>9, Zenon DEF CountsExact

\* A bridge whose time has passed still counts, until it is collected.
LEMMA ExpiryCounts ==
    ASSUME BInv, NEW b \in bridges, BridgeExpires(b)
    PROVE  CountsExact'
<1> DEFINE nb == [b EXCEPT !.stale = TRUE]
<1>1. b \in Bridge /\ b.stale = FALSE
  BY Zenon DEF BInv, RelayTypeOK, Bridge, BridgeExpires
<1>2. /\ nb \in Bridge /\ nb.owner = b.owner /\ nb.joiner = b.joiner
      /\ nb.handle = b.handle /\ nb.pairing = b.pairing /\ nb.stale = TRUE
  BY <1>1, Zenon DEF Bridge
<1>3. bridges' = (bridges \ {b}) \cup {nb} /\ paired' = paired
  BY Zenon DEF BridgeExpires
<1>4. nb \notin bridges
  BY <1>1, <1>2, Zenon DEF BInv, HandleUsedOnce
<1> HIDE DEF nb
<1>5. IsFiniteSet(bridges')
  BY <1>3, FS_AddElement, FS_RemoveElement, Zenon DEF BInv, CountsExact
<1>6. ASSUME NEW x \in Connections
      PROVE  paired'[x] = Cardinality(BridgesOf(x)')
  <2>1. IsFiniteSet(BridgesOf(x)) /\ Cardinality(BridgesOf(x)) \in Nat
        /\ paired[x] = Cardinality(BridgesOf(x))
    BY BridgesFinite, Zenon DEF BInv, CountsExact
  <2>2. CASE Joins(b, x)
    <3> DEFINE rest == BridgesOf(x) \ {b}
    <3>1. BridgesOf(x)' = rest \cup {nb}
      BY <1>2, <1>3, <2>2, Zenon DEF BridgesOf, Joins
    <3>2. nb \notin rest /\ b \in BridgesOf(x)
      BY <1>4, <2>2, Zenon DEF BridgesOf
    <3>3. IsFiniteSet(rest) /\ Cardinality(rest) = Cardinality(BridgesOf(x)) - 1
      BY <2>1, <3>2, FS_RemoveElement, Zenon
    <3> HIDE DEF rest
    <3>4. Cardinality(rest \cup {nb}) = Cardinality(rest) + 1
      BY <3>2, <3>3, FS_AddElement, Zenon
    <3> QED
      BY <1>3, <2>1, <3>1, <3>3, <3>4
  <2>3. CASE ~Joins(b, x)
    <3>1. BridgesOf(x)' = BridgesOf(x)
      BY <1>2, <1>3, <2>3, Zenon DEF BridgesOf, Joins
    <3> QED
      BY <1>3, <2>1, <3>1, Zenon
  <2> QED
    BY <2>2, <2>3, Zenon
<1> QED
  BY <1>5, <1>6, Zenon DEF CountsExact

\* What send adds to `told` are some of the frames it was given.
LEMMA SendIs ==
    ASSUME NEW frames, send(frames)
    PROVE  /\ \A f \in told' : f \in told \/ f \in frames
           /\ told \subseteq told'
BY Zenon DEF send

-----------------------------------------------------------------------------
(* One lemma per action                                                    *)

\* A connection that appears has no bridge: its counter is zero already.
LEMMA ConnectedStep ==
    ASSUME BInv, NEW c \in Connections, Connected(c)
    PROVE  BInv'
<1>1. /\ status[c] = "new"
      /\ UNCHANGED <<held, paired, attempts, slots, bridges, used, told>>
      /\ status' \in [Connections -> {"new", "open", "ignored", "closed"}]
      /\ \A x \in Connections : x # c => status'[x] = status[x]
  BY Zenon DEF Connected, BInv, RelayTypeOK
<1>2. RelayTypeOK'
  BY <1>1, Zenon DEF BInv, RelayTypeOK
<1>3. Open \subseteq Open'
  BY <1>1, Zenon DEF Open, BInv, RelayTypeOK
<1>4. PartiesAreOpen'
  BY <1>1, <1>3, Zenon DEF BInv, PartiesAreOpen
<1>5. HandleUsedOnce' /\ Issued' /\ OpenIsUnended' /\ EndingsAgree'
  BY <1>1, Zenon DEF BInv, HandleUsedOnce, Issued, OpenIsUnended, EndingsAgree
<1>6. CountsExact'
  BY <1>1, Zenon DEF BInv, CountsExact, BridgesOf, Joins
<1> QED
  BY <1>2, <1>4, <1>5, <1>6, Zenon DEF BInv

\* A connection that goes away takes its slots and bridges with it.
LEMMA DisconnectedStep ==
    ASSUME BInv, NEW c \in Connections, Disconnected(c)
    PROVE  BInv'
<1> DEFINE removed == {b \in bridges : Joins(b, c)}
<1>1. /\ status' \in [Connections -> {"new", "open", "ignored", "closed"}]
      /\ \A x \in Connections : x # c => status'[x] = status[x]
      /\ slots' = {s \in slots : s.owner # c}
      /\ bridges' = bridges \ removed
      /\ paired' = Released(removed)
      /\ UNCHANGED <<held, attempts, used, told>>
  BY Zenon DEF Disconnected, BInv, RelayTypeOK
<1>2. removed \in SUBSET bridges
  BY Zenon
<1>3. \A b \in bridges' : b \in bridges /\ b.owner # c /\ b.joiner # c
  BY <1>1, Zenon DEF Joins
<1> HIDE DEF removed
<1>4. CountsExact' /\ paired' \in [Connections -> 0..MAX_PAIRINGS_PER_CONNECTION]
  BY <1>1, <1>2, RemovalKeepsCounts, Zenon DEF BInv
<1>5. RelayTypeOK'
  BY <1>1, <1>3, <1>4, Zenon DEF BInv, RelayTypeOK
<1>6. PartiesAreOpen'
  BY <1>1, <1>3, Zenon DEF BInv, PartiesAreOpen, Open
<1>7. HandleUsedOnce' /\ Issued' /\ OpenIsUnended' /\ EndingsAgree'
  BY <1>1, <1>3 DEF BInv, HandleUsedOnce, Issued, OpenIsUnended, EndingsAgree
<1> QED
  BY <1>4, <1>5, <1>6, <1>7, Zenon DEF BInv

\* A new slot has a handle that names nothing else.
LEMMA CreatePairingSlotStep ==
    ASSUME BInv, NEW c \in Connections, NEW h \in Handles, CreatePairingSlot(c, h)
    PROVE  BInv'
<1> DEFINE ns == [handle |-> h, owner |-> c, stale |-> FALSE]
<1>1. ns \in Slot /\ ns.handle = h /\ ns.owner = c
  BY Zenon DEF Slot
<1>2. /\ c \in Open /\ h \notin used /\ held[c] < MAX_SLOTS_PER_CONNECTION
      /\ slots' = slots \cup {ns}
      /\ held' = [held EXCEPT ![c] = @ + 1]
      /\ used' = used \cup {h}
      /\ UNCHANGED <<status, paired, attempts, bridges, told>>
  BY Zenon DEF CreatePairingSlot, HasSlotCapacity
<1> HIDE DEF ns
<1>3. held' \in [Connections -> 0..MAX_SLOTS_PER_CONNECTION]
  BY <1>2, LimitsAssumption DEF BInv, RelayTypeOK
<1>4. RelayTypeOK'
  BY <1>1, <1>2, <1>3, Zenon DEF BInv, RelayTypeOK
<1>5. PartiesAreOpen'
  BY <1>1, <1>2, Zenon DEF BInv, PartiesAreOpen, Open
<1>6. HandleUsedOnce'
  BY <1>1, <1>2, Zenon DEF BInv, HandleUsedOnce, Issued
<1>7. Issued' /\ OpenIsUnended' /\ EndingsAgree'
  BY <1>1, <1>2, Zenon DEF BInv, Issued, OpenIsUnended, EndingsAgree
<1>8. CountsExact'
  BY <1>2, Zenon DEF BInv, CountsExact, BridgesOf, Joins
<1> QED
  BY <1>4, <1>5, <1>6, <1>7, <1>8, Zenon DEF BInv

\* Code attempts touch no slot, bridge or frame.
LEMMA AttemptsStep ==
    ASSUME BInv, NEW c \in Connections, ResolvePairingCode(c) \/ AttemptForgotten(c)
    PROVE  BInv'
<1>1. UNCHANGED <<status, held, paired, slots, bridges, used, told>>
  BY Zenon DEF ResolvePairingCode, AttemptForgotten
<1>2. attempts' \in [Connections -> 0..MAX_CODE_ATTEMPTS]
  BY LimitsAssumption DEF BInv, RelayTypeOK, ResolvePairingCode, AttemptForgotten
<1>3. RelayTypeOK'
  BY <1>1, <1>2, Zenon DEF BInv, RelayTypeOK
<1>4. PartiesAreOpen' /\ HandleUsedOnce' /\ Issued' /\ OpenIsUnended' /\ EndingsAgree'
  BY <1>1, Zenon DEF BInv, PartiesAreOpen, Open, HandleUsedOnce, Issued, OpenIsUnended, EndingsAgree
<1>5. CountsExact'
  BY <1>1, Zenon DEF BInv, CountsExact, BridgesOf, Joins
<1> QED
  BY <1>3, <1>4, <1>5, Zenon DEF BInv

\* A pairing turns the slot into a bridge that inherits its handle.
LEMMA BeginPairingStep ==
    ASSUME BInv, NEW c \in Connections, NEW p \in Pairings, NEW slot \in slots,
           BeginPairing(c, p, slot)
    PROVE  BInv'
<1> DEFINE nb == [pairing |-> p, owner |-> slot.owner, joiner |-> c,
                  handle |-> slot.handle, stale |-> FALSE]
           frames == {[to |-> slot.owner, kind |-> "PairingRequested", pairing |-> p],
                      [to |-> c, kind |-> "PairingStarted", pairing |-> p]}
<1>1. /\ slot \in Slot /\ slot.owner \in Connections /\ slot.owner # c
      /\ slot.owner \in Open /\ slot.handle \in Handles
  BY Zenon DEF BeginPairing, BInv, RelayTypeOK, Slot, PartiesAreOpen
<1>2. /\ nb \in Bridge /\ nb.pairing = p /\ nb.handle = slot.handle
      /\ nb.owner = slot.owner /\ nb.joiner = c
  BY <1>1, Zenon DEF Bridge
<1>3. \A f \in frames : f \in Frame /\ f.pairing = p /\ f.kind \notin Terminal
  BY <1>1 DEF Frame, FrameKind, Terminal
<1>4. /\ c \in Open /\ p \notin used
      /\ slots' = slots \ {slot}
      /\ held' = [held EXCEPT ![slot.owner] = saturating_sub(@)]
      /\ bridges' = bridges \cup {nb}
      /\ used' = used \cup {p}
      /\ UNCHANGED <<status, attempts>>
  BY Zenon DEF BeginPairing
<1>5. send(frames)
  BY Zenon DEF BeginPairing
<1> HIDE DEF nb, frames
<1>6. \A f \in told' : f \in told \/ f \in frames
  BY <1>5, SendIs, Zenon
<1>7. held' \in [Connections -> 0..MAX_SLOTS_PER_CONNECTION]
  BY <1>1, <1>4, LimitsAssumption DEF BInv, RelayTypeOK, saturating_sub
<1>8. CountsExact' /\ paired' \in [Connections -> 0..MAX_PAIRINGS_PER_CONNECTION]
  BY BeginCounts, Zenon
<1>9. RelayTypeOK'
  BY <1>2, <1>3, <1>4, <1>6, <1>7, <1>8, Zenon DEF BInv, RelayTypeOK
<1>10. PartiesAreOpen'
  BY <1>1, <1>2, <1>4, Zenon DEF BInv, PartiesAreOpen, Open
<1>11. HandleUsedOnce'
  BY <1>2, <1>4 DEF BInv, HandleUsedOnce, Issued
<1>12. Issued'
  BY <1>2, <1>3, <1>4, <1>6, Zenon DEF BInv, Issued
<1>13. OpenIsUnended' /\ EndingsAgree'
  BY <1>2, <1>3, <1>4, <1>6, Zenon DEF BInv, Issued, OpenIsUnended, EndingsAgree
<1> QED
  BY <1>8, <1>9, <1>10, <1>11, <1>12, <1>13, Zenon DEF BInv

\* An acceptance ends nothing.
LEMMA AcceptPairingStep ==
    ASSUME BInv, NEW b \in bridges, AcceptPairing(b)
    PROVE  BInv'
<1> DEFINE frames == {[to |-> b.joiner, kind |-> "PairingAccepted", pairing |-> b.pairing]}
<1>1. b \in Bridge /\ b.pairing \in used
  BY Zenon DEF BInv, RelayTypeOK, Issued
<1>2. \A f \in frames : f \in Frame /\ f.pairing \in used /\ f.kind \notin Terminal
  BY <1>1 DEF Bridge, Frame, FrameKind, Terminal
<1>3. send(frames) /\ UNCHANGED <<status, held, paired, attempts, slots, bridges, used>>
  BY Zenon DEF AcceptPairing
<1> HIDE DEF frames
<1>4. \A f \in told' : f \in told \/ f \in frames
  BY <1>3, SendIs, Zenon
<1>5. RelayTypeOK'
  BY <1>2, <1>3, <1>4, Zenon DEF BInv, RelayTypeOK
<1>6. PartiesAreOpen' /\ HandleUsedOnce'
  BY <1>3, Zenon DEF BInv, PartiesAreOpen, Open, HandleUsedOnce
<1>7. Issued' /\ OpenIsUnended' /\ EndingsAgree'
  BY <1>2, <1>3, <1>4, Zenon DEF BInv, Issued, OpenIsUnended, EndingsAgree
<1>8. CountsExact'
  BY <1>3, Zenon DEF BInv, CountsExact, BridgesOf, Joins
<1> QED
  BY <1>5, <1>6, <1>7, <1>8, Zenon DEF BInv

\* An end is told to both sides at once, for a bridge that is gone with it; no
\* slot has the handle of a bridge.
LEMMA FinishPairingStep ==
    ASSUME BInv, NEW b \in bridges, NEW kind \in Terminal, finish_pairing(b, kind)
    PROVE  BInv'
<1> DEFINE frames == {[to |-> c, kind |-> kind, pairing |-> b.pairing] : c \in {b.owner, b.joiner}}
           left == {s \in slots : s.handle = b.handle}
<1>1. b \in Bridge /\ b.pairing \in used
  BY Zenon DEF BInv, RelayTypeOK, Issued
<1>2. \A f \in frames : f \in Frame /\ f.pairing = b.pairing /\ f.kind = kind
  BY <1>1 DEF Bridge, Frame, FrameKind
<1>3. left = {}
  BY Zenon DEF BInv, HandleUsedOnce
<1>4. slots' = slots \ left /\ send(frames)
  BY Zenon DEF finish_pairing
<1>5. held' = [c \in Connections |-> IF \E s \in left : s.owner = c THEN saturating_sub(held[c]) ELSE held[c]]
  BY Zenon DEF finish_pairing
<1>6. /\ bridges' = bridges \ {b} /\ paired' = Released({b})
      /\ UNCHANGED <<status, attempts, used>>
  BY Zenon DEF finish_pairing
<1> HIDE DEF frames, left
<1>7. slots' = slots /\ held' = held
  BY <1>3, <1>4, <1>5, Zenon DEF BInv, RelayTypeOK
<1>8. CountsExact' /\ paired' \in [Connections -> 0..MAX_PAIRINGS_PER_CONNECTION]
  BY <1>6, RemovalKeepsCounts, Zenon DEF BInv
<1>9. \A f \in told' : f \in told \/ f \in frames
  BY <1>4, SendIs, Zenon
<1>10. RelayTypeOK'
  BY <1>2, <1>6, <1>7, <1>8, <1>9, ZenonT(30) DEF BInv, RelayTypeOK
<1>11. PartiesAreOpen' /\ HandleUsedOnce'
  BY <1>6, <1>7, Zenon DEF BInv, PartiesAreOpen, Open, HandleUsedOnce
<1>12. Issued'
  BY <1>1, <1>2, <1>6, <1>7, <1>9, Zenon DEF BInv, Issued
<1>13. OpenIsUnended'
  BY <1>2, <1>6, <1>9, Zenon DEF BInv, OpenIsUnended, HandleUsedOnce
<1>14. EndingsAgree'
  BY <1>2, <1>9, Zenon DEF BInv, OpenIsUnended, EndingsAgree
<1> QED
  BY <1>8, <1>10, <1>11, <1>12, <1>13, <1>14, Zenon DEF BInv

\* Cancelling a slot, or letting its time pass, leaves the bridges alone.
LEMMA SlotStep ==
    ASSUME BInv, NEW slot \in slots, CancelPairingSlot(slot) \/ SlotExpires(slot)
    PROVE  BInv'
<1> DEFINE ns == [slot EXCEPT !.stale = TRUE]
<1>1. slot \in Slot /\ slot.owner \in Open
  BY Zenon DEF BInv, RelayTypeOK, PartiesAreOpen
<1>2. ns \in Slot /\ ns.handle = slot.handle /\ ns.owner = slot.owner
  BY <1>1, Zenon DEF Slot
<1>3. UNCHANGED <<status, paired, attempts, bridges, used, told>>
  BY Zenon DEF CancelPairingSlot, SlotExpires
<1>4. slots' = slots \ {slot} \/ slots' = (slots \ {slot}) \cup {ns}
  BY Zenon DEF CancelPairingSlot, SlotExpires
<1>5. held' \in [Connections -> 0..MAX_SLOTS_PER_CONNECTION]
  BY LimitsAssumption DEF CancelPairingSlot, SlotExpires, BInv, RelayTypeOK, saturating_sub
<1> HIDE DEF ns
<1>6. \A s \in slots' : s = ns \/ (s \in slots /\ s # slot)
  BY <1>4, Zenon
<1>7. RelayTypeOK'
  BY <1>2, <1>3, <1>5, <1>6, Zenon DEF BInv, RelayTypeOK
<1>8. PartiesAreOpen'
  BY <1>1, <1>2, <1>3, <1>6, Zenon DEF BInv, PartiesAreOpen, Open
<1>9. HandleUsedOnce'
  BY <1>2, <1>3, <1>6, Zenon DEF BInv, HandleUsedOnce
<1>10. Issued' /\ OpenIsUnended' /\ EndingsAgree'
  BY <1>2, <1>3, <1>6, Zenon DEF BInv, Issued, OpenIsUnended, EndingsAgree
<1>11. CountsExact'
  BY <1>3, Zenon DEF BInv, CountsExact, BridgesOf, Joins
<1> QED
  BY <1>7, <1>8, <1>9, <1>10, <1>11, Zenon DEF BInv

\* A bridge that expires keeps its parties and its identifiers.
LEMMA BridgeExpiresStep ==
    ASSUME BInv, NEW b \in bridges, BridgeExpires(b)
    PROVE  BInv'
<1> DEFINE nb == [b EXCEPT !.stale = TRUE]
<1>1. b \in Bridge
  BY Zenon DEF BInv, RelayTypeOK
<1>2. /\ nb \in Bridge /\ nb.owner = b.owner /\ nb.joiner = b.joiner
      /\ nb.handle = b.handle /\ nb.pairing = b.pairing
  BY <1>1, Zenon DEF Bridge
<1>3. /\ bridges' = (bridges \ {b}) \cup {nb}
      /\ UNCHANGED <<status, held, paired, attempts, slots, used, told>>
  BY Zenon DEF BridgeExpires
<1> HIDE DEF nb
<1>4. RelayTypeOK'
  BY <1>2, <1>3, Zenon DEF BInv, RelayTypeOK
<1>5. PartiesAreOpen'
  BY <1>2, <1>3, Zenon DEF BInv, PartiesAreOpen, Open
<1>6. HandleUsedOnce'
  BY <1>2, <1>3 DEF BInv, HandleUsedOnce
<1>7. Issued' /\ OpenIsUnended' /\ EndingsAgree'
  BY <1>2, <1>3, Zenon DEF BInv, Issued, OpenIsUnended, EndingsAgree
<1>8. CountsExact'
  BY ExpiryCounts, Zenon
<1> QED
  BY <1>4, <1>5, <1>6, <1>7, <1>8, Zenon DEF BInv

\* The ticker drops stale entries and releases the parties of the bridges.
LEMMA ExpireStateStep ==
    ASSUME BInv, expire_state
    PROVE  BInv'
<1> DEFINE expired == {b \in bridges : b.stale}
<1>1. /\ slots' \subseteq slots /\ bridges' = bridges \ expired
      /\ paired' = Released(expired)
      /\ UNCHANGED <<status, held, attempts, used, told>>
  BY Zenon DEF expire_state
<1>2. expired \in SUBSET bridges
  OBVIOUS
<1> HIDE DEF expired
<1>3. CountsExact' /\ paired' \in [Connections -> 0..MAX_PAIRINGS_PER_CONNECTION]
  BY <1>1, <1>2, RemovalKeepsCounts, Zenon DEF BInv
<1>4. RelayTypeOK'
  BY <1>1, <1>3, Zenon DEF BInv, RelayTypeOK
<1>5. PartiesAreOpen' /\ HandleUsedOnce'
  BY <1>1, Zenon DEF BInv, PartiesAreOpen, Open, HandleUsedOnce
<1>6. Issued' /\ OpenIsUnended' /\ EndingsAgree'
  BY <1>1, Zenon DEF BInv, Issued, OpenIsUnended, EndingsAgree
<1> QED
  BY <1>3, <1>4, <1>5, <1>6, Zenon DEF BInv

-----------------------------------------------------------------------------
(* The theorems                                                            *)

\* BInv is inductive.
LEMMA BrokerInductive == RelaySpec => []BInv
<1>1. RelayInit => BInv
  <2> SUFFICES ASSUME RelayInit PROVE BInv
    OBVIOUS
  <2>1. RelayTypeOK
    BY LimitsAssumption DEF RelayInit, RelayTypeOK
  <2>2. PartiesAreOpen /\ HandleUsedOnce /\ Issued /\ OpenIsUnended /\ EndingsAgree
    BY Zenon DEF RelayInit, PartiesAreOpen, HandleUsedOnce, Issued, OpenIsUnended, EndingsAgree
  <2>3. \A c \in Connections : BridgesOf(c) = {}
    BY Zenon DEF RelayInit, BridgesOf
  <2>4. CountsExact
    BY <2>3, FS_EmptySet, Zenon DEF RelayInit, CountsExact
  <2> QED
    BY <2>1, <2>2, <2>4, Zenon DEF BInv
<1>2. BInv /\ [RelayNext]_relayVars => BInv'
  <2> SUFFICES ASSUME BInv, [RelayNext]_relayVars PROVE BInv'
    OBVIOUS
  <2>1. CASE \E c \in Connections : Connected(c)
    BY <2>1, ConnectedStep, Zenon
  <2>2. CASE \E c \in Connections : Disconnected(c)
    BY <2>2, DisconnectedStep, Zenon
  <2>3. CASE \E c \in Connections, h \in Handles : CreatePairingSlot(c, h)
    BY <2>3, CreatePairingSlotStep, Zenon
  <2>4. CASE \E c \in Connections : ResolvePairingCode(c) \/ AttemptForgotten(c)
    BY <2>4, AttemptsStep, Zenon
  <2>5. CASE \E c \in Connections, p \in Pairings, slot \in slots : BeginPairing(c, p, slot)
    BY <2>5, BeginPairingStep, Zenon
  <2>6. CASE \E b \in bridges : AcceptPairing(b)
    BY <2>6, AcceptPairingStep, Zenon
  <2>7. CASE \E b \in bridges : EndPairing(b)
    BY <2>7, FinishPairingStep, Zenon DEF EndPairing
  <2>8. CASE \E b \in bridges : BridgeExpires(b)
    BY <2>8, BridgeExpiresStep, Zenon
  <2>9. CASE \E slot \in slots : CancelPairingSlot(slot) \/ SlotExpires(slot)
    BY <2>9, SlotStep, Zenon
  <2>10. CASE expire_state
    BY <2>10, ExpireStateStep, Zenon
  <2>11. CASE UNCHANGED relayVars
    <3>1. UNCHANGED <<status, held, paired, attempts, slots, bridges, used, told>>
      BY <2>11, Zenon DEF relayVars
    <3>2. RelayTypeOK' /\ PartiesAreOpen' /\ HandleUsedOnce' /\ Issued' /\ OpenIsUnended' /\ EndingsAgree'
      BY <3>1, Zenon DEF BInv, RelayTypeOK, PartiesAreOpen, Open, HandleUsedOnce, Issued, OpenIsUnended, EndingsAgree
    <3>3. CountsExact'
      BY <3>1, Zenon DEF BInv, CountsExact, BridgesOf, Joins
    <3> QED
      BY <3>2, <3>3, Zenon DEF BInv
  <2> QED
    BY <2>1, <2>2, <2>3, <2>4, <2>5, <2>6, <2>7, <2>8, <2>9, <2>10, <2>11, Zenon DEF RelayNext
<1> QED
  BY <1>1, <1>2, PTL DEF RelaySpec

\* The maps of the broker refer to each other as the handlers assume, whatever
\* connects, expires or goes away: connections[&slot.owner] never panics, and
\* no code pairs two joiners with one slot.
THEOREM BrokerInvariant == RelaySpec => []BrokerInv
<1>1. BInv => BrokerInv
  BY Zenon DEF BInv, BrokerInv
<1> QED
  BY <1>1, BrokerInductive, PTL

\* The pairing counter of an open connection is its number of bridges, for any
\* limits: no way a bridge ends leaks a pairing or frees one too many.
THEOREM PairingCounters == RelaySpec => []PairingCountExact
<1>1. BInv => PairingCountExact
  BY Zenon DEF BInv, CountsExact, BridgesOf, PairingCountExact, Open
<1> QED
  BY <1>1, BrokerInductive, PTL

\* The two sides of a pairing never hear different endings.
THEOREM OneEnding == RelaySpec => []EndingsAgree
<1>1. BInv => EndingsAgree
  BY Zenon DEF BInv
<1> QED
  BY <1>1, BrokerInductive, PTL
================================================================================
