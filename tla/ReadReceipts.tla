----------------------------- MODULE ReadReceipts -----------------------------
(***************************************************************************)
(* The read-receipt outbox (actor/state/receipts.rs, sqlite/               *)
(* read_receipts.rs): receipts are enqueued when a conversation gets the   *)
(* focus, encrypted once with the conversation's MLS state, handed to the  *)
(* peer transport and deleted when the peer acknowledges them.             *)
(*                                                                         *)
(* A row is keyed by the contact and the set of messages it covers; that   *)
(* set is always all incoming messages, so it is given by their number.    *)
(* A ciphertext is the group and generation of the MLS sending ratchet it  *)
(* was made with.  Rows are due in the order of next_attempt_at; a row     *)
(* that is present and not due has a later deadline.  The flush is a loop  *)
(* of several storage steps between which only a crash can intervene,      *)
(* since the engine actor runs it in one piece.                            *)
(***************************************************************************)
EXTENDS Naturals, FiniteSets, Sequences, Functions

CONSTANTS
    Contacts,
    Removable,      \* contacts whose relationship the user removes
    MaxMessages,    \* bound: incoming messages per contact
    MaxGroups,      \* bound: pairings per contact
    MaxGen,         \* bound: encryptions per group
    MaxStops        \* bound: stops

ASSUME ReadReceiptsAssumption ==
    /\ Removable \subseteq Contacts
    /\ MaxMessages \in Nat /\ MaxGroups \in Nat \ {0} /\ MaxGen \in Nat \ {0} /\ MaxStops \in Nat

Keys == Contacts \X (1..MaxMessages)
Ciphertexts == [group : 1..MaxGroups, gen : 1..MaxGen]
None == [group |-> 0, gen |-> 0]

VARIABLES
    incoming,   \* number of incoming messages of the conversation
    group,      \* MLS group of the conversation, 0 when it has none
    groups,     \* groups made with the contact so far
    ratchet,    \* next generation, in memory
    snapshot,   \* next generation, in the stored MLS snapshot
    torn,       \* groups <<contact, group>> whose snapshot a crash left behind a stored ciphertext
    rows,       \* keys present in read_receipt_outbox
    cipher,     \* wire_ciphertext of a row
    due,        \* due rows by next_attempt_at
    todo,       \* rows the running flush has still to process
    step,       \* of the flush: "idle", "row", "snapshot" or "dispatch"
    transport,  \* receipts the peer transport holds
    stops

receiptVars == <<incoming, group, groups, ratchet, snapshot, torn, rows, cipher, due, todo, step, transport, stops>>
mls == <<group, groups, ratchet, snapshot, torn>>

ReceiptInit ==
    /\ incoming = [c \in Contacts |-> 0]
    /\ group = [c \in Contacts |-> 1]
    /\ groups = [c \in Contacts |-> 1]
    /\ ratchet = [c \in Contacts |-> 1]
    /\ snapshot = [c \in Contacts |-> 1]
    /\ torn = {}
    /\ rows = {}
    /\ cipher = [k \in Keys |-> None]
    /\ due = <<>>
    /\ todo = <<>>
    /\ step = "idle"
    /\ transport = {}
    /\ stops = 0

Due(k) == k \in Range(due)
RemoveAt(s, i) == SubSeq(s, 1, i - 1) \o SubSeq(s, i + 1, Len(s))
Without(k) == IF Due(k) THEN RemoveAt(due, CHOOSE i \in DOMAIN due : due[i] = k) ELSE due
After(k) == IF Due(k) THEN due ELSE Append(due, k)
Processing(k) == todo # <<>> /\ Head(todo) = k

\* Continue the loop with the next record, or end it.
Continue ==
    /\ todo' = Tail(todo)
    /\ step' = IF Len(todo) = 1 THEN "idle" ELSE "row"

-----------------------------------------------------------------------------
\* A message of the contact arrives and is shown.
Receive(c) ==
    /\ step = "idle" /\ group[c] # 0 /\ incoming[c] < MaxMessages
    /\ incoming' = [incoming EXCEPT ![c] = @ + 1]
    /\ UNCHANGED <<mls, rows, cipher, due, todo, step, transport, stops>>

\* The conversation gets the focus: command_send_read_receipts enqueues a receipt
\* for all incoming messages (a pending one for the same set becomes due at once)
\* and flushes.  The bound on generations leaves one for every row without ciphertext.
SendReadReceipts(c) ==
    LET k == <<c, incoming[c]>> IN
    /\ step = "idle" /\ incoming[c] > 0
    /\ ratchet[c] + Cardinality({k} \cup {j \in rows : j[1] = c /\ cipher[j] = None}) <= MaxGen
    /\ rows' = rows \cup {k}
    /\ due' = After(k)
    /\ todo' = due'
    /\ step' = "row"
    /\ UNCHANGED <<incoming, mls, cipher, transport, stops>>

\* The retry scheduler serves RetryKind::ReadReceipt.
RetryDue ==
    /\ step = "idle" /\ due # <<>>
    /\ todo' = due
    /\ step' = "row"
    /\ UNCHANGED <<incoming, mls, rows, cipher, due, transport, stops>>

-----------------------------------------------------------------------------
(* flush_pending_read_receipts                                             *)

\* No conversation: the error leaves the whole flush.
FlushAborts(k) ==
    /\ step = "row" /\ Processing(k)
    /\ cipher[k] = None /\ group[k[1]] = 0
    /\ todo' = <<>>
    /\ step' = "idle"
    /\ UNCHANGED <<incoming, mls, rows, cipher, due, transport, stops>>

\* Seeded fault: the conversation is put back as it was before the encryption.
Faulty_Encrypt(k) ==
    /\ step = "row" /\ Processing(k)
    /\ cipher[k] = None /\ group[k[1]] # 0 /\ ratchet[k[1]] < MaxGen
    /\ cipher' = [cipher EXCEPT ![k] = [group |-> group[k[1]], gen |-> ratchet[k[1]]]]
    /\ due' = Without(k)
    /\ step' = "snapshot"
    /\ UNCHANGED <<incoming, mls, rows, todo, transport, stops>>

\* Encrypts and stores the ciphertext with the next deadline: the first statement
\* of persist_read_receipt_encryption.
Encrypt(k) ==
    /\ step = "row" /\ Processing(k)
    /\ cipher[k] = None /\ group[k[1]] # 0 /\ ratchet[k[1]] < MaxGen
    /\ cipher' = [cipher EXCEPT ![k] = [group |-> group[k[1]], gen |-> ratchet[k[1]]]]
    /\ ratchet' = [ratchet EXCEPT ![k[1]] = @ + 1]
    /\ due' = Without(k)
    /\ step' = "snapshot"
    /\ UNCHANGED <<incoming, group, groups, snapshot, torn, rows, todo, transport, stops>>

\* The second statement: the snapshot after the encryption.
PersistSnapshot(k) ==
    /\ step = "snapshot" /\ Processing(k)
    /\ snapshot' = [snapshot EXCEPT ![k[1]] = ratchet[k[1]]]
    /\ step' = "dispatch"
    /\ UNCHANGED <<incoming, group, groups, ratchet, torn, rows, cipher, due, todo, transport, stops>>

\* Encryption or storage failed: the conversation is restored and the row requeued.
EncryptFails(k) ==
    /\ step = "row" /\ Processing(k)
    /\ cipher[k] = None /\ group[k[1]] # 0
    /\ due' = Without(k)
    /\ Continue
    /\ UNCHANGED <<incoming, mls, rows, cipher, transport, stops>>

HasCiphertext(k) ==
    \/ step = "dispatch"
    \/ step = "row" /\ cipher[k] # None

\* queue_peer_payload accepts the payload: the contact has an endpoint and the
\* transport has room.  The row is left as it is.
DispatchQueued(k) ==
    /\ Processing(k) /\ HasCiphertext(k)
    /\ group[k[1]] # 0
    /\ transport' = transport \cup {k}
    /\ Continue
    /\ UNCHANGED <<incoming, mls, rows, cipher, due, stops>>

\* queue_peer_payload fails: the row is requeued.
DispatchFails(k) ==
    /\ Processing(k) /\ HasCiphertext(k)
    /\ due' = Without(k)
    /\ Continue
    /\ UNCHANGED <<incoming, mls, rows, cipher, transport, stops>>

-----------------------------------------------------------------------------
(* Transport and time                                                      *)

\* Seeded fault: the acknowledgement leaves the row in the outbox.
Faulty_Ack(k) ==
    /\ step = "idle" /\ k \in transport
    /\ transport' = transport \ {k}
    /\ UNCHANGED <<incoming, mls, rows, cipher, due, todo, step, stops>>

\* PERSISTED, DELIVERED or REJECTED: complete_read_receipt deletes the row.
Ack(k) ==
    /\ step = "idle" /\ k \in transport
    /\ transport' = transport \ {k}
    /\ rows' = rows \ {k}
    /\ cipher' = [cipher EXCEPT ![k] = None]
    /\ due' = Without(k)
    /\ UNCHANGED <<incoming, mls, todo, step, stops>>

\* The session fails: ConnectionChanged does nothing for a read receipt.
DeliveryFails(k) ==
    /\ step = "idle" /\ k \in transport
    /\ transport' = transport \ {k}
    /\ UNCHANGED <<incoming, mls, rows, cipher, due, todo, step, stops>>

Elapse(k) ==
    /\ step = "idle" /\ k \in rows /\ ~Due(k)
    /\ due' = Append(due, k)
    /\ UNCHANGED <<incoming, mls, rows, cipher, todo, step, transport, stops>>

-----------------------------------------------------------------------------
(* Relationships, restarts                                                 *)

\* remove_relationship_with_id deletes MLS state and endpoint, and the messages
\* unless the history is kept; the read-receipt outbox is not touched.
RemoveRelationship(c) ==
    /\ step = "idle" /\ c \in Removable /\ group[c] # 0
    /\ group' = [group EXCEPT ![c] = 0]
    /\ \E preserve_history \in BOOLEAN :
        incoming' = IF preserve_history THEN incoming ELSE [incoming EXCEPT ![c] = 0]
    /\ UNCHANGED <<groups, ratchet, snapshot, torn, rows, cipher, due, todo, step, transport, stops>>

PairAgain(c) ==
    /\ step = "idle" /\ group[c] = 0 /\ groups[c] < MaxGroups
    /\ groups' = [groups EXCEPT ![c] = @ + 1]
    /\ group' = [group EXCEPT ![c] = groups'[c]]
    /\ ratchet' = [ratchet EXCEPT ![c] = 1]
    /\ snapshot' = [snapshot EXCEPT ![c] = 1]
    /\ UNCHANGED <<incoming, torn, rows, cipher, due, todo, step, transport, stops>>

\* The engine restarts from the database: conversations from their snapshots, the
\* transport empty.  A crash between the two statements of
\* persist_read_receipt_encryption leaves the old snapshot beside the new
\* ciphertext.
ReceiptRestart ==
    /\ stops < MaxStops
    /\ stops' = stops + 1
    /\ ratchet' = snapshot
    /\ torn' = IF step = "snapshot" THEN torn \cup {<<Head(todo)[1], group[Head(todo)[1]]>>} ELSE torn
    /\ todo' = <<>>
    /\ step' = "idle"
    /\ transport' = {}
    /\ UNCHANGED <<incoming, group, groups, snapshot, rows, cipher, due>>

Flush(k) ==
    \/ FlushAborts(k)
    \/ Encrypt(k)
    \/ PersistSnapshot(k)
    \/ EncryptFails(k)
    \/ DispatchQueued(k)
    \/ DispatchFails(k)

ReceiptNext ==
    \/ \E c \in Contacts : Receive(c) \/ SendReadReceipts(c) \/ RemoveRelationship(c) \/ PairAgain(c)
    \/ \E k \in Keys : Flush(k) \/ Ack(k) \/ DeliveryFails(k) \/ Elapse(k)
    \/ RetryDue
    \/ ReceiptRestart

ReceiptSpec == ReceiptInit /\ [][ReceiptNext]_receiptVars

\* The actor finishes a flush, deadlines pass, the scheduler serves a due kind, and
\* an encryption, dispatch or delivery that is attempted again and again succeeds.
Fairness ==
    /\ WF_receiptVars(RetryDue)
    /\ \A k \in Keys :
        /\ WF_receiptVars(Flush(k))
        /\ WF_receiptVars(Elapse(k))
        /\ SF_receiptVars(Encrypt(k))
        /\ SF_receiptVars(DispatchQueued(k))
        /\ SF_receiptVars(Ack(k))

ReceiptFairSpec == ReceiptSpec /\ Fairness

-----------------------------------------------------------------------------
(* Properties                                                              *)

\* Type invariant of the outbox, the running flush and the MLS positions.
ReceiptTypeOK ==
    /\ incoming \in [Contacts -> 0..MaxMessages]
    /\ group \in [Contacts -> 0..MaxGroups] /\ groups \in [Contacts -> 1..MaxGroups]
    /\ ratchet \in [Contacts -> 1..MaxGen] /\ snapshot \in [Contacts -> 1..MaxGen]
    /\ rows \subseteq Keys /\ Range(due) \subseteq rows /\ transport \subseteq Keys
    /\ cipher \in [Keys -> Ciphertexts \cup {None}]
    /\ \A k \in Keys \ rows : cipher[k] = None
    /\ todo \in Seq(Keys) /\ (step = "idle" <=> todo = <<>>)
    /\ step \in {"idle", "row", "snapshot", "dispatch"}
    /\ torn \subseteq Contacts \X (1..MaxGroups)
    /\ stops \in 0..MaxStops

\* No position of the sending ratchet is used for two receipts: the peer could
\* decrypt only one of them.  flush_pending_read_receipts keeps the conversation
\* in memory and the stored snapshot ahead of every ciphertext it has stored.  The
\* one exception is a group whose two statements a crash has torn apart.
CiphertextsDistinct ==
    \A j, k \in rows :
        j # k /\ j[1] = k[1] /\ <<j[1], cipher[j].group>> \notin torn /\ cipher[j] # None => cipher[j] # cipher[k]

\* Outside persist_read_receipt_encryption the stored snapshot is past every stored
\* ciphertext of its group, so a restart cannot fall back to a used position;
\* again except after a torn write of the same group.
SnapshotCoversOutbox ==
    step # "snapshot" =>
        \A k \in rows : <<k[1], group[k[1]]>> \notin torn /\ cipher[k].group = group[k[1]] => cipher[k].gen < snapshot[k[1]]

\* What the flush maintains about the sending ratchet, in well-typed states.
RatchetInv == ReceiptTypeOK /\ CiphertextsDistinct /\ SnapshotCoversOutbox

\* A pending receipt of a contact with a relationship is eventually acknowledged,
\* whatever fails on the way and whatever crash intervenes: the outbox row leads to
\* a retry.  What can hold it up is a receipt of a removed contact, whose missing
\* conversation ends the flush of every contact's receipts.
ReceiptConverges ==
    \A k \in Keys :
        (k \in rows) ~> (k \notin rows \/ \E j \in rows \cup {k} : group[j[1]] = 0)
=============================================================================
