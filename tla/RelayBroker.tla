----------------------------- MODULE RelayBroker -----------------------------
(***************************************************************************)
(* The rendezvous relay (services/torchat-relay): one actor that owns all  *)
(* state and handles connections, frames and a one-second ticker.          *)
(*                                                                         *)
(* A connection creates a pairing slot and publishes its code; another one *)
(* resolves the code and begins a pairing, which turns the slot into a     *)
(* bridge between the two; either side ends the bridge with a terminal     *)
(* frame that the relay forwards to both.  Slots and bridges also end when *)
(* they expire or when a connection goes away, and then nobody is told.    *)
(* Per-connection counters of slots and pairings enforce the limits.       *)
(*                                                                         *)
(* Time is a flag: `stale` means that expires_at has passed, which a frame *)
(* handler may see before the ticker collects the entry.  Tokens and       *)
(* handles are random, so a fresh one was never used before; side tokens   *)
(* are known to the side they were issued to, so a frame with the wrong    *)
(* token changes nothing and is left out.  `told` collects the frames that *)
(* reached an outbound queue; a full queue loses a frame (try_send).       *)
(***************************************************************************)
EXTENDS Naturals, FiniteSets

CONSTANTS
    Connections,               \* connection identifiers, each used once
    Handles,                   \* slot handles
    Pairings,                  \* pairing identifiers, each chosen once by a joiner
    MAX_CONNECTIONS,
    MAX_SLOTS,
    MAX_SLOTS_PER_CONNECTION,
    MAX_PAIRINGS_PER_CONNECTION,
    MAX_CODE_ATTEMPTS

ASSUME LimitsAssumption ==
    /\ MAX_CONNECTIONS \in Nat
    /\ MAX_SLOTS \in Nat
    /\ MAX_SLOTS_PER_CONNECTION \in Nat
    /\ MAX_PAIRINGS_PER_CONNECTION \in Nat
    /\ MAX_CODE_ATTEMPTS \in Nat

VARIABLES
    status,    \* of a connection identifier: "new", "open" (in the map), "ignored", "closed"
    held,      \* Connection.slots
    paired,    \* Connection.pairings
    attempts,  \* code attempts of the last sixty seconds
    slots,     \* open pairing slots
    bridges,   \* open bridges
    used,      \* handles and pairing identifiers issued so far
    told       \* frames that were queued for a connection

relayVars == <<status, held, paired, attempts, slots, bridges, used, told>>

Slot == [handle : Handles, owner : Connections, stale : BOOLEAN]
Bridge == [pairing : Pairings, owner : Connections, joiner : Connections, handle : Handles, stale : BOOLEAN]
Terminal == {"PairingFinalized", "PairingRejected", "PairingCancelled"}
FrameKind == Terminal \cup {"PairingRequested", "PairingStarted", "PairingAccepted"}
Frame == [to : Connections, kind : FrameKind, pairing : Pairings]

Open == {c \in Connections : status[c] = "open"}

RelayInit ==
    /\ status = [c \in Connections |-> "new"]
    /\ held = [c \in Connections |-> 0]
    /\ paired = [c \in Connections |-> 0]
    /\ attempts = [c \in Connections |-> 0]
    /\ slots = {}
    /\ bridges = {}
    /\ used = {}
    /\ told = {}

saturating_sub(n) == IF n = 0 THEN 0 ELSE n - 1

Joins(b, c) == c \in {b.owner, b.joiner}

\* Decrements of the counters of both parties, for every bridge in B; a
\* connection that is gone has no counter.
Released(B) ==
    [c \in Connections |->
        LET n == Cardinality({b \in B : Joins(b, c)}) IN
        IF paired[c] > n THEN paired[c] - n ELSE 0]

\* A frame reaches the queue of an open connection unless the queue is full.
send(frames) == told' \in {told \cup S : S \in SUBSET {f \in frames : f.to \in Open}}

-----------------------------------------------------------------------------
(* Connections                                                             *)

Connected(c) ==
    /\ status[c] = "new"
    /\ status' = [status EXCEPT ![c] = IF Cardinality(Open) < MAX_CONNECTIONS THEN "open" ELSE "ignored"]
    /\ UNCHANGED <<held, paired, attempts, slots, bridges, used, told>>

\* Seeded fault: the slots of a connection outlive it.
Faulty_DisconnectedKeepsSlots(c) ==
    LET removed == {b \in bridges : Joins(b, c)} IN
    /\ status[c] \in {"open", "ignored"}
    /\ status' = [status EXCEPT ![c] = "closed"]
    /\ bridges' = bridges \ removed
    /\ paired' = Released(removed)
    /\ UNCHANGED <<held, attempts, slots, used, told>>

\* Seeded fault: the remaining party keeps its pairing counted.
Faulty_DisconnectedKeepsCount(c) ==
    /\ status[c] \in {"open", "ignored"}
    /\ status' = [status EXCEPT ![c] = "closed"]
    /\ slots' = {s \in slots : s.owner # c}
    /\ bridges' = {b \in bridges : ~Joins(b, c)}
    /\ UNCHANGED <<held, paired, attempts, used, told>>

Disconnected(c) ==
    LET removed == {b \in bridges : Joins(b, c)} IN
    /\ status[c] \in {"open", "ignored"}
    /\ status' = [status EXCEPT ![c] = "closed"]
    /\ slots' = {s \in slots : s.owner # c}
    /\ bridges' = bridges \ removed
    /\ paired' = Released(removed)
    /\ UNCHANGED <<held, attempts, used, told>>

-----------------------------------------------------------------------------
(* Frames of an open connection                                            *)

HasSlotCapacity(c) ==
    held[c] < MAX_SLOTS_PER_CONNECTION /\ Cardinality(slots) < MAX_SLOTS

\* The answers to the requester (PairingSlotCreated, PairingSlotResolved, Error)
\* concern no pairing and are left out of `told`.
CreatePairingSlot(c, h) ==
    /\ c \in Open
    /\ HasSlotCapacity(c)
    /\ h \notin used
    /\ slots' = slots \cup {[handle |-> h, owner |-> c, stale |-> FALSE]}
    /\ held' = [held EXCEPT ![c] = @ + 1]
    /\ used' = used \cup {h}
    /\ UNCHANGED <<status, paired, attempts, bridges, told>>

\* Every resolution counts, whether the code is valid or not.
ResolvePairingCode(c) ==
    /\ c \in Open
    /\ attempts[c] < MAX_CODE_ATTEMPTS
    /\ attempts' = [attempts EXCEPT ![c] = @ + 1]
    /\ UNCHANGED <<status, held, paired, slots, bridges, used, told>>

\* connections[&slot.owner] panics when the owner is not in the map.
BeginPairing(c, p, slot) ==
    /\ c \in Open
    /\ slot \in slots /\ ~slot.stale /\ slot.owner # c
    /\ p \notin used
    /\ paired[c] < MAX_PAIRINGS_PER_CONNECTION
    /\ paired[slot.owner] < MAX_PAIRINGS_PER_CONNECTION
    /\ slots' = slots \ {slot}
    /\ held' = [held EXCEPT ![slot.owner] = saturating_sub(@)]
    /\ bridges' = bridges \cup {[pairing |-> p, owner |-> slot.owner, joiner |-> c,
                                 handle |-> slot.handle, stale |-> FALSE]}
    /\ paired' = [paired EXCEPT ![c] = @ + 1, ![slot.owner] = @ + 1]
    /\ used' = used \cup {p}
    /\ send({[to |-> slot.owner, kind |-> "PairingRequested", pairing |-> p],
             [to |-> c, kind |-> "PairingStarted", pairing |-> p]})
    /\ UNCHANGED <<status, attempts>>

AcceptPairing(b) ==
    /\ b \in bridges
    /\ send({[to |-> b.joiner, kind |-> "PairingAccepted", pairing |-> b.pairing]})
    /\ UNCHANGED <<status, held, paired, attempts, slots, bridges, used>>

\* Seeded fault: the bridge survives its terminal frame.
Faulty_finish_pairing(b, kind) ==
    /\ b \in bridges
    /\ send({[to |-> c, kind |-> kind, pairing |-> b.pairing] : c \in {b.owner, b.joiner}})
    /\ UNCHANGED <<status, held, paired, attempts, slots, bridges, used>>

\* The handle of the bridge names no slot any more (HandleUsedOnce); the code
\* looks for it all the same.
finish_pairing(b, kind) ==
    LET left == {s \in slots : s.handle = b.handle} IN
    /\ b \in bridges
    /\ bridges' = bridges \ {b}
    /\ paired' = Released({b})
    /\ send({[to |-> c, kind |-> kind, pairing |-> b.pairing] : c \in {b.owner, b.joiner}})
    /\ slots' = slots \ left
    /\ held' = [c \in Connections |-> IF \E s \in left : s.owner = c THEN saturating_sub(held[c]) ELSE held[c]]
    /\ UNCHANGED <<status, attempts, used>>

\* RejectPairing and CancelPairing of either side, PairingCommitted of the
\* joiner and PairingFinalized of the owner.
EndPairing(b) == \E kind \in Terminal : finish_pairing(b, kind)

CancelPairingSlot(slot) ==
    /\ slot \in slots
    /\ slots' = slots \ {slot}
    /\ held' = [held EXCEPT ![slot.owner] = saturating_sub(@)]
    /\ UNCHANGED <<status, paired, attempts, bridges, used, told>>

-----------------------------------------------------------------------------
(* Time                                                                    *)

SlotExpires(slot) ==
    /\ slot \in slots /\ ~slot.stale
    /\ slots' = (slots \ {slot}) \cup {[slot EXCEPT !.stale = TRUE]}
    /\ UNCHANGED <<status, held, paired, attempts, bridges, used, told>>

BridgeExpires(b) ==
    /\ b \in bridges /\ ~b.stale
    /\ bridges' = (bridges \ {b}) \cup {[b EXCEPT !.stale = TRUE]}
    /\ UNCHANGED <<status, held, paired, attempts, slots, used, told>>

AttemptForgotten(c) ==
    /\ attempts[c] > 0
    /\ attempts' = [attempts EXCEPT ![c] = @ - 1]
    /\ UNCHANGED <<status, held, paired, slots, bridges, used, told>>

\* The ticker collects everything that has expired.
expire_state ==
    LET expired == {b \in bridges : b.stale} IN
    /\ slots' = {s \in slots : ~s.stale}
    /\ bridges' = bridges \ expired
    /\ paired' = Released(expired)
    /\ UNCHANGED <<status, held, attempts, used, told>>

RelayNext ==
    \/ \E c \in Connections :
        \/ Connected(c)
        \/ Disconnected(c)
        \/ \E h \in Handles : CreatePairingSlot(c, h)
        \/ ResolvePairingCode(c)
        \/ AttemptForgotten(c)
        \/ \E p \in Pairings, slot \in slots : BeginPairing(c, p, slot)
    \/ \E b \in bridges : AcceptPairing(b) \/ EndPairing(b) \/ BridgeExpires(b)
    \/ \E slot \in slots : CancelPairingSlot(slot) \/ SlotExpires(slot)
    \/ expire_state

RelaySpec == RelayInit /\ [][RelayNext]_relayVars

-----------------------------------------------------------------------------
(* Properties                                                              *)

\* Every variable has its type, and no counter exceeds its limit
\* (MAX_SLOTS_PER_CONNECTION, MAX_PAIRINGS_PER_CONNECTION, MAX_CODE_ATTEMPTS).
RelayTypeOK ==
    /\ status \in [Connections -> {"new", "open", "ignored", "closed"}]
    /\ held \in [Connections -> 0..MAX_SLOTS_PER_CONNECTION]
    /\ paired \in [Connections -> 0..MAX_PAIRINGS_PER_CONNECTION]
    /\ attempts \in [Connections -> 0..MAX_CODE_ATTEMPTS]
    /\ slots \subseteq Slot
    /\ bridges \subseteq Bridge
    /\ used \subseteq Handles \cup Pairings
    /\ told \subseteq Frame

\* Every slot and bridge belongs to connections that are still in the map:
\* BeginPairing indexes connections[&slot.owner], which would panic and stop
\* the actor, and with it the relay, for everybody.
PartiesAreOpen ==
    /\ \A s \in slots : s.owner \in Open
    /\ \A b \in bridges : b.owner \in Open /\ b.joiner \in Open /\ b.owner # b.joiner

\* A slot handle names at most one thing, a slot or the one bridge made of it:
\* two joiners that resolved the same code never share a slot (BeginPairing
\* removes it before it inserts the bridge).
HandleUsedOnce ==
    /\ \A s, t \in slots : s.handle = t.handle => s = t
    /\ \A a, b \in bridges : a.handle = b.handle \/ a.pairing = b.pairing => a = b
    /\ \A s \in slots, b \in bridges : s.handle # b.handle

\* The maps of BrokerState refer to each other as the handlers assume, in
\* well-typed states within the limits.
BrokerInv == RelayTypeOK /\ PartiesAreOpen /\ HandleUsedOnce

\* The pairing counter of an open connection is the number of its bridges,
\* through every way a bridge can end: the limit neither leaks nor is evaded.
PairingCountExact ==
    \A c \in Open : paired[c] = Cardinality({b \in bridges : Joins(b, c)})

\* The two sides of a pairing never hear different endings, whatever the order
\* of crossing cancels, commits and expiries (finish_pairing removes the bridge
\* and sends one frame to both).
EndingsAgree ==
    \A f, g \in told : f.pairing = g.pairing /\ f.kind \in Terminal /\ g.kind \in Terminal => f.kind = g.kind
=============================================================================
