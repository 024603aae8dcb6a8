--------------------------- MODULE PeerSessionProofs ---------------------------
(***************************************************************************)
(* Theorems about PeerSession, for any outbox, slots, endpoints and        *)
(* channel capacities.  The session owns a ciphertext from the moment it   *)
(* enters the queue until it is acknowledged, expires or fails; the        *)
(* invariant says that the deduplication set, the queue, the frames in     *)
(* flight and the waiters agree on what is owned, that nothing owned was   *)
(* reported as persisted, and that whatever promises durability, on the    *)
(* connection or on its way to the engine, is stored.                      *)
(***************************************************************************)
EXTENDS PeerSession, FiniteSetTheorems, TLAPS

-----------------------------------------------------------------------------
(* CommandQueues                                                           *)

DurableCommand == {c \in Command : c.tag \in Durable}
QueuesType == [durable : Seq(DurableCommand), slot : [Slots -> Command \cup {NoCommand}], dedupe : SUBSET Durable]

Queued(q) == {q.durable[i].tag : i \in DOMAIN q.durable}

\* No ciphertext is queued twice.
OnceEach(q) == \A i, j \in DOMAIN q.durable : q.durable[i].tag = q.durable[j].tag => i = j

\* A slot holds a command of its kind.
InSlot(q) == \A s \in Slots : q.slot[s] # NoCommand => q.slot[s].tag = s

WellFormed(q) == q \in QueuesType /\ OnceEach(q) /\ InSlot(q)

\* A command is never the empty place of a slot, and durable kinds have no slot.
LEMMA Commands ==
    /\ NoCommand \notin Command
    /\ \A t \in Durable : t \notin Slots
    /\ Tags = Durable \cup Slots
    /\ Slots \subseteq {"EndpointUpdate", "Probe", "Ephemeral"}
    /\ Outbox \in Seq(Durable) /\ Messages \subseteq Durable
    /\ MaxEndpoints \in Nat \ {0} /\ OUTBOUND_CAPACITY \in Nat \ {0} /\ SESSION_CAPACITY \in Nat \ {0}
    /\ MaxSlotCommands \in Nat
<1>1. MaxEndpoints \in Nat \ {0} /\ OUTBOUND_CAPACITY \in Nat \ {0} /\ SESSION_CAPACITY \in Nat \ {0}
  BY PeerSessionAssumption, Zenon
<1>2. NoCommand \notin Command
  BY <1>1 DEF NoCommand, Command
<1> QED BY <1>1, <1>2, PeerSessionAssumption, Zenon DEF Tags

\* The queue of a new task.
LEMMA EmptyIsWellFormed == WellFormed(EmptyQueues) /\ Queued(EmptyQueues) = {} /\ EmptyQueues.dedupe = {}
<1>1. EmptyQueues.durable = <<>> /\ EmptyQueues.dedupe = {} /\ EmptyQueues.slot = [s \in Slots |-> NoCommand]
  BY Zenon DEF EmptyQueues
<1>2. EmptyQueues \in QueuesType
  BY DEF EmptyQueues, QueuesType
<1> QED BY <1>1, <1>2 DEF WellFormed, Queued, OnceEach, InSlot

\* A ciphertext is appended once, with its key; another command replaces what its
\* slot holds.
LEMMA Enqueues ==
    ASSUME NEW q, WellFormed(q), Queued(q) \subseteq q.dedupe, NEW c \in Command
    PROVE  LET new == IF c.tag \in Durable THEN {c.tag} \ q.dedupe ELSE {} IN
           /\ WellFormed(enqueue(q, c))
           /\ Queued(enqueue(q, c)) = Queued(q) \cup new
           /\ enqueue(q, c).dedupe = q.dedupe \cup new
<1>1. q \in QueuesType /\ OnceEach(q) /\ InSlot(q) /\ q.durable \in Seq(DurableCommand)
  BY Zenon DEF WellFormed, QueuesType
<1>2. CASE c.tag \in Durable /\ c.tag \in q.dedupe
  BY <1>2, Zenon DEF enqueue
<1>3. CASE c.tag \in Durable /\ c.tag \notin q.dedupe
  <2> DEFINE d == Append(q.durable, c)
             k == q.dedupe \cup {c.tag}
  <2>1. enqueue(q, c) = [durable |-> d, slot |-> q.slot, dedupe |-> k]
    BY <1>1, <1>3, Zenon DEF enqueue, QueuesType
  <2>2. c \in DurableCommand
    BY <1>3, Zenon DEF DurableCommand
  <2>3. /\ d \in Seq(DurableCommand) /\ Len(d) = Len(q.durable) + 1
        /\ \A i \in 1 .. Len(q.durable) : d[i] = q.durable[i]
        /\ d[Len(q.durable) + 1] = c
    BY <1>1, <2>2
  <2>4. k \in SUBSET Durable
    BY <1>1, <1>3, Zenon DEF QueuesType
  <2> HIDE DEF d, k
  <2>5. enqueue(q, c) \in QueuesType
    BY <1>1, <2>1, <2>3, <2>4 DEF QueuesType
  <2>6. DOMAIN d = 1 .. (Len(q.durable) + 1) /\ DOMAIN q.durable = 1 .. Len(q.durable) /\ Len(q.durable) \in Nat
    BY <1>1, <2>3
  <2>7. \A i \in DOMAIN q.durable : q.durable[i].tag \in q.dedupe
    BY Zenon DEF Queued
  <2>8. OnceEach(enqueue(q, c))
    BY <1>1, <1>3, <2>1, <2>3, <2>6, <2>7 DEF OnceEach
  <2>9. InSlot(enqueue(q, c))
    BY <1>1, <2>1 DEF InSlot
  <2>10. Queued(enqueue(q, c)) = Queued(q) \cup {c.tag}
    <3>1. Queued(enqueue(q, c)) = {d[i].tag : i \in 1 .. (Len(q.durable) + 1)}
      BY <2>1, <2>6 DEF Queued
    <3>2. Queued(q) = {q.durable[i].tag : i \in 1 .. Len(q.durable)}
      BY <2>6, Zenon DEF Queued
    <3>3. 1 .. (Len(q.durable) + 1) = (1 .. Len(q.durable)) \cup {Len(q.durable) + 1}
      BY <2>6
    <3> QED BY <2>3, <3>1, <3>2, <3>3
  <2>11. enqueue(q, c).dedupe = q.dedupe \cup {c.tag}
    BY <2>1 DEF k
  <2> QED BY <1>3, <2>5, <2>8, <2>9, <2>10, <2>11, Zenon DEF WellFormed
<1>4. CASE c.tag \notin Durable
  <2>1. c.tag \in Slots
    BY <1>4, Commands, Zenon DEF Command
  <2>2. enqueue(q, c) = [durable |-> q.durable, slot |-> [q.slot EXCEPT ![c.tag] = c], dedupe |-> q.dedupe]
    BY <1>1, <1>4, Zenon DEF enqueue, QueuesType
  <2>3. /\ q.slot \in [Slots -> Command \cup {NoCommand}] /\ q.dedupe \in SUBSET Durable
        /\ [q.slot EXCEPT ![c.tag] = c] \in [Slots -> Command \cup {NoCommand}]
    BY <1>1, <2>1, Zenon DEF QueuesType
  <2>4. enqueue(q, c) \in QueuesType
    BY <1>1, <2>2, <2>3 DEF QueuesType
  <2>5. InSlot(enqueue(q, c))
    BY <1>1, <2>1, <2>2, <2>3 DEF InSlot
  <2>6. OnceEach(enqueue(q, c)) /\ Queued(enqueue(q, c)) = Queued(q) /\ enqueue(q, c).dedupe = q.dedupe
    BY <1>1, <2>2 DEF OnceEach, Queued
  <2> QED BY <1>4, <2>4, <2>5, <2>6, Zenon DEF WellFormed
<1> QED BY <1>2, <1>3, <1>4, Zenon

\* complete forgets keys and nothing else.
LEMMA Completes ==
    ASSUME NEW q, WellFormed(q), NEW T
    PROVE  /\ WellFormed(complete(q, T))
           /\ Queued(complete(q, T)) = Queued(q)
           /\ complete(q, T).dedupe = q.dedupe \ T
           /\ complete(q, T).durable = q.durable /\ complete(q, T).slot = q.slot
<1> DEFINE k == q.dedupe \ T
<1>1. q \in QueuesType /\ OnceEach(q) /\ InSlot(q) /\ k \in SUBSET Durable
  BY Zenon DEF WellFormed, QueuesType
<1>2. complete(q, T) = [q EXCEPT !.dedupe = k]
  BY Zenon DEF complete
<1> HIDE DEF k
<1>3. complete(q, T) = [durable |-> q.durable, slot |-> q.slot, dedupe |-> k]
  BY <1>1, <1>2, Zenon DEF QueuesType
<1>4. complete(q, T) \in QueuesType
  BY <1>1, <1>3 DEF QueuesType
<1>5. OnceEach(complete(q, T)) /\ InSlot(complete(q, T)) /\ Queued(complete(q, T)) = Queued(q)
  BY <1>1, <1>3 DEF OnceEach, InSlot, Queued
<1> QED BY <1>3, <1>4, <1>5 DEF WellFormed, k

\* The ephemeral slot is emptied and nothing else.
LEMMA DropsEphemeral ==
    ASSUME NEW q, WellFormed(q)
    PROVE  LET r == drop_ephemeral_without_session(q) IN
           WellFormed(r) /\ Queued(r) = Queued(q) /\ r.dedupe = q.dedupe
<1> DEFINE e == [s \in Slots |-> IF s = "Ephemeral" THEN NoCommand ELSE q.slot[s]]
<1>1. q \in QueuesType /\ OnceEach(q) /\ InSlot(q) /\ e \in [Slots -> Command \cup {NoCommand}]
  BY Zenon DEF WellFormed, QueuesType
<1>2. \A s \in Slots : e[s] # NoCommand => e[s].tag = s
  BY <1>1, Zenon DEF InSlot
<1>3. drop_ephemeral_without_session(q) = [q EXCEPT !.slot = e]
  BY Zenon DEF drop_ephemeral_without_session
<1> HIDE DEF e
<1>4. drop_ephemeral_without_session(q) = [durable |-> q.durable, slot |-> e, dedupe |-> q.dedupe]
  BY <1>1, <1>3, Zenon DEF QueuesType
<1>5. drop_ephemeral_without_session(q) \in QueuesType
  BY <1>1, <1>4 DEF QueuesType
<1> QED BY <1>1, <1>2, <1>4, <1>5 DEF WellFormed, OnceEach, InSlot, Queued
\* What fail_queued_commands reports: the queued ciphertexts, and the endpoint update.
LEMMA Fails ==
    ASSUME NEW q, WellFormed(q)
    PROVE  /\ FailedTags(q) \subseteq Tags
           /\ FailedTags(q) \cap Durable = Queued(q)
           /\ Queued(q) \subseteq Durable
<1>1. Range(q.durable) = {q.durable[i] : i \in DOMAIN q.durable}
  BY Zenon DEF Range
<1>2. {c.tag : c \in Range(q.durable)} = Queued(q)
  BY <1>1, Zenon DEF Queued
<1>3. Queued(q) \subseteq Durable
  <2>1. q.durable \in Seq(DurableCommand)
    BY Zenon DEF WellFormed, QueuesType
  <2>2. \A i \in DOMAIN q.durable : q.durable[i] \in DurableCommand
    BY <2>1
  <2> QED BY <2>2, Zenon DEF Queued, DurableCommand
<1>4. \A s \in {"EndpointUpdate"} : Filled(q, s) => s \in Slots
  BY Zenon DEF Filled
<1> QED BY <1>2, <1>3, <1>4, Commands, Zenon DEF FailedTags

\* Draining empties the queue and the slots and forgets the keys of what was queued.
LEMMA Drains ==
    ASSUME NEW q, WellFormed(q), q.dedupe \subseteq Durable
    PROVE  /\ WellFormed(drain_failed(q))
           /\ Queued(drain_failed(q)) = {}
           /\ drain_failed(q).dedupe = q.dedupe \ Queued(q)
<1> DEFINE c == complete(q, FailedTags(q))
           e == [s \in Slots |-> NoCommand]
<1>1. WellFormed(c) /\ c.dedupe = q.dedupe \ FailedTags(q)
  BY Completes
<1>2. drain_failed(q) = [c EXCEPT !.durable = <<>>, !.slot = e]
  BY Zenon DEF drain_failed
<1>3. e \in [Slots -> Command \cup {NoCommand}] /\ \A s \in Slots : e[s] = NoCommand
  OBVIOUS
<1> HIDE DEF c, e
<1>4. drain_failed(q) = [durable |-> <<>>, slot |-> e, dedupe |-> c.dedupe]
  BY <1>1, <1>2, Zenon DEF WellFormed, QueuesType
<1>5. drain_failed(q) \in QueuesType
  BY <1>1, <1>3, <1>4 DEF WellFormed, QueuesType
<1>6. OnceEach(drain_failed(q)) /\ InSlot(drain_failed(q)) /\ Queued(drain_failed(q)) = {}
  BY <1>3, <1>4 DEF OnceEach, InSlot, Queued
<1>7. drain_failed(q).dedupe = q.dedupe \ Queued(q)
  BY <1>1, <1>4, Fails
<1> QED BY <1>5, <1>6, <1>7, Zenon DEF WellFormed

\* The command that is next is the first queued ciphertext, or else that of a slot.
LEMMA NextIs ==
    ASSUME NEW q, WellFormed(q), next_command(q) # NoCommand
    PROVE  /\ next_command(q) \in Command
           /\ q.durable # <<>> => next_command(q) = Head(q.durable) /\ next_command(q).tag \in Durable
           /\ q.durable = <<>> => /\ next_command(q).tag \in Slots
                                  /\ Filled(q, next_command(q).tag)
                                  /\ Queued(q) = {}
<1>1. q.durable \in Seq(DurableCommand) /\ InSlot(q) /\ q.slot \in [Slots -> Command \cup {NoCommand}]
  BY Zenon DEF WellFormed, QueuesType
<1>2. CASE q.durable # <<>>
  <2>1. Head(q.durable) \in DurableCommand
    BY <1>1, <1>2
  <2> QED BY <1>2, <2>1, Zenon DEF next_command, DurableCommand
<1>3. CASE q.durable = <<>>
  <2>1. PICK s \in Slots : next_command(q) = q.slot[s] /\ q.slot[s] # NoCommand
    BY <1>3, Zenon DEF next_command, Filled
  <2>2. q.slot[s] \in Command /\ q.slot[s].tag = s
    BY <1>1, <2>1, Zenon DEF InSlot
  <2>3. Queued(q) = {}
    BY <1>3 DEF Queued
  <2> QED BY <1>3, <2>1, <2>2, <2>3, Zenon DEF Filled
<1> QED BY <1>2, <1>3, Zenon

\* Taking it out leaves the others, and all keys.
LEMMA Pops ==
    ASSUME NEW q, WellFormed(q), next_command(q) # NoCommand
    PROVE  /\ WellFormed(pop_next(q))
           /\ Queued(pop_next(q)) = Queued(q) \ {next_command(q).tag}
           /\ next_command(q).tag \in Durable => next_command(q).tag \in Queued(q)
           /\ pop_next(q).dedupe = q.dedupe
<1> DEFINE t == next_command(q).tag
<1>1. /\ q \in QueuesType /\ OnceEach(q) /\ InSlot(q)
      /\ q.durable \in Seq(DurableCommand) /\ q.slot \in [Slots -> Command \cup {NoCommand}]
  BY Zenon DEF WellFormed, QueuesType
<1>2. CASE q.durable # <<>>
  <2> DEFINE d == Tail(q.durable)
             n == Len(q.durable)
  <2>1. /\ d \in Seq(DurableCommand) /\ n \in Nat /\ n > 0 /\ Len(d) = n - 1
        /\ \A i \in 1 .. (n - 1) : d[i] = q.durable[i + 1]
        /\ t = q.durable[1].tag
    BY <1>1, <1>2, NextIs
  <2>2. DOMAIN q.durable = 1 .. n /\ DOMAIN d = 1 .. (n - 1)
    BY <1>1, <2>1
  <2>3. pop_next(q) = [q EXCEPT !.durable = d]
    BY <1>2, Zenon DEF pop_next
  <2> HIDE DEF d, n, t
  <2>4. pop_next(q) = [durable |-> d, slot |-> q.slot, dedupe |-> q.dedupe]
    BY <1>1, <2>3, Zenon DEF QueuesType
  <2>5. pop_next(q) \in QueuesType
    BY <1>1, <2>1, <2>4 DEF QueuesType
  <2>6. OnceEach(pop_next(q))
    <3>1. \A i \in 1 .. (n - 1) : i \in Nat /\ i + 1 \in 1 .. n /\ d[i].tag = q.durable[i + 1].tag
      BY <2>1
    <3>2. \A i, j \in 1 .. n : q.durable[i].tag = q.durable[j].tag => i = j
      BY <1>1, <2>2, Zenon DEF OnceEach
    <3>3. \A i, j \in 1 .. (n - 1) : d[i].tag = d[j].tag => i + 1 = j + 1
      BY <3>1, <3>2
    <3>4. \A i, j \in 1 .. (n - 1) : d[i].tag = d[j].tag => i = j
      BY <3>1, <3>3
    <3> QED BY <2>2, <2>4, <3>4 DEF OnceEach
  <2>7. Queued(pop_next(q)) = Queued(q) \ {t}
    <3>1. Queued(q) = {q.durable[i].tag : i \in 1 .. n} /\ Queued(pop_next(q)) = {d[i].tag : i \in 1 .. (n - 1)}
      BY <2>2, <2>4 DEF Queued
    <3>2. \A i \in 1 .. n : i = 1 \/ (i - 1 \in 1 .. (n - 1) /\ d[i - 1] = q.durable[i])
      BY <2>1
    <3>3. \A i \in 1 .. (n - 1) : i + 1 \in 1 .. n /\ i + 1 # 1 /\ d[i] = q.durable[i + 1]
      BY <2>1
    <3>4. 1 \in 1 .. n
      BY <2>1
    <3>5. \A i \in 1 .. n : i # 1 => q.durable[i].tag # t
      BY <1>1, <2>1, <2>2, <3>4, Zenon DEF OnceEach
    <3>6. \A x : x \in Queued(pop_next(q)) => x \in Queued(q) /\ x # t
      BY <3>1, <3>3, <3>5
    <3>7. \A x : x \in Queued(q) /\ x # t => x \in Queued(pop_next(q))
      <4>1. ASSUME NEW x, x \in Queued(q), x # t PROVE x \in Queued(pop_next(q))
        <5>1. PICK i \in 1 .. n : x = q.durable[i].tag
          BY <3>1, <4>1, Zenon
        <5>2. i # 1
          BY <2>1, <4>1, <5>1, Zenon
        <5>3. i - 1 \in 1 .. (n - 1) /\ d[i - 1].tag = x
          BY <3>2, <5>1, <5>2, Zenon
        <5> QED BY <3>1, <5>3, Zenon
      <4> QED BY <4>1, Zenon
    <3> QED BY <3>6, <3>7, Zenon
  <2>8. t \in Queued(q)
    <3>1. 1 \in DOMAIN q.durable
      BY <2>1, <2>2
    <3> QED BY <2>1, <3>1, Zenon DEF Queued
  <2>9. InSlot(pop_next(q))
    BY <1>1, <2>4 DEF InSlot
  <2>10. WellFormed(pop_next(q)) /\ pop_next(q).dedupe = q.dedupe
    BY <2>4, <2>5, <2>6, <2>9 DEF WellFormed
  <2> QED BY <2>7, <2>8, <2>10, Zenon DEF t
<1>3. CASE q.durable = <<>>
  <2> DEFINE e == [q.slot EXCEPT ![t] = NoCommand]
  <2>1. t \in Slots /\ Queued(q) = {} /\ t \notin Durable
    BY <1>3, NextIs, Commands, Zenon
  <2>2. pop_next(q) = [q EXCEPT !.slot = e]
    BY <1>1, <1>3, Zenon DEF pop_next
  <2>3. e \in [Slots -> Command \cup {NoCommand}] /\ \A s \in Slots : e[s] = NoCommand \/ e[s] = q.slot[s]
    BY <1>1, <2>1, Zenon
  <2> HIDE DEF e, t
  <2>4. pop_next(q) = [durable |-> q.durable, slot |-> e, dedupe |-> q.dedupe]
    BY <1>1, <2>2, Zenon DEF QueuesType
  <2>5. pop_next(q) \in QueuesType
    BY <1>1, <2>3, <2>4 DEF QueuesType
  <2>6. OnceEach(pop_next(q)) /\ InSlot(pop_next(q)) /\ Queued(pop_next(q)) = Queued(q)
    BY <1>1, <2>3, <2>4 DEF OnceEach, InSlot, Queued
  <2>7. WellFormed(pop_next(q)) /\ pop_next(q).dedupe = q.dedupe
    BY <2>4, <2>5, <2>6 DEF WellFormed
  <2> QED BY <2>1, <2>6, <2>7, Zenon DEF t
<1> QED BY <1>2, <1>3, Zenon
-----------------------------------------------------------------------------
(* The invariant                                                           *)

Engine ==
    /\ encrypted \in 0 .. Len(Outbox) /\ wanted \subseteq Durable
    /\ endpoint \in 1 .. MaxEndpoints /\ slotted \in 0 .. MaxSlotCommands

\* A task that does not exist has no command waiting: the dispatcher starts one
\* without looking at its channel.
Channels ==
    /\ outbound \in Seq(Command) /\ Len(outbound) <= OUTBOUND_CAPACITY
    /\ channel \in Seq(Command) /\ Len(channel) <= SESSION_CAPACITY
    /\ task = "none" => channel = <<>>

\* Without a connection nothing is in flight and nothing waits.
Connection ==
    /\ task \in {"none", "top", "waiting", "ending", "dialing", "connected"}
    /\ link \in 0 .. MaxEndpoints /\ (task = "connected" <=> link # 0)
    /\ task # "connected" => active = {} /\ awaiting = {}
    /\ probes \subseteq DialWorthySlots

\* A ciphertext the session owns is in exactly one place, and its key is known.
Owned ==
    /\ WellFormed(queues)
    /\ active \subseteq Durable /\ awaiting \subseteq Messages
    /\ queues.dedupe = Queued(queues) \cup active \cup awaiting
    /\ Queued(queues) \cap (active \cup awaiting) = {} /\ active \cap awaiting = {}
    /\ \A t, u \in active : t = u

\* What may still be reported as failed was not reported as persisted.
Unreported == settled \subseteq Durable /\ settled \cap (Queued(queues) \cup active) = {}

\* An acknowledgement on the connection is of an envelope that is stored ...
Network ==
    /\ wire \subseteq Durable /\ stored \subseteq Durable
    /\ back \subseteq Durable \X AckKind
    /\ \A b \in back : b[1] \in stored

\* ... and so is one on its way to the engine ...
Reported ==
    /\ events \subseteq Event
    /\ \A e \in events : e[2] = "Ack" /\ e[1] \in Durable => e[1] \in stored

\* ... and what the engine no longer wants.
Settled == \A i \in 1 .. encrypted : Outbox[i] \in wanted \cup stored

\* The inductive invariant.
SInv == Engine /\ Channels /\ Connection /\ Owned /\ Unreported /\ Network /\ Reported /\ Settled

\* What does not change keeps its part of the invariant.
LEMMA Frames ==
    ASSUME SInv
    PROVE  /\ UNCHANGED engine => Engine'
           /\ UNCHANGED <<outbound, channel>> /\ task' # "none" => Channels'
           /\ UNCHANGED <<outbound, channel, task>> => Channels'
           /\ UNCHANGED <<task, link, active, awaiting, probes>> => Connection'
           /\ UNCHANGED <<queues, active, awaiting>> => Owned'
           /\ UNCHANGED <<settled, queues, active>> => Unreported'
           /\ UNCHANGED network => Network'
           /\ UNCHANGED <<events, stored>> => Reported'
           /\ UNCHANGED <<encrypted, wanted, stored>> => Settled'
<1>1. UNCHANGED engine => Engine'
  BY Zenon DEF SInv, Engine, engine
<1>2. UNCHANGED <<outbound, channel>> /\ task' # "none" => Channels'
  BY Zenon DEF SInv, Channels
<1>3. UNCHANGED <<outbound, channel, task>> => Channels'
  BY Zenon DEF SInv, Channels
<1>4. UNCHANGED <<task, link, active, awaiting, probes>> => Connection'
  BY Zenon DEF SInv, Connection
<1>5. UNCHANGED <<queues, active, awaiting>> => Owned'
  BY DEF SInv, Owned, WellFormed, OnceEach, InSlot, Queued
<1>6. UNCHANGED <<settled, queues, active>> => Unreported'
  BY Zenon DEF SInv, Unreported, Queued
<1>7. UNCHANGED network => Network'
  BY Zenon DEF SInv, Network, network
<1>8. UNCHANGED <<events, stored>> => Reported'
  BY Zenon DEF SInv, Reported
<1>9. UNCHANGED <<encrypted, wanted, stored>> => Settled'
  BY Zenon DEF SInv, Settled
<1> QED BY <1>1, <1>2, <1>3, <1>4, <1>5, <1>6, <1>7, <1>8, <1>9

\* More is stored, and failures are reported: no promise is broken.
LEMMA MoreStored ==
    ASSUME SInv, stored \subseteq stored'
    PROVE  /\ UNCHANGED <<encrypted, wanted>> => Settled'
           /\ UNCHANGED events => Reported'
           /\ \A T \in SUBSET Tags : Report(T, "Backoff") => Reported'
<1>1. UNCHANGED <<encrypted, wanted>> => Settled'
  BY Zenon DEF SInv, Settled
<1>2. UNCHANGED events => Reported'
  BY Zenon DEF SInv, Reported
<1>3. ASSUME NEW T \in SUBSET Tags, Report(T, "Backoff") PROVE Reported'
  <2>1. events' = events \cup (T \X {"Backoff"})
    BY <1>3, Zenon DEF Report
  <2>2. T \X {"Backoff"} \subseteq Event /\ \A e \in T \X {"Backoff"} : e[2] # "Ack"
    BY Zenon DEF Event
  <2> QED BY <2>1, <2>2, Zenon DEF SInv, Reported
<1> QED BY <1>1, <1>2, <1>3, Zenon

\* A closed connection leaves the task without frames and without waiters.
LEMMA Closes ==
    ASSUME SInv, Closed
    PROVE  Connection' /\ Network' /\ stored \subseteq stored' /\ task' = "top" /\ active' = {} /\ awaiting' = {}
<1>1. PICK S \in SUBSET wire : stored' = stored \cup S
  BY Zenon DEF Closed
<1>2. /\ link' = 0 /\ active' = {} /\ awaiting' = {} /\ probes' = {}
      /\ wire' = {} /\ back' = {} /\ task' = "top"
  BY Zenon DEF Closed
<1>3. Connection'
  BY <1>2, Commands DEF Connection
<1>4. Network'
  BY <1>1, <1>2, Zenon DEF Network, SInv
<1> QED BY <1>1, <1>2, <1>3, <1>4, Zenon

\* A session that owns nothing.
LEMMA Released ==
    ASSUME SInv, WellFormed(queues)', Queued(queues') = {}, queues'.dedupe = {}, active' = {}, awaiting' = {},
           UNCHANGED settled
    PROVE  Owned' /\ Unreported'
BY Zenon DEF SInv, Owned, Unreported
-----------------------------------------------------------------------------
(* Steps of the engine and the dispatcher                                  *)

\* A command is appended to the queue of the dispatcher while it has room.
LEMMA Outbounds ==
    ASSUME SInv, NEW c \in Command, Len(outbound) < OUTBOUND_CAPACITY, outbound' = Append(outbound, c),
           UNCHANGED <<channel, task>>
    PROVE  Channels'
<1>1. outbound \in Seq(Command)
  BY Zenon DEF SInv, Channels
<1>2. outbound' \in Seq(Command) /\ Len(outbound') = Len(outbound) + 1
  BY <1>1
<1>3. Len(outbound') <= OUTBOUND_CAPACITY
  BY <1>1, <1>2, Commands
<1> QED BY <1>2, <1>3, Zenon DEF SInv, Channels

\* A ciphertext is wanted from the moment it exists.
LEMMA SubmitKeeps ==
    ASSUME SInv, NEW t \in Durable, Submit(t)
    PROVE  SInv'
<1>1. /\ Len(outbound) < OUTBOUND_CAPACITY /\ outbound' = Append(outbound, [tag |-> t, endpoint |-> endpoint])
      /\ UNCHANGED <<endpoint, slotted, channel, session, network, events, settled>>
  BY Zenon DEF Submit
<1>2. [tag |-> t, endpoint |-> endpoint] \in Command
  BY Zenon DEF SInv, Engine, Command, Tags
<1>3. Channels'
  BY <1>1, <1>2, Outbounds, Zenon DEF session
<1>4. Engine' /\ Settled'
  <2>1. CASE UNCHANGED <<encrypted, wanted>>
    BY <1>1, <2>1, Frames, Zenon DEF engine, network
  <2>2. CASE encrypted < Len(Outbox) /\ t = Outbox[encrypted + 1] /\ encrypted' = encrypted + 1 /\ wanted' = wanted \cup {t}
    <3>1. encrypted \in Nat /\ Len(Outbox) \in Nat
      BY Commands DEF SInv, Engine
    <3>2. encrypted' \in 0 .. Len(Outbox)
      BY <2>2, <3>1
    <3>3. \A i \in 1 .. encrypted' : i \in 1 .. encrypted \/ i = encrypted + 1
      BY <2>2, <3>1
    <3>4. Settled'
      BY <1>1, <2>2, <3>3, Zenon DEF SInv, Settled, network
    <3> QED BY <1>1, <2>2, <3>2, <3>4, Zenon DEF SInv, Engine
  <2> QED BY <2>1, <2>2, Zenon DEF Submit
<1> QED BY <1>1, <1>3, <1>4, Frames, Zenon DEF SInv, session, network

\* A command for a slot changes nothing else.
LEMMA SubmitSlotKeeps ==
    ASSUME SInv, NEW s \in Slots, SubmitSlot(s)
    PROVE  SInv'
<1>1. /\ Len(outbound) < OUTBOUND_CAPACITY /\ outbound' = Append(outbound, [tag |-> s, endpoint |-> endpoint])
      /\ slotted < MaxSlotCommands /\ slotted' = slotted + 1
      /\ UNCHANGED <<encrypted, wanted, endpoint, channel, session, network, events, settled>>
  BY Zenon DEF SubmitSlot
<1>2. [tag |-> s, endpoint |-> endpoint] \in Command
  BY Zenon DEF SInv, Engine, Command, Tags
<1>3. Channels'
  BY <1>1, <1>2, Outbounds, Zenon DEF session
<1>4. slotted' \in 0 .. MaxSlotCommands
  BY <1>1, Commands DEF SInv, Engine
<1>5. Engine'
  BY <1>1, <1>4, Zenon DEF SInv, Engine
<1> QED BY <1>1, <1>3, <1>5, Frames, Zenon DEF SInv, session, network

\* The contact's next endpoint.
LEMMA EndpointKeeps ==
    ASSUME SInv, EndpointUpdated
    PROVE  SInv'
<1>1. endpoint' \in 1 .. MaxEndpoints
  BY Commands DEF EndpointUpdated, SInv, Engine
<1>2. Engine'
  BY <1>1, Zenon DEF EndpointUpdated, SInv, Engine
<1> QED BY <1>2, Frames, Zenon DEF EndpointUpdated, SInv, session, network

\* The engine gives up only what an event says is stored.
LEMMA HandleEventKeeps ==
    ASSUME SInv, NEW e \in Event, HandleEvent(e)
    PROVE  SInv'
<1>1. /\ e \in events /\ events' = events \ {e}
      /\ wanted' = IF e[2] = "Ack" THEN wanted \ {e[1]} ELSE wanted
      /\ UNCHANGED <<encrypted, endpoint, slotted, outbound, channel, session, network, settled>>
  BY Zenon DEF HandleEvent
<1>2. Engine'
  BY <1>1, Zenon DEF SInv, Engine
<1>3. Reported'
  BY <1>1, Zenon DEF SInv, Reported, network
<1>4. Settled'
  <2>1. \A i \in 1 .. encrypted : Outbox[i] \in Durable
    BY Commands DEF SInv, Engine
  <2> QED BY <1>1, <2>1, Zenon DEF SInv, Settled, Reported, network
<1> QED BY <1>1, <1>2, <1>3, <1>4, Frames, Zenon DEF SInv, session, network

\* The first command of a new task finds an empty channel.
LEMMA ForwardKeeps ==
    ASSUME SInv, Forward
    PROVE  SInv'
<1>1. /\ outbound # <<>> /\ outbound' = Tail(outbound) /\ channel' = Append(channel, Head(outbound))
      /\ UNCHANGED <<engine, queues, link, active, awaiting, probes, network, events, settled>>
  BY Zenon DEF Forward
<1>2. /\ outbound \in Seq(Command) /\ Len(outbound) <= OUTBOUND_CAPACITY
      /\ channel \in Seq(Command) /\ Len(channel) <= SESSION_CAPACITY
  BY Zenon DEF SInv, Channels
<1>3. /\ outbound' \in Seq(Command) /\ Len(outbound') = Len(outbound) - 1
      /\ Head(outbound) \in Command
  BY <1>1, <1>2
<1>4. channel' \in Seq(Command) /\ Len(channel') = Len(channel) + 1
  BY <1>1, <1>2, <1>3
<1>5. CASE task # "none" /\ Len(channel) < SESSION_CAPACITY /\ UNCHANGED task
  <2>1. Len(channel') <= SESSION_CAPACITY /\ Len(outbound') <= OUTBOUND_CAPACITY
    BY <1>2, <1>3, <1>4, <1>5, Commands
  <2>2. Channels'
    BY <1>3, <1>4, <1>5, <2>1, Zenon DEF Channels
  <2> QED BY <1>1, <1>5, <2>2, Frames, Zenon DEF SInv, engine, network
<1>6. CASE task = "none" /\ task' = "top"
  <2>1. channel = <<>>
    BY <1>6, Zenon DEF SInv, Channels
  <2>2. Len(channel') <= SESSION_CAPACITY /\ Len(outbound') <= OUTBOUND_CAPACITY
    BY <1>2, <1>3, <1>4, <2>1, Commands
  <2>3. Channels'
    BY <1>3, <1>4, <1>6, <2>2, Zenon DEF Channels
  <2>4. Connection'
    BY <1>1, <1>6, Zenon DEF SInv, Connection
  <2> QED BY <1>1, <2>3, <2>4, Frames, Zenon DEF SInv, engine, network
<1> QED BY <1>5, <1>6, Zenon DEF Forward
-----------------------------------------------------------------------------
(* Steps of the session task                                               *)

\* A command enters the queue: a retry of what the session owns is dropped, and what
\* is queued again may fail again.
LEMMA QueueKeeps ==
    ASSUME SInv, NEW c \in Command,
           WellFormed(queues'), Queued(queues') = Queued(enqueue(queues, c)),
           queues'.dedupe = enqueue(queues, c).dedupe,
           UNCHANGED <<active, awaiting>>,
           settled' \subseteq settled, c.tag \notin queues.dedupe => c.tag \notin settled'
    PROVE  Owned' /\ Unreported'
<1> DEFINE new == IF c.tag \in Durable THEN {c.tag} \ queues.dedupe ELSE {}
<1>1. WellFormed(queues) /\ Queued(queues) \subseteq queues.dedupe
  BY Zenon DEF SInv, Owned
<1>2. Queued(queues') = Queued(queues) \cup new /\ queues'.dedupe = queues.dedupe \cup new
  BY <1>1, Enqueues
<1>3. new \cap queues.dedupe = {} /\ new \cap settled' = {}
  OBVIOUS
<1> HIDE DEF new
<1> QED BY <1>2, <1>3, Zenon DEF SInv, Owned, Unreported

\* The channel gives up its first command.
LEMMA ChannelTail ==
    ASSUME SInv, channel # <<>>, channel' = Tail(channel), UNCHANGED outbound, task' # "none"
    PROVE  Channels' /\ Head(channel) \in Command
<1>1. channel \in Seq(Command) /\ Len(channel) <= SESSION_CAPACITY
  BY Zenon DEF SInv, Channels
<1>2. channel' \in Seq(Command) /\ Len(channel') = Len(channel) - 1 /\ Head(channel) \in Command
  BY <1>1
<1>3. Len(channel') <= SESSION_CAPACITY
  BY <1>1, <1>2, Commands
<1> QED BY <1>2, <1>3, Zenon DEF SInv, Channels

\* try_recv and recv put the command in the queue.
LEMMA TakeKeeps ==
    ASSUME SInv, TakeCommand
    PROVE  SInv'
<1>1. /\ task \in {"top", "connected"} /\ channel # <<>> /\ channel' = Tail(channel)
      /\ queues' = enqueue(queues, Head(channel))
      /\ settled' = IF Head(channel).tag \in queues.dedupe THEN settled ELSE settled \ {Head(channel).tag}
      /\ UNCHANGED <<engine, outbound, task, link, active, awaiting, probes, network, events>>
  BY Zenon DEF TakeCommand, Enqueue
<1>2. Channels' /\ Head(channel) \in Command
  BY <1>1, ChannelTail, Zenon
<1>3. WellFormed(queues')
  BY <1>1, <1>2, Enqueues, Zenon DEF SInv, Owned
<1>4. Owned' /\ Unreported'
  BY <1>1, <1>2, <1>3, QueueKeeps, Zenon
<1> QED BY <1>1, <1>2, <1>4, Frames, Zenon DEF SInv, engine, network

\* So does the wait of a task without a connection, which keeps no ephemeral command.
LEMMA AwaitKeeps ==
    ASSUME SInv, AwaitCommand
    PROVE  SInv'
<1>1. /\ task = "waiting" /\ channel # <<>> /\ channel' = Tail(channel)
      /\ queues' = drop_ephemeral_without_session(enqueue(queues, Head(channel)))
      /\ settled' = settled \ {Head(channel).tag}
      /\ task' \in {"dialing", "waiting"}
      /\ UNCHANGED <<engine, outbound, link, active, awaiting, probes, network, events>>
  BY Zenon DEF AwaitCommand
<1>2. Channels' /\ Head(channel) \in Command
  BY <1>1, ChannelTail, Zenon
<1>3. WellFormed(enqueue(queues, Head(channel)))
  BY <1>2, Enqueues, Zenon DEF SInv, Owned
<1>4. /\ WellFormed(queues') /\ Queued(queues') = Queued(enqueue(queues, Head(channel)))
      /\ queues'.dedupe = enqueue(queues, Head(channel)).dedupe
  BY <1>1, <1>3, DropsEphemeral, Zenon
<1>5. Owned' /\ Unreported'
  BY <1>1, <1>2, <1>4, QueueKeeps, Zenon
<1>6. Connection'
  BY <1>1, Zenon DEF SInv, Connection
<1> QED BY <1>1, <1>2, <1>5, <1>6, Frames, Zenon DEF SInv, engine, network

\* The task moves between its loops while it has no connection.
LEMMA TurnKeeps ==
    ASSUME SInv, Drained \/ IdleTimeout
    PROVE  SInv'
<1>1. /\ task # "connected" /\ task' \in {"dialing", "waiting", "ending"}
      /\ UNCHANGED <<engine, outbound, channel, queues, link, active, awaiting, probes, network, events, settled>>
  BY Zenon DEF Drained, IdleTimeout
<1>2. Connection'
  BY <1>1, Zenon DEF SInv, Connection
<1> QED BY <1>1, <1>2, Frames, Zenon DEF SInv, engine, network

\* A task that ends drops what it had queued, and owns nothing.
LEMMA EndKeeps ==
    ASSUME SInv, End
    PROVE  SInv'
<1>1. /\ task = "ending" /\ task' = "none" /\ channel' = <<>> /\ queues' = EmptyQueues
      /\ UNCHANGED <<engine, outbound, link, active, awaiting, probes, network, events, settled>>
  BY Zenon DEF End
<1>2. Connection' /\ active' = {} /\ awaiting' = {}
  BY <1>1, Zenon DEF SInv, Connection
<1>3. Channels'
  <2>1. <<>> \in Seq(Command) /\ Len(<<>>) = 0 /\ 0 <= SESSION_CAPACITY
    BY Commands
  <2> QED BY <1>1, <2>1, Zenon DEF SInv, Channels
<1>4. Owned' /\ Unreported'
  BY <1>1, <1>2, EmptyIsWellFormed, Released, Zenon
<1> QED BY <1>1, <1>2, <1>3, <1>4, Frames, Zenon DEF SInv, engine, network

\* A connection starts with nothing in flight.
LEMMA ConnectsKeeps ==
    ASSUME SInv, Connects
    PROVE  SInv'
<1>1. /\ link' = endpoint /\ task = "dialing" /\ task' = "connected"
      /\ UNCHANGED <<engine, outbound, channel, queues, active, awaiting, probes, network, events, settled>>
  BY Zenon DEF Connects
<1>2. Connection'
  BY <1>1, Commands DEF SInv, Connection, Engine
<1> QED BY <1>1, <1>2, Frames, Zenon DEF SInv, engine, network

\* A failed dial reports what is queued, and only that.
LEMMA ConnectFailsKeeps ==
    ASSUME SInv, ConnectFails
    PROVE  SInv'
<1>1. /\ task = "dialing" /\ task' = "top" /\ Report(FailedTags(queues), "Backoff") /\ queues' = drain_failed(queues)
      /\ UNCHANGED <<engine, outbound, channel, link, active, awaiting, probes, network, settled>>
  BY Zenon DEF ConnectFails
<1>2. Connection' /\ active = {} /\ awaiting = {}
  BY <1>1, Zenon DEF SInv, Connection
<1>3. WellFormed(queues) /\ queues.dedupe = Queued(queues) /\ queues.dedupe \subseteq Durable
  BY <1>2, Fails, Zenon DEF SInv, Owned
<1>4. Owned' /\ Unreported'
  BY <1>1, <1>2, <1>3, Drains, Released
<1>5. Reported'
  BY <1>1, <1>3, Fails, MoreStored, Zenon DEF network
<1> QED BY <1>1, <1>2, <1>4, <1>5, Frames, Zenon DEF SInv, engine, network
\* A ciphertext goes from the queue into flight; its key stays.
LEMMA SendKeeps ==
    ASSUME SInv, send_outbound_command
    PROVE  SInv'
<1> DEFINE t == next_command(queues).tag
<1>1. /\ task = "connected" /\ active = {} /\ next_command(queues) # NoCommand
      /\ queues' = pop_next(queues)
      /\ active' = active \cup ({t} \cap Durable)
      /\ wire' = wire \cup ({t} \cap Durable)
      /\ probes' = probes \cup ({t} \cap DialWorthySlots)
      /\ UNCHANGED <<engine, outbound, channel, task, link, awaiting, back, stored, events, settled>>
  BY Zenon DEF send_outbound_command, MaySend
<1>2. WellFormed(queues)
  BY Zenon DEF SInv, Owned
<1>3. /\ WellFormed(queues') /\ queues'.dedupe = queues.dedupe
      /\ Queued(queues') = Queued(queues) \ {t}
      /\ t \in Durable => t \in Queued(queues)
  BY <1>1, <1>2, Pops, Zenon
<1>4. Queued(queues) \subseteq Durable
  BY <1>2, Fails, Zenon
<1> HIDE DEF t
<1>5. Owned'
  BY <1>1, <1>3, <1>4 DEF SInv, Owned
<1>6. Unreported'
  BY <1>1, <1>3, Zenon DEF SInv, Unreported
<1>7. Connection'
  BY <1>1, Zenon DEF SInv, Connection
<1>8. Network'
  BY <1>1, Zenon DEF SInv, Network
<1> QED BY <1>1, <1>5, <1>6, <1>7, <1>8, Frames, Zenon DEF SInv, engine

\* The session is given up with all it owns: what is reported is what was queued or
\* in flight.
LEMMA GiveUpKeeps ==
    ASSUME SInv, Closed, NEW T \in SUBSET Tags, Report(T, "Backoff"),
           WellFormed(queues'), Queued(queues') = {}, queues'.dedupe = {},
           UNCHANGED <<engine, outbound, channel, settled>>
    PROVE  SInv'
<1>1. Connection' /\ Network' /\ stored \subseteq stored' /\ task' = "top" /\ active' = {} /\ awaiting' = {}
  BY Closes, Zenon
<1>2. Owned' /\ Unreported'
  BY <1>1, Released, Zenon
<1>3. Reported' /\ Settled'
  BY <1>1, MoreStored, Zenon DEF engine
<1> QED BY <1>1, <1>2, <1>3, Frames, Zenon DEF SInv

\* The command that could not be written is reported with the rest of the queue.
LEMMA SendFailsKeeps ==
    ASSUME SInv, SendFails
    PROVE  /\ SInv'
           /\ \A u \in settled : <<u, "Backoff">> \in events' => <<u, "Backoff">> \in events
<1> DEFINE t == next_command(queues).tag
           rest == pop_next(queues)
           T == ({t} \cap is_durable) \cup FailedTags(rest)
<1>1. /\ task = "connected" /\ active = {} /\ next_command(queues) # NoCommand
      /\ Report(T, "Backoff") /\ queues' = complete(drain_failed(rest), {t} \cup awaiting)
      /\ Closed /\ UNCHANGED <<engine, outbound, channel, settled>>
  BY Zenon DEF SendFails, MaySend
<1>2. WellFormed(queues) /\ queues.dedupe = Queued(queues) \cup awaiting /\ queues.dedupe \subseteq Durable
  BY <1>1, Fails, Commands, Zenon DEF SInv, Owned
<1>3. /\ WellFormed(rest) /\ rest.dedupe = queues.dedupe
      /\ Queued(rest) = Queued(queues) \ {t}
      /\ t \in Durable => t \in Queued(queues)
  BY <1>1, <1>2, Pops, Zenon
<1>4. next_command(queues) \in Command /\ t \in Tags
  BY <1>1, <1>2, NextIs, Zenon DEF Command
<1>5. FailedTags(rest) \subseteq Tags /\ FailedTags(rest) \cap Durable = Queued(rest) /\ T \in SUBSET Tags
  BY <1>3, <1>4, Fails, Zenon
<1> HIDE DEF rest, t
<1>6. /\ WellFormed(drain_failed(rest)) /\ Queued(drain_failed(rest)) = {}
      /\ drain_failed(rest).dedupe = rest.dedupe \ Queued(rest)
  BY <1>2, <1>3, Drains, Zenon
<1>7. WellFormed(queues') /\ Queued(queues') = {} /\ queues'.dedupe = drain_failed(rest).dedupe \ ({t} \cup awaiting)
  BY <1>1, <1>6, Completes
<1>8. queues'.dedupe = {}
  BY <1>2, <1>3, <1>6, <1>7, Zenon
<1>9. T \cap settled = {}
  <2>1. T \cap Durable \subseteq Queued(queues)
    BY <1>3, <1>5, Zenon
  <2> QED BY <2>1, Zenon DEF SInv, Unreported
<1> HIDE DEF T
<1>10. SInv'
  BY <1>1, <1>5, <1>7, <1>8, GiveUpKeeps, Zenon
<1>11. events' = events \cup (T \X {"Backoff"})
  BY <1>1, Zenon DEF Report
<1> QED BY <1>9, <1>10, <1>11, Zenon

\* fail_active_deliveries and fail_queued_commands: the waiters are not reported.
LEMMA SessionFailsKeeps ==
    ASSUME SInv, SessionFails
    PROVE  /\ SInv'
           /\ \A u \in settled : <<u, "Backoff">> \in events' => <<u, "Backoff">> \in events
<1> DEFINE T == active \cup FailedTags(queues)
<1>1. /\ Report(T, "Backoff") /\ queues' = complete(drain_failed(queues), active \cup awaiting)
      /\ Closed /\ UNCHANGED <<engine, outbound, channel, settled>>
  BY Zenon DEF SessionFails
<1>2. /\ WellFormed(queues) /\ queues.dedupe = Queued(queues) \cup active \cup awaiting
      /\ queues.dedupe \subseteq Durable /\ active \subseteq Durable
  BY Fails, Commands, Zenon DEF SInv, Owned
<1>3. T \in SUBSET Tags /\ FailedTags(queues) \cap Durable = Queued(queues)
  BY <1>2, Fails, Commands, Zenon
<1>4. /\ WellFormed(drain_failed(queues)) /\ Queued(drain_failed(queues)) = {}
      /\ drain_failed(queues).dedupe = queues.dedupe \ Queued(queues)
  BY <1>2, Drains, Zenon
<1>5. WellFormed(queues') /\ Queued(queues') = {} /\ queues'.dedupe = drain_failed(queues).dedupe \ (active \cup awaiting)
  BY <1>1, <1>4, Completes
<1>6. queues'.dedupe = {}
  BY <1>2, <1>4, <1>5, Zenon
<1>7. T \cap settled = {}
  BY <1>3, Zenon DEF SInv, Unreported
<1> HIDE DEF T
<1>8. SInv'
  BY <1>1, <1>3, <1>5, <1>6, GiveUpKeeps, Zenon
<1>9. events' = events \cup (T \X {"Backoff"})
  BY <1>1, Zenon DEF Report
<1> QED BY <1>7, <1>8, <1>9, Zenon
\* A session that is closed to dial another endpoint keeps its queue.
LEMMA EndpointDiffersKeeps ==
    ASSUME SInv, EndpointDiffers
    PROVE  SInv'
<1>1. /\ active = {} /\ queues' = complete(queues, awaiting)
      /\ Closed /\ UNCHANGED <<engine, outbound, channel, events, settled>>
  BY Zenon DEF EndpointDiffers, MaySend
<1>2. Connection' /\ Network' /\ stored \subseteq stored' /\ task' = "top" /\ active' = {} /\ awaiting' = {}
  BY <1>1, Closes, Zenon
<1>3. WellFormed(queues') /\ Queued(queues') = Queued(queues) /\ queues'.dedupe = queues.dedupe \ awaiting
  BY <1>1, Completes, Zenon DEF SInv, Owned
<1>4. Owned' /\ Unreported'
  BY <1>1, <1>2, <1>3, Zenon DEF SInv, Owned, Unreported
<1>5. Reported' /\ Settled'
  BY <1>1, <1>2, MoreStored, Zenon DEF engine
<1> QED BY <1>1, <1>2, <1>4, <1>5, Frames, Zenon DEF SInv

\* An idle session owns nothing.
LEMMA IdleCloseKeeps ==
    ASSUME SInv, IdleClose
    PROVE  SInv'
<1>1. /\ active = {} /\ awaiting = {} /\ Closed /\ UNCHANGED <<engine, outbound, channel, queues, events, settled>>
  BY Zenon DEF IdleClose
<1>2. Connection' /\ Network' /\ stored \subseteq stored' /\ task' = "top" /\ active' = {} /\ awaiting' = {}
  BY <1>1, Closes, Zenon
<1>3. Owned' /\ Unreported'
  BY <1>1, <1>2, Frames, Zenon
<1>4. Reported' /\ Settled'
  BY <1>1, <1>2, MoreStored, Zenon DEF engine
<1> QED BY <1>1, <1>2, <1>3, <1>4, Frames DEF SInv

\* An acknowledgement that is reported is of a stored envelope; PERSISTED keeps a
\* message as a waiter, anything else ends the delivery.
LEMMA HandleAckKeeps ==
    ASSUME SInv, NEW t \in Durable, NEW kind \in AckKind, HandleAck(t, kind)
    PROVE  SInv'
<1>1. /\ task = "connected" /\ <<t, kind>> \in back /\ back' = back \ {<<t, kind>>}
      /\ UNCHANGED <<engine, outbound, channel, task, link, probes, wire, stored>>
  BY Zenon DEF HandleAck, Readable
<1>2. t \in stored
  BY <1>1, Zenon DEF SInv, Network
<1>3. Network'
  BY <1>1, Zenon DEF SInv, Network
<1>4. CASE t \notin active \cup awaiting
  <2>1. UNCHANGED <<active, awaiting, queues, events, settled>>
    BY <1>4, Zenon DEF HandleAck
  <2> QED BY <1>1, <1>3, <2>1, Frames, Zenon DEF SInv, engine
<1>5. CASE t \in active \cup awaiting
  <2> DEFINE waits == kind = "Persisted" /\ t \in Messages
  <2>1. /\ Report({t}, "Ack") /\ active' = active \ {t}
        /\ awaiting' = IF waits THEN awaiting \cup {t} ELSE awaiting \ {t}
        /\ queues' = IF waits THEN queues ELSE complete(queues, {t})
        /\ settled' = settled \cup {t}
    BY <1>5, Zenon DEF HandleAck
  <2>2. Reported'
    <3>1. events' = events \cup ({t} \X {"Ack"})
      BY <2>1, Zenon DEF Report
    <3>2. {t} \X {"Ack"} \subseteq Event
      BY Commands, Zenon DEF Event
    <3> QED BY <1>1, <1>2, <3>1, <3>2, Zenon DEF SInv, Reported
  <2>3. WellFormed(queues) /\ t \notin Queued(queues)
    BY <1>5, Zenon DEF SInv, Owned
  <2>4. /\ WellFormed(queues') /\ Queued(queues') = Queued(queues)
        /\ queues'.dedupe = IF waits THEN queues.dedupe ELSE queues.dedupe \ {t}
    BY <2>1, <2>3, Completes, Zenon
  <2>5. Owned'
    <3>1. CASE waits
      <4>1. active' = active \ {t} /\ awaiting' = awaiting \cup {t} /\ queues'.dedupe = queues.dedupe /\ t \in Messages
        BY <2>1, <2>4, <3>1, Zenon
      <4> HIDE DEF waits
      <4> QED BY <1>5, <2>3, <2>4, <4>1 DEF SInv, Owned
    <3>2. CASE ~waits
      <4>1. active' = active \ {t} /\ awaiting' = awaiting \ {t} /\ queues'.dedupe = queues.dedupe \ {t}
        BY <2>1, <2>4, <3>2, Zenon
      <4> HIDE DEF waits
      <4> QED BY <1>5, <2>3, <2>4, <4>1, Zenon DEF SInv, Owned
    <3> QED BY <3>1, <3>2, Zenon
  <2>6. Unreported'
    BY <2>1, <2>3, <2>4, Zenon DEF SInv, Unreported
  <2>7. Connection'
    BY <1>1, Zenon DEF SInv, Connection
  <2> QED BY <1>1, <1>3, <2>2, <2>5, <2>6, <2>7, Frames, Zenon DEF SInv, engine
<1> QED BY <1>4, <1>5, Zenon

\* A waiter that expires is forgotten with its key.
LEMMA ExpireKeeps ==
    ASSUME SInv, NEW t \in Durable, expire_persisted_waiters(t)
    PROVE  SInv'
<1>1. /\ task = "connected" /\ t \in awaiting /\ awaiting' = awaiting \ {t} /\ queues' = complete(queues, {t})
      /\ UNCHANGED <<engine, outbound, channel, task, link, active, probes, network, events, settled>>
  BY Zenon DEF expire_persisted_waiters
<1>2. WellFormed(queues') /\ Queued(queues') = Queued(queues) /\ queues'.dedupe = queues.dedupe \ {t}
  BY <1>1, Completes, Zenon DEF SInv, Owned
<1>3. Owned' /\ Unreported'
  BY <1>1, <1>2 DEF SInv, Owned, Unreported
<1>4. Connection'
  BY <1>1, Zenon DEF SInv, Connection
<1> QED BY <1>1, <1>3, <1>4, Frames, Zenon DEF SInv, engine, network

\* The answer to a probe says nothing about a ciphertext.
LEMMA ProbeAnsweredKeeps ==
    ASSUME SInv, NEW s \in Slots, ProbeAnswered(s)
    PROVE  SInv'
<1>1. /\ task = "connected" /\ probes' = probes \ {s} /\ events' = events \cup ({s} \X {"Ack"})
      /\ UNCHANGED <<engine, outbound, channel, task, queues, link, active, awaiting, network, settled>>
  BY Zenon DEF ProbeAnswered, Report
<1>2. {s} \X {"Ack"} \subseteq Event /\ s \notin Durable
  BY Commands, Zenon DEF Event
<1>3. Reported'
  BY <1>1, <1>2, Zenon DEF SInv, Reported, network
<1>4. Connection'
  BY <1>1, Zenon DEF SInv, Connection
<1> QED BY <1>1, <1>3, <1>4, Frames, Zenon DEF SInv, engine, network

\* The receiver acknowledges what it has stored.
LEMMA ReadFrameKeeps ==
    ASSUME SInv, NEW t \in Durable, ReadFrame(t)
    PROVE  SInv'
<1>1. /\ wire' = wire \ {t} /\ stored' \in {stored, stored \cup {t}}
      /\ UNCHANGED <<engine, outbound, channel, session, events, settled>>
  BY Zenon DEF ReadFrame
<1>2. back' = back \/ (stored' = stored \cup {t} /\ \E kinds \in SUBSET AckKind : back' = back \cup ({t} \X kinds))
  BY Zenon DEF ReadFrame, AckKind
<1>3. Network'
  <2>1. wire' \subseteq Durable /\ stored' \subseteq Durable /\ stored \subseteq stored'
    BY <1>1, Zenon DEF SInv, Network
  <2>2. CASE back' = back
    BY <2>1, <2>2, Zenon DEF SInv, Network
  <2>3. ASSUME stored' = stored \cup {t}, NEW kinds \in SUBSET AckKind, back' = back \cup ({t} \X kinds)
        PROVE  back' \subseteq Durable \X AckKind /\ \A b \in back' : b[1] \in stored'
    BY <2>3, Zenon DEF SInv, Network
  <2> QED BY <1>2, <2>1, <2>2, <2>3, Zenon DEF Network
<1>4. Reported' /\ Settled'
  BY <1>1, MoreStored, Zenon DEF engine
<1> QED BY <1>1, <1>3, <1>4, Frames, Zenon DEF SInv, engine, session
\* Every step keeps the invariant.
LEMMA StepKeeps ==
    ASSUME SInv, [Next]_vars
    PROVE  SInv'
<1>1. CASE UNCHANGED vars
  BY <1>1, Frames, Zenon DEF vars, SInv, engine, session, network
<1>2. CASE Next
  BY <1>2, SubmitKeeps, SubmitSlotKeeps, EndpointKeeps, HandleEventKeeps, ForwardKeeps, TakeKeeps, AwaitKeeps,
     TurnKeeps, EndKeeps, ConnectsKeeps, ConnectFailsKeeps, SendKeeps, SendFailsKeeps, SessionFailsKeeps,
     EndpointDiffersKeeps, IdleCloseKeeps, HandleAckKeeps, ExpireKeeps, ProbeAnsweredKeeps, ReadFrameKeeps DEF Next
<1> QED BY <1>1, <1>2, Zenon

\* Only a failed dial, a failed write and a failed session report failures, and none
\* of them reports what was persisted.
LEMMA StepReports ==
    ASSUME SInv, [Next]_vars
    PROVE  \A t \in settled : <<t, "Backoff">> \notin events' \ events
<1>1. CASE events' \subseteq events
  BY <1>1, Zenon
<1>2. ASSUME NEW t, Report({t}, "Ack") PROVE \A u : <<u, "Backoff">> \in events' => <<u, "Backoff">> \in events
  BY <1>2, Zenon DEF Report
<1>3. CASE ConnectFails
  <2>1. events' = events \cup (FailedTags(queues) \X {"Backoff"})
    BY <1>3, Zenon DEF ConnectFails, Report
  <2>2. FailedTags(queues) \cap settled = {}
    BY Fails, Zenon DEF SInv, Owned, Unreported
  <2> QED BY <2>1, <2>2, Zenon
<1>4. CASE SendFails
  BY <1>4, SendFailsKeeps, Zenon
<1>5. CASE SessionFails
  BY <1>5, SessionFailsKeeps, Zenon
<1>6. ASSUME NEW t \in Durable, NEW kind \in AckKind, HandleAck(t, kind)
      PROVE  \A u : <<u, "Backoff">> \in events' => <<u, "Backoff">> \in events
  BY <1>2, <1>6, Zenon DEF HandleAck
<1>7. ASSUME NEW s \in Slots, ProbeAnswered(s)
      PROVE  \A u : <<u, "Backoff">> \in events' => <<u, "Backoff">> \in events
  BY <1>2, <1>7, Zenon DEF ProbeAnswered
<1>8. CASE \/ \E t \in Durable : Submit(t) \/ expire_persisted_waiters(t) \/ ReadFrame(t)
           \/ \E s \in Slots : SubmitSlot(s)
           \/ \E e \in Event : HandleEvent(e)
           \/ EndpointUpdated \/ Forward \/ TakeCommand \/ Drained \/ AwaitCommand \/ IdleTimeout \/ End
           \/ Connects \/ send_outbound_command \/ EndpointDiffers \/ IdleClose \/ UNCHANGED vars
  <2>1. events' \subseteq events
    BY <1>8, Zenon DEF Submit, expire_persisted_waiters, ReadFrame, SubmitSlot, HandleEvent, EndpointUpdated, Forward,
       TakeCommand, Drained, AwaitCommand, IdleTimeout, End, Connects, send_outbound_command, EndpointDiffers,
       IdleClose, vars
  <2> QED BY <1>1, <2>1, Zenon
<1> QED BY <1>3, <1>4, <1>5, <1>6, <1>7, <1>8, Zenon DEF Next

-----------------------------------------------------------------------------
(* Theorems                                                                *)

\* As many keys as queued commands: no ciphertext is queued twice.
LEMMA QueuedOnce ==
    ASSUME NEW q, WellFormed(q)
    PROVE  Cardinality(Queued(q)) = Len(q.durable)
<1> DEFINE n == Len(q.durable)
           F == [i \in 1 .. n |-> q.durable[i].tag]
           Q == Queued(q)
<1>1. q.durable \in Seq(DurableCommand) /\ OnceEach(q)
  BY Zenon DEF WellFormed, QueuesType
<1>2. n \in Nat /\ DOMAIN q.durable = 1 .. n
  BY <1>1
<1>3. F \in [1 .. n -> Q] /\ \A i, j \in 1 .. n : F[i] = F[j] => i = j
  BY <1>1, <1>2, Zenon DEF Queued, OnceEach
<1>4. \A x \in Q : \E i \in 1 .. n : F[i] = x
  BY <1>2, Zenon DEF Queued
<1> HIDE DEF n, F, Q
<1>5. F \in Bijection(1 .. n, Q)
  BY <1>3, <1>4, Zenon DEF Bijection, Injection, Surjection, IsInjective
<1>6. ExistsBijection(1 .. n, Q)
  BY <1>5, Zenon DEF ExistsBijection
<1>7. Cardinality(Q) = n
  BY <1>2, <1>6, FS_CountingElements, Zenon
<1> QED BY <1>7, Zenon DEF n, Q

\* Every reachable state satisfies the inductive invariant.
THEOREM SessionHolds == Spec => []SInv
<1>1. Init => SInv
  <2> SUFFICES ASSUME Init PROVE SInv
    OBVIOUS
  <2>1. Engine /\ Settled
    BY Commands DEF Init, Engine, Settled
  <2>2. Channels
    <3>1. <<>> \in Seq(Command) /\ Len(<<>>) = 0 /\ 0 <= SESSION_CAPACITY /\ 0 <= OUTBOUND_CAPACITY
      BY Commands
    <3> QED BY <3>1, Zenon DEF Init, Channels
  <2>3. Connection
    BY Commands DEF Init, Connection
  <2>4. Owned /\ Unreported
    BY EmptyIsWellFormed, Zenon DEF Init, Owned, Unreported
  <2>5. Network /\ Reported
    BY Zenon DEF Init, Network, Reported
  <2> QED BY <2>1, <2>2, <2>3, <2>4, <2>5, Zenon DEF SInv
<1> QED BY <1>1, StepKeeps, PTL DEF Spec

\* The session task is well typed, and its deduplication set names exactly what is
\* queued, in flight or waiting for DELIVERED, each once.
THEOREM SessionInvariant == Spec => []SessionInv
<1>1. SInv => SessionInv
  <2> SUFFICES ASSUME SInv PROVE SessionInv
    OBVIOUS
  <2>1. WellFormed(queues) /\ queues \in QueuesType
    BY Zenon DEF SInv, Owned, WellFormed
  <2>2. queues.durable \in Seq(Command)
    <3>1. queues.durable \in Seq(DurableCommand)
      BY <2>1, Zenon DEF QueuesType
    <3> QED BY <3>1 DEF DurableCommand
  <2>3. TypeOK
    BY <2>1, <2>2, Zenon DEF SInv, Engine, Channels, Connection, Owned, Unreported, Network, Reported, QueuesType, TypeOK
  <2>4. {c.tag : c \in Range(queues.durable)} = Queued(queues)
    BY Zenon DEF Range, Queued
  <2>5. Cardinality(Queued(queues)) = Len(queues.durable)
    BY <2>1, QueuedOnce, Zenon
  <2>6. Cardinality(active) <= 1
    <3>1. CASE active = {}
      BY <3>1, FS_EmptySet
    <3>2. CASE active # {}
      <4>1. PICK t : t \in active
        BY <3>2, Zenon
      <4>2. active = {t}
        BY <4>1, Zenon DEF SInv, Owned
      <4>3. Cardinality({t}) = 1
        BY FS_Singleton, Zenon
      <4> QED BY <4>2, <4>3
    <3> QED BY <3>1, <3>2, Zenon
  <2>7. DedupeExact
    BY <2>4, <2>5, <2>6, Zenon DEF SInv, Owned, DedupeExact
  <2> QED BY <2>3, <2>7, Zenon DEF SessionInv
<1> QED BY <1>1, SessionHolds, PTL

\* The engine gives up a ciphertext only when the receiver has stored it.
THEOREM AcknowledgedStored == Spec => []AcknowledgedIsStored
<1>1. SInv => AcknowledgedIsStored
  <2> SUFFICES ASSUME SInv PROVE AcknowledgedIsStored
    OBVIOUS
  <2>1. encrypted \in Nat /\ encrypted <= Len(Outbox) /\ Outbox \in Seq(Durable)
    BY Commands DEF SInv, Engine
  <2>2. \A i \in 1 .. encrypted : Outbox[i] \in Durable
    BY <2>1
  <2>3. /\ SubSeq(Outbox, 1, encrypted) \in Seq(Durable)
        /\ Len(SubSeq(Outbox, 1, encrypted)) = encrypted
        /\ \A i \in 1 .. encrypted : SubSeq(Outbox, 1, encrypted)[i] = Outbox[i]
    BY <2>1, <2>2
  <2>4. Range(SubSeq(Outbox, 1, encrypted)) \subseteq wanted \cup stored
    BY <2>3 DEF Range, SInv, Settled
  <2> QED BY <2>4, Zenon DEF AcknowledgedIsStored
<1> QED BY <1>1, SessionHolds, PTL

\* PERSISTED is a durability boundary: after it no failure is reported, until the
\* ciphertext is queued again.
THEOREM PersistedNeverFails == Spec => NoFailureAfterPersisted
<1>1. SInv /\ [Next]_vars => [\A t \in settled : <<t, "Backoff">> \notin events' \ events]_vars
  BY StepReports, Zenon
<1> QED BY <1>1, SessionHolds, PTL DEF Spec, NoFailureAfterPersisted
=============================================================================
