----------------------------- MODULE PeerSession -----------------------------
(***************************************************************************)
(* The outgoing peer transport to one contact (torchat-peer), between the  *)
(* sending engine and the receiving one.                                   *)
(*                                                                         *)
(* The engine hands commands to a dispatcher with try_send.  The           *)
(* dispatcher forwards them to the contact's session task and starts one   *)
(* when there is none.  The task keeps a queue, dials when something is    *)
(* worth a connection, keeps one acknowledged frame in flight, and reports *)
(* acknowledgements and failures to the engine.  The receiving side reads  *)
(* a frame, stores the envelope and acknowledges it.                       *)
(*                                                                         *)
(* A ciphertext of the outbox is the key of its deduplication.  Reading a  *)
(* frame at the receiver and storing it are one step: a frame in the       *)
(* receiver's event queue is one still to be read.  A frame of a closed    *)
(* connection is read at once or never; reading it later would change      *)
(* nothing but the moment it is stored.  The event queue is a set: what    *)
(* the engine does with two outcomes does not depend on their order, and a *)
(* task that waits for a place in it only waits.  Events that carry no     *)
(* outcome of a delivery (connecting, presence, typing) are left out, and  *)
(* so is the acknowledgement of a relationship removal.                    *)
(***************************************************************************)
EXTENDS Naturals, FiniteSets, Sequences, Functions

CONSTANTS
    Outbox,              \* the ciphertexts of the outbox in the order of their MLS generation
    Messages,            \* the ones that are messages; the others are receipts
    Slots,               \* kinds of commands that have a one-place slot
    MaxEndpoints,        \* bound: endpoints the contact announces
    MaxSlotCommands,     \* bound: commands submitted for the slots
    OUTBOUND_CAPACITY,
    SESSION_CAPACITY

Durable == Range(Outbox)

ASSUME PeerSessionAssumption ==
    /\ Outbox \in Seq(Durable) /\ IsInjective(Outbox) /\ Messages \subseteq Durable
    /\ Slots \subseteq {"EndpointUpdate", "Probe", "Ephemeral"} /\ Durable \cap Slots = {}
    /\ {MaxEndpoints, OUTBOUND_CAPACITY, SESSION_CAPACITY} \subseteq Nat \ {0}
    /\ MaxSlotCommands \in Nat

Tags == Durable \cup Slots
Command == [tag : Tags, endpoint : 1..MaxEndpoints]
NoCommand == [tag |-> "none", endpoint |-> 0]
AckKind == {"Persisted", "Final"}            \* DELIVERED and REJECTED end a delivery alike
Event == Tags \X {"Ack", "Backoff"}

VARIABLES
    encrypted,  \* engine: how many of Outbox exist
    wanted,     \* engine: ciphertexts it has still to get persisted
    endpoint,   \* engine: the contact's endpoint
    slotted,    \* engine: commands submitted for the slots
    outbound,   \* commands on their way to the dispatcher
    channel,    \* commands on their way to the session task
    task,       \* control state of the session task
    queues,     \* CommandQueues of the task
    link,       \* endpoint the session is connected to, 0 when it is not
    active,     \* frames in flight
    awaiting,   \* messages that were persisted and wait for DELIVERED
    probes,     \* probes and endpoint updates that wait for their answer
    wire,       \* acknowledged frames written on this connection and not read yet
    back,       \* acknowledgements on this connection and not read yet
    events,     \* events on their way to the engine
    stored,     \* receiver: envelopes stored
    settled     \* ciphertexts reported as persisted since they were last queued (history)

engine == <<encrypted, wanted, endpoint, slotted>>
session == <<task, queues, link, active, awaiting, probes>>
network == <<wire, back, stored>>
vars == <<engine, outbound, channel, session, network, events, settled>>

EmptyQueues == [durable |-> <<>>, slot |-> [s \in Slots |-> NoCommand], dedupe |-> {}]

Init ==
    /\ encrypted = 0 /\ wanted = {} /\ endpoint = 1 /\ slotted = 0
    /\ outbound = <<>> /\ channel = <<>>
    /\ task = "none" /\ queues = EmptyQueues /\ link = 0
    /\ active = {} /\ awaiting = {} /\ probes = {}
    /\ wire = {} /\ back = {} /\ stored = {}
    /\ events = {} /\ settled = {}

-----------------------------------------------------------------------------
(* The sending engine                                                      *)

\* queue_peer_payload: a new ciphertext, or one of the outbox again (its retry is
\* due or its lease has expired).  A full queue refuses the command.
Submit(t) ==
    /\ \/ t \in wanted /\ UNCHANGED <<encrypted, wanted>>
       \/ /\ encrypted < Len(Outbox) /\ t = Outbox[encrypted + 1]
          /\ encrypted' = encrypted + 1
          /\ wanted' = wanted \cup {t}
    /\ Len(outbound) < OUTBOUND_CAPACITY
    /\ outbound' = Append(outbound, [tag |-> t, endpoint |-> endpoint])
    /\ UNCHANGED <<endpoint, slotted, channel, session, network, events, settled>>

\* Probes, endpoint updates, presence and other ephemeral payloads.
SubmitSlot(s) ==
    /\ slotted < MaxSlotCommands /\ slotted' = slotted + 1
    /\ Len(outbound) < OUTBOUND_CAPACITY
    /\ outbound' = Append(outbound, [tag |-> s, endpoint |-> endpoint])
    /\ UNCHANGED <<encrypted, wanted, endpoint, channel, session, network, events, settled>>

\* The contact announces its next endpoint.
EndpointUpdated ==
    /\ endpoint < MaxEndpoints
    /\ endpoint' = endpoint + 1
    /\ UNCHANGED <<encrypted, wanted, slotted, outbound, channel, session, network, events, settled>>

\* handle_peer_event: any acknowledgement that promises durability completes the
\* outbox entry; a failure leaves it pending.
HandleEvent(e) ==
    /\ e \in events
    /\ events' = events \ {e}
    /\ wanted' = IF e[2] = "Ack" THEN wanted \ {e[1]} ELSE wanted
    /\ UNCHANGED <<encrypted, endpoint, slotted, outbound, channel, session, network, settled>>

-----------------------------------------------------------------------------
(* The dispatcher                                                          *)

\* Forwards to the running task, waiting for a place in its channel, or starts one.
\* A task that is ending still accepts commands.
Forward ==
    /\ outbound # <<>>
    /\ outbound' = Tail(outbound)
    /\ \/ task # "none" /\ Len(channel) < SESSION_CAPACITY /\ UNCHANGED task
       \/ task = "none" /\ task' = "top"
    /\ channel' = Append(channel, Head(outbound))
    /\ UNCHANGED <<engine, queues, link, active, awaiting, probes, network, events, settled>>

-----------------------------------------------------------------------------
(* CommandQueues                                                           *)

enqueue(q, c) ==
    IF c.tag \in Durable
    THEN IF c.tag \in q.dedupe THEN q
         ELSE [q EXCEPT !.durable = Append(@, c), !.dedupe = @ \cup {c.tag}]
    ELSE [q EXCEPT !.slot[c.tag] = c]

complete(q, T) == [q EXCEPT !.dedupe = @ \ T]

Filled(q, s) == s \in Slots /\ q.slot[s] # NoCommand
DialWorthySlots == {"EndpointUpdate", "Probe"}
is_durable == Durable \cup {"EndpointUpdate"}
has_dial_worthy(q) == q.durable # <<>> \/ \E s \in DialWorthySlots : Filled(q, s)
is_empty(q) == q.durable = <<>> /\ \A s \in Slots : ~Filled(q, s)

\* The command pop_next(true) takes: durable, endpoint update, probe, ephemeral.
next_command(q) ==
    IF q.durable # <<>> THEN Head(q.durable)
    ELSE IF Filled(q, "EndpointUpdate") THEN q.slot["EndpointUpdate"]
    ELSE IF Filled(q, "Probe") THEN q.slot["Probe"]
    ELSE IF Filled(q, "Ephemeral") THEN q.slot["Ephemeral"]
    ELSE NoCommand

pop_next(q) ==
    IF q.durable # <<>> THEN [q EXCEPT !.durable = Tail(@)]
    ELSE [q EXCEPT !.slot[next_command(q).tag] = NoCommand]

drop_ephemeral_without_session(q) ==
    [q EXCEPT !.slot = [s \in Slots |-> IF s = "Ephemeral" THEN NoCommand ELSE @[s]]]

\* The deliveries fail_queued_commands reports; the probe and the ephemeral
\* command vanish.
FailedTags(q) ==
    {c.tag : c \in Range(q.durable)} \cup {s \in {"EndpointUpdate"} : Filled(q, s)}

\* A plausible fault: the keys of the drained commands are left behind.
Faulty_drain_failed(q) == [q EXCEPT !.durable = <<>>, !.slot = [s \in Slots |-> NoCommand]]

drain_failed(q) == [complete(q, FailedTags(q)) EXCEPT
                        !.durable = <<>>, !.slot = [s \in Slots |-> NoCommand]]

-----------------------------------------------------------------------------
(* The session task                                                        *)

Report(T, outcome) == events' = events \cup (T \X {outcome})

\* The connection is gone, and with it the acknowledgements on it.  A frame that
\* was written may reach the receiver all the same.
Closed ==
    /\ link' = 0 /\ active' = {} /\ awaiting' = {} /\ probes' = {}
    /\ wire' = {} /\ back' = {}
    /\ \E S \in SUBSET wire : stored' = stored \cup S
    /\ task' = "top"

Enqueue(c) ==
    /\ queues' = enqueue(queues, c)
    /\ settled' = IF c.tag \in queues.dedupe THEN settled ELSE settled \ {c.tag}

\* try_recv at the top of either loop, or recv of the connected session.
TakeCommand ==
    /\ task \in {"top", "connected"} /\ channel # <<>>
    /\ Enqueue(Head(channel))
    /\ channel' = Tail(channel)
    /\ UNCHANGED <<engine, outbound, task, link, active, awaiting, probes, network, events>>

\* The channel is drained: dial, or wait for something worth dialing.
Drained ==
    /\ task = "top" /\ channel = <<>>
    /\ task' = IF has_dial_worthy(queues) THEN "dialing" ELSE "waiting"
    /\ UNCHANGED <<engine, outbound, channel, queues, link, active, awaiting, probes, network, events, settled>>

AwaitCommand ==
    /\ task = "waiting" /\ channel # <<>>
    /\ channel' = Tail(channel)
    /\ LET c == Head(channel) IN
        /\ queues' = drop_ephemeral_without_session(enqueue(queues, c))
        /\ settled' = settled \ {c.tag}
    /\ task' = IF has_dial_worthy(queues') THEN "dialing" ELSE "waiting"
    /\ UNCHANGED <<engine, outbound, link, active, awaiting, probes, network, events>>

\* SESSION_IDLE_TIMEOUT: the task decides to return ...
IdleTimeout ==
    /\ task = "waiting" /\ channel = <<>>
    /\ task' = "ending"
    /\ UNCHANGED <<engine, outbound, channel, queues, link, active, awaiting, probes, network, events, settled>>

\* ... and drops its receiver, with whatever was sent to it in between.
End ==
    /\ task = "ending"
    /\ task' = "none"
    /\ channel' = <<>>
    /\ queues' = EmptyQueues
    /\ UNCHANGED <<engine, outbound, link, active, awaiting, probes, network, events, settled>>

\* The template of the connection is the command that is first in line.  An
\* endpoint the contact has left does not authenticate.
Connects ==
    /\ task = "dialing"
    /\ next_command(queues).endpoint = endpoint
    /\ link' = endpoint
    /\ task' = "connected"
    /\ UNCHANGED <<engine, outbound, channel, queues, active, awaiting, probes, network, events, settled>>

ConnectFails ==
    /\ task = "dialing"
    /\ Report(FailedTags(queues), "Backoff")
    /\ queues' = drain_failed(queues)
    /\ task' = "top"
    /\ UNCHANGED <<engine, outbound, channel, link, active, awaiting, probes, network, settled>>

\* active.len() < MAX_IN_FLIGHT, which is one.
MaySend == task = "connected" /\ active = {} /\ next_command(queues) # NoCommand

send_outbound_command ==
    /\ MaySend /\ next_command(queues).endpoint = link
    /\ queues' = pop_next(queues)
    /\ LET t == next_command(queues).tag IN
        /\ active' = active \cup ({t} \cap Durable)
        /\ wire' = wire \cup ({t} \cap Durable)
        /\ probes' = probes \cup ({t} \cap DialWorthySlots)
    /\ UNCHANGED <<engine, outbound, channel, task, link, awaiting, back, stored, events, settled>>

\* The write fails: this command, and with it the session and the queue.
SendFails ==
    /\ MaySend /\ next_command(queues).endpoint = link
    /\ LET t == next_command(queues).tag
           rest == pop_next(queues)
       IN  /\ Report(({t} \cap is_durable) \cup FailedTags(rest), "Backoff")
           /\ queues' = complete(drain_failed(rest), {t} \cup awaiting)
    /\ Closed
    /\ UNCHANGED <<engine, outbound, channel, settled>>

\* The next command is for another endpoint: it stays first in line, and the
\* connection is closed to dial again.
EndpointDiffers ==
    /\ MaySend /\ next_command(queues).endpoint # link
    /\ queues' = complete(queues, awaiting)
    /\ Closed
    /\ UNCHANGED <<engine, outbound, channel, events, settled>>

\* The final acknowledgement of a message is written after PERSISTED.
Readable(t, kind) ==
    /\ <<t, kind>> \in back
    /\ kind # "Persisted" => <<t, "Persisted">> \notin back

\* handle_outbound_frame: PERSISTED takes a message out of flight and a receipt out
\* of the session; DELIVERED and REJECTED end both.  Others are ignored.
HandleAck(t, kind) ==
    /\ task = "connected" /\ Readable(t, kind)
    /\ back' = back \ {<<t, kind>>}
    /\ IF t \in active \cup awaiting
       THEN LET waits == kind = "Persisted" /\ t \in Messages IN
            /\ Report({t}, "Ack")
            /\ active' = active \ {t}
            /\ awaiting' = IF waits THEN awaiting \cup {t} ELSE awaiting \ {t}
            /\ queues' = IF waits THEN queues ELSE complete(queues, {t})
            /\ settled' = settled \cup {t}
       ELSE UNCHANGED <<active, awaiting, queues, events, settled>>
    /\ UNCHANGED <<engine, outbound, channel, task, link, probes, wire, stored>>

ProbeAnswered(t) ==
    /\ task = "connected" /\ t \in probes
    /\ probes' = probes \ {t}
    /\ Report({t}, "Ack")
    /\ UNCHANGED <<engine, outbound, channel, task, queues, link, active, awaiting, network, settled>>

expire_persisted_waiters(t) ==
    /\ task = "connected" /\ t \in awaiting
    /\ awaiting' = awaiting \ {t}
    /\ queues' = complete(queues, {t})
    /\ UNCHANGED <<engine, outbound, channel, task, link, active, probes, network, events, settled>>

\* A plausible fault: what waits for DELIVERED is reported as failed.
Faulty_SessionFails ==
    /\ task = "connected"
    /\ Report(active \cup awaiting \cup FailedTags(queues), "Backoff")
    /\ queues' = complete(drain_failed(queues), active \cup awaiting)
    /\ Closed
    /\ UNCHANGED <<engine, outbound, channel, settled>>

\* The socket is lost, or the keepalive or an acknowledgement times out:
\* fail_active_deliveries and then fail_queued_commands.  What was persisted is
\* not reported; neither are outstanding probes.
SessionFails ==
    /\ task = "connected"
    /\ Report(active \cup FailedTags(queues), "Backoff")
    /\ queues' = complete(drain_failed(queues), active \cup awaiting)
    /\ Closed
    /\ UNCHANGED <<engine, outbound, channel, settled>>

IdleClose ==
    /\ task = "connected" /\ is_empty(queues)
    /\ active = {} /\ awaiting = {} /\ probes = {}
    /\ Closed
    /\ UNCHANGED <<engine, outbound, channel, queues, events, settled>>

-----------------------------------------------------------------------------
(* The receiver                                                            *)

\* A plausible fault: the frame is acknowledged before it is stored.
Faulty_ReadFrame(t) ==
    /\ t \in wire
    /\ wire' = wire \ {t}
    /\ stored' \in {stored, stored \cup {t}}
    /\ \E kinds \in {{}, {"Persisted"}, AckKind} : back' = back \cup ({t} \X kinds)
    /\ UNCHANGED <<engine, outbound, channel, session, events, settled>>

\* serve_inbound hands the envelope to the engine, which stores it; the forwarder
\* writes the acknowledgements that come within ACK_TIMEOUT.
ReadFrame(t) ==
    /\ t \in wire
    /\ wire' = wire \ {t}
    /\ \/ stored' \in {stored, stored \cup {t}} /\ UNCHANGED back
       \/ /\ stored' = stored \cup {t}
          /\ \E kinds \in {{"Persisted"}, AckKind} : back' = back \cup ({t} \X kinds)
    /\ UNCHANGED <<engine, outbound, channel, session, events, settled>>

-----------------------------------------------------------------------------
Next ==
    \/ \E t \in Durable :
        \/ Submit(t)
        \/ \E kind \in AckKind : HandleAck(t, kind)
        \/ expire_persisted_waiters(t)
        \/ ReadFrame(t)
    \/ \E s \in Slots : SubmitSlot(s) \/ ProbeAnswered(s)
    \/ EndpointUpdated
    \/ \E e \in Event : HandleEvent(e)
    \/ Forward
    \/ TakeCommand \/ Drained \/ AwaitCommand \/ IdleTimeout \/ End
    \/ Connects \/ ConnectFails
    \/ send_outbound_command \/ SendFails \/ EndpointDiffers
    \/ SessionFails \/ IdleClose

Spec == Init /\ [][Next]_vars

AckTimeout == (active # {} \/ probes # {}) /\ SessionFails

\* The dispatcher, the task and the engine's event loop run, and an acknowledgement
\* that is missing times out.  Strong fairness is for what can be undone: commands
\* do not arrive faster than try_recv takes them, the engine retries what is
\* pending when its lease has expired, and a dial, a write, a read and an
\* acknowledgement that are attempted again and again succeed.
Fairness ==
    /\ WF_vars(Forward) /\ WF_vars(TakeCommand) /\ WF_vars(AwaitCommand) /\ WF_vars(End)
    /\ WF_vars(Connects \/ ConnectFails) /\ WF_vars(EndpointDiffers) /\ WF_vars(AckTimeout)
    /\ \A e \in Event : WF_vars(HandleEvent(e))
    /\ SF_vars(Drained) /\ SF_vars(Connects) /\ SF_vars(send_outbound_command)
    /\ \A t \in Durable :
        /\ SF_vars(t \in wanted /\ Submit(t))
        /\ SF_vars(ReadFrame(t) /\ <<t, "Persisted">> \in back')
        /\ SF_vars(HandleAck(t, "Persisted"))

FairSpec == Spec /\ Fairness

-----------------------------------------------------------------------------
(* Properties                                                              *)

\* Type invariant of the session task, its channels and the connection.
TypeOK ==
    /\ encrypted \in 0..Len(Outbox) /\ wanted \subseteq Durable /\ endpoint \in 1..MaxEndpoints
    /\ slotted \in 0..MaxSlotCommands
    /\ outbound \in Seq(Command) /\ Len(outbound) <= OUTBOUND_CAPACITY
    /\ channel \in Seq(Command) /\ Len(channel) <= SESSION_CAPACITY
    /\ task \in {"none", "top", "waiting", "ending", "dialing", "connected"}
    /\ queues.durable \in Seq(Command)
    /\ queues.slot \in [Slots -> Command \cup {NoCommand}] /\ queues.dedupe \subseteq Durable
    /\ link \in 0..MaxEndpoints /\ (task = "connected" <=> link # 0)
    /\ active \subseteq Durable /\ awaiting \subseteq Messages /\ probes \subseteq DialWorthySlots
    /\ wire \subseteq Durable /\ stored \subseteq Durable
    /\ back \subseteq Durable \X AckKind
    /\ events \subseteq Event
    /\ settled \subseteq Durable

\* The deduplication set names exactly what the session owns: a key that outlives
\* its delivery would swallow every retry, a missing one would put a ciphertext
\* into flight twice.
DedupeExact ==
    LET queued == {c.tag : c \in Range(queues.durable)} IN
    /\ queues.dedupe = queued \cup active \cup awaiting
    /\ Cardinality(queued) = Len(queues.durable)
    /\ Cardinality(active) <= 1
    /\ queued \cap (active \cup awaiting) = {} /\ active \cap awaiting = {}

\* The session task is well typed and owns exactly what CommandQueues says.
SessionInv == TypeOK /\ DedupeExact

\* The engine stops retrying only what the receiver has stored, whichever session
\* or late frame the acknowledgement belongs to.
AcknowledgedIsStored ==
    \A t \in Range(SubSeq(Outbox, 1, encrypted)) : t \notin wanted => t \in stored

\* PERSISTED is the durability boundary (fail_active_deliveries): a delivery that
\* was reported as persisted is not reported as failed unless it was queued again.
NoFailureAfterPersisted ==
    [][\A t \in settled : <<t, "Backoff">> \notin events' \ events]_vars

\* Although retries of what the session owns are dropped, and commands sent to a
\* session that ends are lost, every pending ciphertext is eventually acknowledged.
EventuallyAcknowledged == \A t \in Durable : (t \in wanted) ~> (t \notin wanted)
=============================================================================
