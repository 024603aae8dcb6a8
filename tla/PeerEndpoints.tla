---------------------------- MODULE PeerEndpoints ----------------------------
(***************************************************************************)
(* Onion endpoints and endpoint capabilities of two paired installations.  *)
(*                                                                         *)
(* Each side stores its own endpoint, the endpoint of its contact, the     *)
(* capability it minted for the contact and the one the contact granted.   *)
(* Its listener admits the contact from a copy in memory.  A probe opens   *)
(* a session with the stored credentials and carries the endpoint updates  *)
(* that are still to be acknowledged; capability offers and revocations    *)
(* travel in the ephemeral slot of the same session.                       *)
(*                                                                         *)
(* An endpoint is its address, its sequence and the id in its capability   *)
(* marker, 0 without one; identity, port and expiry never change.  A       *)
(* capability's id stands for its secret too, and since every mint         *)
(* increments the sequence of the row, the id is that sequence.  The       *)
(* acknowledgement of an offer changes nothing but the slot it occupies.   *)
(* Durable commands and retries are those of PeerSession and MessageOutbox.*)
(***************************************************************************)
EXTENDS Naturals, FiniteSets, Sequences

CONSTANTS
    Nodes,          \* the two installations
    PairedAt,       \* sequence of a node's own endpoint when the two were paired
    Changing,       \* bound: installations that undergo the changes counted by MaxChanges
    MaxChanges,     \* bound: rotations, revocations, lost onion services and crashes
    MaxFrames       \* bound: unread frames with which a session sends no more, and events
                    \* with which a listener reads no more

ASSUME PeerEndpointsAssumption ==
    /\ IsFiniteSet(Nodes) /\ Cardinality(Nodes) = 2
    /\ PairedAt \in [Nodes -> Nat \ {0}]
    /\ Changing \subseteq Nodes
    /\ {MaxChanges, MaxFrames} \subseteq Nat

Peer(n) == CHOOSE p \in Nodes : p # n

VARIABLES
    service,    \* the onion service the host runs: address and generation
    expected,   \* expected_onion_generation
    local,      \* local_peer_endpoint, in memory and in its table
    dial,       \* contact_peer_endpoints: the contact's endpoint
    cap,        \* contact_endpoint_capabilities: minted for the contact
    grant,      \* peer_endpoint_capabilities: granted by the contact
    updates,    \* endpoint_update_outbox
    listener,   \* the listener's entry for the contact, in memory
    probe,      \* probe command of the contact's session task
    slot,       \* ephemeral command of the session task
    link,       \* the outgoing session
    events,     \* what the listener has handed to the engine
    changes     \* rotations, revocations, lost services and crashes so far

database == <<local, dial, cap, grant, updates>>
transport == <<listener, probe, slot, link, events>>
vars == <<service, expected, database, transport, changes>>

NoEndpoint == [addr |-> 0, seq |-> 0, cap |-> 0]
NoLocal == [addr |-> 0, seq |-> 0, gen |-> 0]
NoListener == [eseq |-> 0, local |-> NoEndpoint, cap |-> 0]
NoLink == [open |-> FALSE, to |-> NoEndpoint, sent |-> 0, eseq |-> 0, frames |-> <<>>]
NoCommand == [kind |-> "none", id |-> 0, to |-> NoEndpoint, hello |-> 0, secret |-> 0, updates |-> {}]

-----------------------------------------------------------------------------
(* Endpoints and capabilities.                                             *)

ensure_contact_endpoint_capability(c) ==
    IF c.revoked THEN [id |-> c.id + 1, revoked |-> FALSE] ELSE c

\* The endpoint a contact is told: the marker makes it a new sequence.
endpoint_with_capability(e, c) == [addr |-> e.addr, seq |-> e.seq + 1, cap |-> c.id]

put_contact_peer_endpoint(old, new) == IF new.seq > old.seq THEN new ELSE old

\* Seeded fault: an old offer replaces a newer grant.
Faulty_GrantUnguarded(old, id) == [id |-> id, seq |-> id, revoked |-> FALSE]
put_peer_endpoint_capability(old, id) ==
    IF id >= old.seq THEN [id |-> id, seq |-> id, revoked |-> FALSE] ELSE old

revoke_peer_endpoint_capability(g) == [g EXCEPT !.revoked = TRUE]

\* The secret for the marker of the stored endpoint, 0 without one.
peer_capability_secret(d, g) == IF ~g.revoked /\ g.id = d.cap THEN g.id ELSE 0

\* AuthorizedPeer for the contact's endpoint d.
authorize_contact(d, e, c) == [eseq |-> d.seq, local |-> endpoint_with_capability(e, c), cap |-> c.id]

\* PeerEndpointUpdate::validate and validate_successor against the endpoint of the session.
ValidUpdate(f, eseq) == f.prev = eseq /\ f.seq > eseq

\* A command for the session task, made from what the handler has stored; every
\* command is given the pending updates.
Command(n, kind, id) ==
    [kind |-> kind, id |-> id, to |-> dial'[n], hello |-> local'[n].seq + 1,
     secret |-> peer_capability_secret(dial'[n], grant'[n]), updates |-> updates'[n]]

\* Without a local endpoint nothing is queued.
queue_peer_probe(n) ==
    probe' = [probe EXCEPT ![n] = IF local'[n] = NoLocal THEN @ ELSE Command(n, "Probe", 0)]

\* Probes every contact whose probe is due.
queue_endpoint_update_probes(n) == queue_peer_probe(n) \/ UNCHANGED probe

send_ephemeral_payload(n, kind, id) ==
    slot' = [slot EXCEPT ![n] = IF local'[n] = NoLocal THEN @ ELSE Command(n, kind, id)]

send_capability_offer(n) == send_ephemeral_payload(n, "Offer", cap'[n].id)

\* An offer when the contact's endpoint has no usable capability.
send_capability_offers_for_contacts(n) ==
    IF peer_capability_secret(dial[n], grant[n]) = 0 THEN send_capability_offer(n) ELSE UNCHANGED slot

refresh_peer_authorizations(n) ==
    listener' = [listener EXCEPT ![n] = authorize_contact(dial[n], local'[n], cap'[n])]

-----------------------------------------------------------------------------
(* The local onion service.                                                *)

Init ==
    /\ service = [n \in Nodes |-> [addr |-> 1, gen |-> 1]]
    /\ expected = [n \in Nodes |-> 1]
    /\ local = [n \in Nodes |-> [addr |-> 1, seq |-> PairedAt[n], gen |-> 1]]
    /\ cap = [n \in Nodes |-> [id |-> 1, revoked |-> FALSE]]
    /\ dial = [n \in Nodes |-> endpoint_with_capability(local[Peer(n)], cap[Peer(n)])]
    /\ grant = [n \in Nodes |-> [id |-> 1, seq |-> dial[n].seq, revoked |-> FALSE]]
    /\ updates = [n \in Nodes |-> {}]
    /\ listener = [n \in Nodes |-> authorize_contact(dial[n], local[n], cap[n])]
    /\ probe = [n \in Nodes |-> NoCommand] /\ slot = [n \in Nodes |-> NoCommand]
    /\ link = [n \in Nodes |-> NoLink]
    /\ events = [n \in Nodes |-> <<>>]
    /\ changes = 0

\* The host takes up the generation the engine asked for, with the address it has or
\* a new one.
Configure(n) ==
    /\ service[n].gen # expected[n]
    /\ \E addr \in {service[n].addr, service[n].addr + 1} :
        service' = [service EXCEPT ![n] = [addr |-> addr, gen |-> expected[n]]]
    /\ UNCHANGED <<expected, database, transport, changes>>

rotate_peer_endpoint(n) ==
    /\ n \in Changing /\ changes < MaxChanges
    /\ changes' = changes + 1
    /\ expected' = [expected EXCEPT ![n] = @ + 1]
    /\ UNCHANGED <<service, database, transport>>

\* The endpoint of an announced service, and the update it owes the contact.  An
\* update whose sequence is already in the table is not replaced.
Announced(n) ==
    [addr |-> service[n].addr, gen |-> service[n].gen,
     seq |-> IF local[n] = NoLocal THEN 1
             ELSE IF local[n].addr = service[n].addr THEN local[n].seq ELSE local[n].seq + 1]
put_local_peer_endpoint(n) == local' = [local EXCEPT ![n] = Announced(n)]
enqueue_endpoint_update_for_contacts(n) ==
    updates' = [updates EXCEPT ![n] =
        IF local[n] = NoLocal \/ Announced(n).seq = local[n].seq \/ \E u \in @ : u.seq = Announced(n).seq
        THEN @ ELSE @ \cup {[prev |-> local[n].seq, seq |-> Announced(n).seq, addr |-> Announced(n).addr]}]

OnionServiceAvailable(n) ==
    /\ service[n].gen = expected[n]
    /\ put_local_peer_endpoint(n)
    /\ enqueue_endpoint_update_for_contacts(n)
    /\ cap' = [cap EXCEPT ![n] = ensure_contact_endpoint_capability(@)]
    /\ UNCHANGED <<dial, grant>>
    /\ refresh_peer_authorizations(n)
    /\ queue_endpoint_update_probes(n)
    /\ send_capability_offers_for_contacts(n)
    /\ UNCHANGED <<service, expected, link, events, changes>>

OnionServiceLost(n) ==
    /\ n \in Changing /\ changes < MaxChanges /\ local[n] # NoLocal
    /\ changes' = changes + 1
    /\ local' = [local EXCEPT ![n] = NoLocal]
    /\ UNCHANGED <<service, expected, dial, cap, grant, updates, transport>>

-----------------------------------------------------------------------------
(* Start, and what a stop of the process loses.                            *)

\* Seeded fault: the listener starts without its authorizations.
Faulty_StartWithoutAuthorization(n, e) ==
    /\ cap' = [cap EXCEPT ![n] = ensure_contact_endpoint_capability(@)]
    /\ listener' = [listener EXCEPT ![n] = NoListener]
    /\ expected' = [expected EXCEPT ![n] = e.gen + 1]
    /\ link' = [m \in Nodes |-> NoLink]
    /\ probe' = [m \in Nodes |-> NoCommand] /\ slot' = [m \in Nodes |-> NoCommand]
    /\ events' = [events EXCEPT ![n] = <<>>]
    /\ changes' = changes + 1
    /\ UNCHANGED <<service, dial, grant, updates>>
Restart(n, e) ==
    /\ cap' = [cap EXCEPT ![n] = ensure_contact_endpoint_capability(@)]
    /\ listener' = [listener EXCEPT ![n] = IF e = NoLocal THEN NoListener ELSE authorize_contact(dial[n], e, cap'[n])]
    /\ expected' = [expected EXCEPT ![n] = e.gen + 1]
    /\ link' = [m \in Nodes |-> NoLink]
    /\ probe' = [m \in Nodes |-> NoCommand] /\ slot' = [m \in Nodes |-> NoCommand]
    /\ events' = [events EXCEPT ![n] = <<>>]
    /\ changes' = changes + 1
    /\ UNCHANGED <<service, dial, grant, updates>>

Crash(n) ==
    /\ n \in Changing /\ changes < MaxChanges
    /\ UNCHANGED local
    /\ Restart(n, local[n])

\* The process stops when the endpoint is stored and its update is not.
CrashBeforeEnqueue(n) ==
    /\ n \in Changing /\ changes < MaxChanges /\ service[n].gen = expected[n]
    /\ put_local_peer_endpoint(n)
    /\ Restart(n, Announced(n))

-----------------------------------------------------------------------------
(* Capabilities: commands of the user.                                     *)

get_contact_endpoint_capability(n) ==
    /\ cap' = [cap EXCEPT ![n] = ensure_contact_endpoint_capability(@)]
    /\ UNCHANGED <<service, expected, local, dial, grant, updates, transport, changes>>

rotate_contact_endpoint_capability(n) ==
    /\ n \in Changing /\ changes < MaxChanges
    /\ changes' = changes + 1
    /\ cap' = [cap EXCEPT ![n] = [id |-> @.id + 1, revoked |-> FALSE]]
    /\ UNCHANGED <<local, dial, grant, updates>>
    /\ send_capability_offer(n)
    /\ UNCHANGED <<service, expected, listener, probe, link, events>>

\* Making the command for the notice mints a capability where there was none to revoke.
revoke_contact_endpoint_capability(n) ==
    /\ n \in Changing /\ changes < MaxChanges
    /\ changes' = changes + 1
    /\ cap' = [cap EXCEPT ![n] = [id |-> IF local[n] = NoLocal THEN @.id ELSE ensure_contact_endpoint_capability(@).id,
                                  revoked |-> TRUE]]
    /\ UNCHANGED <<local, dial, grant, updates>>
    /\ send_ephemeral_payload(n, "Revoked", cap[n].id)
    /\ UNCHANGED <<service, expected, listener, probe, link, events>>

-----------------------------------------------------------------------------
(* The session task: one probe, one ephemeral command.                     *)

\* A probe that falls due, or retry_peer_connection.
Probe(n) ==
    /\ local[n] # NoLocal
    /\ cap' = [cap EXCEPT ![n] = ensure_contact_endpoint_capability(@)]
    /\ UNCHANGED <<local, dial, grant, updates>>
    /\ queue_peer_probe(n)
    /\ UNCHANGED <<service, expected, listener, slot, link, events, changes>>

\* Seeded fault: a Hello with the sequence already known is refused.
Faulty_HelloMustAdvance(c, p) ==
    /\ listener[p] # NoListener
    /\ c.hello > listener[p].eseq
    /\ c.to.cap = listener[p].cap /\ c.secret = listener[p].cap
\* The listener of p admits the dialling command c, and c accepts its challenge.
authenticate_inbound(c, p) ==
    /\ listener[p] # NoListener
    /\ c.hello >= listener[p].eseq
    /\ c.to.cap = listener[p].cap /\ c.secret = listener[p].cap
connect_outbound(c, p) ==
    /\ c.to.cap # 0 /\ c.secret # 0
    /\ service[p].addr = c.to.addr
    /\ authenticate_inbound(c, p)
    /\ listener[p].local.seq = c.to.seq /\ listener[p].local.addr = c.to.addr

Dial(n) ==
    /\ ~link[n].open /\ probe[n] # NoCommand
    /\ \/ /\ connect_outbound(probe[n], Peer(n))
          /\ link' = [link EXCEPT ![n] = [open |-> TRUE, to |-> probe[n].to, sent |-> 0,
                                          eseq |-> listener[Peer(n)].eseq, frames |-> <<>>]]
          /\ UNCHANGED <<probe, slot>>
       \/ /\ ~connect_outbound(probe[n], Peer(n))
          /\ probe' = [probe EXCEPT ![n] = NoCommand] /\ slot' = [slot EXCEPT ![n] = NoCommand]
          /\ UNCHANGED link
    /\ UNCHANGED <<service, expected, database, listener, events, changes>>

\* An ephemeral command does not open a session.
drop_ephemeral_without_session(n) ==
    /\ ~link[n].open /\ probe[n] = NoCommand /\ slot[n] # NoCommand
    /\ slot' = [slot EXCEPT ![n] = NoCommand]
    /\ UNCHANGED <<service, expected, database, listener, probe, link, events, changes>>

Disconnect(n) ==
    /\ link[n].open
    /\ link' = [link EXCEPT ![n] = NoLink]
    /\ probe' = [probe EXCEPT ![n] = NoCommand] /\ slot' = [slot EXCEPT ![n] = NoCommand]
    /\ UNCHANGED <<service, expected, database, listener, events, changes>>

\* A set of updates in the order of their sequences.
InOrder(S) == [i \in 1..Cardinality(S) |-> CHOOSE u \in S : Cardinality({v \in S : v.seq < u.seq}) = i - 1]

update_frame(u) == [kind |-> "Update", prev |-> u.prev, seq |-> u.seq, addr |-> u.addr]

\* The frames of a command: the updates this session has not sent, then its own.  Only
\* a probe remembers which update its answer acknowledges.
send_outbound_command(l, c) ==
    LET new == {u \in c.updates : u.seq > l.sent}
        order == InOrder(new)
        latest == IF new = {} THEN 0 ELSE order[Cardinality(new)].seq
    IN [l EXCEPT !.sent = IF new = {} THEN @ ELSE latest,
                 !.frames = @ \o [i \in 1..Cardinality(new) |-> update_frame(order[i])]
                              \o <<[kind |-> c.kind, id |-> IF c.kind = "Probe" THEN latest ELSE c.id]>>]

same_peer_endpoint(x, y) == x.addr = y.addr /\ x.seq = y.seq

\* pop_next: the probe first; a command for another endpoint ends the session.
Send(n) ==
    /\ link[n].open /\ Len(link[n].frames) < MaxFrames
    /\ LET c == IF probe[n] # NoCommand THEN probe[n] ELSE slot[n]
       IN  /\ c # NoCommand
           /\ IF same_peer_endpoint(c.to, link[n].to)
              THEN /\ link' = [link EXCEPT ![n] = send_outbound_command(@, c)]
                   /\ IF probe[n] # NoCommand
                      THEN probe' = [probe EXCEPT ![n] = NoCommand] /\ UNCHANGED slot
                      ELSE slot' = [slot EXCEPT ![n] = NoCommand] /\ UNCHANGED probe
              ELSE link' = [link EXCEPT ![n] = NoLink] /\ UNCHANGED <<probe, slot>>
    /\ UNCHANGED <<service, expected, database, listener, events, changes>>

-----------------------------------------------------------------------------
(* The listener of the contact reads the session of n.                     *)

complete_endpoint_updates(n, through) ==
    updates' = [updates EXCEPT ![n] = {u \in @ : u.seq > through}]

\* The answer to a probe acknowledges the updates sent before it.
ReceiveProbe(n, f) ==
    /\ f.kind = "Probe"
    /\ link' = [link EXCEPT ![n].frames = Tail(@)]
    /\ complete_endpoint_updates(n, f.id)
    /\ UNCHANGED <<listener, probe, slot, events>>

ReceiveUpdate(n, f) ==
    /\ f.kind = "Update"
    /\ \/ /\ f.seq <= link[n].eseq
          /\ link' = [link EXCEPT ![n].frames = Tail(@)]
          /\ UNCHANGED <<listener, probe, slot, events>>
       \/ /\ f.seq > link[n].eseq /\ ValidUpdate(f, link[n].eseq)
          /\ link' = [link EXCEPT ![n].frames = Tail(@), ![n].eseq = f.seq]
          /\ listener' = [listener EXCEPT ![Peer(n)].eseq = f.seq]
          /\ events' = [events EXCEPT ![Peer(n)] = Append(@, [kind |-> "EndpointUpdated", seq |-> f.seq, addr |-> f.addr])]
          /\ UNCHANGED <<probe, slot>>
       \/ /\ f.seq > link[n].eseq /\ ~ValidUpdate(f, link[n].eseq)
          /\ link' = [link EXCEPT ![n] = NoLink]
          /\ probe' = [probe EXCEPT ![n] = NoCommand] /\ slot' = [slot EXCEPT ![n] = NoCommand]
          /\ UNCHANGED <<listener, events>>
    /\ UNCHANGED updates

ReceiveEnvelope(n, f) ==
    /\ f.kind \in {"Offer", "Revoked"}
    /\ link' = [link EXCEPT ![n].frames = Tail(@)]
    /\ events' = [events EXCEPT ![Peer(n)] = Append(@, f)]
    /\ UNCHANGED <<listener, probe, slot, updates>>

Receive(n) ==
    /\ link[n].open /\ link[n].frames # <<>> /\ Len(events[Peer(n)]) < MaxFrames
    /\ LET f == Head(link[n].frames) IN ReceiveProbe(n, f) \/ ReceiveUpdate(n, f) \/ ReceiveEnvelope(n, f)
    /\ UNCHANGED <<service, expected, local, dial, cap, grant, changes>>

-----------------------------------------------------------------------------
(* The engine handles what its listener handed to it.                      *)

\* Seeded fault: the contact is authorized with its new endpoint, which is not stored.
Faulty_UpdateNotStored(n, e) ==
    /\ e.kind = "EndpointUpdated"
    /\ UNCHANGED <<local, dial, grant, updates, slot>>
    /\ \/ /\ e.seq <= dial[n].seq
          /\ UNCHANGED <<cap, listener, probe>>
       \/ /\ e.seq > dial[n].seq
          /\ cap' = [cap EXCEPT ![n] = ensure_contact_endpoint_capability(@)]
          /\ listener' = IF local[n] = NoLocal THEN listener
                         ELSE [listener EXCEPT ![n] = authorize_contact([addr |-> e.addr, seq |-> e.seq, cap |-> 0], local[n], cap'[n])]
          /\ queue_peer_probe(n)
\* Without a local endpoint the handler fails when the endpoint is stored.
EndpointUpdated(n, e) ==
    /\ e.kind = "EndpointUpdated"
    /\ UNCHANGED <<local, grant, updates, slot>>
    /\ \/ /\ e.seq <= dial[n].seq
          /\ UNCHANGED <<dial, cap, listener, probe>>
       \/ /\ e.seq > dial[n].seq
          /\ dial' = [dial EXCEPT ![n] = put_contact_peer_endpoint(@, [addr |-> e.addr, seq |-> e.seq, cap |-> 0])]
          /\ cap' = [cap EXCEPT ![n] = ensure_contact_endpoint_capability(@)]
          /\ listener' = IF local[n] = NoLocal THEN listener
                         ELSE [listener EXCEPT ![n] = authorize_contact(dial'[n], local[n], cap'[n])]
          /\ queue_peer_probe(n)

\* A first grant is answered with an offer; the acknowledgement that follows it may
\* take its place in the slot.
CapabilityOffer(n, e) ==
    /\ e.kind = "Offer"
    /\ LET had == grant[n].id = e.id /\ ~grant[n].revoked IN
       /\ grant' = [grant EXCEPT ![n] = put_peer_endpoint_capability(@, e.id)]
       /\ cap' = [cap EXCEPT ![n] = IF had /\ local[n] = NoLocal THEN @ ELSE ensure_contact_endpoint_capability(@)]
       /\ UNCHANGED <<local, dial, updates, listener>>
       /\ queue_peer_probe(n)
       /\ \/ IF had THEN UNCHANGED slot ELSE send_capability_offer(n)
          \/ local[n] # NoLocal /\ slot' = [slot EXCEPT ![n] = NoCommand]

CapabilityRevoked(n, e) ==
    /\ e.kind = "Revoked"
    /\ grant' = [grant EXCEPT ![n] = revoke_peer_endpoint_capability(@)]
    /\ UNCHANGED <<local, dial, cap, updates, listener, probe, slot>>

Handle(n) ==
    /\ events[n] # <<>>
    /\ events' = [events EXCEPT ![n] = Tail(@)]
    /\ LET e == Head(events[n]) IN EndpointUpdated(n, e) \/ CapabilityOffer(n, e) \/ CapabilityRevoked(n, e)
    /\ UNCHANGED <<service, expected, link, changes>>

Next == \E n \in Nodes :
    \/ Configure(n) \/ rotate_peer_endpoint(n) \/ OnionServiceAvailable(n) \/ OnionServiceLost(n)
    \/ Crash(n) \/ CrashBeforeEnqueue(n)
    \/ get_contact_endpoint_capability(n) \/ rotate_contact_endpoint_capability(n)
    \/ revoke_contact_endpoint_capability(n)
    \/ Probe(n) \/ Dial(n) \/ drop_ephemeral_without_session(n) \/ Disconnect(n) \/ Send(n)
    \/ Receive(n) \/ Handle(n)

\* Probes fall due again and again, and a session task dials when it holds one.
Fairness == \A n \in Nodes : WF_vars(Probe(n)) /\ WF_vars(Dial(n))

Spec == Init /\ [][Next]_vars /\ Fairness

-----------------------------------------------------------------------------
(* Properties.                                                             *)

Endpoints == [addr : Nat, seq : Nat, cap : Nat]
UpdatePending(n) == \E i \in DOMAIN events[n] : events[n][i].kind = "EndpointUpdated"

\* The tables hold values of the columns' types, and a session task has commands of the
\* kinds the engine makes.
TypeOK ==
    /\ service \in [Nodes -> [addr : Nat \ {0}, gen : Nat]]
    /\ expected \in [Nodes -> Nat \ {0}]
    /\ local \in [Nodes -> [addr : Nat, seq : Nat, gen : Nat]]
    /\ dial \in [Nodes -> Endpoints]
    /\ cap \in [Nodes -> [id : Nat \ {0}, revoked : BOOLEAN]]
    /\ grant \in [Nodes -> [id : Nat \ {0}, seq : Nat, revoked : BOOLEAN]]
    /\ listener \in [Nodes -> [eseq : Nat, local : Endpoints, cap : Nat]]
    /\ \A n \in Nodes :
        /\ probe[n].kind \in {"none", "Probe"} /\ slot[n].kind \in {"none", "Offer", "Revoked"}
        /\ \A u \in updates[n] : u.seq = u.prev + 1

\* The listener never holds the contact to a sequence that is neither stored nor on its
\* way to the tables in the event queue, whatever updates, restarts and refreshes of the
\* authorizations came in between: serve_inbound raises it before the event is handled,
\* and an update read again by a session that began before the last one was handled
\* takes it back below the stored sequence.
ListenerCovered == \A n \in Nodes :
    \/ listener[n].eseq <= dial[n].seq
    \/ \E i \in DOMAIN events[n] : events[n][i].kind = "EndpointUpdated" /\ events[n][i].seq >= listener[n].eseq

\* The tables are well typed, and cover what the listener asks of the contact.
EndpointInv == TypeOK /\ ListenerCovered

\* A contact that holds the endpoint and the capability this side has stored, and that
\* is not behind the sequence this side has stored for it, gets a session.
Matched(n) ==
    LET p == Peer(n) IN
    /\ local[n] # NoLocal /\ local[p] # NoLocal /\ ~cap[p].revoked
    /\ dial[n] = endpoint_with_capability(local[p], cap[p])
    /\ grant[n].id = cap[p].id /\ ~grant[n].revoked
    /\ local[n].seq + 1 >= dial[p].seq
    /\ ~UpdatePending(p)
AdmitsWhatItGranted == \A n \in Nodes :
    Matched(n) => /\ authenticate_inbound([to |-> dial[n], hello |-> local[n].seq + 1, secret |-> grant[n].id], Peer(n))
                  /\ listener[Peer(n)].local = dial[n]

\* The UPDATE guards of contact_peer_endpoints and peer_endpoint_capabilities: replayed
\* and delayed updates and offers never take a stored endpoint or grant back.
NeverBack == [][\A n \in Nodes : dial'[n].seq >= dial[n].seq /\ grant'[n].seq >= grant[n].seq]_vars

\* Once the two sides agree and the contact's service is up at the stored address, probes
\* open a session again and again, after any crash or lost connection.
Reconnects == \A n \in Nodes :
    <>[](Matched(n) /\ service[Peer(n)].addr = dial[n].addr) => []<>link[n].open
=============================================================================
