-------------------------- MODULE PeerEndpointsProofs --------------------------
(***************************************************************************)
(* Theorems about PeerEndpoints, for any number of changes and any queue   *)
(* lengths.  A marker in a stored endpoint is the one of the pairing,      *)
(* because an endpoint update carries none; and as long as the capability  *)
(* of the pairing stands, every step that changes the endpoint in the      *)
(* tables renews the listener's entry with it.  So a contact whose stored  *)
(* endpoint matches the tables matches the listener.                       *)
(***************************************************************************)
EXTENDS PeerEndpoints, FiniteSetTheorems, TLAPS

-----------------------------------------------------------------------------
(* The inductive invariant                                                 *)

\* Updates that a table or a command can hold: one for each sequence.
UpdateSets == {S \in SUBSET [prev : Nat, seq : Nat, addr : Nat] :
                 /\ IsFiniteSet(S)
                 /\ \A u \in S : u.seq = u.prev + 1
                 /\ \A u, v \in S : u.seq = v.seq => u = v}

Kinds == {"Probe", "Offer", "Revoked"}
Commands == [kind : Kinds, id : Nat, to : Endpoints, hello : Nat, secret : Nat, updates : UpdateSets]
Probes == {NoCommand} \cup {c \in Commands : c.kind = "Probe"}
Ephemeral == {NoCommand} \cup {c \in Commands : c.kind \in {"Offer", "Revoked"} /\ c.id # 0}

UpdateFrames == [kind : {"Update"}, prev : Nat, seq : Nat, addr : Nat]
ProbeFrames == [kind : {"Probe"}, id : Nat]
Envelopes == [kind : {"Offer", "Revoked"}, id : Nat \ {0}]
Frames == UpdateFrames \cup ProbeFrames \cup Envelopes
Links == [open : BOOLEAN, to : Endpoints, sent : Nat, eseq : Nat, frames : Seq(Frames)]
Events == [kind : {"EndpointUpdated"}, seq : Nat, addr : Nat] \cup Envelopes

Locals == [addr : Nat, seq : Nat, gen : Nat]
Minted == [id : Nat \ {0}, revoked : BOOLEAN]
Grants == [id : Nat \ {0}, seq : Nat, revoked : BOOLEAN]
Entries == [eseq : Nat, local : Endpoints, cap : Nat]

Stored ==
    /\ service \in [Nodes -> [addr : Nat \ {0}, gen : Nat]] /\ expected \in [Nodes -> Nat \ {0}]
    /\ local \in [Nodes -> Locals] /\ dial \in [Nodes -> Endpoints]
    /\ cap \in [Nodes -> Minted] /\ grant \in [Nodes -> Grants]
    /\ updates \in [Nodes -> UpdateSets]
    /\ listener \in [Nodes -> Entries]

Carried ==
    /\ probe \in [Nodes -> Probes] /\ slot \in [Nodes -> Ephemeral]
    /\ link \in [Nodes -> Links]
    /\ events \in [Nodes -> Seq(Events)]

\* A marker is the one of the pairing: an endpoint update carries none.
MarkedAtPairing == \A n \in Nodes : dial[n].cap \in {0, 1}

\* While the capability of the pairing stands, the listener holds it and the
\* endpoint in the tables.
Paired == [id |-> 1, revoked |-> FALSE]
ListenerFresh == \A n \in Nodes :
    local[n] # NoLocal /\ cap[n] = Paired =>
        listener[n].local = endpoint_with_capability(local[n], cap[n]) /\ listener[n].cap = 1

EndpointIInv == Stored /\ Carried /\ ListenerCovered /\ MarkedAtPairing /\ ListenerFresh

-----------------------------------------------------------------------------
(* Operators                                                               *)

\* There are two installations, so the other one is one of them.
LEMMA PeerIsNode == \A n \in Nodes : Peer(n) \in Nodes
<1> SUFFICES ASSUME NEW n \in Nodes PROVE \E p \in Nodes : p # n
  BY Zenon DEF Peer
<1>1. SUFFICES ASSUME Nodes = {n} PROVE FALSE
  OBVIOUS
<1>2. Cardinality(Nodes) = 1
  BY <1>1, FS_Singleton, Zenon
<1> QED
  BY <1>2, PeerEndpointsAssumption

\* How many updates of a set come before one of them: fewer than there are, and
\* another number for every update.
LEMMA Ranks ==
    ASSUME NEW S \in UpdateSets
    PROVE  /\ Cardinality(S) \in Nat
           /\ \A u \in S : Cardinality({w \in S : w.seq < u.seq}) \in 0..(Cardinality(S) - 1)
           /\ \A u, v \in S : Cardinality({w \in S : w.seq < u.seq}) = Cardinality({w \in S : w.seq < v.seq}) => u = v
<1> DEFINE Below(u) == {w \in S : w.seq < u.seq}
<1>1. IsFiniteSet(S) /\ \A u \in S : u.seq \in Nat
  BY Zenon DEF UpdateSets
<1>2. Cardinality(S) \in Nat
  BY <1>1, FS_CardinalityType, Zenon
<1>3. ASSUME NEW u \in S PROVE Cardinality(Below(u)) \in 0..(Cardinality(S) - 1)
  <2>1. Below(u) \in SUBSET S /\ u \notin Below(u)
    BY <1>1
  <2>2. IsFiniteSet(Below(u)) /\ Cardinality(Below(u)) <= Cardinality(S) /\ Cardinality(Below(u)) # Cardinality(S)
    BY <1>1, <2>1, FS_Subset, Zenon
  <2>3. Cardinality(Below(u)) \in Nat
    BY <2>2, FS_CardinalityType, Zenon
  <2> QED
    BY <1>2, <2>2, <2>3
<1>4. ASSUME NEW u \in S, NEW v \in S, u.seq < v.seq
      PROVE  Cardinality(Below(u)) # Cardinality(Below(v))
  <2>1. Below(u) \in SUBSET Below(v) /\ u \in Below(v) /\ u \notin Below(u)
    BY <1>1, <1>4
  <2>2. IsFiniteSet(Below(v))
    <3>1. Below(v) \in SUBSET S
      OBVIOUS
    <3> QED
      BY <1>1, <3>1, FS_Subset, Zenon
  <2> QED
    BY <2>1, <2>2, FS_Subset, Zenon
<1>5. ASSUME NEW u \in S, NEW v \in S, Cardinality(Below(u)) = Cardinality(Below(v))
      PROVE  u = v
  <2>1. ~(u.seq < v.seq) /\ ~(v.seq < u.seq)
    BY <1>4, <1>5, Zenon
  <2>2. u.seq = v.seq
    BY <1>1, <2>1
  <2> QED
    BY <2>2, Zenon DEF UpdateSets
<1> QED
  BY <1>2, <1>3, <1>5, Zenon

\* InOrder lists updates of the set, one for each position.
LEMMA InOrderLists ==
    ASSUME NEW S \in UpdateSets
    PROVE  Cardinality(S) \in Nat /\ \A i \in 1..Cardinality(S) : InOrder(S)[i] \in S
<1> DEFINE k == Cardinality(S)
           Rank(u) == Cardinality({w \in S : w.seq < u.seq})
           f == [u \in S |-> Rank(u) + 1]
<1>1. /\ k \in Nat
      /\ \A u \in S : Rank(u) \in 0..(k - 1)
      /\ \A u, v \in S : Rank(u) = Rank(v) => u = v
  BY Ranks, Zenon
<1> HIDE DEF Rank, k
<1>2. f \in Injection(S, 1..k)
  <2>1. \A u \in S : f[u] = Rank(u) + 1 /\ f[u] \in 1..k
    BY <1>1
  <2>2. \A u, v \in S : f[u] = f[v] => u = v
    BY <1>1, <2>1
  <2>3. f \in [S -> 1..k]
    BY <2>1, Zenon
  <2> QED
    BY <2>2, <2>3, Zenon DEF Injection, IsInjective
<1>3. IsFiniteSet(1..k) /\ Cardinality(1..k) = k
  BY <1>1, FS_Interval
<1>4. f \in Surjection(S, 1..k)
  BY <1>2, <1>3, FS_Injection, Zenon DEF k
<1>5. \A i \in 1..k : \E u \in S : f[u] = i
  BY <1>4, Zenon DEF Surjection
<1>6. ASSUME NEW i \in 1..k PROVE \E u \in S : Rank(u) = i - 1
  <2>1. PICK u \in S : f[u] = i
    BY <1>5, Zenon
  <2>2. f[u] = Rank(u) + 1 /\ Rank(u) \in Int
    BY <1>1
  <2>3. Rank(u) = i - 1
    BY <2>1, <2>2
  <2> QED
    BY <2>3, Zenon
<1> QED
  BY <1>1, <1>6, Zenon DEF InOrder, k, Rank

\* The rest of the updates of a command, after those a session has sent.
LEMMA Unsent ==
    ASSUME NEW S \in UpdateSets, NEW m \in Nat
    PROVE  {u \in S : u.seq > m} \in UpdateSets
<1> DEFINE T == {u \in S : u.seq > m}
<1>1. T \in SUBSET S /\ IsFiniteSet(S)
  BY Zenon DEF UpdateSets
<1>2. IsFiniteSet(T)
  BY <1>1, FS_Subset, Zenon
<1> QED
  BY <1>1, <1>2, Zenon DEF UpdateSets

\* What minting, telling and authorizing make of stored values.
LEMMA Made ==
    ASSUME NEW c \in Minted, NEW e \in Locals, NEW d \in Endpoints
    PROVE  /\ ensure_contact_endpoint_capability(c) \in Minted
           /\ ensure_contact_endpoint_capability(c) = Paired => c = Paired
           /\ authorize_contact(d, e, c) \in Entries
           /\ authorize_contact(d, e, c).eseq = d.seq
           /\ authorize_contact(d, e, c).local = endpoint_with_capability(e, c)
           /\ authorize_contact(d, e, c).cap = c.id
BY DEF Minted, Locals, Endpoints, Entries, Paired,
       ensure_contact_endpoint_capability, authorize_contact, endpoint_with_capability

\* A command made from well-typed tables is one.
LEMMA CommandMade ==
    ASSUME Stored', NEW n \in Nodes, NEW kind \in Kinds, NEW id \in Nat
    PROVE  Command(n, kind, id) \in Commands /\ Command(n, kind, id).kind = kind /\ Command(n, kind, id).id = id
<1>1. dial'[n] \in Endpoints /\ local'[n].seq + 1 \in Nat /\ updates'[n] \in UpdateSets
  BY DEF Stored, Locals
<1>2. peer_capability_secret(dial'[n], grant'[n]) \in Nat
  BY Zenon DEF Stored, Grants, peer_capability_secret
<1> QED
  BY <1>1, <1>2, Zenon DEF Command, Commands

\* A probe that is queued, or not.
LEMMA ProbeQueued ==
    ASSUME Stored', probe \in [Nodes -> Probes], NEW n \in Nodes, queue_peer_probe(n)
    PROVE  probe' \in [Nodes -> Probes]
<1>1. Command(n, "Probe", 0) \in Probes
  BY CommandMade DEF Probes, Kinds
<1> QED
  BY <1>1, Zenon DEF queue_peer_probe

\* An ephemeral command in the slot.
LEMMA SlotFilled ==
    ASSUME Stored', slot \in [Nodes -> Ephemeral], NEW n \in Nodes,
           NEW kind \in {"Offer", "Revoked"}, NEW id \in Nat \ {0}, send_ephemeral_payload(n, kind, id)
    PROVE  slot' \in [Nodes -> Ephemeral]
<1>1. Command(n, kind, id) \in Ephemeral
  BY CommandMade DEF Ephemeral, Kinds
<1> QED
  BY <1>1, Zenon DEF send_ephemeral_payload

\* An offer in the slot.
LEMMA OfferFilled ==
    ASSUME Stored', slot \in [Nodes -> Ephemeral], NEW n \in Nodes, send_capability_offer(n)
    PROVE  slot' \in [Nodes -> Ephemeral]
<1>1. cap'[n].id \in Nat \ {0}
  BY Zenon DEF Stored, Minted
<1> QED
  BY <1>1, SlotFilled, Zenon DEF send_capability_offer

\* The empty values are well typed.
LEMMA Empty ==
    /\ NoCommand \in Probes /\ NoCommand \in Ephemeral
    /\ NoLink \in Links /\ NoListener \in Entries /\ NoLocal \in Locals
<1>1. NoCommand \in Probes /\ NoCommand \in Ephemeral
  BY Zenon DEF Probes, Ephemeral
<1>2. NoEndpoint \in Endpoints
  BY Zenon DEF NoEndpoint, Endpoints
<1>3. NoLink \in Links
  BY <1>2 DEF NoLink, Links
<1> QED
  BY <1>1, <1>2, <1>3, Zenon DEF NoListener, NoLocal, Entries, Locals

-----------------------------------------------------------------------------
(* What keeps the parts of the invariant                                   *)

\* The listener is covered by the tables again, or nothing it depends on has
\* been taken back.
LEMMA CoverKept ==
    ASSUME Stored, Stored', ListenerCovered,
           \A m \in Nodes : \/ listener'[m].eseq <= dial'[m].seq
                            \/ /\ listener'[m].eseq = listener[m].eseq /\ dial'[m].seq >= dial[m].seq
                               /\ events'[m] = events[m]
    PROVE  ListenerCovered'
<1> SUFFICES ASSUME NEW m \in Nodes, ~(listener'[m].eseq <= dial'[m].seq)
             PROVE  \E i \in DOMAIN events'[m] : events'[m][i].kind = "EndpointUpdated" /\ events'[m][i].seq >= listener'[m].eseq
  BY Zenon DEF ListenerCovered
<1>1. listener'[m].eseq = listener[m].eseq /\ dial'[m].seq >= dial[m].seq /\ events'[m] = events[m]
  BY Zenon
<1>2. listener[m].eseq \in Nat /\ dial[m].seq \in Nat /\ dial'[m].seq \in Nat
  BY Zenon DEF Stored, Entries, Endpoints
<1>3. ~(listener[m].eseq <= dial[m].seq)
  BY <1>1, <1>2
<1> QED
  BY <1>1, <1>3 DEF ListenerCovered

\* The listener is brought up to date, or what it follows has not changed.
LEMMA FreshKept ==
    ASSUME ListenerFresh,
           \A m \in Nodes : \/ local'[m] = NoLocal \/ cap'[m] # Paired
                            \/ /\ listener'[m].local = endpoint_with_capability(local'[m], cap'[m])
                               /\ listener'[m].cap = cap'[m].id
                            \/ /\ local'[m] = local[m] /\ cap[m] = cap'[m]
                               /\ listener'[m].local = listener[m].local /\ listener'[m].cap = listener[m].cap
    PROVE  ListenerFresh'
<1> SUFFICES ASSUME NEW m \in Nodes, local'[m] # NoLocal, cap'[m] = Paired
             PROVE  listener'[m].local = endpoint_with_capability(local'[m], cap'[m]) /\ listener'[m].cap = 1
  BY Zenon DEF ListenerFresh, endpoint_with_capability
<1> QED
  BY DEF ListenerFresh, Paired

\* A step that leaves the tables, the listeners and the event queues alone.
LEMMA TablesKept ==
    ASSUME EndpointIInv, UNCHANGED <<database, listener, events>>
    PROVE  ListenerCovered' /\ MarkedAtPairing' /\ ListenerFresh'
BY Zenon DEF EndpointIInv, ListenerCovered, MarkedAtPairing, ListenerFresh, database, endpoint_with_capability

-----------------------------------------------------------------------------
(* Steps of the service and restarts                                       *)

\* The host takes up a generation.
LEMMA ConfigureStep ==
    ASSUME EndpointIInv, NEW n \in Nodes, Configure(n)
    PROVE  EndpointIInv'
<1>1. UNCHANGED <<expected, database, transport>>
  BY Zenon DEF Configure
<1>2. PICK addr \in {service[n].addr, service[n].addr + 1} :
        service' = [service EXCEPT ![n] = [addr |-> addr, gen |-> expected[n]]]
  BY Zenon DEF Configure
<1>3. Stored'
  BY <1>1, <1>2 DEF EndpointIInv, Stored, database, transport
<1>4. Carried'
  BY <1>1, Zenon DEF EndpointIInv, Carried, transport
<1> QED
  BY <1>1, <1>3, <1>4, TablesKept, Zenon DEF EndpointIInv, transport

\* A rotation asks for the next generation.
LEMMA RotateStep ==
    ASSUME EndpointIInv, NEW n \in Nodes, rotate_peer_endpoint(n)
    PROVE  EndpointIInv'
<1>1. UNCHANGED <<service, database, transport>> /\ expected' = [expected EXCEPT ![n] = @ + 1]
  BY Zenon DEF rotate_peer_endpoint
<1>2. Stored'
  BY <1>1 DEF EndpointIInv, Stored, database, transport
<1>3. Carried'
  BY <1>1, Zenon DEF EndpointIInv, Carried, transport
<1> QED
  BY <1>1, <1>2, <1>3, TablesKept, Zenon DEF EndpointIInv, transport

\* An announced endpoint is one, and its sequence is the old one or the next.
LEMMA AnnouncedTyped ==
    ASSUME Stored, NEW n \in Nodes
    PROVE  /\ Announced(n) \in Locals
           /\ local[n] # NoLocal => Announced(n).seq \in {local[n].seq, local[n].seq + 1}
BY DEF Stored, Locals, Announced

\* The update that is owed keeps the table of updates in order.
LEMMA UpdateOwed ==
    ASSUME Stored, NEW n \in Nodes, enqueue_endpoint_update_for_contacts(n)
    PROVE  updates' \in [Nodes -> UpdateSets]
<1> DEFINE u == [prev |-> local[n].seq, seq |-> Announced(n).seq, addr |-> Announced(n).addr]
           old == updates[n]
<1>1. old \in UpdateSets /\ updates \in [Nodes -> UpdateSets]
  BY Zenon DEF Stored
<1>2. CASE local[n] = NoLocal \/ Announced(n).seq = local[n].seq \/ \E v \in old : v.seq = Announced(n).seq
  BY <1>1, <1>2, Zenon DEF enqueue_endpoint_update_for_contacts
<1>3. CASE ~(local[n] = NoLocal \/ Announced(n).seq = local[n].seq \/ \E v \in old : v.seq = Announced(n).seq)
  <2>1. u \in [prev : Nat, seq : Nat, addr : Nat] /\ u.seq = u.prev + 1
    BY <1>3, AnnouncedTyped, Zenon DEF Stored, Locals
  <2>2. IsFiniteSet(old \cup {u})
    BY <1>1, FS_AddElement, Zenon DEF UpdateSets
  <2>3. old \cup {u} \in SUBSET [prev : Nat, seq : Nat, addr : Nat] /\ \A v \in old \cup {u} : v.seq = v.prev + 1
    BY <1>1, <2>1, Zenon DEF UpdateSets
  <2>4. \A v, w \in old \cup {u} : v.seq = w.seq => v = w
    BY <1>1, <1>3 DEF UpdateSets
  <2>5. old \cup {u} \in UpdateSets
    BY <2>2, <2>3, <2>4, Zenon DEF UpdateSets
  <2>6. updates' = [updates EXCEPT ![n] = old \cup {u}]
    BY <1>3, Zenon DEF enqueue_endpoint_update_for_contacts
  <2> QED
    BY <1>1, <2>5, <2>6, Zenon
<1> QED
  BY <1>2, <1>3, Zenon

\* An announced service: the endpoint, its update, the capability and the
\* listener's entry change together.
LEMMA AvailableStep ==
    ASSUME EndpointIInv, NEW n \in Nodes, OnionServiceAvailable(n)
    PROVE  EndpointIInv'
<1> DEFINE c == ensure_contact_endpoint_capability(cap[n])
           a == authorize_contact(dial[n], Announced(n), c)
<1>1. /\ local' = [local EXCEPT ![n] = Announced(n)] /\ cap' = [cap EXCEPT ![n] = c]
      /\ UNCHANGED <<dial, grant, service, expected, link, events>>
      /\ enqueue_endpoint_update_for_contacts(n)
  BY Zenon DEF OnionServiceAvailable, put_local_peer_endpoint
<1>2. Announced(n) \in Locals /\ cap[n] \in Minted /\ dial[n] \in Endpoints
      /\ local \in [Nodes -> Locals] /\ cap \in [Nodes -> Minted] /\ listener \in [Nodes -> Entries]
  BY AnnouncedTyped, Zenon DEF EndpointIInv, Stored
<1>3. c \in Minted
  BY <1>2, Made, Zenon
<1>4. a \in Entries /\ a.eseq = dial[n].seq /\ a.local = endpoint_with_capability(Announced(n), c) /\ a.cap = c.id
  BY <1>2, <1>3, Made, Zenon
<1>5. listener' = [listener EXCEPT ![n] = a] /\ local'[n] = Announced(n) /\ cap'[n] = c
  BY <1>1, <1>2, Zenon DEF OnionServiceAvailable, refresh_peer_authorizations
<1> HIDE DEF c, a
<1>6. local' \in [Nodes -> Locals] /\ cap' \in [Nodes -> Minted] /\ listener' \in [Nodes -> Entries]
  BY <1>1, <1>2, <1>3, <1>4, <1>5, Zenon
<1>7. updates' \in [Nodes -> UpdateSets]
  BY <1>1, UpdateOwed, Zenon DEF EndpointIInv
<1>8. Stored'
  BY <1>1, <1>6, <1>7, Zenon DEF EndpointIInv, Stored
<1>9. Carried'
  <2>1. probe' \in [Nodes -> Probes]
    BY <1>8, ProbeQueued, Zenon DEF EndpointIInv, Carried, OnionServiceAvailable, queue_endpoint_update_probes
  <2>2. slot' \in [Nodes -> Ephemeral]
    BY <1>8, OfferFilled, ZenonT(30) DEF EndpointIInv, Carried, OnionServiceAvailable, send_capability_offers_for_contacts
  <2> QED
    BY <1>1, <2>1, <2>2, Zenon DEF EndpointIInv, Carried
<1>10. ListenerCovered'
  <2>1. \A m \in Nodes : IF m = n THEN listener'[m].eseq = dial'[m].seq ELSE listener'[m] = listener[m]
    BY <1>1, <1>2, <1>4, <1>5, Zenon
  <2>2. \A m \in Nodes : dial'[m].seq \in Nat
    BY <1>8, Zenon DEF Stored, Endpoints
  <2> QED
    BY <1>1, <1>8, <2>1, <2>2, CoverKept DEF EndpointIInv
<1>11. ListenerFresh'
  <2>1. \A m \in Nodes : IF m = n THEN /\ listener'[m].local = endpoint_with_capability(local'[m], cap'[m])
                                       /\ listener'[m].cap = cap'[m].id
                         ELSE listener'[m] = listener[m] /\ local'[m] = local[m] /\ cap'[m] = cap[m]
    BY <1>1, <1>2, <1>4, <1>5, Zenon
  <2> QED
    BY <2>1, FreshKept, Zenon DEF EndpointIInv
<1>12. MarkedAtPairing'
  BY <1>1, Zenon DEF EndpointIInv, MarkedAtPairing
<1> QED
  BY <1>8, <1>9, <1>10, <1>11, <1>12, Zenon DEF EndpointIInv

\* A lost service leaves no endpoint to be fresh for.
LEMMA LostStep ==
    ASSUME EndpointIInv, NEW n \in Nodes, OnionServiceLost(n)
    PROVE  EndpointIInv'
<1>1. /\ local' = [local EXCEPT ![n] = NoLocal]
      /\ UNCHANGED <<service, expected, dial, cap, grant, updates, transport>>
  BY Zenon DEF OnionServiceLost
<1>2. local \in [Nodes -> Locals] /\ NoLocal \in Locals
  BY Empty, Zenon DEF EndpointIInv, Stored
<1>3. Stored'
  BY <1>1, <1>2, Zenon DEF EndpointIInv, Stored, transport
<1>4. Carried' /\ MarkedAtPairing' /\ ListenerCovered'
  BY <1>1, Zenon DEF EndpointIInv, Carried, MarkedAtPairing, ListenerCovered, transport
<1>5. \A m \in Nodes : local'[m] = NoLocal \/ local'[m] = local[m]
  BY <1>1, <1>2, Zenon
<1>6. ListenerFresh'
  BY <1>1, <1>5, FreshKept, Zenon DEF EndpointIInv, transport
<1> QED
  BY <1>3, <1>4, <1>6, Zenon DEF EndpointIInv

\* A restart authorizes the contact from the tables, if there is an endpoint.
LEMMA RestartStep ==
    ASSUME EndpointIInv, NEW n \in Nodes, NEW e \in Locals, local' = [local EXCEPT ![n] = e], Restart(n, e)
    PROVE  EndpointIInv'
<1> DEFINE c == ensure_contact_endpoint_capability(cap[n])
           a == IF e = NoLocal THEN NoListener ELSE authorize_contact(dial[n], e, c)
<1>1. /\ cap' = [cap EXCEPT ![n] = c] /\ expected' = [expected EXCEPT ![n] = e.gen + 1]
      /\ link' = [m \in Nodes |-> NoLink]
      /\ probe' = [m \in Nodes |-> NoCommand] /\ slot' = [m \in Nodes |-> NoCommand]
      /\ events' = [events EXCEPT ![n] = <<>>]
      /\ UNCHANGED <<service, dial, grant, updates>>
  BY Zenon DEF Restart
<1>2. /\ cap[n] \in Minted /\ dial[n] \in Endpoints /\ e.gen \in Nat
      /\ local \in [Nodes -> Locals] /\ cap \in [Nodes -> Minted] /\ listener \in [Nodes -> Entries]
  BY Zenon DEF EndpointIInv, Stored, Locals
<1>3. c \in Minted
  BY <1>2, Made, Zenon
<1>4. cap'[n] = c /\ listener' = [listener EXCEPT ![n] = a]
  BY <1>1, <1>2, Zenon DEF Restart
<1>5. a \in Entries /\ a.eseq <= dial[n].seq
      /\ (e # NoLocal => a.local = endpoint_with_capability(e, c) /\ a.cap = c.id)
  <2>1. CASE e = NoLocal
    BY <1>2, <2>1, Empty DEF NoListener, Endpoints
  <2>2. CASE e # NoLocal
    <3> DEFINE b == authorize_contact(dial[n], e, c)
    <3>1. b \in Entries /\ b.eseq = dial[n].seq /\ b.local = endpoint_with_capability(e, c) /\ b.cap = c.id
      BY <1>2, <1>3, Made, ZenonT(30)
    <3>2. a = b /\ dial[n].seq \in Nat
      BY <1>2, <2>2, Zenon DEF Endpoints
    <3> HIDE DEF a, b, c
    <3> QED
      BY <3>1, <3>2
  <2> QED
    BY <2>1, <2>2, Zenon
<1> HIDE DEF c, a
<1>6. Stored'
  BY <1>1, <1>2, <1>3, <1>4, <1>5 DEF EndpointIInv, Stored
<1>7. Carried'
  <2>1. <<>> \in Seq(Events)
    OBVIOUS
  <2> QED
    BY <1>1, <2>1, Empty, Zenon DEF EndpointIInv, Carried
<1>8. ListenerCovered'
  <2>1. \A m \in Nodes : IF m = n THEN listener'[m].eseq <= dial'[m].seq
                         ELSE listener'[m] = listener[m] /\ events'[m] = events[m] /\ dial'[m] = dial[m]
    BY <1>1, <1>2, <1>4, <1>5, Zenon DEF EndpointIInv, Carried
  <2>2. \A m \in Nodes : dial[m].seq >= dial[m].seq
    BY DEF EndpointIInv, Stored, Endpoints
  <2> QED
    BY <1>6, <2>1, <2>2, CoverKept, Zenon DEF EndpointIInv
<1>9. ListenerFresh'
  <2>1. \A m \in Nodes : IF m = n THEN \/ local'[m] = NoLocal
                                       \/ /\ listener'[m].local = endpoint_with_capability(local'[m], cap'[m])
                                          /\ listener'[m].cap = cap'[m].id
                         ELSE listener'[m] = listener[m] /\ local'[m] = local[m] /\ cap'[m] = cap[m]
    BY <1>1, <1>2, <1>4, <1>5, Zenon
  <2> QED
    BY <2>1, FreshKept, Zenon DEF EndpointIInv
<1>10. MarkedAtPairing'
  BY <1>1, Zenon DEF EndpointIInv, MarkedAtPairing
<1> QED
  BY <1>6, <1>7, <1>8, <1>9, <1>10, Zenon DEF EndpointIInv

\* A crash with the endpoint in the table.
LEMMA CrashStep ==
    ASSUME EndpointIInv, NEW n \in Nodes, Crash(n)
    PROVE  EndpointIInv'
<1>1. local' = [local EXCEPT ![n] = local[n]] /\ local[n] \in Locals
  BY Zenon DEF Crash, EndpointIInv, Stored
<1> QED
  BY <1>1, RestartStep, Zenon DEF Crash

\* A crash between the endpoint and its update.
LEMMA CrashBeforeStep ==
    ASSUME EndpointIInv, NEW n \in Nodes, CrashBeforeEnqueue(n)
    PROVE  EndpointIInv'
<1>1. local' = [local EXCEPT ![n] = Announced(n)] /\ Announced(n) \in Locals
  BY AnnouncedTyped, Zenon DEF CrashBeforeEnqueue, put_local_peer_endpoint, EndpointIInv
<1> QED
  BY <1>1, RestartStep, ZenonT(30) DEF CrashBeforeEnqueue

-----------------------------------------------------------------------------
(* Steps of the capabilities                                               *)

\* A capability is minted, replaced or revoked; none of it makes the one of the
\* pairing again.
LEMMA CapabilityChanged ==
    ASSUME EndpointIInv, NEW n \in Nodes, NEW c \in Minted, c = Paired => cap[n] = Paired,
           cap' = [cap EXCEPT ![n] = c],
           UNCHANGED <<service, expected, local, dial, grant, updates, listener, events>>
    PROVE  Stored' /\ ListenerCovered' /\ MarkedAtPairing' /\ ListenerFresh'
<1>1. cap \in [Nodes -> Minted]
  BY Zenon DEF EndpointIInv, Stored
<1>2. Stored'
  BY <1>1, Zenon DEF EndpointIInv, Stored
<1>3. ListenerCovered' /\ MarkedAtPairing'
  BY Zenon DEF EndpointIInv, ListenerCovered, MarkedAtPairing
<1>4. \A m \in Nodes : cap'[m] # Paired \/ cap'[m] = cap[m]
  BY <1>1, Zenon
<1>5. ListenerFresh'
  BY <1>4, FreshKept, Zenon DEF EndpointIInv
<1> QED
  BY <1>2, <1>3, <1>5, Zenon

\* The capability is read, and minted if it was revoked.
LEMMA GetStep ==
    ASSUME EndpointIInv, NEW n \in Nodes, get_contact_endpoint_capability(n)
    PROVE  EndpointIInv'
<1> DEFINE c == ensure_contact_endpoint_capability(cap[n])
<1>1. /\ cap' = [cap EXCEPT ![n] = c]
      /\ UNCHANGED <<service, expected, local, dial, grant, updates, transport>>
  BY Zenon DEF get_contact_endpoint_capability
<1>2. c \in Minted /\ (c = Paired => cap[n] = Paired)
  <2>1. cap[n] \in Minted /\ local[n] \in Locals /\ dial[n] \in Endpoints
    BY Zenon DEF EndpointIInv, Stored
  <2> QED
    BY <2>1, Made, Zenon
<1> HIDE DEF c
<1>3. Stored' /\ ListenerCovered' /\ MarkedAtPairing' /\ ListenerFresh'
  BY <1>1, <1>2, CapabilityChanged, ZenonT(30) DEF transport
<1>4. Carried'
  BY <1>1, Zenon DEF EndpointIInv, Carried, transport
<1> QED
  BY <1>3, <1>4, Zenon DEF EndpointIInv

\* A probe that falls due reads the capability too.
LEMMA ProbeStep ==
    ASSUME EndpointIInv, NEW n \in Nodes, Probe(n)
    PROVE  EndpointIInv'
<1> DEFINE c == ensure_contact_endpoint_capability(cap[n])
<1>1. /\ cap' = [cap EXCEPT ![n] = c] /\ queue_peer_probe(n)
      /\ UNCHANGED <<service, expected, local, dial, grant, updates, listener, slot, link, events>>
  BY Zenon DEF Probe
<1>2. c \in Minted /\ (c = Paired => cap[n] = Paired)
  <2>1. cap[n] \in Minted /\ local[n] \in Locals /\ dial[n] \in Endpoints
    BY Zenon DEF EndpointIInv, Stored
  <2> QED
    BY <2>1, Made, Zenon
<1> HIDE DEF c
<1>3. Stored' /\ ListenerCovered' /\ MarkedAtPairing' /\ ListenerFresh'
  BY <1>1, <1>2, CapabilityChanged, ZenonT(30)
<1>4. probe' \in [Nodes -> Probes]
  BY <1>1, <1>3, ProbeQueued, Zenon DEF EndpointIInv, Carried
<1>5. Carried'
  BY <1>1, <1>4, Zenon DEF EndpointIInv, Carried
<1> QED
  BY <1>3, <1>5, Zenon DEF EndpointIInv

\* A rotated capability has another id than the one of the pairing.
LEMMA RotateCapabilityStep ==
    ASSUME EndpointIInv, NEW n \in Nodes, rotate_contact_endpoint_capability(n)
    PROVE  EndpointIInv'
<1> DEFINE c == [id |-> cap[n].id + 1, revoked |-> FALSE]
<1>1. /\ cap' = [cap EXCEPT ![n] = c] /\ send_capability_offer(n)
      /\ UNCHANGED <<service, expected, local, dial, grant, updates, listener, probe, link, events>>
  BY Zenon DEF rotate_contact_endpoint_capability
<1>2. c \in Minted /\ c # Paired
  BY DEF EndpointIInv, Stored, Minted, Paired
<1> HIDE DEF c
<1>3. Stored' /\ ListenerCovered' /\ MarkedAtPairing' /\ ListenerFresh'
  BY <1>1, <1>2, CapabilityChanged, Zenon
<1>4. slot' \in [Nodes -> Ephemeral]
  BY <1>1, <1>3, OfferFilled, Zenon DEF EndpointIInv, Carried
<1>5. Carried'
  BY <1>1, <1>4, ZenonT(30) DEF EndpointIInv, Carried
<1> QED
  BY <1>3, <1>5, Zenon DEF EndpointIInv

\* A revoked capability is not the one of the pairing.
LEMMA RevokeCapabilityStep ==
    ASSUME EndpointIInv, NEW n \in Nodes, revoke_contact_endpoint_capability(n)
    PROVE  EndpointIInv'
<1> DEFINE c == [id |-> IF local[n] = NoLocal THEN cap[n].id ELSE ensure_contact_endpoint_capability(cap[n]).id,
                 revoked |-> TRUE]
<1>1. /\ cap' = [cap EXCEPT ![n] = c] /\ send_ephemeral_payload(n, "Revoked", cap[n].id)
      /\ UNCHANGED <<service, expected, local, dial, grant, updates, listener, probe, link, events>>
  BY Zenon DEF revoke_contact_endpoint_capability
<1>2. c \in Minted /\ c # Paired /\ cap[n].id \in Nat \ {0}
  BY DEF EndpointIInv, Stored, Minted, Paired, ensure_contact_endpoint_capability
<1> HIDE DEF c
<1>3. Stored' /\ ListenerCovered' /\ MarkedAtPairing' /\ ListenerFresh'
  BY <1>1, <1>2, CapabilityChanged, Zenon
<1>4. slot' \in [Nodes -> Ephemeral]
  BY <1>1, <1>2, <1>3, SlotFilled, Zenon DEF EndpointIInv, Carried
<1>5. Carried'
  BY <1>1, <1>4, Zenon DEF EndpointIInv, Carried
<1> QED
  BY <1>3, <1>5, Zenon DEF EndpointIInv

-----------------------------------------------------------------------------
(* Steps of the session                                                    *)

\* A step that changes no more than commands and the session.
LEMMA SessionOnly ==
    ASSUME EndpointIInv, UNCHANGED <<service, expected, database, listener, events>>,
           probe' \in [Nodes -> Probes], slot' \in [Nodes -> Ephemeral], link' \in [Nodes -> Links]
    PROVE  EndpointIInv'
<1>1. Stored'
  BY Zenon DEF EndpointIInv, Stored, database
<1>2. Carried'
  BY Zenon DEF EndpointIInv, Carried
<1> QED
  BY <1>1, <1>2, TablesKept, Zenon DEF EndpointIInv

\* A dial opens the session, or drops the commands.
LEMMA DialStep ==
    ASSUME EndpointIInv, NEW n \in Nodes, Dial(n)
    PROVE  EndpointIInv'
<1>1. UNCHANGED <<service, expected, database, listener, events>> /\ probe[n] # NoCommand
  BY Zenon DEF Dial
<1>2. probe \in [Nodes -> Probes] /\ slot \in [Nodes -> Ephemeral] /\ link \in [Nodes -> Links]
  BY Zenon DEF EndpointIInv, Carried
<1>3. CASE /\ link' = [link EXCEPT ![n] = [open |-> TRUE, to |-> probe[n].to, sent |-> 0,
                                           eseq |-> listener[Peer(n)].eseq, frames |-> <<>>]]
           /\ UNCHANGED <<probe, slot>>
  <2>1. probe[n] \in Commands /\ listener[Peer(n)] \in Entries
    BY <1>1, <1>2, PeerIsNode, Zenon DEF Probes, EndpointIInv, Stored
  <2>2. probe[n].to \in Endpoints /\ listener[Peer(n)].eseq \in Nat
    BY <2>1, Zenon DEF Commands, Entries
  <2>3. link' \in [Nodes -> Links]
    BY <1>2, <1>3, <2>2 DEF Links
  <2> QED
    BY <1>1, <1>2, <1>3, <2>3, SessionOnly, ZenonT(30)
<1>4. CASE /\ probe' = [probe EXCEPT ![n] = NoCommand] /\ slot' = [slot EXCEPT ![n] = NoCommand]
           /\ UNCHANGED link
  BY <1>1, <1>2, <1>4, Empty, SessionOnly, Zenon
<1> QED
  BY <1>3, <1>4, Zenon DEF Dial

\* A session that ends loses its commands.
LEMMA EndStep ==
    ASSUME EndpointIInv, NEW n \in Nodes, drop_ephemeral_without_session(n) \/ Disconnect(n)
    PROVE  EndpointIInv'
<1>1. probe \in [Nodes -> Probes] /\ slot \in [Nodes -> Ephemeral] /\ link \in [Nodes -> Links]
  BY Zenon DEF EndpointIInv, Carried
<1>2. /\ probe' \in [Nodes -> Probes] /\ slot' \in [Nodes -> Ephemeral] /\ link' \in [Nodes -> Links]
      /\ UNCHANGED <<service, expected, database, listener, events>>
  BY <1>1, Empty DEF drop_ephemeral_without_session, Disconnect
<1> QED
  BY <1>2, SessionOnly, Zenon

\* What a command adds to a session is a sequence of frames.
LEMMA Sent ==
    ASSUME NEW l \in Links, NEW c \in Commands, c.kind # "Probe" => c.id # 0
    PROVE  send_outbound_command(l, c) \in Links
<1> DEFINE new == {u \in c.updates : u.seq > l.sent}
           k == Cardinality(new)
           latest == IF new = {} THEN 0 ELSE InOrder(new)[k].seq
           told == [i \in 1..k |-> update_frame(InOrder(new)[i])]
           own == [kind |-> c.kind, id |-> IF c.kind = "Probe" THEN latest ELSE c.id]
<1>1. /\ l.sent \in Nat /\ l.frames \in Seq(Frames) /\ c.updates \in UpdateSets
      /\ c.kind \in Kinds /\ c.id \in Nat
  BY Zenon DEF Links, Commands
<1>2. new \in UpdateSets
  BY <1>1, Unsent, Zenon
<1> HIDE DEF new
<1>3. k \in Nat /\ \A i \in 1..k : InOrder(new)[i] \in new
  BY <1>2, InOrderLists, Zenon
<1>4. \A u \in new : u.seq \in Nat /\ update_frame(u) \in Frames
  BY <1>2, Zenon DEF UpdateSets, update_frame, Frames, UpdateFrames
<1>5. new # {} => k # 0
  BY <1>2, FS_EmptySet, Zenon DEF UpdateSets
<1> HIDE DEF k
<1>6. latest \in Nat
  <2>1. CASE new = {}
    BY <2>1, Zenon
  <2>2. CASE new # {}
    <3>1. k \in 1..k
      BY <1>3, <1>5, <2>2
    <3>2. InOrder(new)[k].seq \in Nat
      BY <1>3, <1>4, <3>1, Zenon
    <3> QED
      BY <2>2, <3>2, Zenon
  <2> QED
    BY <2>1, <2>2, Zenon
<1> HIDE DEF latest
<1>7. told \in Seq(Frames)
  <2>1. told \in [1..k -> Frames]
    BY <1>3, <1>4, Zenon
  <2> HIDE DEF told
  <2> QED
    BY <1>3, <2>1
<1>8. own \in Frames
  <2>1. CASE c.kind = "Probe"
    BY <1>6, <2>1, Zenon DEF Frames, ProbeFrames
  <2>2. CASE c.kind # "Probe"
    BY <1>1, <2>2, Zenon DEF Frames, Envelopes, Kinds
  <2> QED
    BY <2>1, <2>2, Zenon
<1> HIDE DEF told, own
<1>9. l.frames \o told \o <<own>> \in Seq(Frames)
  BY <1>1, <1>7, <1>8
<1>10. send_outbound_command(l, c) =
         [l EXCEPT !.sent = IF new = {} THEN @ ELSE latest, !.frames = @ \o told \o <<own>>]
  BY Zenon DEF send_outbound_command, new, k, latest, told, own
<1> QED
  BY <1>1, <1>6, <1>9, <1>10, ZenonT(30) DEF Links

\* The session sends the command that is next, or ends.
LEMMA SendStep ==
    ASSUME EndpointIInv, NEW n \in Nodes, Send(n)
    PROVE  EndpointIInv'
<1> DEFINE c == IF probe[n] # NoCommand THEN probe[n] ELSE slot[n]
<1>1. UNCHANGED <<service, expected, database, listener, events>> /\ c # NoCommand
  BY Zenon DEF Send
<1>2. probe \in [Nodes -> Probes] /\ slot \in [Nodes -> Ephemeral] /\ link \in [Nodes -> Links]
  BY Zenon DEF EndpointIInv, Carried
<1>3. c \in Commands /\ (c.kind # "Probe" => c.id # 0)
  BY <1>1, <1>2, Zenon DEF Probes, Ephemeral
<1>4. \/ link' = [link EXCEPT ![n] = send_outbound_command(link[n], c)]
      \/ link' = [link EXCEPT ![n] = NoLink]
  BY <1>2, Zenon DEF Send
<1>5. probe' \in [Nodes -> Probes] /\ slot' \in [Nodes -> Ephemeral]
  BY <1>2, Empty, Zenon DEF Send
<1> HIDE DEF c
<1>6. send_outbound_command(link[n], c) \in Links
  BY <1>2, <1>3, Sent, Zenon
<1>7. link' \in [Nodes -> Links]
  BY <1>2, <1>4, <1>6, Empty, ZenonT(30)
<1> QED
  BY <1>1, <1>5, <1>7, SessionOnly, Zenon

-----------------------------------------------------------------------------
(* Steps of the listener                                                   *)

\* A frame that is read leaves the others.
LEMMA FrameRead ==
    ASSUME Carried, NEW n \in Nodes, link[n].frames # <<>>
    PROVE  /\ link \in [Nodes -> Links] /\ Head(link[n].frames) \in Frames
           /\ [link EXCEPT ![n].frames = Tail(@)] \in [Nodes -> Links]
           /\ \A e \in Nat : [link EXCEPT ![n].frames = Tail(@), ![n].eseq = e] \in [Nodes -> Links]
<1>1. link \in [Nodes -> Links] /\ link[n] \in Links
  BY Zenon DEF Carried
<1>2. link[n].frames \in Seq(Frames)
  BY <1>1, Zenon DEF Links
<1>3. Head(link[n].frames) \in Frames /\ Tail(link[n].frames) \in Seq(Frames)
  BY <1>2
<1> QED
  BY <1>1, <1>3, Zenon DEF Links

\* An event is added at the end of the queue: what covered the listener still does.
LEMMA CoverAppended ==
    ASSUME EndpointIInv, NEW p \in Nodes, NEW x \in Events,
           events' = [events EXCEPT ![p] = Append(@, x)], UNCHANGED dial,
           \A m \in Nodes : \/ listener'[m].eseq = listener[m].eseq
                            \/ m = p /\ x.kind = "EndpointUpdated" /\ x.seq >= listener'[m].eseq
    PROVE  ListenerCovered' /\ events' \in [Nodes -> Seq(Events)]
<1>1. events \in [Nodes -> Seq(Events)]
  BY Zenon DEF EndpointIInv, Carried
<1>2. Append(events[p], x) \in Seq(Events)
  BY <1>1
<1>3. \A m \in Nodes : events'[m] = IF m = p THEN Append(events[m], x) ELSE events[m]
  BY <1>1, Zenon
<1>4. /\ Len(events[p]) + 1 \in DOMAIN Append(events[p], x) /\ Append(events[p], x)[Len(events[p]) + 1] = x
      /\ \A i \in DOMAIN events[p] : i \in DOMAIN Append(events[p], x) /\ Append(events[p], x)[i] = events[p][i]
  BY <1>1
<1>5. ASSUME NEW m \in Nodes, ~(listener'[m].eseq <= dial'[m].seq)
      PROVE  \E i \in DOMAIN events'[m] : events'[m][i].kind = "EndpointUpdated" /\ events'[m][i].seq >= listener'[m].eseq
  <2>1. CASE listener'[m].eseq = listener[m].eseq
    <3>1. PICK i \in DOMAIN events[m] : events[m][i].kind = "EndpointUpdated" /\ events[m][i].seq >= listener[m].eseq
      BY <1>5, <2>1, Zenon DEF EndpointIInv, ListenerCovered
    <3>2. i \in DOMAIN events'[m] /\ events'[m][i] = events[m][i]
      BY <1>3, <1>4, <3>1, Zenon
    <3> QED
      BY <2>1, <3>1, <3>2, Zenon
  <2>2. CASE m = p /\ x.kind = "EndpointUpdated" /\ x.seq >= listener'[m].eseq
    <3> DEFINE i == Len(events[p]) + 1
    <3>1. i \in DOMAIN events'[m] /\ events'[m][i] = x
      BY <1>3, <1>4, <2>2, Zenon
    <3> HIDE DEF i
    <3> QED
      BY <2>2, <3>1, Zenon
  <2> QED
    BY <1>5, <2>1, <2>2, Zenon
<1> QED
  BY <1>1, <1>2, <1>5, Zenon DEF ListenerCovered

\* The answer to a probe leaves the updates after it.
LEMMA ReceiveProbeStep ==
    ASSUME EndpointIInv, NEW n \in Nodes, Receive(n), ReceiveProbe(n, Head(link[n].frames))
    PROVE  EndpointIInv'
<1> DEFINE f == Head(link[n].frames)
<1>1. /\ f.kind = "Probe" /\ link[n].frames # <<>> /\ link' = [link EXCEPT ![n].frames = Tail(@)]
      /\ updates' = [updates EXCEPT ![n] = {u \in @ : u.seq > f.id}]
      /\ UNCHANGED <<service, expected, local, dial, cap, grant, listener, probe, slot, events>>
  BY Zenon DEF Receive, ReceiveProbe, complete_endpoint_updates
<1>2. f \in Frames /\ link' \in [Nodes -> Links]
  BY <1>1, FrameRead, Zenon DEF EndpointIInv
<1>3. f.id \in Nat
  BY <1>1, <1>2, Zenon DEF Frames, UpdateFrames, ProbeFrames, Envelopes
<1>4. updates \in [Nodes -> UpdateSets]
  BY Zenon DEF EndpointIInv, Stored
<1> HIDE DEF f
<1>5. {u \in updates[n] : u.seq > f.id} \in UpdateSets
  BY <1>3, <1>4, Unsent, Zenon
<1>6. updates' \in [Nodes -> UpdateSets]
  BY <1>1, <1>4, <1>5, Zenon
<1>7. Stored' /\ Carried'
  BY <1>1, <1>2, <1>6, Zenon DEF EndpointIInv, Stored, Carried
<1>8. ListenerCovered' /\ MarkedAtPairing' /\ ListenerFresh'
  BY <1>1, Zenon DEF EndpointIInv, ListenerCovered, MarkedAtPairing, ListenerFresh, endpoint_with_capability
<1> QED
  BY <1>7, <1>8, Zenon DEF EndpointIInv

\* An update raises the listener's sequence, and the event that covers it is
\* queued in the same step.
LEMMA ReceiveUpdateStep ==
    ASSUME EndpointIInv, NEW n \in Nodes, Receive(n), ReceiveUpdate(n, Head(link[n].frames))
    PROVE  EndpointIInv'
<1> DEFINE f == Head(link[n].frames)
           p == Peer(n)
<1>1. /\ f.kind = "Update" /\ link[n].frames # <<>>
      /\ UNCHANGED <<service, expected, database>>
  BY Zenon DEF Receive, ReceiveUpdate, database
<1>2. /\ f \in Frames /\ p \in Nodes /\ link \in [Nodes -> Links]
      /\ [link EXCEPT ![n].frames = Tail(@)] \in [Nodes -> Links]
  BY <1>1, FrameRead, PeerIsNode, Zenon DEF EndpointIInv
<1>3. f.seq \in Nat /\ f.addr \in Nat
  BY <1>1, <1>2, Zenon DEF Frames, UpdateFrames, ProbeFrames, Envelopes
<1>4. [link EXCEPT ![n].frames = Tail(@), ![n].eseq = f.seq] \in [Nodes -> Links]
  BY <1>1, <1>3, FrameRead, Zenon DEF EndpointIInv
<1>5. probe \in [Nodes -> Probes] /\ slot \in [Nodes -> Ephemeral] /\ listener \in [Nodes -> Entries]
  BY Zenon DEF EndpointIInv, Stored, Carried
<1>6. CASE link' = [link EXCEPT ![n].frames = Tail(@)] /\ UNCHANGED <<listener, probe, slot, events>>
  BY <1>1, <1>2, <1>5, <1>6, SessionOnly, Zenon
<1>7. CASE /\ link' = [link EXCEPT ![n] = NoLink] /\ UNCHANGED <<listener, events>>
           /\ probe' = [probe EXCEPT ![n] = NoCommand] /\ slot' = [slot EXCEPT ![n] = NoCommand]
  BY <1>1, <1>2, <1>5, <1>7, Empty, SessionOnly, ZenonT(30)
<1>8. CASE /\ link' = [link EXCEPT ![n].frames = Tail(@), ![n].eseq = f.seq]
           /\ listener' = [listener EXCEPT ![p].eseq = f.seq]
           /\ events' = [events EXCEPT ![p] = Append(@, [kind |-> "EndpointUpdated", seq |-> f.seq, addr |-> f.addr])]
           /\ UNCHANGED <<probe, slot>>
  <2> DEFINE x == [kind |-> "EndpointUpdated", seq |-> f.seq, addr |-> f.addr]
  <2>1. x \in Events /\ x.kind = "EndpointUpdated" /\ x.seq = f.seq
    BY <1>3, Zenon DEF Events
  <2> HIDE DEF f, p
  <2>2. /\ listener' \in [Nodes -> Entries]
        /\ \A m \in Nodes : /\ listener'[m].local = listener[m].local /\ listener'[m].cap = listener[m].cap
                            /\ listener'[m].eseq = IF m = p THEN f.seq ELSE listener[m].eseq
    BY <1>2, <1>3, <1>5, <1>8, ZenonT(30) DEF Entries
  <2>3. Stored'
    BY <1>1, <2>2, Zenon DEF EndpointIInv, Stored, database
  <2>4. \A m \in Nodes : \/ listener'[m].eseq = listener[m].eseq
                         \/ m = p /\ x.kind = "EndpointUpdated" /\ x.seq >= listener'[m].eseq
    BY <1>3, <2>1, <2>2
  <2>5. events' = [events EXCEPT ![p] = Append(@, x)] /\ UNCHANGED dial
    BY <1>1, <1>8, Zenon DEF database
  <2> HIDE DEF x
  <2>6. ListenerCovered' /\ events' \in [Nodes -> Seq(Events)]
    BY <1>2, <2>1, <2>4, <2>5, CoverAppended, Zenon
  <2>7. Carried'
    BY <1>4, <1>5, <1>8, <2>6, Zenon DEF Carried
  <2>8. MarkedAtPairing' /\ UNCHANGED <<local, cap>>
    BY <1>1, Zenon DEF EndpointIInv, MarkedAtPairing, database
  <2>9. ListenerFresh'
    BY <2>2, <2>8, FreshKept, Zenon DEF EndpointIInv
  <2> QED
    BY <2>3, <2>6, <2>7, <2>8, <2>9, Zenon DEF EndpointIInv
<1> QED
  BY <1>6, <1>7, <1>8, Zenon DEF ReceiveUpdate

\* An offer or a revocation is handed to the engine.
LEMMA ReceiveEnvelopeStep ==
    ASSUME EndpointIInv, NEW n \in Nodes, Receive(n), ReceiveEnvelope(n, Head(link[n].frames))
    PROVE  EndpointIInv'
<1> DEFINE f == Head(link[n].frames)
           p == Peer(n)
<1>1. /\ f.kind \in {"Offer", "Revoked"} /\ link[n].frames # <<>> /\ link' = [link EXCEPT ![n].frames = Tail(@)]
      /\ events' = [events EXCEPT ![p] = Append(@, f)]
      /\ UNCHANGED <<service, expected, local, dial, cap, grant, updates, listener, probe, slot>>
  BY Zenon DEF Receive, ReceiveEnvelope
<1>2. f \in Frames /\ p \in Nodes /\ link' \in [Nodes -> Links]
  BY <1>1, FrameRead, PeerIsNode, ZenonT(30) DEF EndpointIInv
<1>3. f \in Events
  BY <1>1, <1>2, Zenon DEF Frames, UpdateFrames, ProbeFrames, Events
<1> HIDE DEF f, p
<1>4. ListenerCovered' /\ events' \in [Nodes -> Seq(Events)]
  BY <1>1, <1>2, <1>3, CoverAppended, ZenonT(30)
<1>5. Stored' /\ Carried'
  BY <1>1, <1>2, <1>4, ZenonT(30) DEF EndpointIInv, Stored, Carried
<1>6. MarkedAtPairing' /\ ListenerFresh'
  BY <1>1, Zenon DEF EndpointIInv, MarkedAtPairing, ListenerFresh, endpoint_with_capability
<1> QED
  BY <1>4, <1>5, <1>6, Zenon DEF EndpointIInv

-----------------------------------------------------------------------------
(* Steps of the engine                                                     *)

\* The first event is handled: if it covered the listener, the tables do now.
LEMMA CoverHandled ==
    ASSUME EndpointIInv, Stored', NEW n \in Nodes, events[n] # <<>>,
           events' = [events EXCEPT ![n] = Tail(@)],
           Head(events[n]).kind = "EndpointUpdated" => Head(events[n]).seq <= dial'[n].seq,
           \A m \in Nodes : /\ dial'[m].seq >= dial[m].seq
                            /\ listener'[m].eseq = listener[m].eseq \/ listener'[m].eseq <= dial'[m].seq
    PROVE  ListenerCovered' /\ events' \in [Nodes -> Seq(Events)]
<1> DEFINE q == events[n]
<1>1. events \in [Nodes -> Seq(Events)] /\ q \in Seq(Events)
  BY Zenon DEF EndpointIInv, Carried
<1>2. /\ Tail(q) \in Seq(Events) /\ Head(q) = q[1] /\ Len(Tail(q)) = Len(q) - 1 /\ Len(q) \in Nat
      /\ DOMAIN q = 1..Len(q) /\ DOMAIN Tail(q) = 1..(Len(q) - 1)
      /\ \A i \in 1..(Len(q) - 1) : Tail(q)[i] = q[i + 1]
  BY <1>1
<1>3. \A m \in Nodes : events'[m] = IF m = n THEN Tail(q) ELSE events[m]
  BY <1>1, Zenon
<1> HIDE DEF q
<1>4. ASSUME NEW m \in Nodes, ~(listener'[m].eseq <= dial'[m].seq)
      PROVE  \E i \in DOMAIN events'[m] : events'[m][i].kind = "EndpointUpdated" /\ events'[m][i].seq >= listener'[m].eseq
  <2>1. listener'[m].eseq = listener[m].eseq /\ dial'[m].seq >= dial[m].seq
    BY <1>4, Zenon
  <2>2. /\ dial[m].seq \in Nat /\ listener[m].eseq \in Nat /\ dial'[m].seq \in Nat
        /\ events[m] \in Seq(Events)
    BY <1>1, Zenon DEF EndpointIInv, Stored, Endpoints, Entries
  <2>3. ~(listener[m].eseq <= dial[m].seq)
    BY <1>4, <2>1, <2>2
  <2>4. PICK i \in DOMAIN events[m] : events[m][i].kind = "EndpointUpdated" /\ events[m][i].seq >= listener[m].eseq
    BY <2>3, Zenon DEF EndpointIInv, ListenerCovered
  <2>5. events[m][i].seq \in Nat
    BY <2>2, <2>4 DEF Events, Envelopes
  <2>6. CASE m # n
    BY <1>3, <2>1, <2>4, <2>6, ZenonT(30)
  <2>7. CASE m = n
    <3>1. i # 1
      BY <1>2, <1>4, <2>1, <2>2, <2>4, <2>5, <2>7 DEF q
    <3>2. i \in 1..Len(q)
      BY <1>2, <2>4, <2>7, Zenon DEF q
    <3>3. i - 1 \in DOMAIN Tail(q) /\ Tail(q)[i - 1] = q[i]
      BY <1>2, <3>1, <3>2
    <3>4. i - 1 \in DOMAIN events'[m] /\ events'[m][i - 1] = events[m][i]
      BY <1>3, <2>7, <3>3, Zenon DEF q
    <3> QED
      BY <2>1, <2>4, <3>4, ZenonT(30)
  <2> QED
    BY <2>6, <2>7, Zenon
<1> QED
  BY <1>1, <1>2, <1>3, <1>4, ZenonT(30) DEF ListenerCovered, q

\* The event at the head of a queue is one.
LEMMA EventRead ==
    ASSUME EndpointIInv, NEW n \in Nodes, events[n] # <<>>
    PROVE  /\ Head(events[n]) \in Events
           /\ Head(events[n]).kind = "EndpointUpdated" => Head(events[n]).seq \in Nat /\ Head(events[n]).addr \in Nat
           /\ Head(events[n]).kind # "EndpointUpdated" => Head(events[n]).id \in Nat \ {0}
<1>1. events[n] \in Seq(Events)
  BY Zenon DEF EndpointIInv, Carried
<1>2. Head(events[n]) \in Events
  BY <1>1
<1> QED
  BY <1>2, Zenon DEF Events, Envelopes

\* An endpoint that is not newer changes nothing.
LEMMA OldUpdateStep ==
    ASSUME EndpointIInv, NEW n \in Nodes, events[n] # <<>>, events' = [events EXCEPT ![n] = Tail(@)],
           Head(events[n]).kind = "EndpointUpdated" => Head(events[n]).seq <= dial[n].seq,
           grant' \in [Nodes -> Grants],
           UNCHANGED <<service, expected, local, dial, cap, updates, listener, probe, slot, link>>
    PROVE  EndpointIInv'
<1>1. Stored'
  BY Zenon DEF EndpointIInv, Stored
<1>2. \A m \in Nodes : dial'[m].seq >= dial[m].seq /\ listener'[m].eseq = listener[m].eseq
  BY DEF EndpointIInv, Stored, Endpoints
<1>3. ListenerCovered' /\ events' \in [Nodes -> Seq(Events)]
  BY <1>1, <1>2, CoverHandled, Zenon
<1>4. Carried'
  BY <1>3, Zenon DEF EndpointIInv, Carried
<1>5. MarkedAtPairing' /\ ListenerFresh'
  BY Zenon DEF EndpointIInv, MarkedAtPairing, ListenerFresh, endpoint_with_capability
<1> QED
  BY <1>1, <1>3, <1>4, <1>5, ZenonT(30) DEF EndpointIInv

\* A newer endpoint is stored without a marker, and the listener follows it when
\* there is an endpoint to authorize the contact for.
LEMMA NewUpdateStep ==
    ASSUME EndpointIInv, NEW n \in Nodes, Handle(n),
           EndpointUpdated(n, Head(events[n])), Head(events[n]).seq > dial[n].seq
    PROVE  EndpointIInv'
<1> DEFINE e == Head(events[n])
           d == [addr |-> e.addr, seq |-> e.seq, cap |-> 0]
           c == ensure_contact_endpoint_capability(cap[n])
           a == authorize_contact(d, local[n], c)
<1>0. events[n] # <<>> /\ e.kind = "EndpointUpdated"
  BY Zenon DEF Handle, EndpointUpdated
<1>2. e.seq \in Nat /\ e.addr \in Nat /\ dial[n].seq \in Nat
  BY <1>0, EventRead, Zenon DEF EndpointIInv, Stored, Endpoints
<1>1. /\ events[n] # <<>> /\ events' = [events EXCEPT ![n] = Tail(@)] /\ e.kind = "EndpointUpdated"
      /\ UNCHANGED <<service, expected, local, grant, updates, slot, link>>
      /\ dial' = [dial EXCEPT ![n] = put_contact_peer_endpoint(@, d)]
      /\ cap' = [cap EXCEPT ![n] = c] /\ queue_peer_probe(n)
  <2>1. ~(e.seq <= dial[n].seq)
    BY <1>2
  <2> QED
    BY <2>1, Zenon DEF Handle, EndpointUpdated
<1>3. /\ dial \in [Nodes -> Endpoints] /\ cap \in [Nodes -> Minted] /\ local \in [Nodes -> Locals]
      /\ listener \in [Nodes -> Entries] /\ \A m \in Nodes : dial[m].seq \in Nat
  BY Zenon DEF EndpointIInv, Stored, Endpoints
<1>4. c \in Minted
  BY <1>3, Made, Zenon
<1>5. d \in Endpoints /\ d.seq = e.seq /\ d.cap = 0
  BY <1>2, Zenon DEF Endpoints
<1>6. dial' = [dial EXCEPT ![n] = d]
  BY <1>1, <1>3, ZenonT(30) DEF put_contact_peer_endpoint
<1>7. /\ a \in Entries /\ a.eseq = d.seq
      /\ a.local = endpoint_with_capability(local[n], c) /\ a.cap = c.id
  BY <1>3, <1>4, <1>5, Made
<1>8. dial'[n] = d /\ cap'[n] = c
  BY <1>1, <1>3, <1>6, Zenon
<1>9. listener' = IF local[n] = NoLocal THEN listener ELSE [listener EXCEPT ![n] = a]
  BY <1>2, <1>3, <1>8 DEF EndpointUpdated
<1> HIDE DEF e, d, c, a
<1>10. Stored'
  BY <1>1, <1>3, <1>4, <1>5, <1>6, <1>7, <1>9, ZenonT(30) DEF EndpointIInv, Stored
<1>11. \A m \in Nodes : /\ dial'[m].seq >= dial[m].seq
                        /\ listener'[m].eseq = listener[m].eseq \/ listener'[m].eseq <= dial'[m].seq
  <2>1. e.seq > dial[n].seq
    BY Zenon DEF e
  <2>2. \A m \in Nodes : dial'[m] = IF m = n THEN d ELSE dial[m]
    BY <1>3, <1>6, Zenon
  <2>3. \A m \in Nodes : listener'[m] = listener[m] \/ (m = n /\ listener'[m].eseq = d.seq)
    BY <1>3, <1>7, <1>9, Zenon
  <2> QED
    BY <1>2, <1>3, <1>5, <2>1, <2>2, <2>3
<1>12. ListenerCovered' /\ events' \in [Nodes -> Seq(Events)]
  <2>1. Head(events[n]).seq <= dial'[n].seq
    BY <1>2, <1>5, <1>8 DEF e
  <2> QED
    BY <1>1, <1>10, <1>11, <2>1, CoverHandled, Zenon
<1>13. probe' \in [Nodes -> Probes]
  BY <1>1, <1>10, ProbeQueued, Zenon DEF EndpointIInv, Carried
<1>14. Carried'
  BY <1>1, <1>12, <1>13, ZenonT(30) DEF EndpointIInv, Carried
<1>15. MarkedAtPairing'
  BY <1>3, <1>5, <1>6, Zenon DEF EndpointIInv, MarkedAtPairing
<1>16. ListenerFresh'
  <2>1. \A m \in Nodes : IF m = n THEN \/ local'[m] = NoLocal
                                       \/ /\ listener'[m].local = endpoint_with_capability(local'[m], cap'[m])
                                          /\ listener'[m].cap = cap'[m].id
                         ELSE listener'[m] = listener[m] /\ local'[m] = local[m] /\ cap'[m] = cap[m]
    BY <1>1, <1>3, <1>7, <1>9, ZenonT(30)
  <2> QED
    BY <2>1, FreshKept, Zenon DEF EndpointIInv
<1> QED
  BY <1>10, <1>12, <1>14, <1>15, <1>16, ZenonT(30) DEF EndpointIInv

\* An offer that is stored raises the grant's sequence; a revoked grant keeps it.
LEMMA GrantStored ==
    ASSUME EndpointIInv, NEW n \in Nodes, NEW id \in Nat \ {0}
    PROVE  /\ put_peer_endpoint_capability(grant[n], id) \in Grants
           /\ put_peer_endpoint_capability(grant[n], id).seq >= grant[n].seq
           /\ revoke_peer_endpoint_capability(grant[n]) \in Grants
           /\ revoke_peer_endpoint_capability(grant[n]).seq = grant[n].seq
           /\ grant \in [Nodes -> Grants]
<1>1. grant \in [Nodes -> Grants] /\ grant[n] \in Grants
  BY Zenon DEF EndpointIInv, Stored
<1>2. grant[n].seq \in Nat
  BY <1>1, Zenon DEF Grants
<1>3. /\ put_peer_endpoint_capability(grant[n], id) \in Grants
      /\ put_peer_endpoint_capability(grant[n], id).seq >= grant[n].seq
  BY <1>1, <1>2 DEF Grants, put_peer_endpoint_capability
<1>4. /\ revoke_peer_endpoint_capability(grant[n]) \in Grants
      /\ revoke_peer_endpoint_capability(grant[n]).seq = grant[n].seq
  BY <1>1, Zenon DEF Grants, revoke_peer_endpoint_capability
<1> QED
  BY <1>1, <1>3, <1>4, Zenon

\* An offer is stored and answered.
LEMMA OfferStep ==
    ASSUME EndpointIInv, NEW n \in Nodes, Handle(n), CapabilityOffer(n, Head(events[n]))
    PROVE  EndpointIInv'
<1> DEFINE e == Head(events[n])
           g == put_peer_endpoint_capability(grant[n], e.id)
<1>1. /\ events[n] # <<>> /\ events' = [events EXCEPT ![n] = Tail(@)] /\ e.kind = "Offer"
      /\ grant' = [grant EXCEPT ![n] = g] /\ queue_peer_probe(n)
      /\ UNCHANGED <<service, expected, local, dial, updates, listener, link>>
  BY Zenon DEF Handle, CapabilityOffer
<1>2. e.id \in Nat \ {0}
  BY <1>1, EventRead, Zenon
<1>3. grant' \in [Nodes -> Grants]
  BY <1>1, <1>2, GrantStored, Zenon
<1>4. PICK c \in {cap[n], ensure_contact_endpoint_capability(cap[n])} : cap' = [cap EXCEPT ![n] = c]
  BY Zenon DEF CapabilityOffer
<1>5. c \in Minted /\ (c = Paired => cap[n] = Paired) /\ cap \in [Nodes -> Minted]
  <2>1. cap \in [Nodes -> Minted] /\ cap[n] \in Minted /\ local[n] \in Locals /\ dial[n] \in Endpoints
    BY Zenon DEF EndpointIInv, Stored
  <2> QED
    BY <1>4, <2>1, Made, Zenon
<1>6. Stored'
  BY <1>1, <1>3, <1>4, <1>5, ZenonT(30) DEF EndpointIInv, Stored
<1>7. ListenerCovered' /\ events' \in [Nodes -> Seq(Events)]
  <2>1. \A m \in Nodes : dial'[m].seq >= dial[m].seq /\ listener'[m].eseq = listener[m].eseq
    BY <1>1 DEF EndpointIInv, Stored, Endpoints
  <2>2. Head(events[n]).kind # "EndpointUpdated"
    BY <1>1, Zenon
  <2> QED
    BY <1>1, <1>6, <2>1, <2>2, CoverHandled, ZenonT(30)
<1>8. probe' \in [Nodes -> Probes]
  BY <1>1, <1>6, ProbeQueued, Zenon DEF EndpointIInv, Carried
<1>9. slot' \in [Nodes -> Ephemeral]
  <2>1. slot \in [Nodes -> Ephemeral]
    BY Zenon DEF EndpointIInv, Carried
  <2>2. UNCHANGED slot \/ send_capability_offer(n) \/ slot' = [slot EXCEPT ![n] = NoCommand]
    BY Zenon DEF CapabilityOffer
  <2> QED
    BY <1>6, <2>1, <2>2, OfferFilled, Empty, Zenon
<1>10. Carried'
  BY <1>1, <1>7, <1>8, <1>9, Zenon DEF EndpointIInv, Carried
<1>11. MarkedAtPairing'
  BY <1>1, Zenon DEF EndpointIInv, MarkedAtPairing
<1>12. ListenerFresh'
  <2>1. \A m \in Nodes : cap'[m] # Paired \/ cap'[m] = cap[m]
    BY <1>4, <1>5, Zenon
  <2> QED
    BY <1>1, <2>1, FreshKept, Zenon DEF EndpointIInv
<1> QED
  BY <1>6, <1>7, <1>10, <1>11, <1>12, ZenonT(30) DEF EndpointIInv

\* Whatever event is handled.
LEMMA HandleStep ==
    ASSUME EndpointIInv, NEW n \in Nodes, Handle(n)
    PROVE  EndpointIInv'
<1> DEFINE e == Head(events[n])
<1>1. /\ events[n] # <<>> /\ events' = [events EXCEPT ![n] = Tail(@)]
      /\ UNCHANGED <<service, expected, link>>
  BY Zenon DEF Handle
<1>2. CASE EndpointUpdated(n, e)
  <2>1. CASE e.seq > dial[n].seq
    BY <1>2, <2>1, NewUpdateStep, Zenon
  <2>2. CASE ~(e.seq > dial[n].seq)
    <3>1. UNCHANGED <<local, dial, cap, grant, updates, listener, probe, slot>> /\ e.seq <= dial[n].seq
      BY <1>2, <2>2, Zenon DEF EndpointUpdated
    <3>2. grant' \in [Nodes -> Grants]
      BY <3>1, Zenon DEF EndpointIInv, Stored
    <3> QED
      BY <1>1, <3>1, <3>2, OldUpdateStep, ZenonT(30)
  <2> QED
    BY <2>1, <2>2, ZenonT(30)
<1>3. CASE CapabilityOffer(n, e)
  BY <1>3, OfferStep, ZenonT(30)
<1>4. CASE CapabilityRevoked(n, e)
  <2>1. /\ e.kind = "Revoked" /\ grant' = [grant EXCEPT ![n] = revoke_peer_endpoint_capability(grant[n])]
        /\ UNCHANGED <<local, dial, cap, updates, listener, probe, slot>>
    BY <1>4, Zenon DEF CapabilityRevoked
  <2>2. e.id \in Nat \ {0}
    BY <1>1, <2>1, EventRead, Zenon
  <2>3. grant' \in [Nodes -> Grants]
    BY <2>1, <2>2, GrantStored, ZenonT(30)
  <2>4. Head(events[n]).kind # "EndpointUpdated"
    BY <2>1, Zenon
  <2> QED
    BY <1>1, <2>1, <2>3, <2>4, OldUpdateStep, ZenonT(30)
<1> QED
  BY <1>2, <1>3, <1>4, Zenon DEF Handle

-----------------------------------------------------------------------------
(* The theorems                                                            *)

\* The invariant holds when the two have been paired.
LEMMA EndpointInit == Init => EndpointIInv
<1> SUFFICES ASSUME Init PROVE EndpointIInv
  OBVIOUS
<1>1. \A n \in Nodes : Peer(n) \in Nodes /\ PairedAt[n] \in Nat
  BY PeerIsNode, PeerEndpointsAssumption, ZenonT(30)
<1>2. /\ local \in [Nodes -> Locals] /\ cap \in [Nodes -> Minted]
      /\ \A n \in Nodes : cap[n] = Paired
  BY <1>1 DEF Init, Locals, Minted, Paired
<1>3. /\ dial = [n \in Nodes |-> endpoint_with_capability(local[Peer(n)], cap[Peer(n)])]
      /\ grant = [n \in Nodes |-> [id |-> 1, seq |-> dial[n].seq, revoked |-> FALSE]]
      /\ listener = [n \in Nodes |-> authorize_contact(dial[n], local[n], cap[n])]
  BY Zenon DEF Init
<1>4. \A n \in Nodes : dial[n] \in Endpoints /\ dial[n].seq \in Nat /\ dial[n].cap = 1
  <2> SUFFICES ASSUME NEW n \in Nodes
               PROVE  dial[n] \in Endpoints /\ dial[n].seq \in Nat /\ dial[n].cap = 1
    OBVIOUS
  <2>1. local[Peer(n)] \in Locals /\ cap[Peer(n)] = Paired
    BY <1>1, <1>2, Zenon
  <2> QED
    BY <1>3, <2>1 DEF endpoint_with_capability, Endpoints, Locals, Paired
<1>5. \A n \in Nodes : /\ listener[n] \in Entries /\ listener[n].eseq = dial[n].seq
                       /\ listener[n].local = endpoint_with_capability(local[n], cap[n]) /\ listener[n].cap = cap[n].id
  BY <1>2, <1>3, <1>4, Made
<1>6. Stored
  <2>1. {} \in UpdateSets
    BY FS_EmptySet, Zenon DEF UpdateSets
  <2>2. updates \in [Nodes -> UpdateSets]
    BY <2>1, Zenon DEF Init
  <2>3. service \in [Nodes -> [addr : Nat \ {0}, gen : Nat]] /\ expected \in [Nodes -> Nat \ {0}]
    BY DEF Init
  <2>4. dial \in [Nodes -> Endpoints] /\ grant \in [Nodes -> Grants] /\ listener \in [Nodes -> Entries]
    BY <1>3, <1>4, <1>5 DEF Grants
  <2> QED
    BY <1>2, <2>2, <2>3, <2>4, Zenon DEF Stored
<1>7. Carried
  BY Empty DEF Init, Carried
<1>8. ListenerCovered
  BY <1>4, <1>5 DEF ListenerCovered
<1>9. MarkedAtPairing
  BY <1>4, Zenon DEF MarkedAtPairing
<1>10. ListenerFresh
  <2>1. \A n \in Nodes : cap[n].id = 1
    BY <1>2 DEF Paired
  <2> QED
    BY <1>5, <2>1, Zenon DEF ListenerFresh
<1> QED
  BY <1>6, <1>7, <1>8, <1>9, <1>10, ZenonT(30) DEF EndpointIInv

\* Every step keeps the invariant.
LEMMA EndpointStep == EndpointIInv /\ [Next]_vars => EndpointIInv'
<1> SUFFICES ASSUME EndpointIInv, [Next]_vars PROVE EndpointIInv'
  BY Zenon
<1>1. CASE UNCHANGED vars
  <2>1. UNCHANGED <<service, expected, database, listener, events, probe, slot, link>>
    BY <1>1, ZenonT(30) DEF vars, transport
  <2> QED
    BY <2>1, SessionOnly, Zenon DEF EndpointIInv, Carried
<1>2. ASSUME NEW n \in Nodes, Receive(n) PROVE EndpointIInv'
  BY <1>2, ReceiveProbeStep, ReceiveUpdateStep, ReceiveEnvelopeStep, ZenonT(30) DEF Receive
<1>3. ASSUME NEW n \in Nodes,
             \/ Configure(n) \/ rotate_peer_endpoint(n) \/ OnionServiceAvailable(n) \/ OnionServiceLost(n)
             \/ Crash(n) \/ CrashBeforeEnqueue(n)
      PROVE  EndpointIInv'
  BY <1>3, ConfigureStep, RotateStep, AvailableStep, LostStep, CrashStep, CrashBeforeStep, Zenon
<1>4. ASSUME NEW n \in Nodes,
             \/ get_contact_endpoint_capability(n) \/ rotate_contact_endpoint_capability(n)
             \/ revoke_contact_endpoint_capability(n) \/ Probe(n)
      PROVE  EndpointIInv'
  BY <1>4, GetStep, RotateCapabilityStep, RevokeCapabilityStep, ProbeStep, Zenon
<1>5. ASSUME NEW n \in Nodes,
             \/ Dial(n) \/ drop_ephemeral_without_session(n) \/ Disconnect(n) \/ Send(n) \/ Handle(n)
      PROVE  EndpointIInv'
  BY <1>5, DialStep, EndStep, SendStep, HandleStep, Zenon
<1> QED
  BY <1>1, <1>2, <1>3, <1>4, <1>5, Zenon DEF Next

\* Every reachable state satisfies the inductive invariant.
THEOREM EndpointHolds == Spec => []EndpointIInv
BY EndpointInit, EndpointStep, PTL DEF Spec

\* The tables are well typed, and cover what the listener asks of the contact.
THEOREM EndpointsCovered == Spec => []EndpointInv
<1>1. EndpointIInv => EndpointInv
  <2> SUFFICES ASSUME EndpointIInv PROVE TypeOK /\ ListenerCovered
    BY Zenon DEF EndpointInv
  <2>1. \A n \in Nodes : /\ probe[n].kind \in {"none", "Probe"} /\ slot[n].kind \in {"none", "Offer", "Revoked"}
                         /\ \A u \in updates[n] : u.seq = u.prev + 1
    BY DEF EndpointIInv, Stored, Carried, Probes, Ephemeral, NoCommand, UpdateSets
  <2> QED
    BY <2>1, Zenon DEF EndpointIInv, Stored, TypeOK, Locals, Minted, Grants, Entries
<1> QED
  BY <1>1, EndpointHolds, PTL

\* A contact that holds what this side has stored gets a session.
THEOREM GrantedIsAdmitted == Spec => []AdmitsWhatItGranted
<1>1. EndpointIInv => AdmitsWhatItGranted
  <2> SUFFICES ASSUME EndpointIInv, NEW n \in Nodes, Matched(n)
               PROVE  /\ authenticate_inbound([to |-> dial[n], hello |-> local[n].seq + 1, secret |-> grant[n].id], Peer(n))
                      /\ listener[Peer(n)].local = dial[n]
    BY Zenon DEF AdmitsWhatItGranted
  <2> DEFINE p == Peer(n)
  <2>1. p \in Nodes
    BY PeerIsNode, Zenon
  <2>2. /\ local[p] # NoLocal /\ ~cap[p].revoked /\ dial[n] = endpoint_with_capability(local[p], cap[p])
        /\ grant[n].id = cap[p].id /\ local[n].seq + 1 >= dial[p].seq /\ ~UpdatePending(p)
    BY Zenon DEF Matched
  <2> HIDE DEF p
  <2>3. cap[p] \in Minted /\ dial[n].cap \in {0, 1}
    BY <2>1, Zenon DEF EndpointIInv, Stored, MarkedAtPairing
  <2>4. dial[n].cap = cap[p].id
    BY <2>2 DEF endpoint_with_capability
  <2>5. cap[p].id = 1 /\ cap[p] = Paired
    BY <2>2, <2>3, <2>4, Zenon DEF Minted, Paired
  <2>6. listener[p].local = dial[n] /\ listener[p].cap = 1
    BY <2>1, <2>2, <2>5, ZenonT(30) DEF EndpointIInv, ListenerFresh
  <2>7. listener[p].eseq <= dial[p].seq
    BY <2>1, <2>2, Zenon DEF EndpointIInv, ListenerCovered, UpdatePending
  <2>8. local[n].seq + 1 >= listener[p].eseq
    BY <2>1, <2>2, <2>7 DEF EndpointIInv, Stored, Locals, Endpoints, Entries
  <2>9. listener[p] # NoListener
    BY <2>6 DEF NoListener
  <2> QED
    BY <2>2, <2>4, <2>5, <2>6, <2>8, <2>9, ZenonT(30) DEF authenticate_inbound, p
<1> QED
  BY <1>1, EndpointHolds, PTL

\* A stored endpoint or grant is replaced by a newer one only.
LEMMA OnlyForward ==
    EndpointIInv /\ [Next]_vars => \A n \in Nodes : dial'[n].seq >= dial[n].seq /\ grant'[n].seq >= grant[n].seq
<1> SUFFICES ASSUME EndpointIInv, [Next]_vars
             PROVE  \A m \in Nodes : dial'[m].seq >= dial[m].seq /\ grant'[m].seq >= grant[m].seq
  BY Zenon
<1>1. /\ dial \in [Nodes -> Endpoints] /\ grant \in [Nodes -> Grants]
      /\ \A m \in Nodes : dial[m].seq \in Nat /\ grant[m].seq \in Nat
  BY Zenon DEF EndpointIInv, Stored, Endpoints, Grants
<1>2. CASE UNCHANGED <<dial, grant>>
  BY <1>1, <1>2
<1>3. ASSUME NEW n \in Nodes, Handle(n)
      PROVE  \A m \in Nodes : dial'[m].seq >= dial[m].seq /\ grant'[m].seq >= grant[m].seq
  <2> DEFINE e == Head(events[n])
  <2>1. events[n] # <<>>
    BY <1>3, Zenon DEF Handle
  <2>2. CASE EndpointUpdated(n, e)
    <3>1. e.seq \in Nat /\ e.addr \in Nat
      BY <2>1, <2>2, EventRead, ZenonT(30) DEF EndpointUpdated
    <3>2. CASE dial' = [dial EXCEPT ![n] = put_contact_peer_endpoint(dial[n], [addr |-> e.addr, seq |-> e.seq, cap |-> 0])]
      <4>1. put_contact_peer_endpoint(dial[n], [addr |-> e.addr, seq |-> e.seq, cap |-> 0]).seq >= dial[n].seq
        BY <1>1, <3>1 DEF put_contact_peer_endpoint
      <4>2. UNCHANGED grant
        BY <2>2, Zenon DEF EndpointUpdated
      <4> QED
        BY <1>1, <3>2, <4>1, <4>2
    <3>3. CASE UNCHANGED dial
      BY <1>2, <2>2, <3>3, ZenonT(30) DEF EndpointUpdated
    <3> QED
      BY <2>2, <3>2, <3>3, ZenonT(30) DEF EndpointUpdated
  <2>3. CASE CapabilityOffer(n, e)
    <3>1. e.id \in Nat \ {0}
      BY <2>1, <2>3, EventRead, ZenonT(30) DEF CapabilityOffer
    <3>2. UNCHANGED dial /\ grant' = [grant EXCEPT ![n] = put_peer_endpoint_capability(grant[n], e.id)]
      BY <2>3, Zenon DEF CapabilityOffer
    <3>3. put_peer_endpoint_capability(grant[n], e.id).seq >= grant[n].seq
      BY <3>1, GrantStored, ZenonT(30)
    <3> QED
      BY <1>1, <3>2, <3>3
  <2>4. CASE CapabilityRevoked(n, e)
    <3>1. UNCHANGED dial /\ grant' = [grant EXCEPT ![n] = revoke_peer_endpoint_capability(grant[n])]
      BY <2>4, Zenon DEF CapabilityRevoked
    <3>2. revoke_peer_endpoint_capability(grant[n]).seq = grant[n].seq
      BY GrantStored
    <3> QED
      BY <1>1, <3>1, <3>2
  <2> QED
    BY <1>3, <2>2, <2>3, <2>4, ZenonT(30) DEF Handle
<1>4. ASSUME NEW n \in Nodes,
             \/ Configure(n) \/ rotate_peer_endpoint(n) \/ OnionServiceAvailable(n) \/ OnionServiceLost(n)
             \/ Crash(n) \/ CrashBeforeEnqueue(n)
      PROVE  UNCHANGED <<dial, grant>>
  BY <1>4, Zenon DEF Configure, rotate_peer_endpoint, OnionServiceAvailable, OnionServiceLost, Crash, CrashBeforeEnqueue,
              Restart, database
<1>5. ASSUME NEW n \in Nodes,
             \/ get_contact_endpoint_capability(n) \/ rotate_contact_endpoint_capability(n)
             \/ revoke_contact_endpoint_capability(n) \/ Probe(n)
             \/ Dial(n) \/ drop_ephemeral_without_session(n) \/ Disconnect(n) \/ Send(n) \/ Receive(n)
      PROVE  UNCHANGED <<dial, grant>>
  BY <1>5, Zenon DEF get_contact_endpoint_capability, rotate_contact_endpoint_capability, revoke_contact_endpoint_capability,
              Probe, Dial, drop_ephemeral_without_session, Disconnect, Send, Receive, database
<1>6. CASE UNCHANGED vars
  BY <1>2, <1>6, Zenon DEF vars, database
<1> QED
  BY <1>2, <1>3, <1>4, <1>5, <1>6, Zenon DEF Next

\* Replayed and delayed updates and offers never take a stored endpoint or grant back.
THEOREM StoredNeverBack == Spec => NeverBack
<1>1. EndpointIInv /\ [Next]_vars =>
        [\A n \in Nodes : dial'[n].seq >= dial[n].seq /\ grant'[n].seq >= grant[n].seq]_vars
  BY OnlyForward, Zenon
<1> QED
  BY <1>1, EndpointHolds, PTL DEF Spec, NeverBack
=============================================================================
