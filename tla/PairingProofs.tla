---------------------------- MODULE PairingProofs ----------------------------
(***************************************************************************)
(* Theorems about Pairing, for any engines, pairings and bounds.  The      *)
(* lemmas here are about the steps that consume an invite and those that   *)
(* submit a request and store it.  The other steps, and the inductive      *)
(* invariant PairIInv, are in PairingStepProofs.                           *)
(***************************************************************************)
EXTENDS PairingStepProofs

-----------------------------------------------------------------------------
(* Steps that consume an invite                                            *)

\* The owner consumes a new one, which has no group yet.
LEMMA OwnerCommits ==
    ASSUME PairIInv, NEW e \in Engines, NEW p \in Pairings, e = Owner[p], p \notin used[e], group[e] = 0,
           created' = [created EXCEPT ![p] = @ + 1], commit_contact_with_conversation(e, p, {p})
    PROVE  /\ Ledger' /\ OneGroup' /\ used' \in [Engines -> SUBSET Pairings] /\ group' \in [Engines -> Pairings \cup {0}]
           /\ welcomes' \in [Engines -> SUBSET Pairings] /\ invites' \in [Engines -> SUBSET Pairings]
           /\ created' \in [Pairings -> {0, 1}]
           /\ \A d \in Engines : used[d] \subseteq used'[d]
           /\ p \in used'[e]
<1>1. /\ used \in [Engines -> SUBSET Pairings] /\ group \in [Engines -> Pairings \cup {0}]
      /\ welcomes \in [Engines -> SUBSET Pairings] /\ invites \in [Engines -> SUBSET Pairings]
      /\ created \in [Pairings -> {0, 1}]
  BY Zenon DEF PairIInv, StoredTypes
<1>2. /\ used' = [used EXCEPT ![e] = @ \cup {p}] /\ group' = [group EXCEPT ![e] = p]
      /\ welcomes' = [welcomes EXCEPT ![e] = @ \cup {p}] /\ invites' = invites
  BY <1>1, Zenon DEF commit_contact_with_conversation, consume_invite, welcome_accepted, promote_contact_with_status
<1>3. created[p] = 0
  BY <1>1, Zenon DEF PairIInv, Consumed, Ledger
<1>4. /\ used' \in [Engines -> SUBSET Pairings] /\ group' \in [Engines -> Pairings \cup {0}]
      /\ welcomes' \in [Engines -> SUBSET Pairings] /\ created' \in [Pairings -> {0, 1}]
  BY <1>1, <1>2, <1>3
<1>5. /\ used'[e] = used[e] \cup {p} /\ group'[e] = p /\ welcomes'[e] = welcomes[e] \cup {p}
      /\ \A d \in Engines \ {e} : used'[d] = used[d] /\ group'[d] = group[d] /\ welcomes'[d] = welcomes[d]
  BY <1>1, <1>2, Zenon
<1>b. \A d \in Engines : \A q : /\ q \in used'[d] <=> q \in used[d] \/ (d = e /\ q = p)
                                /\ q \in welcomes'[d] <=> q \in welcomes[d] \/ (d = e /\ q = p)
  BY <1>5
<1>6. \A q \in Pairings \ {p} : created'[q] = created[q]
  BY <1>1, Zenon
<1>7. /\ Joiner \in [Pairings -> Engines] /\ Owner \in [Pairings -> Engines] /\ \A q \in Pairings : Joiner[q] # Owner[q]
      /\ 0 \notin Pairings
  BY PairingAssumption, Zenon
<1>a. Ledger /\ \A q \in Pairings : Owner[q] \in Engines /\ Joiner[q] \in Engines
  BY <1>7, Zenon DEF PairIInv, Consumed
<1>8. Ledger'
  <2>1. ASSUME NEW d \in Engines, NEW q \in welcomes'[d] PROVE d = Owner[q] /\ q \in used'[d]
    <3>1. CASE q \in welcomes[d]
      BY <1>b, <1>a, <3>1, Zenon DEF Ledger
    <3>2. CASE q \notin welcomes[d]
      BY <1>b, <2>1, <3>2, Zenon
    <3> QED
      BY <3>1, <3>2, Zenon
  <2>2. ASSUME NEW q \in Pairings, created'[q] # 0 PROVE q \in used'[Owner[q]]
    <3>1. CASE q = p
      BY <1>b, <3>1, Zenon
    <3>2. CASE q # p
      BY <1>b, <1>6, <1>a, <2>2, <3>2, Zenon DEF Ledger
    <3> QED
      BY <3>1, <3>2, Zenon
  <2>3. ASSUME NEW q \in Pairings, q \in used'[Joiner[q]] PROVE q \in used'[Owner[q]]
    <3>1. CASE q = p
      BY <1>b, <3>1, Zenon
    <3>2. CASE q # p
      BY <1>b, <1>a, <2>3, <3>2, ZenonT(30) DEF Ledger
    <3> QED
      BY <3>1, <3>2, Zenon
  <2>4. ASSUME NEW d \in Engines, group'[d] # 0 PROVE group'[d] \in used'[d]
    BY <1>5, <1>b, <1>a, <2>4 DEF Ledger
  <2>5. ASSUME NEW d \in Engines, NEW q \in used'[d] PROVE d \in {Owner[q], Joiner[q]}
    BY <1>b, <1>a, ZenonT(30) DEF Ledger
  <2> QED
    BY <2>1, <2>2, <2>3, <2>4, <2>5, Zenon DEF Ledger
<1>9. OneGroup'
  <2>1. SUFFICES ASSUME OneWay, NEW q \in Pairings PROVE used'[Owner[q]] \subseteq {group'[Owner[q]]}
    BY Zenon DEF OneGroup, OneWay
  <2>2. Owner[q] = e /\ used[e] \subseteq {0}
    BY <2>1, Zenon DEF OneWay, PairIInv, OneGroup
  <2>3. used[e] = {}
    BY <1>1, <1>7, <2>2
  <2> QED
    BY <1>5, <2>2, <2>3, Zenon
<1> QED
  BY <1>1, <1>2, <1>4, <1>5, <1>8, <1>9, Zenon

\* The joiner consumes an invite that its owner has consumed.
LEMMA JoinerCommits ==
    ASSUME PairIInv, NEW e \in Engines, NEW p \in Pairings, e = Joiner[p], p \in used[Owner[p]],
           created' = created, commit_contact_with_conversation(e, p, {})
    PROVE  /\ Ledger' /\ OneGroup' /\ used' \in [Engines -> SUBSET Pairings] /\ group' \in [Engines -> Pairings \cup {0}]
           /\ welcomes' \in [Engines -> SUBSET Pairings] /\ invites' \in [Engines -> SUBSET Pairings]
           /\ created' \in [Pairings -> {0, 1}]
           /\ \A d \in Engines : used[d] \subseteq used'[d]
           /\ p \in used'[e]
<1>1. /\ used \in [Engines -> SUBSET Pairings] /\ group \in [Engines -> Pairings \cup {0}]
      /\ welcomes \in [Engines -> SUBSET Pairings] /\ invites \in [Engines -> SUBSET Pairings]
      /\ created \in [Pairings -> {0, 1}]
  BY Zenon DEF PairIInv, StoredTypes
<1>2. /\ used' = [used EXCEPT ![e] = @ \cup {p}] /\ group' = [group EXCEPT ![e] = p]
      /\ welcomes' = [welcomes EXCEPT ![e] = @ \cup {}] /\ invites' = [invites EXCEPT ![e] = @ \ {p}]
  BY Zenon DEF commit_contact_with_conversation, consume_invite, welcome_accepted, promote_contact_with_status
<1>3. welcomes' = welcomes
  BY <1>1, <1>2, Zenon
<1>4. /\ used' \in [Engines -> SUBSET Pairings] /\ group' \in [Engines -> Pairings \cup {0}]
      /\ invites' \in [Engines -> SUBSET Pairings]
  BY <1>1, <1>2, Zenon
<1>5. /\ used'[e] = used[e] \cup {p} /\ group'[e] = p
      /\ \A d \in Engines \ {e} : used'[d] = used[d] /\ group'[d] = group[d]
  BY <1>1, <1>2, Zenon
<1>b. \A d \in Engines : \A q : q \in used'[d] <=> q \in used[d] \/ (d = e /\ q = p)
  BY <1>5
<1>6. \A d \in Engines : used[d] \subseteq used'[d]
  BY <1>5, Zenon
<1>7. /\ Joiner \in [Pairings -> Engines] /\ Owner \in [Pairings -> Engines] /\ \A q \in Pairings : Joiner[q] # Owner[q]
  BY PairingAssumption, Zenon
<1>a. Ledger /\ \A q \in Pairings : Owner[q] \in Engines /\ Joiner[q] \in Engines
  BY <1>7, Zenon DEF PairIInv, Consumed
<1>8. Ledger'
  <2>1. \A d \in Engines : \A q \in welcomes'[d] : d = Owner[q] /\ q \in used'[d]
    BY <1>3, <1>6, <1>a, Zenon DEF Ledger
  <2>2. \A q \in Pairings : created'[q] # 0 => q \in used'[Owner[q]]
    BY <1>6, <1>7, <1>a, Zenon DEF Ledger
  <2>3. ASSUME NEW q \in Pairings, q \in used'[Joiner[q]] PROVE q \in used'[Owner[q]]
    <3>1. CASE q = p
      BY <1>6, <1>a, <3>1, Zenon
    <3>2. CASE q # p
      BY <1>b, <1>a, <2>3, <3>2, ZenonT(30) DEF Ledger
    <3> QED
      BY <3>1, <3>2, Zenon
  <2>4. \A d \in Engines : group'[d] # 0 => group'[d] \in used'[d]
    BY <1>5, <1>a DEF Ledger
  <2>5. ASSUME NEW d \in Engines, NEW q \in used'[d] PROVE d \in {Owner[q], Joiner[q]}
    BY <1>b, <1>a DEF Ledger
  <2> QED
    BY <2>1, <2>2, <2>3, <2>4, <2>5, Zenon DEF Ledger
<1>9. OneGroup'
  <2>1. SUFFICES ASSUME OneWay, NEW q \in Pairings PROVE used'[Owner[q]] \subseteq {group'[Owner[q]]}
    BY Zenon DEF OneGroup, OneWay
  <2>2. Owner[q] \in Engines /\ Owner[q] # e
    BY <1>7, <2>1, Zenon DEF OneWay
  <2> QED
    BY <1>5, <2>1, <2>2, Zenon DEF PairIInv, OneGroup
<1> QED
  BY <1>1, <1>3, <1>4, <1>5, <1>6, <1>8, <1>9, Zenon

\* A request that can be accepted is the owner's, and its invite is new only when
\* there is no contact.
LEMMA Acceptable ==
    ASSUME PairIInv, NEW e \in Engines, NEW p \in Pairings, prepare_accept(e, p)
    PROVE  e = Owner[p] /\ (p \notin used[e] => inbox[e][p] = "Pending" /\ group[e] = 0)
BY Zenon DEF prepare_accept, PairIInv, Consumed, Received

\* The owner accepts.
LEMMA AcceptStep ==
    ASSUME PairIInv, NEW e \in Engines, NEW p \in Pairings, AcceptPairing(e, p)
    PROVE  PairIInv' /\ Settled
<1> DEFINE kind == "PairingAccepted"
           t == Tables(e)
           u == commit_accept(t, p)
<1>1. e = Owner[p] /\ (p \notin used[e] => group[e] = 0)
  BY Acceptable, Zenon DEF AcceptPairing
<1>2. kind \in BridgeKinds /\ (send_envelope(in, e, p, kind, tokens.owner) \/ UNCHANGED wire)
  BY Zenon DEF AcceptPairing, accept_invite, SendWelcome, BridgeKinds
<1>3. /\ link' \in LinkTypes /\ slot' \in [Engines -> BOOLEAN] /\ bridge' \subseteq Range(issued)
      /\ Fed(in, in', Out(p, kind))
  BY <1>2, Mailed, Typed, Zenon
<1>4. /\ Ledger' /\ OneGroup' /\ used' \in [Engines -> SUBSET Pairings] /\ group' \in [Engines -> Pairings \cup {0}]
      /\ welcomes' \in [Engines -> SUBSET Pairings] /\ invites' \in [Engines -> SUBSET Pairings]
      /\ created' \in [Pairings -> {0, 1}]
      /\ \A d \in Engines : used[d] \subseteq used'[d]
      /\ p \in used'[e]
  <2>1. CASE p \in used[e] /\ UNCHANGED <<used, group, welcomes, invites, created>>
    BY <2>1, LedgerSame, Typed, Zenon
  <2>2. CASE /\ p \notin used[e] /\ created' = [created EXCEPT ![p] = @ + 1]
             /\ commit_contact_with_conversation(e, p, {p})
    BY <1>1, <2>2, OwnerCommits, Zenon
  <2> QED
    BY <2>1, <2>2, Zenon DEF AcceptPairing, accept_invite
<1>5. UNCHANGED <<age, issued>> /\ UNCHANGED <<tokens, effect>> /\ SetTables(e, u)
  BY Zenon DEF AcceptPairing, count
<1>6. News(Out(p, kind)) /\ EffectsKept
  BY <1>1, <1>2, <1>4, <1>5, BridgeNews, Zenon DEF EffectsKept
<1>7. Eases(t, u) \/ (t.inbox[p] = "Pending" /\ u = Arrived(t, p, "Accepted"))
  BY AcceptFollows, Typed, Zenon
<1> HIDE DEF u
<1>8. Received' /\ Follows(t, u)
  <2>1. CASE Eases(t, u)
    BY <1>4, <1>5, <2>1, ReceivedEased, ZenonT(30) DEF Eases
  <2>2. CASE t.inbox[p] = "Pending" /\ u = Arrived(t, p, "Accepted")
    <3>1. Settles(t.inbox[p], "Accepted") /\ "Accepted" \in Box /\ Eases(t, t)
      BY <2>2, EasesSame, Typed, Zenon DEF Settles, Box, InviteState
    <3> HIDE DEF t
    <3>2. SetTables(e, Arrived(t, p, "Accepted")) /\ Eases(Tables(e), t)
      BY <1>5, <2>2, <3>1, Zenon DEF t
    <3> QED
      BY <1>1, <1>4, <2>2, <3>1, <3>2, ReceivedArrived, Zenon DEF t
  <2> QED
    BY <1>7, <2>1, <2>2, Zenon
<1> HIDE DEF kind
<1> QED
  BY <1>3, <1>4, <1>5, <1>6, <1>8, Typed, Moved, Zenon

\* The owner's engine stops before the request is marked.
LEMMA AcceptTornStep ==
    ASSUME PairIInv, NEW e \in Engines, NEW p \in Pairings, AcceptPairingTorn(e, p)
    PROVE  PairIInv' /\ Settled
<1> DEFINE kind == "PairingAccepted"
           f == frame(kind, p)
           j == Joiner[p]
<1>1. e = Owner[p] /\ p \notin used[e] /\ group[e] = 0
  BY Acceptable, Zenon DEF AcceptPairingTorn
<1>2. /\ Ledger' /\ OneGroup' /\ used' \in [Engines -> SUBSET Pairings] /\ group' \in [Engines -> Pairings \cup {0}]
      /\ welcomes' \in [Engines -> SUBSET Pairings] /\ invites' \in [Engines -> SUBSET Pairings]
      /\ created' \in [Pairings -> {0, 1}]
      /\ \A d \in Engines : used[d] \subseteq used'[d]
      /\ p \in used'[e]
  BY <1>1, OwnerCommits, Zenon DEF AcceptPairingTorn
<1>3. /\ tokens' \in TokenTypes /\ effect' \in [Engines -> Effects] /\ link' \in LinkTypes
      /\ slot' \in [Engines -> BOOLEAN] /\ bridge' \subseteq Range(issued) /\ EffectsKept
  BY Volatile, Zenon DEF AcceptPairingTorn
<1>4. f \in Frame /\ f.kind # "Started" /\ j \in Engines /\ Out(p, kind) = {<<j, f>>}
  BY PairingAssumption, Zenon DEF frame, Frame, Out
<1>5. \E q \in {in, post(in, j, f)} : in' = [q EXCEPT ![e] = <<>>]
  BY Zenon DEF AcceptPairingTorn
<1>6. UNCHANGED <<age, issued>> /\ UNCHANGED <<inbox, outbox>>
  BY Zenon DEF AcceptPairingTorn
<1> HIDE DEF f, j
<1>7. Fed(in, in, Out(p, kind))
  BY Typed, Zenon DEF Fed
<1>8. Fed(in, post(in, j, f), Out(p, kind))
  <2>1. Fed(in, post(in, j, f), {} \cup {<<j, f>>})
    BY <1>4, FedPost, Typed, Zenon
  <2> QED
    BY <1>4, <2>1, Zenon
<1>9. Fed(in, in', Out(p, kind))
  <2>1. PICK q \in {in, post(in, j, f)} : in' = [q EXCEPT ![e] = <<>>]
    BY <1>5, Zenon
  <2>2. Fed(in, q, Out(p, kind))
    BY <1>7, <1>8, <2>1, Zenon
  <2> QED
    BY <2>1, <2>2, FedClear, Zenon
<1>10. News(Out(p, kind))
  BY <1>1, <1>2, BridgeNews, Zenon DEF BridgeKinds
<1>11. SetTables(e, Tables(e)) /\ Eases(Tables(e), Tables(e))
  BY <1>6, EasesSame, Typed, Zenon DEF PairIInv, StoredTypes, SetTables, Tables
<1>12. Received' /\ Follows(Tables(e), Tables(e))
  BY <1>2, <1>11, ReceivedEased, Zenon DEF Eases
<1> HIDE DEF kind
<1> QED
  BY <1>2, <1>3, <1>6, <1>9, <1>10, <1>11, <1>12, Moved, Zenon

\* The joiner takes a Welcome.
LEMMA WelcomeStep ==
    ASSUME PairIInv, NEW e \in Engines, Welcome(e)
    PROVE  PairIInv' /\ Settled
<1> DEFINE p == Head(in[e]).p
           t == Tables(e)
           kind == "PairingFinalized"
<1>1. Fed(in, Pop(e), {}) /\ p \in Pairings /\ e = Joiner[p] /\ p \in used[Owner[p]]
  BY Polled, Zenon DEF Welcome, Sound
<1>2. bind_pairing_outbox_pair_key(t, p) = t
  BY <1>1, Bind, Typed, Zenon
<1>3. UNCHANGED <<age, issued>> /\ UNCHANGED <<tokens, effect>> /\ EffectsKept
  BY Zenon DEF Welcome, count, EffectsKept
<1>4. Eases(t, t) /\ kind \in BridgeKinds
  BY EasesSame, Typed, ZenonT(30) DEF BridgeKinds
<1>5. CASE p \notin tokens.keys /\ Unsent(Pop(e)) /\ UNCHANGED tables
  <2>1. UNCHANGED <<inbox, outbox, used, group, created, age, issued>> /\ UNCHANGED <<invites, welcomes, link, slot, bridge>>
    BY <1>3, <1>5, Zenon DEF tables, Unsent
  <2>2. Fed(in, in', {})
    BY <1>1, <1>5, ZenonT(30) DEF Unsent
  <2> QED
    BY <1>3, <2>1, <2>2, NoNews, Typed, Untouched, Zenon
<1>6. CASE /\ p \in used[e] /\ SetTables(e, t) /\ queue_welcome_applied(Pop(e), e, p)
           /\ UNCHANGED <<used, group, welcomes, invites, created>>
  <2>1. send_envelope(Pop(e), e, p, kind, tokens.joiner)
    BY <1>6, Zenon DEF queue_welcome_applied
  <2> HIDE DEF p
  <2>2. /\ link' \in LinkTypes /\ slot' \in [Engines -> BOOLEAN] /\ bridge' \subseteq Range(issued)
        /\ Fed(in, in', Out(p, kind))
    BY <1>1, <1>4, <2>1, Mailed, Zenon
  <2>3. News(Out(p, kind))
    BY <1>1, <1>4, <1>6, BridgeNews, Zenon
  <2> HIDE DEF kind
  <2> QED
    BY <1>3, <1>4, <1>6, <2>2, <2>3, Typed, Eased, Zenon
<1>7. CASE SetTables(e, t) /\ Unsent(Pop(e)) /\ UNCHANGED <<used, group, welcomes, invites, created>>
  <2>1. Fed(in, in', {}) /\ UNCHANGED <<link, slot, bridge>>
    BY <1>1, <1>7, ZenonT(30) DEF Unsent
  <2> QED
    BY <1>3, <1>4, <1>7, <2>1, NoNews, Typed, Eased, Zenon
<1>8. CASE /\ commit_contact_with_conversation(e, p, {}) /\ SetTables(e, reconcile_outbox_items(t))
           /\ queue_welcome_applied(Pop(e), e, p) /\ UNCHANGED created
  <2> DEFINE u == reconcile_outbox_items(t)
  <2>1. send_envelope(Pop(e), e, p, kind, tokens.joiner)
    BY <1>8, Zenon DEF queue_welcome_applied
  <2>2. Eases(t, u) /\ SetTables(e, u)
    BY <1>8, Reconcile, Typed, Zenon
  <2> HIDE DEF p, u
  <2>3. /\ link' \in LinkTypes /\ slot' \in [Engines -> BOOLEAN] /\ bridge' \subseteq Range(issued)
        /\ Fed(in, in', Out(p, kind))
    BY <1>1, <1>4, <2>1, Mailed, ZenonT(30)
  <2>4. /\ Ledger' /\ OneGroup' /\ used' \in [Engines -> SUBSET Pairings] /\ group' \in [Engines -> Pairings \cup {0}]
        /\ welcomes' \in [Engines -> SUBSET Pairings] /\ invites' \in [Engines -> SUBSET Pairings]
        /\ created' \in [Pairings -> {0, 1}]
        /\ \A d \in Engines : used[d] \subseteq used'[d]
        /\ p \in used'[e]
    BY <1>1, <1>8, JoinerCommits, Zenon
  <2>5. News(Out(p, kind))
    BY <1>1, <1>4, <2>4, BridgeNews, Zenon
  <2>6. Received' /\ Follows(t, u)
    BY <2>2, <2>4, ReceivedEased, ZenonT(30) DEF Eases
  <2> HIDE DEF kind
  <2> QED
    BY <1>3, <2>2, <2>3, <2>4, <2>5, <2>6, Typed, Moved, Zenon
<1> QED
  BY <1>2, <1>5, <1>6, <1>7, <1>8, Zenon DEF Welcome

\* The joiner's engine stops after the contact is stored.
LEMMA WelcomeTornStep ==
    ASSUME PairIInv, NEW e \in Engines, WelcomeTorn(e)
    PROVE  PairIInv' /\ Settled
<1> DEFINE p == Head(in[e]).p
           t == Tables(e)
<1>1. p \in Pairings /\ e = Joiner[p] /\ p \in used[Owner[p]]
  BY Polled, ZenonT(30) DEF WelcomeTorn, Sound
<1>2. SetTables(e, t)
  BY <1>1, Bind, Typed, Zenon DEF WelcomeTorn
<1>3. Eases(t, t)
  BY EasesSame, Typed, Zenon
<1>4. Fed(in, in', {}) /\ UNCHANGED <<age, issued>>
  BY FedClear, Typed, Zenon DEF WelcomeTorn
<1>5. /\ tokens' \in TokenTypes /\ effect' \in [Engines -> Effects] /\ link' \in LinkTypes
      /\ slot' \in [Engines -> BOOLEAN] /\ bridge' \subseteq Range(issued) /\ EffectsKept
  BY Volatile, Zenon DEF WelcomeTorn
<1>6. commit_contact_with_conversation(e, p, {}) /\ created' = created
  BY Zenon DEF WelcomeTorn
<1> HIDE DEF p
<1>7. /\ Ledger' /\ OneGroup' /\ used' \in [Engines -> SUBSET Pairings] /\ group' \in [Engines -> Pairings \cup {0}]
      /\ welcomes' \in [Engines -> SUBSET Pairings] /\ invites' \in [Engines -> SUBSET Pairings]
      /\ created' \in [Pairings -> {0, 1}]
      /\ \A d \in Engines : used[d] \subseteq used'[d]
  BY <1>1, <1>6, JoinerCommits, Zenon
<1>8. Received' /\ Follows(t, t)
  BY <1>2, <1>3, <1>7, ReceivedEased, Zenon DEF Eases
<1> QED
  BY <1>2, <1>4, <1>5, <1>7, <1>8, NoNews, Moved, Zenon

-----------------------------------------------------------------------------
(* A request is submitted and stored                                       *)

\* The request that was started is stored, and the submission ends.
LEMMA StartedStep ==
    ASSUME PairIInv, NEW e \in Engines, PairingStarted(e)
    PROVE  PairIInv' /\ Settled
<1> DEFINE f == Head(in[e])
           p == f.p
           t == Tables(e)
           row == [NoRow EXCEPT !.state = "Pending"]
           u == [inbox |-> t.inbox, outbox |-> [t.outbox EXCEPT ![p] = row]]
<1>1. effect[e].step = "begin" /\ in[e] # <<>> /\ f.kind = "Started"
  BY Zenon DEF PairingStarted, Receives
<1>2. f \in Range(in[e]) /\ f \in Frame /\ Fed(in, Pop(e), {}) /\ f \notin Range(Pop(e)[e])
  BY <1>1, FedPop, Typed, Zenon
<1>3. p \in Pairings /\ e = Joiner[p] /\ p \in Range(issued) /\ outbox[e][p].state = "none"
  BY <1>1, <1>2, Zenon DEF PairIInv, Addressed, Sound
<1>4. effect[e].op = "submit"
  BY <1>1, Typed DEF Effects, NoEffect
<1>5. ActiveOut(t) = {}
  BY <1>4, Zenon DEF PairIInv, Single
<1>6. row \in OutRows /\ row.state = "Pending"
  BY Zenon DEF OutRows, Row, NoRow, Box, InviteState
<1>7. commit_submitted_pairing(t, p) = u
  BY <1>3, <1>6, PutOut, Typed, ZenonT(30) DEF commit_submitted_pairing
<1>8. inbox \in [Engines -> [Pairings -> Box]] /\ outbox \in [Engines -> [Pairings -> OutRows]]
  BY Zenon DEF PairIInv, StoredTypes
<1>9. /\ UNCHANGED <<used, group, welcomes, invites, created>> /\ UNCHANGED <<link, slot, bridge, issued, age>>
      /\ in' = Pop(e) /\ Finish(e) /\ SetTables(e, u)
  BY <1>7, Zenon DEF PairingStarted, count
<1> HIDE DEF row, f
<1>10. /\ inbox' = inbox
       /\ outbox' = [outbox EXCEPT ![e] = [outbox[e] EXCEPT ![p] = row]]
  BY <1>8, <1>9, ZenonT(30) DEF SetTables, Tables
<1>11. /\ outbox' \in [Engines -> [Pairings -> OutRows]]
       /\ \A d \in Engines, q \in Pairings : outbox'[d][q] = IF d = e /\ q = p THEN row ELSE outbox[d][q]
  BY <1>3, <1>6, <1>8, <1>10, Zenon
<1>12. StoredTypes'
  BY <1>9, <1>10, <1>11, Zenon DEF PairIInv, StoredTypes
<1>13. effect' \in [Engines -> Effects] /\ EffectsKept
  BY <1>9, Finished, Typed, Zenon
<1>14. effect'[e] = NoEffect /\ \A d \in Engines \ {e} : effect'[d] = effect[d]
  BY <1>9, Typed, ZenonT(30) DEF Finish
<1>15. WireTypes'
  <2>1. tokens' \in TokenTypes
    BY <1>3, Typed, Zenon DEF PairingStarted, TokenTypes, f
  <2> QED
    BY <1>2, <1>9, <1>13, <2>1, Zenon DEF PairIInv, WireTypes, TokenTypes, Fed
<1>16. Single'
  <2> SUFFICES ASSUME NEW d \in Engines
               PROVE  /\ AtMostOne(ActiveIn(Tables(d)')) /\ AtMostOne(ActiveOut(Tables(d)'))
                      /\ effect'[d].op = "submit" => ActiveOut(Tables(d)') = {}
    BY Zenon DEF Single, AtMostOne, ActiveIn, ActiveOut
  <2>1. ActiveIn(Tables(d)') = ActiveIn(Tables(d))
    BY <1>10, Zenon DEF ActiveIn, Tables
  <2>2. CASE d # e
    <3>1. ActiveOut(Tables(d)') = ActiveOut(Tables(d))
      BY <1>11, <2>2, ZenonT(30) DEF ActiveOut, Tables
    <3> QED
      BY <1>14, <2>1, <2>2, <3>1, Zenon DEF PairIInv, Single
  <2>3. CASE d = e
    <3>1. ActiveOut(Tables(d)') \subseteq {p}
      BY <1>5, <1>11, <2>3, Zenon DEF ActiveOut, Tables
    <3>2. AtMostOne(ActiveOut(Tables(d)'))
      BY <3>1, Zenon DEF AtMostOne
    <3> QED
      BY <1>14, <2>1, <2>3, <3>2 DEF PairIInv, Single, NoEffect
  <2> QED
    BY <2>2, <2>3, Zenon
<1>17. Submitting'
  BY <1>9, <1>13, Zenon DEF PairIInv, Submitting, EffectsKept
<1>18. \A d \in Engines : StartsOnce(in'[d]) /\ \A g \in Range(in'[d]) : g \in Range(in[d]) /\ g \in Frame /\ (d = e => g # f)
  <2> SUFFICES ASSUME NEW d \in Engines
               PROVE  StartsOnce(in'[d]) /\ \A g \in Range(in'[d]) : g \in Range(in[d]) /\ g \in Frame /\ (d = e => g # f)
    BY Zenon
  <2>1. StartsOnce(in'[d]) /\ in'[d] \in Queues /\ \A g \in Range(in'[d]) : g \in Range(in[d])
    BY <1>2, <1>9, Zenon DEF Fed
  <2>2. \A g \in Range(in'[d]) : g \in Frame
    BY <2>1 DEF Queues, Range
  <2>3. d = e => f \notin Range(in'[d])
    BY <1>2, <1>9, ZenonT(30)
  <2> QED
    BY <2>1, <2>2, <2>3, Zenon
<1>19. Addressed'
  <2> SUFFICES ASSUME NEW d \in Engines, NEW g \in Range(in'[d]) PROVE Sound(d, g)'
    BY Zenon DEF Addressed
  <2>1. Sound(d, g) /\ g \in Frame /\ (d = e => g # f)
    BY <1>18, ZenonT(30) DEF PairIInv, Addressed
  <2>2. ASSUME g.kind = "Started", d = e PROVE g.p # p
    BY <1>1, <1>2, <2>1, <2>2 DEF Frame
  <2>3. g.kind = "Started" => outbox'[d][g.p].state = "none"
    BY <1>11, <2>1, <2>2, Zenon DEF Sound
  <2> QED
    BY <1>9, <2>1, <2>3, Zenon DEF Sound
<1>20. StartedOnce'
  <2>1. ASSUME NEW d \in Engines, effect'[d].step = "resolve" PROVE Unstarted(d, effect[d].p)' /\ effect'[d] = effect[d]
    <3>1. d # e /\ effect'[d] = effect[d]
      BY <1>14, <2>1 DEF NoEffect
    <3>2. Unstarted(d, effect[d].p) /\ effect[d].p \in Pairings
      BY <2>1, <3>1, Typed DEF PairIInv, StartedOnce, Effects, NoEffect
    <3>3. outbox'[d][effect[d].p] = outbox[d][effect[d].p]
      BY <1>11, <3>1, <3>2, Zenon
    <3>4. frame("Started", effect[d].p) \notin Range(in'[d])
      BY <1>18, <3>2, Zenon DEF Unstarted
    <3> QED
      BY <3>1, <3>2, <3>3, <3>4, Zenon DEF Unstarted
  <2>2. ASSUME NEW q \in Pairings \ Range(issued) PROVE Unstarted(Joiner[q], q)'
    <3>1. Unstarted(Joiner[q], q) /\ Joiner[q] \in Engines /\ q # p
      BY <1>3, PairingAssumption, ZenonT(30) DEF PairIInv, StartedOnce
    <3> QED
      BY <1>11, <1>18, <3>1, ZenonT(30) DEF Unstarted
  <2> QED
    BY <1>9, <1>18, <2>1, <2>2, Zenon DEF StartedOnce
<1>21. Consumed' /\ OneGroup'
  BY <1>9, <1>10 DEF PairIInv, Consumed, Received, Ledger, OneGroup
<1>22. Settled
  BY <1>3, <1>10, <1>11, ZenonT(30) DEF Settled, Settles
<1> QED
  BY <1>12, <1>15, <1>16, <1>17, <1>19, <1>20, <1>21, <1>22, Zenon DEF PairIInv

\* A code is submitted: the tables have no active request, and one that was not
\* submitted before is being resolved.
LEMMA SubmitStep ==
    ASSUME PairIInv, NEW e \in Engines, NEW p \in Pairings, SubmitPairingCode(e, p)
    PROVE  PairIInv' /\ Settled
<1> DEFINE t == Tables(e)
           u == expire_outbox(t)
           a == IF slot[Owner[p]] THEN frame("Resolved", p) ELSE frame("Error", 0)
           G == {a}
           F == {<<e, f>> : f \in G}
           s == in[e]
           x == [op |-> "submit", p |-> p, step |-> "resolve"]
<1>1. Joiner[p] = e /\ p \notin Range(issued) /\ Idle(e)
  BY Zenon DEF SubmitPairingCode
<1>2. Eases(t, u)
  BY ExpireOut, Typed, Zenon
<1>3. complete_outbox_pairings_for_existing_contacts(e, u) = u
  BY <1>2, CompleteNone, Zenon DEF Eases, Follows
<1>4. SetTables(e, u) /\ ActiveOut(u) = {}
  BY <1>3, Zenon DEF SubmitPairingCode, prepare_submit_pairing_code, has_outstanding_request
<1>5. a \in Frame /\ a.kind \in {"Resolved", "Error"}
  BY Zenon DEF frame, Frame
<1>6. Ask(e, s, "submit", p, "resolve", a)
  BY Zenon DEF SubmitPairingCode
<1>7. s \in Queues /\ StartsOnce(s) /\ \A f \in Range(s) : f \in Range(in[e]) \/ f \in G
  BY Typed, Zenon
<1>8. /\ UNCHANGED <<used, group, welcomes, created>> /\ UNCHANGED <<tokens, slot, bridge, age>>
      /\ issued' = Append(issued, p) /\ build_contact_invite(e, p)
  BY Zenon DEF SubmitPairingCode
<1> HIDE DEF a, u
<1>9. a \in Frame /\ a \in G /\ a.kind # "Started"
  BY <1>5, Zenon
<1> HIDE DEF G, s
<1>10. link' \in LinkTypes /\ Fed(in, in', F) /\ (effect' = effect \/ Start(e, "submit", p, "resolve"))
  BY <1>6, <1>7, <1>9, Asked, Typed, ZenonT(30) DEF LinkTypes
<1>11. /\ inbox' \in [Engines -> [Pairings -> Box]] /\ outbox' \in [Engines -> [Pairings -> OutRows]]
       /\ \A d \in Engines : Follows(Tables(d), Tables(d)')
       /\ Tables(e)' = u
  BY <1>2, <1>4, TablesSet, Zenon DEF Eases
<1>12. x \in Effects /\ x.op = "submit" /\ x.p = p /\ x.step = "resolve"
  BY Zenon DEF Effects
<1> HIDE DEF x
<1>13. effect' \in [Engines -> Effects] /\ \A d \in Engines : effect'[d] = effect[d] \/ (d = e /\ effect'[d] = x)
  <2>1. CASE effect' = effect
    BY <2>1, Typed, Zenon
  <2>2. CASE effect' = [effect EXCEPT ![e] = x]
    BY <1>12, <2>2, Typed, Zenon
  <2> QED
    BY <1>10, <2>1, <2>2, Zenon DEF Start, x
<1>14. issued \in Seq(Pairings) /\ issued' \in Seq(Pairings)
  BY <1>8 DEF PairIInv, WireTypes
<1>15. Range(issued') = Range(issued) \cup {p}
  <2>1. /\ DOMAIN issued' = 1..Len(issued) + 1 /\ DOMAIN issued = 1..Len(issued) /\ Len(issued) \in Nat
        /\ issued'[Len(issued) + 1] = p /\ \A i \in DOMAIN issued : issued'[i] = issued[i]
    BY <1>8, <1>14
  <2>2. \A y \in Range(issued') : y \in Range(issued) \cup {p}
    BY <2>1 DEF Range
  <2>3. \A y \in Range(issued) : y \in Range(issued')
    BY <2>1 DEF Range
  <2>4. p \in Range(issued')
    BY <2>1 DEF Range
  <2> QED
    BY <2>2, <2>3, <2>4, Zenon
<1>16. invites' \in [Engines -> SUBSET Pairings]
  BY <1>8, Typed, ZenonT(30) DEF build_contact_invite
<1>17. StoredTypes'
  BY <1>8, <1>11, <1>16, Zenon DEF PairIInv, StoredTypes
<1>18. WireTypes'
  BY <1>8, <1>10, <1>13, <1>14, <1>15, Zenon DEF PairIInv, WireTypes, LinkTypes, Fed
<1>19. Single'
  <2> SUFFICES ASSUME NEW d \in Engines
               PROVE  /\ AtMostOne(ActiveIn(Tables(d)')) /\ AtMostOne(ActiveOut(Tables(d)'))
                      /\ effect'[d].op = "submit" => ActiveOut(Tables(d)') = {}
    BY Zenon DEF Single, AtMostOne, ActiveIn, ActiveOut
  <2>1. AtMostOne(ActiveIn(Tables(d)')) /\ ActiveOut(Tables(d)') \subseteq ActiveOut(Tables(d))
    BY <1>11, Zenon DEF Follows
  <2>2. AtMostOne(ActiveOut(Tables(d)'))
    BY <2>1, Typed, Zenon DEF AtMostOne
  <2>3. ASSUME effect'[d].op = "submit" PROVE ActiveOut(Tables(d)') = {}
    <3>1. CASE d = e
      BY <1>4, <1>11, <3>1, Zenon
    <3>2. CASE d # e
      BY <1>13, <2>1, <2>3, <3>2, Zenon DEF PairIInv, Single
    <3> QED
      BY <3>1, <3>2, Zenon
  <2> QED
    BY <2>1, <2>2, <2>3, Zenon
<1>20. Submitting'
  BY <1>1, <1>12, <1>13, <1>15 DEF PairIInv, Submitting
<1>21. \A d \in Engines, q \in Pairings : outbox[d][q].state = "none" => outbox'[d][q].state = "none"
  BY <1>11, Zenon DEF Follows, Tables
<1>22. \A d \in Engines : StartsOnce(in'[d]) /\ \A f \in Range(in'[d]) : f \in Range(in[d]) \/ f = a
  BY <1>10, Zenon DEF Fed, G
<1>23. \A d \in Engines, q \in Pairings : Unstarted(d, q) => Unstarted(d, q)'
  <2> SUFFICES ASSUME NEW d \in Engines, NEW q \in Pairings, Unstarted(d, q) PROVE Unstarted(d, q)'
    OBVIOUS
  <2>1. frame("Started", q) # a
    BY <1>9 DEF frame
  <2>2. frame("Started", q) \notin Range(in'[d])
    BY <1>22, <2>1, ZenonT(30) DEF Unstarted
  <2> QED
    BY <1>21, <2>2, Zenon DEF Unstarted
<1>24. StartedOnce'
  <2>1. ASSUME NEW d \in Engines, NEW q, q = effect'[d].p, effect'[d].step = "resolve"
        PROVE  outbox'[d][q].state = "none" /\ frame("Started", q) \notin Range(in'[d])
    <3>1. CASE effect'[d] = effect[d]
      <4>1. q \in Pairings /\ Unstarted(d, q)
        BY <2>1, <3>1, Typed DEF PairIInv, StartedOnce, Effects, NoEffect
      <4> QED
        BY <1>23, <4>1, ZenonT(30) DEF Unstarted
    <3>2. CASE d = e /\ effect'[d] = x
      <4>1. Unstarted(e, p) /\ q = p
        BY <1>1, <1>12, <2>1, <3>2, Zenon DEF PairIInv, StartedOnce
      <4> QED
        BY <1>23, <3>2, <4>1, Zenon DEF Unstarted
    <3> QED
      BY <1>13, <3>1, <3>2, Zenon
  <2>2. ASSUME NEW q \in Pairings \ Range(issued') PROVE Unstarted(Joiner[q], q)'
    <3>1. Unstarted(Joiner[q], q) /\ Joiner[q] \in Engines
      BY <1>15, PairingAssumption, ZenonT(30) DEF PairIInv, StartedOnce
    <3> QED
      BY <1>23, <3>1, Zenon
  <2> QED
    BY <1>22, <2>1, <2>2, Zenon DEF StartedOnce, Unstarted
<1>25. Addressed'
  <2> SUFFICES ASSUME NEW d \in Engines, NEW f \in Range(in'[d]) PROVE Sound(d, f)'
    BY Zenon DEF Addressed
  <2>1. CASE f \in Range(in[d])
    <3>1. Sound(d, f)
      BY <2>1, Zenon DEF PairIInv, Addressed
    <3>2. f.kind = "Started" => outbox'[d][f.p].state = "none"
      BY <1>21, <3>1, Zenon DEF Sound
    <3> QED
      BY <1>8, <1>15, <3>1, <3>2, Zenon DEF Sound
  <2>2. CASE f = a
    BY <1>5, <2>2, Zenon DEF Sound
  <2> QED
    BY <1>22, <2>1, <2>2, Zenon
<1>26. Consumed' /\ OneGroup'
  <2>1. \A d \in Engines : used[d] \subseteq used'[d]
    BY <1>8, Zenon
  <2>2. Received'
    BY <1>2, <1>4, <2>1, ReceivedEased, Zenon
  <2> QED
    BY <1>8, <2>2, LedgerSame, Zenon DEF Consumed
<1>27. Settled
  BY <1>11, Zenon DEF Settled, Follows, Tables
<1> QED
  BY <1>17, <1>18, <1>19, <1>20, <1>24, <1>25, <1>26, <1>27, Zenon DEF PairIInv

\* Nothing happens: a step that changes no variable.
LEMMA StutterStep ==
    ASSUME PairIInv, UNCHANGED vars
    PROVE  PairIInv' /\ Settled
<1>1. /\ UNCHANGED <<inbox, outbox, used, group, welcomes, invites>> /\ UNCHANGED tokens
      /\ UNCHANGED <<effect, link, in, slot, bridge>> /\ UNCHANGED <<issued, age, created>>
  BY Zenon DEF vars, tables, wire, count
<1>2. Settled
  BY <1>1, Zenon DEF Settled, Settles
<1>3. StoredTypes' /\ WireTypes'
  BY <1>1 DEF PairIInv, StoredTypes, WireTypes
<1>4. Submitting' /\ OneGroup' /\ Ledger' /\ Received'
  BY <1>1 DEF PairIInv, Submitting, OneGroup, Consumed, Ledger, Received
<1>5. Single'
  BY <1>1 DEF PairIInv, Single, AtMostOne, ActiveIn, ActiveOut, Tables
<1>6. Addressed' /\ StartedOnce'
  BY <1>1 DEF PairIInv, Addressed, Sound, StartedOnce, StartsOnce, Unstarted
<1> QED
  BY <1>2, <1>3, <1>4, <1>5, <1>6 DEF PairIInv, Consumed

\* Before anything is submitted all tables, queues and sets are empty.
LEMMA InitHolds ==
    ASSUME Init
    PROVE  PairIInv
<1>1. NoRow \in OutRows /\ NoRow.state = "none" /\ "none" \in Box /\ <<>> \in Queues
  BY PairingAssumption DEF NoRow, OutRows, Row, Box, Queues
<1>2. StoredTypes
  BY <1>1 DEF Init, StoredTypes
<1>3. Range(<<>>) = {}
  BY DEF Range
<1>4. WireTypes
  BY <1>1, <1>3 DEF Init, WireTypes, Effects
<1>5. \A e \in Engines : ActiveIn(Tables(e)) = {} /\ ActiveOut(Tables(e)) = {}
  BY <1>1, Zenon DEF Init, ActiveIn, ActiveOut, Tables, pairing_is_active
<1>6. NoEffect.op # "submit" /\ NoEffect.step # "resolve"
  BY ZenonT(30) DEF NoEffect
<1>7. Single /\ Submitting
  BY <1>5, <1>6, Zenon DEF Init, Single, Submitting, AtMostOne
<1>8. \A e \in Engines : Range(in[e]) = {} /\ StartsOnce(in[e])
  BY <1>3 DEF Init, StartsOnce
<1>9. Addressed /\ StartedOnce
  BY <1>1, <1>6, <1>8, PairingAssumption, Zenon DEF Init, Addressed, StartedOnce, Unstarted
<1>10. Consumed /\ OneGroup
  BY PairingAssumption, Zenon DEF Init, Consumed, Received, Ledger, OneGroup
<1> QED
  BY <1>2, <1>4, <1>7, <1>9, <1>10, Zenon DEF PairIInv

\* Every step of an engine, of the bridge and of the clock keeps the invariant.
LEMMA EngineStep ==
    ASSUME PairIInv, NEW e \in Engines, OfEngine(e)
    PROVE  PairIInv' /\ Settled
BY RefreshStep, TakeStep, ResolvedStep, StartedStep, TimeoutStep, CancelledStep, OfferStep, WelcomeStep,
   WelcomeTornStep, RejectionStep, FinalStep, DropsStep, SweepStep, LostStep, ZenonT(30) DEF OfEngine

\* The same for the steps of an engine that are about one request.
LEMMA RequestStep ==
    ASSUME PairIInv, NEW e \in Engines, NEW p \in Pairings, OfRequest(e, p)
    PROVE  PairIInv' /\ Settled
BY SubmitStep, CancelStep, AcceptStep, AcceptTornStep, RejectStep, SweepStep, RetryStep, FlushStep, Zenon DEF OfRequest

\* Every step keeps the invariant, and takes no completed request back.
LEMMA NextStep ==
    ASSUME PairIInv, [Next]_vars
    PROVE  PairIInv' /\ Settled
BY EngineStep, RequestStep, BridgeStep, TickStep, StutterStep, Zenon DEF Next

-----------------------------------------------------------------------------
(* Theorems                                                                *)

\* The inductive invariant holds in every reachable state of the pairing protocol.
THEOREM PairingHolds == Spec => []PairIInv
<1>1. Init => PairIInv
  BY InitHolds, Zenon
<1>2. PairIInv /\ [Next]_vars => PairIInv'
  BY NextStep, Zenon
<1> QED
  BY <1>1, <1>2, PTL DEF Spec

\* A set with at most one element has a cardinality of at most one.
LEMMA FewElements ==
    ASSUME NEW S, AtMostOne(S)
    PROVE  Cardinality(S) <= 1
<1> DEFINE Count(f) == [T \in SUBSET S |-> IF T = {} THEN 0 ELSE 1 + f[T \ {CHOOSE x : x \in T}]]
           g == [T \in SUBSET S |-> IF T = {} THEN 0 ELSE 1]
           c == CHOOSE f : f = Count(f)
<1>1. ASSUME NEW T \in SUBSET S, T # {} PROVE T \ {CHOOSE x : x \in T} = {}
  BY <1>1 DEF AtMostOne
<1>2. \A T \in SUBSET S : g[T] = IF T = {} THEN 0 ELSE 1 + g[T \ {CHOOSE x : x \in T}]
  BY <1>1
<1>3. g = Count(g)
  BY <1>2
<1>4. c = Count(c)
  BY <1>3, Zenon
<1>5. Cardinality(S) = c[S]
  BY Zenon DEF Cardinality
<1> HIDE DEF c
<1>6. c[S] = (IF S = {} THEN 0 ELSE 1 + c[{}]) /\ c[{}] = 0
  BY <1>1, <1>4
<1> QED
  BY <1>5, <1>6

\* Each engine has at most one outstanding and one actionable request, and every
\* invite at most one MLS group, whatever is lost, late, torn or retried: what
\* put_pairing_inbox, has_outstanding_request and accept_invite are for.
THEOREM RequestsHold == Spec => []RequestInv
<1>1. PairIInv => RequestInv
  <2> SUFFICES ASSUME PairIInv PROVE RequestInv
    OBVIOUS
  <2>1. OneOutstanding /\ OneActionable
    BY FewElements, Zenon DEF PairIInv, Single, OneOutstanding, OneActionable
  <2>2. OneGroupPerInvite
    BY DEF PairIInv, StoredTypes, OneGroupPerInvite
  <2>3. outbox \in [Engines -> [Pairings -> Row]]
    BY DEF PairIInv, StoredTypes, OutRows
  <2>4. \A e \in Engines : effect[e].op \in {"none", "refresh", "submit", "cancel"}
    BY DEF PairIInv, WireTypes, Effects, NoEffect
  <2>5. \A e \in Engines : Len(in[e]) <= QUEUE /\ \A i \in DOMAIN in[e] : in[e][i] \in Frame
    BY DEF PairIInv, WireTypes, Queues
  <2>6. TypeOK
    BY <2>3, <2>4, <2>5, ZenonT(30) DEF PairIInv, StoredTypes, WireTypes, TypeOK
  <2> QED
    BY <2>1, <2>2, <2>6, Zenon DEF RequestInv
<1> QED
  BY <1>1, PairingHolds, PTL

\* A request that its owner sees as Completed was consumed on both sides.
THEOREM BothConsumed == Spec => []CompletedMeansBoth
<1>1. PairIInv => CompletedMeansBoth
  BY PairingAssumption, ZenonT(30) DEF PairIInv, Consumed, Received, CompletedMeansBoth
<1> QED
  BY <1>1, PairingHolds, PTL

\* What still blocks a submission after expire_outbox is a request whose own
\* deadline has not passed.
THEOREM BlockedInTime == Spec => []BlockedOnlyInTime
<1>1. PairIInv => BlockedOnlyInTime
  <2> SUFFICES ASSUME PairIInv, NEW e \in Engines, has_outstanding_request(expire_outbox(Tables(e)))
               PROVE  \E p \in Pairings : outbox[e][p].state = "Pending" /\ age[p] = 0
    BY Zenon DEF BlockedOnlyInTime
  <2>1. PICK p \in ActiveOut(expire_outbox(Tables(e))) : TRUE
    BY ZenonT(30) DEF has_outstanding_request
  <2>2. Tables(e).outbox[p].state = "Pending" /\ age[p] = 0
    BY <2>1, ExpireOut, Typed, Zenon
  <2>3. p \in Pairings
    BY <2>1, Zenon DEF ActiveOut
  <2> QED
    BY <2>2, <2>3, Zenon DEF Tables
<1> QED
  BY <1>1, PairingHolds, PTL

\* When the requests all go one way, two engines that have each other as a contact
\* use one MLS group: the joiner's invite was consumed by the owner before, and the
\* owner consumes no second one while it has the contact.
THEOREM OneSharedGroup == OneWay => (Spec => []SharedGroup)
<1> SUFFICES ASSUME OneWay PROVE Spec => []SharedGroup
  BY Zenon
<1>1. PairIInv => SharedGroup
  <2> SUFFICES ASSUME PairIInv, NEW d \in Engines, NEW e \in Engines, group[d] # 0, group[e] # 0
               PROVE  group[d] = group[e]
    BY ZenonT(30) DEF SharedGroup
  <2>1. ASSUME NEW c \in Engines, group[c] # 0
        PROVE  group[c] \in Pairings /\ group[Owner[group[c]]] = group[c]
    <3>1. group[c] \in Pairings /\ group[c] \in used[c] /\ c \in {Owner[group[c]], Joiner[group[c]]}
      BY <2>1, Zenon DEF PairIInv, StoredTypes, Consumed, Ledger
    <3>2. group[c] \in used[Owner[group[c]]]
      BY <3>1, Zenon DEF PairIInv, Consumed, Ledger
    <3> QED
      BY <3>1, <3>2, ZenonT(30) DEF PairIInv, OneGroup
  <2>2. Owner[group[d]] = Owner[group[e]]
    BY <2>1, Zenon DEF OneWay
  <2> QED
    BY <2>1, <2>2, Zenon
<1> QED
  BY <1>1, PairingHolds, PTL

\* No rejection, cancellation, expiry, offer or late answer takes a completed
\* request back: it is only archived.
THEOREM CompletedStays == Spec => CompletedIsFinal
<1>1. PairIInv /\ [Next]_vars
        => [\A e \in Engines, p \in Pairings :
              /\ inbox[e][p] = "Completed" => inbox'[e][p] \in {"Completed", "Archived"}
              /\ outbox[e][p].state = "Completed" => outbox'[e][p].state \in {"Completed", "Archived"}]_vars
  BY NextStep, Zenon DEF Settled, Settles
<1> QED
  BY <1>1, PairingHolds, PTL DEF Spec, CompletedIsFinal
=============================================================================
