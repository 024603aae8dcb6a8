------------------------- MODULE PairingStepProofs -------------------------
(***************************************************************************)
(* The inductive invariant of Pairing, and the steps that consume no       *)
(* invite.  PairIInv has the types of the tables and of the wire, one      *)
(* active request per table (Single), true frames in the queues            *)
(* (Addressed), the order in which the two sides consume an invite         *)
(* (Consumed), a request started once (StartedOnce) and, when all requests *)
(* go one way, one group (OneGroup).                                       *)
(*                                                                         *)
(* The table operations are reduced to three relations first: Settles (a   *)
(* row's next state), Follows (a table's next rows, with at most one       *)
(* active) and Eases (Follows, and nothing becomes active or completed in  *)
(* the inbox).  The queues are compared by Fed: what waits was waiting, or *)
(* is one of the new frames.  There is one lemma per action.               *)
(***************************************************************************)
EXTENDS Pairing, Integers, TLAPS

-----------------------------------------------------------------------------
(* The inductive invariant                                                 *)

\* An outgoing request is never keyed and never Accepted, and it names its
\* recipient only when it was completed.
OutRows == {r \in Row : /\ ~r.key /\ r.payload = 0 /\ r.state # "Accepted"
                        /\ r.to => r.state \in {"Completed", "Archived"}}
TableRows == [inbox : [Pairings -> Box], outbox : [Pairings -> OutRows]]

Queues == {s \in Seq(Frame) : Len(s) <= QUEUE}
Effects ==
    {NoEffect} \cup [op : {"refresh"}, p : {0}, step : {"create"}]
    \cup [op : {"submit"}, p : Pairings, step : {"resolve", "begin"}]
    \cup [op : {"cancel"}, p : Pairings, step : {"ok", "err"}]

StoredTypes ==
    /\ inbox \in [Engines -> [Pairings -> Box]] /\ outbox \in [Engines -> [Pairings -> OutRows]]
    /\ used \in [Engines -> SUBSET Pairings] /\ group \in [Engines -> Pairings \cup {0}]
    /\ welcomes \in [Engines -> SUBSET Pairings] /\ invites \in [Engines -> SUBSET Pairings]
    /\ age \in [Pairings -> 0..2] /\ created \in [Pairings -> {0, 1}]

WireTypes ==
    /\ tokens \in [owner : SUBSET Pairings, joiner : SUBSET Pairings, keys : SUBSET Pairings]
    /\ effect \in [Engines -> Effects]
    /\ link \in [Engines -> {"none", "live", "broken"}] /\ slot \in [Engines -> BOOLEAN]
    /\ in \in [Engines -> Queues]
    /\ issued \in Seq(Pairings) /\ bridge \subseteq Range(issued)

\* One active request in each table, and none in the outbox while a submission runs.
AtMostOne(S) == \A p, q \in S : p = q
Single == \A e \in Engines :
    /\ AtMostOne(ActiveIn(Tables(e))) /\ AtMostOne(ActiveOut(Tables(e)))
    /\ effect[e].op = "submit" => ActiveOut(Tables(e)) = {}
Submitting == \A e \in Engines :
    effect[e].op = "submit" => effect[e].p \in Range(issued) /\ Joiner[effect[e].p] = e

\* What a waiting frame says is true: the relay addressed it to the right side, a
\* Welcome is of an invite the owner consumed, a final frame of one the joiner
\* consumed, and a start of a request that is not stored yet.
Sound(e, f) ==
    /\ f.kind \in {"Requested", "Started", "PairingAccepted", "PairingRejected", "PairingFinalized"} => f.p \in Pairings
    /\ f.kind = "Requested" => e = Owner[f.p]
    /\ f.kind = "PairingAccepted" => e = Joiner[f.p] /\ f.p \in used[Owner[f.p]]
    /\ f.kind = "PairingFinalized" => f.p \in used[Joiner[f.p]]
    /\ f.kind = "Started" => e = Joiner[f.p] /\ f.p \in Range(issued) /\ outbox[e][f.p].state = "none"
Addressed == \A e \in Engines : \A f \in Range(in[e]) : Sound(e, f)

\* What the tables say of an invite agrees: the owner consumes it before the joiner,
\* and before the request is Accepted.
Received == \A e \in Engines, p \in Pairings :
    /\ inbox[e][p] # "none" => e = Owner[p]
    /\ inbox[e][p] \in {"Accepted", "Completed"} => p \in used[e]
    /\ inbox[e][p] = "Completed" => p \in used[Joiner[p]]
Ledger ==
    /\ \A e \in Engines : \A p \in welcomes[e] : e = Owner[p] /\ p \in used[e]
    /\ \A p \in Pairings :
        /\ created[p] # 0 => p \in used[Owner[p]]
        /\ p \in used[Joiner[p]] => p \in used[Owner[p]]
    /\ \A e \in Engines : /\ group[e] # 0 => group[e] \in used[e]
                         /\ \A p \in used[e] : e \in {Owner[p], Joiner[p]}
Consumed == Received /\ Ledger

\* A request is started once.
Unstarted(e, p) == outbox[e][p].state = "none" /\ frame("Started", p) \notin Range(in[e])
StartsOnce(s) == \A i, j \in DOMAIN s : s[i].kind = "Started" /\ s[i] = s[j] => i = j
StartedOnce ==
    /\ \A e \in Engines : StartsOnce(in[e]) /\ (effect[e].step = "resolve" => Unstarted(e, effect[e].p))
    /\ \A p \in Pairings \ Range(issued) : Unstarted(Joiner[p], p)

\* Requests that all go the same way: the owner has one group, of one invite.
OneWay == \A p, q \in Pairings : Owner[p] = Owner[q]
OneGroup == OneWay => \A p \in Pairings : used[Owner[p]] \subseteq {group[Owner[p]]}

PairIInv ==
    /\ StoredTypes /\ WireTypes /\ Single /\ Submitting
    /\ Addressed /\ Consumed /\ StartedOnce /\ OneGroup

-----------------------------------------------------------------------------
(* The tables of one engine                                                *)

\* No row is keyed, and no active one names its recipient.
LEMMA Unkeyed ==
    ASSUME NEW t \in TableRows
    PROVE  Keyed(t) = {} /\ {q \in ActiveOut(t) : t.outbox[q].to} = {}
BY Zenon DEF TableRows, OutRows, Keyed, ActiveOut, pairing_is_active

\* So a row that is put replaces the old one, and nothing else changes.
LEMMA PutOut ==
    ASSUME NEW t \in TableRows, NEW p \in Pairings, NEW row \in OutRows
    PROVE  put_pairing_outbox(t, p, row) = [inbox |-> t.inbox, outbox |-> [t.outbox EXCEPT ![p] = row]]
BY Zenon DEF put_pairing_outbox, OutRows, TableRows

\* A request that arrives retires the others of the inbox.
Arrived(t, p, s) ==
    [inbox |-> [q \in Pairings |-> IF q = p THEN s ELSE IF pairing_is_active(t.inbox[q]) THEN "Archived" ELSE t.inbox[q]],
     outbox |-> t.outbox]
LEMMA PutIn ==
    ASSUME NEW t \in TableRows, NEW p \in Pairings, NEW s \in Box
    PROVE  put_pairing_inbox(t, p, s) = Arrived(t, p, s)
<1>1. Keyed(t) = {} /\ {q \in ActiveOut(t) \ {p} : t.outbox[q].to} = {}
  BY Unkeyed, Zenon
<1> QED
  BY <1>1, Zenon DEF put_pairing_inbox, ArchiveInbox, CancelOutbox, ActiveIn, TableRows, Arrived

\* No payload is stored, so no request is found by one.
LEMMA Bind ==
    ASSUME NEW t \in TableRows, NEW p \in Pairings
    PROVE  bind_pairing_outbox_pair_key(t, p) = t
<1>1. {q \in ActiveOut(t) : t.outbox[q].payload = p} = {}
  BY PairingAssumption, Zenon DEF ActiveOut, TableRows, OutRows
<1> QED
  BY <1>1, Zenon DEF bind_pairing_outbox_pair_key

\* What a sweep does when one request is late.
LEMMA ExpireOne ==
    ASSUME NEW t, NEW x
    PROVE  FoldSet(LAMBDA p, u : put_pairing_outbox(u, p, [u.outbox[p] EXCEPT !.state = "Expired"]), t, {x})
           = put_pairing_outbox(t, x, [t.outbox[x] EXCEPT !.state = "Expired"])
<1> DEFINE op(p, u) == put_pairing_outbox(u, p, [u.outbox[p] EXCEPT !.state = "Expired"])
           body(it) == [s \in SUBSET {x} |-> IF s = {} THEN t
                          ELSE op(CHOOSE y \in s : TRUE, it[s \ {CHOOSE y \in s : TRUE}])]
           w == [s \in SUBSET {x} |-> IF s = {} THEN t ELSE op(x, t)]
<1>1. FoldSet(LAMBDA p, u : put_pairing_outbox(u, p, [u.outbox[p] EXCEPT !.state = "Expired"]), t, {x})
      = (CHOOSE it : it = body(it))[{x}]
  BY Zenon DEF FoldSet, MapThenFoldSet
<1> HIDE DEF op
<1>2. \A s \in SUBSET {x} : s # {} => (CHOOSE y \in s : TRUE) = x /\ s \ {x} = {}
  OBVIOUS
<1>3. w = body(w)
  BY <1>2, Zenon
<1>4. ASSUME NEW it, it = body(it) PROVE it[{x}] = op(x, t)
  <2>1. it[{}] = t
    BY <1>4, Zenon
  <2>2. it[{x}] = op(CHOOSE y \in {x} : TRUE, it[{x} \ {CHOOSE y \in {x} : TRUE}])
    BY <1>4, Zenon
  <2> QED
    BY <1>2, <2>1, <2>2, Zenon
<1> HIDE DEF body, w
<1>5. (CHOOSE it : it = body(it))[{x}] = op(x, t)
  BY <1>3, <1>4, Zenon
<1> QED
  BY <1>1, <1>5, Zenon DEF op

\* The same for the inbox.
LEMMA ExpireOneIn ==
    ASSUME NEW t, NEW x
    PROVE  FoldSet(LAMBDA p, u : put_pairing_inbox(u, p, "Expired"), t, {x}) = put_pairing_inbox(t, x, "Expired")
<1> DEFINE op(p, u) == put_pairing_inbox(u, p, "Expired")
           body(it) == [s \in SUBSET {x} |-> IF s = {} THEN t
                          ELSE op(CHOOSE y \in s : TRUE, it[s \ {CHOOSE y \in s : TRUE}])]
           w == [s \in SUBSET {x} |-> IF s = {} THEN t ELSE op(x, t)]
<1>1. FoldSet(LAMBDA p, u : put_pairing_inbox(u, p, "Expired"), t, {x}) = (CHOOSE it : it = body(it))[{x}]
  BY Zenon DEF FoldSet, MapThenFoldSet
<1> HIDE DEF op
<1>2. \A s \in SUBSET {x} : s # {} => (CHOOSE y \in s : TRUE) = x /\ s \ {x} = {}
  OBVIOUS
<1>3. w = body(w)
  BY <1>2, Zenon
<1>4. ASSUME NEW it, it = body(it) PROVE it[{x}] = op(x, t)
  <2>1. it[{}] = t
    BY <1>4, Zenon
  <2>2. it[{x}] = op(CHOOSE y \in {x} : TRUE, it[{x} \ {CHOOSE y \in {x} : TRUE}])
    BY <1>4, Zenon
  <2> QED
    BY <1>2, <2>1, <2>2, Zenon
<1> HIDE DEF body, w
<1>5. (CHOOSE it : it = body(it))[{x}] = op(x, t)
  BY <1>3, <1>4, Zenon
<1> QED
  BY <1>1, <1>5, Zenon DEF op

\* The same for requests that are completed.
LEMMA CompleteOne ==
    ASSUME NEW t, NEW x
    PROVE  Complete(t, {x}) = put_pairing_outbox(t, x, [t.outbox[x] EXCEPT !.state = "Completed", !.to = TRUE])
<1> DEFINE op(p, u) == put_pairing_outbox(u, p, [u.outbox[p] EXCEPT !.state = "Completed", !.to = TRUE])
           body(it) == [s \in SUBSET {x} |-> IF s = {} THEN t
                          ELSE op(CHOOSE y \in s : TRUE, it[s \ {CHOOSE y \in s : TRUE}])]
           w == [s \in SUBSET {x} |-> IF s = {} THEN t ELSE op(x, t)]
<1>1. Complete(t, {x}) = (CHOOSE it : it = body(it))[{x}]
  BY Zenon DEF Complete, FoldSet, MapThenFoldSet
<1> HIDE DEF op
<1>2. \A s \in SUBSET {x} : s # {} => (CHOOSE y \in s : TRUE) = x /\ s \ {x} = {}
  OBVIOUS
<1>3. w = body(w)
  BY <1>2, Zenon
<1>4. ASSUME NEW it, it = body(it) PROVE it[{x}] = op(x, t)
  <2>1. it[{}] = t
    BY <1>4, Zenon
  <2>2. it[{x}] = op(CHOOSE y \in {x} : TRUE, it[{x} \ {CHOOSE y \in {x} : TRUE}])
    BY <1>4, Zenon
  <2> QED
    BY <1>2, <2>1, <2>2, Zenon
<1> HIDE DEF body, w
<1>5. (CHOOSE it : it = body(it))[{x}] = op(x, t)
  BY <1>3, <1>4, Zenon
<1> QED
  BY <1>1, <1>5, Zenon DEF op

\* Nothing late, nothing done.
LEMMA FoldNone ==
    ASSUME NEW t
    PROVE  /\ FoldSet(LAMBDA p, u : put_pairing_outbox(u, p, [u.outbox[p] EXCEPT !.state = "Expired"]), t, {}) = t
           /\ FoldSet(LAMBDA p, u : put_pairing_inbox(u, p, "Expired"), t, {}) = t
           /\ Complete(t, {}) = t
<1>1. FoldSet(LAMBDA p, u : put_pairing_outbox(u, p, [u.outbox[p] EXCEPT !.state = "Expired"]), t, {}) = t
  BY Zenon DEF FoldSet, MapThenFoldSet
<1>2. FoldSet(LAMBDA p, u : put_pairing_inbox(u, p, "Expired"), t, {}) = t
  BY Zenon DEF FoldSet, MapThenFoldSet
<1>3. Complete(t, {}) = t
  BY Zenon DEF Complete, FoldSet, MapThenFoldSet
<1> QED
  BY <1>1, <1>2, <1>3, Zenon

-----------------------------------------------------------------------------
(* What the handlers do to the tables of one engine                        *)

\* u may follow t: no outgoing request becomes active, one request at most is
\* active in the inbox, and a completed request is only archived.
Settles(x, y) == x \in {"Completed", "Archived"} => y \in {x, "Archived"}
Follows(t, u) ==
    /\ u \in TableRows /\ AtMostOne(ActiveIn(u)) /\ ActiveOut(u) \subseteq ActiveOut(t)
    /\ \A p \in Pairings :
        /\ t.outbox[p].state = "none" => u.outbox[p].state = "none"
        /\ Settles(t.outbox[p].state, u.outbox[p].state) /\ Settles(t.inbox[p], u.inbox[p])

\* Moreover no request arrives, is accepted or completed.
Eases(t, u) ==
    /\ Follows(t, u)
    /\ \A p \in Pairings : /\ u.inbox[p] # "none" => t.inbox[p] # "none"
                           /\ u.inbox[p] \in {"Accepted", "Completed"} => u.inbox[p] = t.inbox[p]

\* Nothing happens.
LEMMA EasesSame ==
    ASSUME NEW t \in TableRows, AtMostOne(ActiveIn(t))
    PROVE  Eases(t, t)
BY Zenon DEF Eases, Follows, Settles

\* One thing after another.
LEMMA EasesBoth ==
    ASSUME NEW t, NEW u, NEW v, Eases(t, u), Eases(u, v)
    PROVE  Eases(t, v)
BY Zenon DEF Eases, Follows, Settles

\* A row of the outbox is replaced by one that is not active.
LEMMA RowEnds ==
    ASSUME NEW t \in TableRows, AtMostOne(ActiveIn(t)), NEW p \in Pairings, NEW row \in OutRows,
           row.state \notin {"none", "Pending"}, t.outbox[p].state # "none",
           Settles(t.outbox[p].state, row.state)
    PROVE  Eases(t, put_pairing_outbox(t, p, row))
<1> DEFINE u == [inbox |-> t.inbox, outbox |-> [t.outbox EXCEPT ![p] = row]]
<1>1. put_pairing_outbox(t, p, row) = u
  BY PutOut, Zenon
<1>2. t.inbox \in [Pairings -> Box] /\ t.outbox \in [Pairings -> OutRows]
  BY Zenon DEF TableRows
<1>3. /\ u \in TableRows /\ u.inbox = t.inbox
      /\ \A q \in Pairings : u.outbox[q] = IF q = p THEN row ELSE t.outbox[q]
  BY <1>2, Zenon DEF TableRows
<1> HIDE DEF u
<1>4. ActiveIn(u) = ActiveIn(t)
  BY <1>3, Zenon DEF ActiveIn
<1>5. row.state # "Accepted"
  BY Zenon DEF OutRows
<1>6. ActiveOut(u) \subseteq ActiveOut(t)
  BY <1>3, <1>5, Zenon DEF ActiveOut, pairing_is_active
<1>7. Follows(t, u)
  BY <1>3, <1>4, <1>6, Zenon DEF Follows, Settles
<1> QED
  BY <1>1, <1>3, <1>7, Zenon DEF Eases

\* A request of the inbox gets a new state, and the others that were active retire.
LEMMA ArrivedFollows ==
    ASSUME NEW t \in TableRows, NEW p \in Pairings, NEW s \in Box, Settles(t.inbox[p], s)
    PROVE  /\ Follows(t, Arrived(t, p, s)) /\ Arrived(t, p, s).inbox[p] = s
           /\ \A q \in Pairings \ {p} : /\ Arrived(t, p, s).inbox[q] # "none" => t.inbox[q] # "none"
                                        /\ Arrived(t, p, s).inbox[q] \in {"Accepted", "Completed"} =>
                                             Arrived(t, p, s).inbox[q] = t.inbox[q]
<1> DEFINE u == Arrived(t, p, s)
<1>1. t.inbox \in [Pairings -> Box] /\ t.outbox \in [Pairings -> OutRows]
  BY Zenon DEF TableRows
<1>2. /\ u \in TableRows /\ u.outbox = t.outbox
      /\ \A q \in Pairings : u.inbox[q] = IF q = p THEN s ELSE IF pairing_is_active(t.inbox[q]) THEN "Archived" ELSE t.inbox[q]
  BY <1>1, Zenon DEF TableRows, Arrived, Box, InviteState
<1> HIDE DEF u
<1>3. AtMostOne(ActiveIn(u))
  BY <1>2, Zenon DEF ActiveIn, AtMostOne, pairing_is_active
<1>4. ActiveOut(u) = ActiveOut(t)
  BY <1>2, Zenon DEF ActiveOut
<1>5. Follows(t, u)
  BY <1>2, <1>3, <1>4, Zenon DEF Follows, Settles, pairing_is_active
<1> QED
  BY <1>2, <1>5, Zenon DEF u, pairing_is_active

\* The same, when the state is not Accepted or Completed.
LEMMA InboxEnds ==
    ASSUME NEW t \in TableRows, NEW p \in Pairings, NEW s \in Box, Settles(t.inbox[p], s),
           s \notin {"Accepted", "Completed"}, t.inbox[p] # "none"
    PROVE  Eases(t, put_pairing_inbox(t, p, s))
<1>1. put_pairing_inbox(t, p, s) = Arrived(t, p, s)
  BY PutIn, Zenon
<1> QED
  BY <1>1, ArrivedFollows DEF Eases

\* At most one member: none, or one.
LEMMA NoneOrOne ==
    ASSUME NEW S, AtMostOne(S)
    PROVE  S = {} \/ \E x \in S : S = {x}
BY Zenon DEF AtMostOne

\* expire_outbox expires at most one request, and leaves none that is late.
LEMMA ExpireOut ==
    ASSUME NEW t \in TableRows, AtMostOne(ActiveIn(t)), AtMostOne(ActiveOut(t)), age \in [Pairings -> 0..2]
    PROVE  /\ Eases(t, expire_outbox(t))
           /\ \A p \in ActiveOut(expire_outbox(t)) : t.outbox[p].state = "Pending" /\ age[p] = 0
<1> DEFINE late == {p \in Pairings : t.outbox[p].state = "Pending" /\ age[p] >= 1}
<1>1. t.inbox \in [Pairings -> Box] /\ t.outbox \in [Pairings -> OutRows]
  BY Zenon DEF TableRows
<1>2. AtMostOne(late)
  BY Zenon DEF AtMostOne, ActiveOut, pairing_is_active
<1>3. \A p \in ActiveOut(t) : t.outbox[p].state = "Pending"
  BY <1>1, Zenon DEF ActiveOut, pairing_is_active, OutRows
<1>4. expire_outbox(t) = FoldSet(LAMBDA p, u : put_pairing_outbox(u, p, [u.outbox[p] EXCEPT !.state = "Expired"]), t, late)
  BY Zenon DEF expire_outbox
<1>5. CASE late = {}
  <2>1. expire_outbox(t) = t
    BY <1>4, <1>5, FoldNone, Zenon
  <2>2. \A p \in ActiveOut(t) : age[p] = 0
    BY <1>3, <1>5 DEF ActiveOut
  <2> QED
    BY <2>1, <2>2, <1>3, EasesSame, Zenon
<1>6. ASSUME NEW x \in late, late = {x} PROVE Eases(t, expire_outbox(t)) /\ ActiveOut(expire_outbox(t)) = {}
  <2> DEFINE row == [t.outbox[x] EXCEPT !.state = "Expired"]
  <2>1. expire_outbox(t) = put_pairing_outbox(t, x, row)
    BY <1>4, <1>6, ExpireOne, Zenon
  <2>2. x \in Pairings /\ t.outbox[x].state = "Pending" /\ t.outbox[x] \in OutRows
    BY <1>1, <1>6, Zenon
  <2>3. row \in OutRows /\ row.state = "Expired"
    BY <2>2, Zenon DEF OutRows, Row, Box, InviteState
  <2>4. put_pairing_outbox(t, x, row) = [inbox |-> t.inbox, outbox |-> [t.outbox EXCEPT ![x] = row]]
    BY <2>2, <2>3, PutOut, Zenon
  <2> HIDE DEF row
  <2>5. Eases(t, put_pairing_outbox(t, x, row))
    BY <2>2, <2>3, RowEnds, Zenon DEF Settles
  <2>6. ASSUME NEW p \in ActiveOut(expire_outbox(t)) PROVE FALSE
    <3>1. p \in Pairings /\ pairing_is_active(expire_outbox(t).outbox[p].state)
      BY Zenon DEF ActiveOut
    <3>2. p # x
      BY <3>1, <2>1, <2>3, <2>4, <1>1 DEF pairing_is_active
    <3>3. p \in ActiveOut(t)
      BY <3>1, <3>2, <2>1, <2>4, <1>1 DEF ActiveOut
    <3>4. x \in ActiveOut(t)
      BY <2>2, Zenon DEF ActiveOut, pairing_is_active
    <3> QED
      BY <3>2, <3>3, <3>4, Zenon DEF AtMostOne
  <2> QED
    BY <2>1, <2>5, <2>6, Zenon
<1> HIDE DEF late
<1> QED
  BY <1>2, <1>5, <1>6, NoneOrOne, Zenon

\* expire_inbox expires at most one request, and leaves the outbox alone.
LEMMA ExpireIn ==
    ASSUME NEW t \in TableRows, AtMostOne(ActiveIn(t))
    PROVE  Eases(t, expire_inbox(t))
<1> DEFINE late == {p \in Pairings : t.inbox[p] = "Pending" /\ age[p] = 2}
<1>1. AtMostOne(late)
  BY Zenon DEF AtMostOne, ActiveIn, pairing_is_active
<1>2. expire_inbox(t) = FoldSet(LAMBDA p, u : put_pairing_inbox(u, p, "Expired"), t, late)
  BY Zenon DEF expire_inbox
<1>3. CASE late = {}
  BY <1>2, <1>3, FoldNone, EasesSame, Zenon
<1>4. ASSUME NEW x \in late, late = {x} PROVE Eases(t, expire_inbox(t))
  <2>1. expire_inbox(t) = put_pairing_inbox(t, x, "Expired")
    BY <1>2, <1>4, ExpireOneIn, Zenon
  <2>2. x \in Pairings /\ t.inbox[x] = "Pending"
    BY <1>4, Zenon
  <2> QED
    BY <2>1, <2>2, InboxEnds, Zenon DEF Settles, Box, InviteState
<1> HIDE DEF late
<1> QED
  BY <1>1, <1>3, <1>4, NoneOrOne, Zenon

\* No active request names its recipient, so none is completed for a contact.
LEMMA CompleteNone ==
    ASSUME NEW t \in TableRows, NEW e
    PROVE  complete_outbox_pairings_for_existing_contacts(e, t) = t
<1>1. {p \in Pairings : complete_for_existing_contact(e, t.outbox[p])} = {}
  BY Unkeyed, Zenon DEF complete_for_existing_contact, ActiveOut
<1> QED
  BY <1>1, FoldNone, Zenon DEF complete_outbox_pairings_for_existing_contacts

\* A new contact completes the outstanding request.
LEMMA Reconcile ==
    ASSUME NEW t \in TableRows, AtMostOne(ActiveIn(t)), AtMostOne(ActiveOut(t))
    PROVE  Eases(t, reconcile_outbox_items(t))
<1> DEFINE single == IF Cardinality(ActiveOut(t)) = 1 THEN ActiveOut(t) ELSE {}
<1>1. t.inbox \in [Pairings -> Box] /\ t.outbox \in [Pairings -> OutRows]
  BY Zenon DEF TableRows
<1>2. {p \in ActiveOut(t) : t.outbox[p].to} = {}
  BY Unkeyed, Zenon
<1>3. reconcile_outbox_items(t) = Complete(t, single)
  BY <1>2, Zenon DEF reconcile_outbox_items
<1>4. AtMostOne(single) /\ single \subseteq ActiveOut(t)
  BY Zenon DEF AtMostOne
<1> HIDE DEF single
<1>5. CASE single = {}
  BY <1>3, <1>5, FoldNone, EasesSame, Zenon
<1>6. ASSUME NEW x \in single, single = {x} PROVE Eases(t, reconcile_outbox_items(t))
  <2> DEFINE row == [t.outbox[x] EXCEPT !.state = "Completed", !.to = TRUE]
  <2>1. reconcile_outbox_items(t) = put_pairing_outbox(t, x, row)
    BY <1>3, <1>6, CompleteOne, Zenon
  <2>2. x \in Pairings /\ t.outbox[x].state \in {"Pending", "Accepted"} /\ t.outbox[x] \in OutRows
    BY <1>1, <1>4, Zenon DEF ActiveOut, pairing_is_active
  <2>3. row \in OutRows /\ row.state = "Completed"
    BY <2>2, Zenon DEF OutRows, Row, Box, InviteState
  <2> HIDE DEF row
  <2> QED
    BY <2>1, <2>2, <2>3, RowEnds, Zenon DEF Settles
<1> QED
  BY <1>4, <1>5, <1>6, NoneOrOne, Zenon

\* The row of p gets another state.
LEMMA StateEnds ==
    ASSUME NEW t \in TableRows, AtMostOne(ActiveIn(t)), NEW p \in Pairings, NEW s,
           \/ s \in {"Rejected", "Cancelled", "Expired"} /\ t.outbox[p].state = "Pending"
           \/ s \in {"Completed", "Archived"} /\ t.outbox[p].state \in {s, "Completed"}
           \/ s \in {"Rejected", "Cancelled", "Expired"} /\ t.outbox[p].state = s
           \/ s = "Archived" /\ t.outbox[p].state \in {"Rejected", "Cancelled", "Expired"}
    PROVE  Eases(t, put_pairing_outbox(t, p, [t.outbox[p] EXCEPT !.state = s]))
<1> DEFINE row == [t.outbox[p] EXCEPT !.state = s]
<1>1. t.outbox[p] \in OutRows
  BY Zenon DEF TableRows
<1>2. row \in OutRows /\ row.state = s
  BY <1>1, Zenon DEF OutRows, Row, Box, InviteState
<1> HIDE DEF row
<1>3. Eases(t, put_pairing_outbox(t, p, row))
  BY <1>2, RowEnds, Zenon DEF Settles
<1> QED
  BY <1>3, Zenon DEF row

\* A confirmed cancellation.
LEMMA CancelEases ==
    ASSUME NEW t \in TableRows, AtMostOne(ActiveIn(t)), NEW p \in Pairings
    PROVE  Eases(t, confirm_pairing_cancelled(t, p))
<1>1. t.outbox[p].state # "Accepted"
  BY Zenon DEF TableRows, OutRows
<1> QED
  BY <1>1, EasesSame, StateEnds, Zenon DEF confirm_pairing_cancelled, confirm_cancel

\* A rejection.
LEMMA RejectionEases ==
    ASSUME NEW t \in TableRows, AtMostOne(ActiveIn(t)), NEW p \in Pairings
    PROVE  Eases(t, apply_pairing_peer_outcome(t, p, "RejectionReceived"))
<1>1. t.outbox[p].state # "Accepted"
  BY Zenon DEF TableRows, OutRows
<1> QED
  BY <1>1, EasesSame, StateEnds, Zenon DEF apply_pairing_peer_outcome, next_state_for_peer_outcome

\* An archival.
LEMMA ArchiveEases ==
    ASSUME NEW t \in TableRows, AtMostOne(ActiveIn(t)), NEW p \in Pairings,
           ensure_pairing_transition(t, p, "Archive")
    PROVE  Eases(t, transition_pairing(t, p, "Archived"))
<1>1. t.outbox[p].state # "Accepted"
  BY Zenon DEF TableRows, OutRows
<1>2. CASE t.inbox[p] # "none"
  BY <1>2, InboxEnds, Zenon DEF transition_pairing, Settles, Box, InviteState
<1>3. CASE t.inbox[p] = "none"
  <2>1. t.outbox[p].state \in {"Rejected", "Completed", "Expired", "Cancelled"}
    BY <1>1, <1>3, Zenon DEF ensure_pairing_transition, transition_invite_state
  <2> QED
    BY <1>3, <2>1, StateEnds, Zenon DEF transition_pairing
<1> QED
  BY <1>2, <1>3, Zenon

\* A rejection by the owner.
LEMMA RejectEases ==
    ASSUME NEW t \in TableRows, AtMostOne(ActiveIn(t)), NEW p \in Pairings
    PROVE  Eases(t, commit_reject(t, p))
BY EasesSame, InboxEnds, Zenon DEF commit_reject, Settles, Box, InviteState

\* An acceptance: only p is accepted.
LEMMA AcceptFollows ==
    ASSUME NEW t \in TableRows, AtMostOne(ActiveIn(t)), NEW p \in Pairings
    PROVE  \/ Eases(t, commit_accept(t, p)) /\ t.inbox[p] # "Pending"
           \/ t.inbox[p] = "Pending" /\ commit_accept(t, p) = Arrived(t, p, "Accepted")
BY EasesSame, PutIn, Zenon DEF commit_accept, Box, InviteState

\* An offer: only p arrives.
LEMMA OfferFollows ==
    ASSUME NEW t \in TableRows, AtMostOne(ActiveIn(t)), NEW p \in Pairings
    PROVE  \/ Eases(t, merge_pairing_inbox(t, p))
           \/ \E v : Eases(t, v) /\ v.inbox[p] = "none" /\ merge_pairing_inbox(t, p) = Arrived(v, p, "Pending")
<1> DEFINE v == expire_inbox(t)
<1>1. Eases(t, v)
  BY ExpireIn, Zenon
<1>2. v \in TableRows
  BY <1>1, Zenon DEF Eases, Follows
<1>3. merge_pairing_inbox(t, p) = v \/ (v.inbox[p] = "none" /\ merge_pairing_inbox(t, p) = put_pairing_inbox(v, p, "Pending"))
  BY <1>2, Zenon DEF merge_pairing_inbox, merge_remote_items, merge_pairing_item, merge_invite_state
<1> HIDE DEF v
<1>4. put_pairing_inbox(v, p, "Pending") = Arrived(v, p, "Pending")
  BY <1>2, PutIn, Zenon DEF Box, InviteState
<1> QED
  BY <1>1, <1>3, <1>4, Zenon

\* The end of a pairing: only p is completed, and only when it was accepted.
LEMMA FinalFollows ==
    ASSUME NEW t \in TableRows, AtMostOne(ActiveIn(t)), NEW p \in Pairings
    PROVE  \/ Eases(t, finalize_pairing(t, p))
           \/ t.inbox[p] = "Accepted" /\ finalize_pairing(t, p) = Arrived(t, p, "Completed")
<1>1. t.outbox[p].state # "Accepted"
  BY Zenon DEF TableRows, OutRows
<1>2. CASE t.inbox[p] # "none"
  <2>1. transition_invite_state(t.inbox[p], "Complete") = IF t.inbox[p] = "Accepted" THEN "Completed" ELSE "none"
    BY Zenon DEF transition_invite_state
  <2> QED
    BY <1>2, <2>1, PutIn, EasesSame, Zenon DEF finalize_pairing, transition_pairing, Box, InviteState
<1>3. CASE t.inbox[p] = "none"
  <2>1. next_state_for_peer_outcome(t.outbox[p].state, "WelcomePrepared")
        = IF t.outbox[p].state = "Completed" THEN "Completed" ELSE "none"
    BY <1>1, Zenon DEF next_state_for_peer_outcome
  <2> QED
    BY <1>3, <2>1, EasesSame, StateEnds, Zenon DEF finalize_pairing, transition_pairing
<1> QED
  BY <1>2, <1>3, Zenon

-----------------------------------------------------------------------------
(* The waiting frames                                                      *)

\* r are the waiting frames after those of q: some are gone, and those of F may
\* be new.
Fed(q, r, F) ==
    /\ r \in [Engines -> Queues]
    /\ \A d \in Engines : StartsOnce(r[d]) /\ \A f \in Range(r[d]) : f \in Range(q[d]) \/ <<d, f>> \in F

\* A frame is appended.
LEMMA Appended ==
    ASSUME NEW s \in Seq(Frame), NEW f \in Frame, StartsOnce(s), f.kind # "Started" \/ f \notin Range(s)
    PROVE  /\ Append(s, f) \in Seq(Frame) /\ Len(Append(s, f)) = Len(s) + 1
           /\ StartsOnce(Append(s, f)) /\ Range(Append(s, f)) = Range(s) \cup {f}
<1> DEFINE r == Append(s, f)
<1>1. r \in Seq(Frame) /\ Len(r) = Len(s) + 1 /\ DOMAIN r = 1..Len(s) + 1 /\ DOMAIN s = 1..Len(s) /\ Len(s) \in Nat
  OBVIOUS
<1>2. r[Len(s) + 1] = f /\ \A i \in DOMAIN s : r[i] = s[i]
  OBVIOUS
<1> HIDE DEF r
<1>3. Range(r) = Range(s) \cup {f}
  <2>1. \A x \in Range(r) : x \in Range(s) \cup {f}
    BY <1>1, <1>2 DEF Range
  <2>2. \A x \in Range(s) : x \in Range(r)
    BY <1>1, <1>2 DEF Range
  <2>3. f \in Range(r)
    BY <1>1, <1>2 DEF Range
  <2> QED
    BY <2>1, <2>2, <2>3, Zenon
<1>4. StartsOnce(r)
  <2>1. SUFFICES ASSUME NEW i \in DOMAIN r, NEW j \in DOMAIN r, r[i].kind = "Started", r[i] = r[j] PROVE i = j
    BY Zenon DEF StartsOnce
  <2>2. f.kind # "Started" \/ \A k \in DOMAIN s : s[k] # f
    BY Zenon DEF Range
  <2>3. CASE i \in DOMAIN s /\ j \in DOMAIN s
    BY <2>1, <2>3, <1>2, Zenon DEF StartsOnce
  <2>4. CASE i \notin DOMAIN s \/ j \notin DOMAIN s
    BY <2>1, <2>2, <2>4, <1>1, <1>2
  <2> QED
    BY <2>3, <2>4, Zenon
<1> QED
  BY <1>1, <1>3, <1>4, Zenon DEF r

\* The first frame is taken.
LEMMA Taken ==
    ASSUME NEW s \in Seq(Frame), s # <<>>, StartsOnce(s)
    PROVE  /\ Tail(s) \in Seq(Frame) /\ Len(Tail(s)) = Len(s) - 1 /\ Len(s) \in Nat
           /\ StartsOnce(Tail(s)) /\ Range(Tail(s)) \subseteq Range(s)
           /\ Head(s) \in Range(s) /\ (Head(s).kind = "Started" => Head(s) \notin Range(Tail(s)))
<1> DEFINE r == Tail(s)
<1>1. /\ r \in Seq(Frame) /\ Len(r) = Len(s) - 1 /\ DOMAIN r = 1..Len(s) - 1 /\ DOMAIN s = 1..Len(s)
      /\ Len(s) \in Nat \ {0} /\ Head(s) = s[1]
  OBVIOUS
<1>2. \A i \in DOMAIN r : r[i] = s[i + 1]
  OBVIOUS
<1> HIDE DEF r
<1>3. \A i \in DOMAIN r : i \in Int /\ i + 1 \in DOMAIN s /\ i + 1 # 1
  BY <1>1
<1>4. Range(r) \subseteq Range(s)
  BY <1>2, <1>3, Zenon DEF Range
<1>5. StartsOnce(r)
  <2>1. SUFFICES ASSUME NEW i \in DOMAIN r, NEW j \in DOMAIN r, r[i].kind = "Started", r[i] = r[j] PROVE i = j
    BY Zenon DEF StartsOnce
  <2>2. i + 1 = j + 1
    BY <2>1, <1>2, <1>3, Zenon DEF StartsOnce
  <2> QED
    BY <2>2, <1>3
<1>6. ASSUME Head(s).kind = "Started", Head(s) \in Range(r) PROVE FALSE
  <2>1. PICK i \in DOMAIN r : r[i] = s[1]
    BY <1>1, <1>6, Zenon DEF Range
  <2>2. s[i + 1] = s[1] /\ s[i + 1].kind = "Started"
    BY <2>1, <1>1, <1>2, <1>6, Zenon
  <2> QED
    BY <2>2, <1>1, <1>3 DEF StartsOnce
<1>7. Head(s) \in Range(s)
  BY <1>1 DEF Range
<1> QED
  BY <1>1, <1>4, <1>5, <1>6, <1>7, Zenon DEF r

\* Nothing changes, or an engine loses its frames.
LEMMA FedSame ==
    ASSUME in \in [Engines -> Queues], \A d \in Engines : StartsOnce(in[d])
    PROVE  Fed(in, in, {})
BY Zenon DEF Fed

\* The queue of one engine is emptied.
LEMMA FedClear ==
    ASSUME NEW q, NEW F, Fed(in, q, F), NEW e \in Engines
    PROVE  Fed(in, [q EXCEPT ![e] = <<>>], F)
<1> DEFINE r == [q EXCEPT ![e] = <<>>]
<1>1. <<>> \in Queues /\ StartsOnce(<<>>) /\ Range(<<>>) = {}
  BY PairingAssumption DEF Queues, StartsOnce, Range
<1>2. q \in [Engines -> Queues]
  BY Zenon DEF Fed
<1>3. r \in [Engines -> Queues] /\ r[e] = <<>> /\ \A d \in Engines \ {e} : r[d] = q[d]
  BY <1>1, <1>2, Zenon
<1> HIDE DEF r
<1>4. Fed(in, r, F)
  BY <1>1, <1>3, Zenon DEF Fed
<1> QED
  BY <1>4, Zenon DEF r

\* The first frame of e is taken.
LEMMA FedPop ==
    ASSUME in \in [Engines -> Queues], \A d \in Engines : StartsOnce(in[d]), NEW e \in Engines, in[e] # <<>>
    PROVE  /\ Fed(in, Pop(e), {}) /\ Head(in[e]) \in Range(in[e]) /\ Head(in[e]) \in Frame
           /\ Head(in[e]).kind = "Started" => Head(in[e]) \notin Range(Pop(e)[e])
<1>1. in[e] \in Seq(Frame) /\ Len(in[e]) <= QUEUE
  BY Zenon DEF Queues
<1>2. Pop(e) \in [Engines -> Queues]
  BY <1>1, Taken, PairingAssumption DEF Pop, Queues
<1>3. Pop(e)[e] = Tail(in[e]) /\ \A d \in Engines \ {e} : Pop(e)[d] = in[d]
  BY Zenon DEF Pop
<1>4. Fed(in, Pop(e), {})
  BY <1>1, <1>2, <1>3, Taken, Zenon DEF Fed
<1>5. Head(in[e]) \in Frame
  BY <1>1
<1> QED
  BY <1>1, <1>3, <1>4, <1>5, Taken, Zenon

\* A frame is posted.
LEMMA FedPost ==
    ASSUME NEW q, NEW F, Fed(in, q, F), NEW e \in Engines, NEW f \in Frame,
           f.kind # "Started" \/ f \notin Range(q[e])
    PROVE  Fed(in, post(q, e, f), F \cup {<<e, f>>})
<1>1. Fed(in, q, F \cup {<<e, f>>})
  BY Zenon DEF Fed
<1>2. CASE ~(link[e] = "live" /\ Len(q[e]) < QUEUE)
  BY <1>1, <1>2, Zenon DEF post
<1>3. CASE link[e] = "live" /\ Len(q[e]) < QUEUE
  <2> DEFINE s == Append(q[e], f)
  <2>1. q[e] \in Seq(Frame) /\ StartsOnce(q[e]) /\ q \in [Engines -> Queues] /\ Len(q[e]) \in Nat
    BY DEF Fed, Queues
  <2>2. s \in Seq(Frame) /\ Len(s) = Len(q[e]) + 1 /\ StartsOnce(s) /\ Range(s) = Range(q[e]) \cup {f}
    BY <2>1, Appended, Zenon
  <2>3. post(q, e, f) = [q EXCEPT ![e] = s]
    BY <1>3, Zenon DEF post
  <2> HIDE DEF s
  <2>4. s \in Queues
    BY <2>1, <2>2, <1>3, PairingAssumption DEF Queues
  <2>5. [q EXCEPT ![e] = s] \in [Engines -> Queues]
    BY <2>1, <2>4, Zenon
  <2>6. \A d \in Engines : [q EXCEPT ![e] = s][d] = IF d = e THEN s ELSE q[d]
    BY <2>1, Zenon
  <2> QED
    BY <2>2, <2>3, <2>5, <2>6, Zenon DEF Fed
<1> QED
  BY <1>2, <1>3, Zenon

\* Where a frame of a bridge goes.
Out(p, kind) ==
    {<<Joiner[p], frame(kind, p)>>}
    \cup (IF kind = "PairingAccepted" THEN {} ELSE {<<Owner[p], frame(kind, p)>>})
BridgeKinds == {"PairingAccepted", "PairingRejected", "PairingCancelled", "PairingFinalized"}

\* A frame is sent, or is not.
LEMMA Sent ==
    ASSUME WireTypes, \A d \in Engines : StartsOnce(in[d]), NEW q, NEW F, Fed(in, q, F),
           NEW e \in Engines, NEW p \in Pairings, NEW kind \in BridgeKinds, send_frame(q, e, p, kind) \/ Unsent(q)
    PROVE  /\ link' \in [Engines -> {"none", "live", "broken"}] /\ slot' = slot /\ bridge' \subseteq bridge
           /\ Fed(in, in', F \cup Out(p, kind))
<1> DEFINE f == frame(kind, p)
           o == Owner[p]
           j == Joiner[p]
<1>1. in \in [Engines -> Queues] /\ link \in [Engines -> {"none", "live", "broken"}]
  BY Zenon DEF WireTypes
<1>2. f \in Frame /\ f.kind # "Started"
  BY Zenon DEF frame, Frame, BridgeKinds
<1>3. o \in Engines /\ j \in Engines
  BY PairingAssumption, Zenon
<1>4. \A r, G : Fed(in, r, G) /\ G \subseteq F \cup Out(p, kind) => Fed(in, r, F \cup Out(p, kind))
  BY Zenon DEF Fed
<1> DEFINE G1 == F \cup {<<j, f>>}
           G2 == F \cup {<<o, f>>}
           G3 == G2 \cup {<<j, f>>}
<1>5. G1 \subseteq F \cup Out(p, kind) /\ (kind # "PairingAccepted" => G3 \subseteq F \cup Out(p, kind))
  BY Zenon DEF Out
<1>6. Fed(in, post(q, j, f), G1)
  BY <1>2, <1>3, FedPost, Zenon
<1>7. Fed(in, post(q, o, f), G2)
  BY <1>2, <1>3, FedPost, Zenon
<1> HIDE DEF f, G2
<1>8. Fed(in, post(post(q, o, f), j, f), G3)
  BY <1>2, <1>3, <1>7, FedPost, Zenon
<1>9. CASE Unsent(q)
  BY <1>9, <1>1, <1>4, Zenon DEF Unsent
<1>10. CASE DropWorker(e) /\ UNCHANGED <<slot, bridge>>
  <2>1. Fed(in, in', {})
    BY <1>1, <1>10, FedSame, FedClear, Zenon DEF DropWorker
  <2> QED
    BY <2>1, <1>1, <1>4, <1>10 DEF DropWorker
<1> HIDE DEF G1, G3
<1>11. CASE link' = [link EXCEPT ![e] = "live"] /\ AtBridge(q, p, kind) /\ UNCHANGED slot
  <2>0. link' = [link EXCEPT ![e] = "live"]
    BY <1>11, Zenon
  <2>1. link' \in [Engines -> {"none", "live", "broken"}]
    BY <1>1, <2>0, Zenon
  <2>2. CASE p \notin bridge
    <3>1. in' = q /\ bridge' = bridge
      BY <1>11, <2>2, Zenon DEF AtBridge
    <3>2. Fed(in, q, F \cup Out(p, kind))
      BY <1>4, Zenon
    <3> QED
      BY <1>11, <2>1, <3>1, <3>2, Zenon
  <2>3. CASE p \in bridge /\ kind = "PairingAccepted"
    BY <1>4, <1>5, <1>6, <1>11, <2>1, <2>3, Zenon DEF AtBridge, f, j
  <2>4. CASE p \in bridge /\ kind # "PairingAccepted"
    BY <1>4, <1>5, <1>8, <1>11, <2>1, <2>4, Zenon DEF AtBridge, f, j, o
  <2> QED
    BY <2>2, <2>3, <2>4, Zenon
<1> QED
  BY <1>9, <1>10, <1>11, Zenon DEF send_frame

\* The relay is asked, or the broken connection is noticed.
LEMMA Asked ==
    ASSUME WireTypes, \A d \in Engines : StartsOnce(in[d]), NEW e \in Engines, NEW s \in Queues, StartsOnce(s),
           NEW G, \A f \in Range(s) : f \in Range(in[e]) \/ f \in G,
           NEW op, NEW p, NEW step, NEW answer \in Frame, answer.kind # "Started", answer \in G,
           Ask(e, s, op, p, step, answer)
    PROVE  /\ link' \in [Engines -> {"none", "live", "broken"}]
           /\ Fed(in, in', {<<e, f>> : f \in G})
           /\ effect' = effect \/ Start(e, op, p, step)
<1> DEFINE F == {<<e, f>> : f \in G}
<1>1. in \in [Engines -> Queues] /\ link \in [Engines -> {"none", "live", "broken"}]
  BY Zenon DEF WireTypes
<1>2. Fed(in, in, {})
  BY <1>1, FedSame, Zenon
<1>3. Fed(in, in, F)
  BY <1>2, Zenon DEF Fed
<1>4. ASSUME NEW r \in Queues, StartsOnce(r), \A f \in Range(r) : f \in Range(in[e]) \/ f \in G
      PROVE  Fed(in, [in EXCEPT ![e] = r], F)
  <2>1. [in EXCEPT ![e] = r] \in [Engines -> Queues]
    BY <1>1, <1>4, Zenon
  <2>2. \A d \in Engines : [in EXCEPT ![e] = r][d] = IF d = e THEN r ELSE in[d]
    BY <1>1, Zenon
  <2> QED
    BY <1>4, <2>1, <2>2, Zenon DEF Fed
<1>5. Fed(in, [in EXCEPT ![e] = s], F)
  BY <1>4, Zenon
<1>6. Fed(in, [in EXCEPT ![e] = <<>>], F)
  BY <1>3, FedClear, Zenon
<1>7. ASSUME Len(s) < QUEUE PROVE Fed(in, [in EXCEPT ![e] = Append(s, answer)], F)
  <2> DEFINE r == Append(s, answer)
  <2>1. s \in Seq(Frame)
    BY Zenon DEF Queues
  <2>2. r \in Seq(Frame) /\ Len(r) = Len(s) + 1 /\ StartsOnce(r) /\ Range(r) = Range(s) \cup {answer}
    BY <2>1, Appended, Zenon
  <2> HIDE DEF r
  <2>3. r \in Queues
    BY <2>1, <2>2, <1>7, PairingAssumption DEF Queues
  <2>4. Fed(in, [in EXCEPT ![e] = r], F)
    BY <2>2, <2>3, <1>4, Zenon
  <2> QED
    BY <2>4, Zenon DEF r
<1> HIDE DEF F
<1>8. Fed(in, in', F)
  BY <1>5, <1>6, <1>7, Zenon DEF Ask, DropWorker
<1>9. link' \in [Engines -> {"none", "live", "broken"}]
  BY <1>1, Zenon DEF Ask, DropWorker
<1> QED
  BY <1>8, <1>9, Zenon DEF Ask, F

-----------------------------------------------------------------------------
(* What a step keeps                                                       *)

\* No effect becomes a submission, and one that runs begins at most.
EffectsKept ==
    \A d \in Engines :
        \/ effect'[d] = effect[d]
        \/ effect'[d].op # "submit"
        \/ effect[d].op = "submit" /\ effect'[d].op = "submit" /\ effect'[d].p = effect[d].p /\ effect'[d].step = "begin"

\* A completed request is only archived.
Settled ==
    \A d \in Engines, p \in Pairings : /\ Settles(inbox[d][p], inbox'[d][p])
                                       /\ Settles(outbox[d][p].state, outbox'[d][p].state)

\* The new frames are true, and those that start a request start one that is
\* submitted and not being resolved.
News(F) ==
    \A d \in Engines : \A f \in Frame :
        <<d, f>> \in F => /\ Sound(d, f)'
                          /\ f.kind = "Started" => f.p \in Range(issued) /\ effect'[d].step # "resolve"

\* Every step but a submission and a start.
LEMMA Kept ==
    ASSUME PairIInv, StoredTypes', WireTypes', Consumed', OneGroup', issued' = issued,
           \A d \in Engines : used[d] \subseteq used'[d],
           \A d \in Engines : Follows(Tables(d), Tables(d)'),
           EffectsKept, NEW F, Fed(in, in', F), News(F)
    PROVE  PairIInv' /\ Settled
<1>1. \A d \in Engines, p \in Pairings : outbox[d][p].state = "none" => outbox'[d][p].state = "none"
  BY Zenon DEF Follows, Tables
<1>2. Single'
  BY DEF PairIInv, Single, Follows, EffectsKept, AtMostOne
<1>3. Submitting'
  BY Zenon DEF PairIInv, Submitting, EffectsKept
<1>4. \A d \in Engines : effect'[d].step = "resolve" => effect'[d] = effect[d] /\ effect[d].op = "submit"
  BY DEF EffectsKept, PairIInv, WireTypes, Effects, NoEffect
<1>5. Joiner \in [Pairings -> Engines] /\ Owner \in [Pairings -> Engines]
  BY PairingAssumption, Zenon
<1>6. \A d \in Engines : Range(in'[d]) \subseteq Frame /\ StartsOnce(in'[d])
  BY DEF Fed, Queues, Range
<1>7. Addressed'
  <2>1. SUFFICES ASSUME NEW d \in Engines, NEW f \in Range(in'[d]) PROVE Sound(d, f)'
    BY Zenon DEF Addressed
  <2>2. CASE f \in Range(in[d])
    <3>1. Sound(d, f) /\ f \in Frame
      BY <2>1, <2>2, <1>6, Zenon DEF PairIInv, Addressed
    <3>2. f.p \in Pairings => Owner[f.p] \in Engines /\ Joiner[f.p] \in Engines
      BY <1>5, Zenon
    <3>3. f.kind = "Started" => outbox'[d][f.p].state = "none"
      BY <3>1, <1>1, Zenon DEF Sound
    <3> QED
      BY <3>1, <3>2, <3>3, Zenon DEF Sound
  <2>3. CASE <<d, f>> \in F
    BY <2>1, <2>3, <1>6, Zenon DEF News
  <2> QED
    BY <2>1, <2>2, <2>3, Zenon DEF Fed
<1>8. StartedOnce'
  <2>1. ASSUME NEW d \in Engines, effect'[d].step = "resolve" PROVE Unstarted(d, effect[d].p)'
    <3>1. effect'[d] = effect[d] /\ effect[d].op = "submit" /\ effect[d].p \in Pairings /\ Unstarted(d, effect[d].p)
      BY <1>4, <2>1 DEF PairIInv, StartedOnce, WireTypes, Effects, NoEffect
    <3>2. frame("Started", effect[d].p) \in Frame /\ frame("Started", effect[d].p).kind = "Started"
      BY <3>1, Zenon DEF frame, Frame
    <3>3. frame("Started", effect[d].p) \notin Range(in'[d])
      BY <2>1, <3>1, <3>2, Zenon DEF Fed, News, Unstarted
    <3> QED
      BY <1>1, <3>1, <3>3, Zenon DEF Unstarted
  <2>2. ASSUME NEW p \in Pairings \ Range(issued) PROVE Unstarted(Joiner[p], p)'
    <3>1. Unstarted(Joiner[p], p) /\ Joiner[p] \in Engines
      BY <1>5, Zenon DEF PairIInv, StartedOnce
    <3>2. frame("Started", p) \in Frame /\ frame("Started", p).kind = "Started" /\ frame("Started", p).p = p
      BY Zenon DEF frame, Frame
    <3>3. frame("Started", p) \notin Range(in'[Joiner[p]])
      BY <3>1, <3>2, Zenon DEF Fed, News, Unstarted
    <3> QED
      BY <1>1, <3>1, <3>3, Zenon DEF Unstarted
  <2> QED
    BY <1>6, <2>1, <2>2, Zenon DEF StartedOnce
<1>9. Settled
  BY Zenon DEF Settled, Follows, Tables
<1> QED
  BY <1>2, <1>3, <1>7, <1>8, <1>9, Zenon DEF PairIInv

\* The tables of e are replaced.
LEMMA TablesSet ==
    ASSUME PairIInv, NEW e \in Engines, NEW u, SetTables(e, u), Follows(Tables(e), u)
    PROVE  /\ inbox' \in [Engines -> [Pairings -> Box]] /\ outbox' \in [Engines -> [Pairings -> OutRows]]
           /\ \A d \in Engines : Follows(Tables(d), Tables(d)')
           /\ Tables(e)' = u /\ \A d \in Engines \ {e} : inbox'[d] = inbox[d] /\ outbox'[d] = outbox[d]
<1>1. inbox \in [Engines -> [Pairings -> Box]] /\ outbox \in [Engines -> [Pairings -> OutRows]]
  BY Zenon DEF PairIInv, StoredTypes
<1>2. u \in TableRows
  BY Zenon DEF Follows
<1>3. u.inbox \in [Pairings -> Box] /\ u.outbox \in [Pairings -> OutRows] /\ u = [inbox |-> u.inbox, outbox |-> u.outbox]
  BY <1>2, Zenon DEF TableRows
<1>4. inbox'[e] = u.inbox /\ outbox'[e] = u.outbox /\ \A d \in Engines \ {e} : inbox'[d] = inbox[d] /\ outbox'[d] = outbox[d]
  BY <1>1, Zenon DEF SetTables
<1>5. inbox' \in [Engines -> [Pairings -> Box]] /\ outbox' \in [Engines -> [Pairings -> OutRows]]
  BY <1>1, <1>3, Zenon DEF SetTables
<1>6. Tables(e)' = u
  BY <1>3, <1>4, Zenon DEF Tables
<1>7. ASSUME NEW d \in Engines \ {e} PROVE Follows(Tables(d), Tables(d)')
  <2>1. Tables(d)' = Tables(d) /\ Tables(d) \in TableRows /\ AtMostOne(ActiveIn(Tables(d)))
    BY <1>1, <1>4, Zenon DEF Tables, TableRows, PairIInv, Single
  <2> QED
    BY <2>1, EasesSame, Zenon DEF Eases
<1> QED
  BY <1>4, <1>5, <1>6, <1>7, Zenon

TokenTypes == [owner : SUBSET Pairings, joiner : SUBSET Pairings, keys : SUBSET Pairings]
LinkTypes == [Engines -> {"none", "live", "broken"}]

\* A step that keeps the ledger of the invites, after which the requests of e are
\* eased.
LEMMA ReceivedEased ==
    ASSUME PairIInv, NEW e \in Engines, NEW u, SetTables(e, u), Eases(Tables(e), u),
           \A d \in Engines : used[d] \subseteq used'[d]
    PROVE  Received'
<1>1. /\ Tables(e)' = u /\ \A d \in Engines \ {e} : inbox'[d] = inbox[d] /\ outbox'[d] = outbox[d]
  BY TablesSet, Zenon DEF Eases
<1>2. SUFFICES ASSUME NEW d \in Engines, NEW p \in Pairings
               PROVE  /\ inbox'[d][p] # "none" => d = Owner[p]
                      /\ inbox'[d][p] \in {"Accepted", "Completed"} => p \in used'[d]
                      /\ inbox'[d][p] = "Completed" => p \in used'[Joiner[p]]
  BY Zenon DEF Received
<1>3. /\ inbox'[d][p] # "none" => inbox[d][p] # "none"
      /\ inbox'[d][p] \in {"Accepted", "Completed"} => inbox'[d][p] = inbox[d][p]
  <2>1. CASE d = e
    <3>1. inbox'[d] = u.inbox
      BY <1>1, <2>1, Zenon DEF Tables
    <3> QED
      BY <2>1, <3>1, Zenon DEF Eases, Tables
  <2>2. CASE d # e
    BY <1>1, <2>2, Zenon
  <2> QED
    BY <2>1, <2>2, Zenon
<1>4. /\ inbox[d][p] # "none" => d = Owner[p]
      /\ inbox[d][p] \in {"Accepted", "Completed"} => p \in used[d]
      /\ inbox[d][p] = "Completed" => p \in used[Joiner[p]]
  BY Zenon DEF PairIInv, Consumed, Received
<1>5. Joiner[p] \in Engines
  BY PairingAssumption
<1> QED
  BY <1>3, <1>4, <1>5

\* A step that at most eases the tables of e, and consumes no invite.
LEMMA Eased ==
    ASSUME PairIInv, UNCHANGED <<used, group, created, age, issued>>,
           invites' \in [Engines -> SUBSET Pairings], welcomes' \in [Engines -> SUBSET Pairings],
           \A d \in Engines : welcomes'[d] \subseteq welcomes[d],
           NEW e \in Engines, NEW u, SetTables(e, u), Eases(Tables(e), u),
           tokens' \in TokenTypes, effect' \in [Engines -> Effects], link' \in LinkTypes,
           slot' \in [Engines -> BOOLEAN], bridge' \subseteq Range(issued),
           EffectsKept, NEW F, Fed(in, in', F), News(F)
    PROVE  PairIInv' /\ Settled
<1>1. /\ inbox' \in [Engines -> [Pairings -> Box]] /\ outbox' \in [Engines -> [Pairings -> OutRows]]
      /\ \A d \in Engines : Follows(Tables(d), Tables(d)')
      /\ Tables(e)' = u /\ \A d \in Engines \ {e} : inbox'[d] = inbox[d] /\ outbox'[d] = outbox[d]
  BY TablesSet, Zenon DEF Eases
<1>2. StoredTypes'
  BY <1>1, Zenon DEF PairIInv, StoredTypes
<1>3. WireTypes'
  BY Zenon DEF PairIInv, WireTypes, TokenTypes, LinkTypes, Fed
<1>4. OneGroup'
  BY Zenon DEF PairIInv, OneGroup
<1>5. \A d \in Engines : used[d] \subseteq used'[d]
  BY Zenon
<1>6. Consumed'
  <2>1. Received'
    BY <1>5, ReceivedEased
  <2>2. Ledger'
    BY Zenon DEF PairIInv, Consumed, Ledger
  <2> QED
    BY <2>1, <2>2, Zenon DEF Consumed
<1> QED
  BY <1>1, <1>2, <1>3, <1>4, <1>5, <1>6, Kept

\* A step that leaves the tables alone.
LEMMA Untouched ==
    ASSUME PairIInv, UNCHANGED <<inbox, outbox, used, group, created, age, issued>>,
           invites' \in [Engines -> SUBSET Pairings], welcomes' \in [Engines -> SUBSET Pairings],
           \A d \in Engines : welcomes'[d] \subseteq welcomes[d], NEW e \in Engines,
           tokens' \in TokenTypes, effect' \in [Engines -> Effects], link' \in LinkTypes,
           slot' \in [Engines -> BOOLEAN], bridge' \subseteq Range(issued),
           EffectsKept, NEW F, Fed(in, in', F), News(F)
    PROVE  PairIInv' /\ Settled
<1>1. SetTables(e, Tables(e))
  BY Zenon DEF PairIInv, StoredTypes, SetTables, Tables
<1>2. Eases(Tables(e), Tables(e))
  BY EasesSame, Zenon DEF PairIInv, StoredTypes, Single, Tables, TableRows
<1> QED
  BY <1>1, <1>2, Eased, Zenon

\* What the invariant says of the wire, and of the tables of e.
LEMMA Typed ==
    ASSUME PairIInv
    PROVE  /\ WireTypes /\ tokens \in TokenTypes /\ effect \in [Engines -> Effects] /\ link \in LinkTypes
           /\ slot \in [Engines -> BOOLEAN] /\ bridge \subseteq Range(issued)
           /\ in \in [Engines -> Queues] /\ (\A d \in Engines : StartsOnce(in[d])) /\ Fed(in, in, {})
           /\ invites \in [Engines -> SUBSET Pairings] /\ welcomes \in [Engines -> SUBSET Pairings]
           /\ \A e \in Engines : /\ Tables(e) \in TableRows
                                 /\ AtMostOne(ActiveIn(Tables(e))) /\ AtMostOne(ActiveOut(Tables(e)))
           /\ age \in [Pairings -> 0..2]
<1>1. WireTypes /\ StoredTypes /\ Single /\ StartedOnce
  BY Zenon DEF PairIInv
<1>2. Fed(in, in, {})
  BY <1>1, FedSame, Zenon DEF WireTypes, StartedOnce
<1>3. \A e \in Engines : Tables(e) \in TableRows
  BY <1>1, Zenon DEF StoredTypes, Tables, TableRows
<1> QED
  BY <1>1, <1>2, <1>3, Zenon DEF WireTypes, TokenTypes, LinkTypes, StoredTypes, Single, StartedOnce

\* No frame is new.
LEMMA NoNews == News({})
BY Zenon DEF News

\* The frames that say nothing.
LEMMA QuietNews ==
    ASSUME NEW F, \A d, f : <<d, f>> \in F => f.kind \in {"Created", "Stale", "Resolved", "Error"}
    PROVE  News(F)
BY Zenon DEF News, Sound

\* A frame of a bridge is true.
LEMMA BridgeNews ==
    ASSUME NEW p \in Pairings, NEW kind \in BridgeKinds,
           kind = "PairingAccepted" => p \in used'[Owner[p]],
           kind = "PairingFinalized" => p \in used'[Joiner[p]]
    PROVE  News(Out(p, kind))
<1> SUFFICES ASSUME NEW d \in Engines, NEW f \in Frame, <<d, f>> \in Out(p, kind)
             PROVE  Sound(d, f)' /\ f.kind # "Started"
  BY Zenon DEF News
<1>1. f = frame(kind, p) /\ (kind = "PairingAccepted" => d = Joiner[p])
  BY Zenon DEF Out
<1>2. f.kind = kind /\ f.p = p
  BY <1>1, Zenon DEF frame
<1> QED
  BY <1>1, <1>2, Zenon DEF Sound, BridgeKinds

\* The effect of e ends.
LEMMA Finished ==
    ASSUME effect \in [Engines -> Effects], NEW e \in Engines, effect' = effect \/ Finish(e)
    PROVE  effect' \in [Engines -> Effects] /\ EffectsKept
<1>1. NoEffect \in Effects /\ NoEffect.op # "submit"
  BY Zenon DEF Effects, NoEffect
<1>2. CASE effect' = effect
  BY <1>2, Zenon DEF EffectsKept
<1>3. CASE Finish(e)
  <2>1. effect' = [effect EXCEPT ![e] = NoEffect]
    BY <1>3, Zenon DEF Finish
  <2> QED
    BY <1>1, <2>1, Zenon DEF EffectsKept
<1> QED
  BY <1>2, <1>3, Zenon

\* What a restart takes away.
LEMMA Volatile ==
    ASSUME PairIInv, NEW e \in Engines, LoseVolatile(e)
    PROVE  /\ tokens' \in TokenTypes /\ effect' \in [Engines -> Effects] /\ link' \in LinkTypes
           /\ slot' \in [Engines -> BOOLEAN] /\ bridge' \subseteq Range(issued) /\ EffectsKept
<1>1. Finish(e)
  BY Zenon DEF LoseVolatile, Finish
<1>2. effect' \in [Engines -> Effects] /\ EffectsKept
  BY <1>1, Finished, Typed, Zenon
<1>3. tokens' \in TokenTypes
  BY Typed, Zenon DEF LoseVolatile, TokenTypes
<1> QED
  BY <1>2, <1>3, Typed, Zenon DEF LoseVolatile, LinkTypes

-----------------------------------------------------------------------------
(* Steps on the wire                                                       *)

\* The active slot is replaced.
LEMMA RefreshStep ==
    ASSUME PairIInv, NEW e \in Engines, RefreshPairingCode(e)
    PROVE  PairIInv' /\ Settled
<1> DEFINE s == [i \in DOMAIN in[e] |-> IF in[e][i].kind = "Created" THEN frame("Stale", 0) ELSE in[e][i]]
           G == {frame("Stale", 0), frame("Created", 0)}
           F == {<<e, f>> : f \in G}
<1>1. in[e] \in Seq(Frame) /\ Len(in[e]) <= QUEUE /\ StartsOnce(in[e]) /\ DOMAIN in[e] = 1..Len(in[e]) /\ Len(in[e]) \in Nat
  BY Typed DEF Queues
<1>2. G \subseteq Frame /\ \A f \in G : f.kind \in {"Stale", "Created"}
  BY DEF frame, Frame
<1>3. s \in [1..Len(in[e]) -> Frame]
  BY <1>1, <1>2
<1>4. s \in Seq(Frame) /\ Len(s) = Len(in[e])
  BY <1>1, <1>3
<1>5. s \in Queues
  BY <1>1, <1>4, Zenon DEF Queues
<1>6. \A i \in DOMAIN s : s[i] = in[e][i] \/ s[i] = frame("Stale", 0)
  BY Zenon
<1>7. DOMAIN s = DOMAIN in[e]
  BY Zenon
<1>8. Ask(e, s, "refresh", 0, "create", frame("Created", 0))
  BY Zenon DEF RefreshPairingCode
<1> HIDE DEF s
<1>9. \A f \in Range(s) : f \in Range(in[e]) \/ f \in G
  BY <1>6, <1>7, Zenon DEF Range
<1>10. StartsOnce(s)
  BY <1>1, <1>2, <1>6, <1>7, Zenon DEF StartsOnce
<1> DEFINE a == frame("Created", 0)
<1>a. a \in Frame /\ a.kind # "Started" /\ a \in G /\ Ask(e, s, "refresh", 0, "create", a)
  BY <1>2, <1>8, Zenon
<1> HIDE DEF a, G
<1>11. /\ link' \in LinkTypes /\ Fed(in, in', F)
       /\ effect' = effect \/ Start(e, "refresh", 0, "create")
  BY <1>5, <1>9, <1>10, <1>a, Asked, Typed, Zenon DEF LinkTypes
<1>12. effect' \in [Engines -> Effects] /\ EffectsKept
  <2> DEFINE x == [op |-> "refresh", p |-> 0, step |-> "create"]
  <2>1. x \in Effects /\ x.op # "submit"
    BY Zenon DEF Effects
  <2>2. CASE effect' = effect
    BY <2>2, Typed, Zenon DEF EffectsKept
  <2>3. CASE effect' = [effect EXCEPT ![e] = x]
    <3> HIDE DEF x
    <3> QED
      BY <2>1, <2>3, Typed, Zenon DEF EffectsKept
  <2> QED
    BY <1>11, <2>2, <2>3, Zenon DEF Start
<1>13. News(F)
  BY <1>2, QuietNews, Zenon DEF G
<1>14. slot' \in [Engines -> BOOLEAN]
  BY Typed, Zenon DEF RefreshPairingCode
<1>15. /\ UNCHANGED <<inbox, outbox, used, group, created, age, issued>>
       /\ UNCHANGED <<invites, welcomes, tokens, bridge>>
  BY Zenon DEF RefreshPairingCode, tables
<1> QED
  BY <1>11, <1>12, <1>13, <1>14, <1>15, Typed, Untouched, Zenon

\* The frame that a worker waits for, or another one.
LEMMA TakeStep ==
    ASSUME PairIInv, NEW e \in Engines, SlotCreated(e) \/ UnexpectedFrame(e)
    PROVE  PairIInv' /\ Settled
<1>1. in[e] # <<>> /\ in' = Pop(e) /\ Finish(e)
  BY Zenon DEF SlotCreated, UnexpectedFrame, Receives
<1>2. Fed(in, in', {})
  BY <1>1, FedPop, Typed, Zenon
<1>3. effect' \in [Engines -> Effects] /\ EffectsKept
  BY <1>1, Finished, Typed, Zenon
<1>4. slot' \in [Engines -> BOOLEAN]
  BY Typed, Zenon DEF SlotCreated, UnexpectedFrame
<1>5. /\ UNCHANGED <<inbox, outbox, used, group, created, age, issued>>
      /\ UNCHANGED <<invites, welcomes, tokens, link, bridge>>
  BY Zenon DEF SlotCreated, UnexpectedFrame, tables, count
<1> QED
  BY <1>2, <1>3, <1>4, <1>5, NoNews, Typed, Untouched, Zenon

\* No frame comes, or the worker is found dead.
LEMMA TimeoutStep ==
    ASSUME PairIInv, NEW e \in Engines, ResponseTimeout(e)
    PROVE  PairIInv' /\ Settled
<1>1. Finish(e) /\ (DropWorker(e) \/ UNCHANGED <<link, in>>)
  BY Zenon DEF ResponseTimeout
<1>2. Fed(in, in', {}) /\ link' \in LinkTypes
  BY <1>1, FedClear, Typed DEF DropWorker, LinkTypes
<1>3. effect' \in [Engines -> Effects] /\ EffectsKept
  BY <1>1, Finished, Typed, Zenon
<1>5. /\ UNCHANGED <<inbox, outbox, used, group, created, age, issued>>
      /\ UNCHANGED <<invites, welcomes, tokens, slot, bridge>>
  BY Zenon DEF ResponseTimeout, tables, count
<1> QED
  BY <1>2, <1>3, <1>5, NoNews, Typed, Untouched, Zenon

\* RelayPoll drops a frame or the worker.
LEMMA DropsStep ==
    ASSUME PairIInv, NEW e \in Engines, PollDrops(e)
    PROVE  PairIInv' /\ Settled
<1>1. (in[e] # <<>> /\ in' = Pop(e) /\ UNCHANGED link) \/ DropWorker(e)
  BY Zenon DEF PollDrops
<1>2. Fed(in, in', {}) /\ link' \in LinkTypes
  BY <1>1, FedClear, FedPop, Typed DEF DropWorker, LinkTypes
<1>3. EffectsKept
  BY Zenon DEF PollDrops, EffectsKept
<1>5. /\ UNCHANGED <<inbox, outbox, used, group, created, age, issued>>
      /\ UNCHANGED <<invites, welcomes, tokens, effect, slot, bridge>>
  BY Zenon DEF PollDrops, tables, count
<1> QED
  BY <1>2, <1>3, <1>5, NoNews, Typed, Untouched, Zenon

\* The connection is lost or replaced, or the engine restarts.
LEMMA LostStep ==
    ASSUME PairIInv, NEW e \in Engines, LinkLost(e) \/ set_socks5_url(e) \/ Restart(e)
    PROVE  PairIInv' /\ Settled
<1>1. Fed(in, in', {})
  BY FedClear, Typed DEF LinkLost, set_socks5_url, Restart, DropWorker
<1>2. /\ tokens' \in TokenTypes /\ effect' \in [Engines -> Effects] /\ link' \in LinkTypes
      /\ slot' \in [Engines -> BOOLEAN] /\ bridge' \subseteq Range(issued) /\ EffectsKept
  <2>1. CASE Restart(e)
    BY <2>1, Volatile, Zenon DEF Restart
  <2>2. CASE LinkLost(e)
    BY <2>2, Typed, Zenon DEF LinkLost, LinkTypes, EffectsKept
  <2>3. CASE set_socks5_url(e)
    BY <2>3, Typed, Zenon DEF set_socks5_url, DropWorker, LinkTypes, EffectsKept
  <2> QED
    BY <2>1, <2>2, <2>3, Zenon
<1>3. /\ UNCHANGED <<inbox, outbox, used, group, created, age, issued>>
      /\ UNCHANGED <<invites, welcomes>>
  BY Zenon DEF LinkLost, set_socks5_url, Restart, tables
<1> QED
  BY <1>1, <1>2, <1>3, NoNews, Typed, Untouched, Zenon

\* The relay ends a bridge.
LEMMA BridgeStep ==
    ASSUME PairIInv, NEW p \in Pairings, BridgeExpires(p)
    PROVE  PairIInv' /\ Settled
<1>1. Owner[p] \in Engines
  BY PairingAssumption, Zenon
<1>2. /\ UNCHANGED <<inbox, outbox, used, group, created, age, issued>>
      /\ UNCHANGED <<invites, welcomes, tokens, effect, link, in, slot>>
  BY Zenon DEF BridgeExpires, tables, count
<1>3. bridge' \subseteq Range(issued) /\ EffectsKept
  BY <1>2, Typed, Zenon DEF BridgeExpires, EffectsKept
<1> QED
  BY <1>1, <1>2, <1>3, NoNews, Typed, Untouched, Zenon

\* A deadline passes.
LEMMA TickStep ==
    ASSUME PairIInv, NEW p \in Pairings, Tick(p)
    PROVE  PairIInv' /\ Settled
<1>1. age' = [age EXCEPT ![p] = @ + 1] /\ age[p] < 2 /\ age \in [Pairings -> 0..2]
  BY Typed, Zenon DEF Tick
<1>2. age' \in [Pairings -> 0..2]
  BY <1>1
<1>3. /\ UNCHANGED <<inbox, outbox, used, group, created, issued>>
      /\ UNCHANGED <<invites, welcomes, tokens, effect, link, in, slot, bridge>>
  BY Zenon DEF Tick, tables, wire, count
<1>4. StoredTypes' /\ WireTypes' /\ Single' /\ Submitting'
  BY <1>2, <1>3, Zenon DEF PairIInv, StoredTypes, WireTypes, Single, Submitting, Tables
<1>5. Addressed' /\ Consumed' /\ StartedOnce' /\ OneGroup'
  <2>1. Addressed'
    BY <1>3, Zenon DEF PairIInv, Addressed, Sound
  <2>2. Received' /\ OneGroup'
    BY <1>3, Zenon DEF PairIInv, Consumed, Received, OneGroup
  <2>3. Ledger'
    BY <1>3, Zenon DEF PairIInv, Consumed, Ledger
  <2>4. StartedOnce'
    BY <1>3, ZenonT(30) DEF PairIInv, StartedOnce, StartsOnce, Unstarted
  <2> QED
    BY <2>1, <2>2, <2>3, <2>4, Zenon DEF Consumed
<1>6. Settled
  BY <1>3, Zenon DEF Settled, Settles
<1> QED
  BY <1>4, <1>5, <1>6, Zenon DEF PairIInv

\* A request is cancelled at the relay.
LEMMA CancelStep ==
    ASSUME PairIInv, NEW e \in Engines, NEW p \in Pairings, CancelPairing(e, p)
    PROVE  PairIInv' /\ Settled
<1> DEFINE kind == "PairingCancelled"
<1>1. kind \in BridgeKinds
  BY Zenon DEF BridgeKinds
<1>2. send_frame(in, e, p, kind) \/ Unsent(in)
  BY Zenon DEF CancelPairing, Unsent, wire
<1>3. link' \in LinkTypes /\ slot' = slot /\ bridge' \subseteq bridge /\ Fed(in, in', {} \cup Out(p, kind))
  BY <1>1, <1>2, Sent, Typed, Zenon DEF LinkTypes
<1>4. News({} \cup Out(p, kind))
  BY <1>1, BridgeNews, Zenon
<1>5. PICK st \in {"ok", "err"} : Start(e, "cancel", p, st)
  BY Zenon DEF CancelPairing
<1>6. effect' \in [Engines -> Effects] /\ EffectsKept
  <2> DEFINE x == [op |-> "cancel", p |-> p, step |-> st]
  <2>1. x \in Effects /\ x.op # "submit"
    BY Zenon DEF Effects
  <2>2. effect' = [effect EXCEPT ![e] = x]
    BY <1>5, Zenon DEF Start
  <2> HIDE DEF x
  <2> QED
    BY <2>1, <2>2, Typed, Zenon DEF EffectsKept
<1>7. /\ UNCHANGED <<inbox, outbox, used, group, created, age, issued>>
      /\ UNCHANGED <<invites, welcomes, tokens>>
  BY Zenon DEF CancelPairing, tables, count
<1> QED
  BY <1>3, <1>4, <1>6, <1>7, Typed, Untouched, Zenon

\* The code is resolved and the pairing begins.
LEMMA ResolvedStep ==
    ASSUME PairIInv, NEW e \in Engines, SlotResolved(e)
    PROVE  PairIInv' /\ Settled
<1> DEFINE p == effect[e].p
           o == Owner[p]
           x == [op |-> "submit", p |-> p, step |-> "begin"]
           f1 == frame("Requested", p)
           f2 == frame("Started", p)
           f3 == frame("Error", 0)
<1>1. effect[e].step = "resolve" /\ in[e] # <<>>
  BY Zenon DEF SlotResolved, Receives
<1>2. effect[e].op = "submit" /\ p \in Pairings
  BY <1>1, Typed DEF Effects, NoEffect
<1>3. p \in Range(issued) /\ Joiner[p] = e /\ Unstarted(e, p)
  BY <1>1, <1>2, Zenon DEF PairIInv, Submitting, StartedOnce
<1>4. o \in Engines /\ o # e
  BY <1>2, <1>3, PairingAssumption, Zenon
<1>5. /\ UNCHANGED <<inbox, outbox, used, group, created, age, issued>>
      /\ UNCHANGED <<invites, welcomes>>
  BY Zenon DEF SlotResolved, tables, count
<1>6. tokens' \in TokenTypes
  BY <1>2, Typed, Zenon DEF SlotResolved, TokenTypes
<1>7. x \in Effects /\ x.op = "submit" /\ x.p = p /\ x.step = "begin"
  BY <1>2, Zenon DEF Effects
<1>8. /\ f1 \in Frame /\ f1.kind = "Requested" /\ f1.p = p
      /\ f2 \in Frame /\ f2.kind = "Started" /\ f2.p = p
      /\ f3 \in Frame /\ f3.kind = "Error"
  BY <1>2, Zenon DEF frame, Frame
<1>9. Fed(in, Pop(e), {})
  BY <1>1, FedPop, Typed, Zenon
<1>10. ASSUME Start(e, "submit", p, "begin")
       PROVE  effect' \in [Engines -> Effects] /\ EffectsKept /\ effect'[e].step = "begin"
  <2>1. effect' = [effect EXCEPT ![e] = x]
    BY <1>10, Zenon DEF Start
  <2> HIDE DEF x, p
  <2>2. \A d \in Engines : effect'[d] = IF d = e THEN x ELSE effect[d]
    BY <2>1, Typed, Zenon
  <2> QED
    BY <1>2, <1>7, <2>1, <2>2, Typed, Zenon DEF EffectsKept, p
<1>11. CASE /\ link[e] = "live" /\ slot[o] /\ slot' = [slot EXCEPT ![o] = FALSE] /\ bridge' = bridge \cup {p}
            /\ in' = post(post(Pop(e), o, f1), e, f2) /\ Start(e, "submit", p, "begin") /\ UNCHANGED link
  <2> DEFINE F1 == {} \cup {<<o, f1>>}
             F2 == F1 \cup {<<e, f2>>}
  <2> HIDE DEF f1, f2, x
  <2>1. Fed(in, post(Pop(e), o, f1), F1)
    BY <1>4, <1>8, <1>9, FedPost, Zenon
  <2>2. f2 \notin Range(post(Pop(e), o, f1)[e])
    BY <1>3, <1>4, <2>1, ZenonT(30) DEF Fed, Unstarted, f2
  <2>3. Fed(in, in', F2)
    <3> HIDE DEF F1
    <3> QED
      BY <1>8, <1>11, <2>1, <2>2, FedPost, Zenon
  <2>4. News(F2)
    <3> SUFFICES ASSUME NEW d \in Engines, NEW f \in Frame, <<d, f>> \in F2
                 PROVE  /\ Sound(d, f)'
                        /\ f.kind = "Started" => f.p \in Range(issued) /\ effect'[d].step # "resolve"
      BY ZenonT(30) DEF News
    <3>1. CASE d = o /\ f = f1
      BY <1>2, <1>8, <3>1, Zenon DEF Sound
    <3>2. CASE d = e /\ f = f2
      BY <1>2, <1>3, <1>5, <1>8, <1>10, <1>11, <3>2, Zenon DEF Sound, Unstarted
    <3> QED
      BY <3>1, <3>2, Zenon
  <2>5. slot' \in [Engines -> BOOLEAN] /\ bridge' \subseteq Range(issued)
    BY <1>3, <1>4, <1>11, Typed, Zenon
  <2> HIDE DEF F2, p, o
  <2> QED
    BY <1>5, <1>6, <1>10, <1>11, <2>3, <2>4, <2>5, Typed, Untouched, Zenon
<1>12. CASE in' = post(Pop(e), e, f3) /\ Start(e, "submit", p, "begin") /\ UNCHANGED <<link, slot, bridge>>
  <2> DEFINE F == {} \cup {<<e, f3>>}
  <2> HIDE DEF f3, x
  <2>1. Fed(in, in', F)
    BY <1>8, <1>9, <1>12, FedPost, Zenon
  <2>2. News(F)
    BY <1>8, QuietNews, Zenon
  <2> HIDE DEF F, p, o
  <2> QED
    BY <1>5, <1>6, <1>10, <1>12, <2>1, <2>2, Typed, Untouched, Zenon
<1>13. CASE in' = Pop(e) /\ Start(e, "submit", p, "begin") /\ UNCHANGED <<link, slot, bridge>>
  BY <1>5, <1>6, <1>9, <1>10, <1>13, NoNews, Typed, Untouched, Zenon
<1>14. CASE DropWorker(e) /\ Finish(e) /\ UNCHANGED <<slot, bridge>>
  <2>1. Fed(in, in', {}) /\ link' \in LinkTypes
    BY <1>14, FedClear, Typed, Zenon DEF DropWorker, LinkTypes
  <2>2. effect' \in [Engines -> Effects] /\ EffectsKept
    BY <1>14, Finished, Typed, Zenon
  <2> QED
    BY <1>5, <1>6, <1>14, <2>1, <2>2, NoNews, Typed, Untouched, Zenon
<1> HIDE DEF x, f1, f2, f3
<1> QED
  BY <1>11, <1>12, <1>13, <1>14, Zenon DEF SlotResolved, f1, f2, f3

-----------------------------------------------------------------------------
(* Steps on the tables                                                     *)

\* A Welcome or a rejection is sent from e, or is not.
LEMMA Mailed ==
    ASSUME PairIInv, NEW e \in Engines, NEW p \in Pairings, NEW kind \in BridgeKinds, NEW holders, NEW q, Fed(in, q, {}),
           send_envelope(q, e, p, kind, holders) \/ Unsent(q) \/ (UNCHANGED wire /\ q = in)
    PROVE  /\ link' \in LinkTypes /\ slot' \in [Engines -> BOOLEAN] /\ bridge' \subseteq Range(issued)
           /\ Fed(in, in', Out(p, kind))
<1>1. send_frame(q, e, p, kind) \/ Unsent(q)
  BY Zenon DEF send_envelope, Unsent, wire
<1>2. link' \in LinkTypes /\ slot' = slot /\ bridge' \subseteq bridge /\ Fed(in, in', {} \cup Out(p, kind))
  BY <1>1, Sent, Typed, ZenonT(30) DEF LinkTypes
<1> QED
  BY <1>2, Typed, Zenon

\* A Welcome that waits for its answer is sent again.
LEMMA RetryStep ==
    ASSUME PairIInv, NEW e \in Engines, NEW p \in Pairings, retry_pending_welcomes(e, p)
    PROVE  PairIInv' /\ Settled
<1> DEFINE kind == "PairingAccepted"
<1>1. kind \in BridgeKinds /\ (send_envelope(in, e, p, kind, tokens.owner) \/ UNCHANGED wire)
  BY Zenon DEF retry_pending_welcomes, SendWelcome, BridgeKinds
<1>2. /\ link' \in LinkTypes /\ slot' \in [Engines -> BOOLEAN] /\ bridge' \subseteq Range(issued)
      /\ Fed(in, in', Out(p, kind))
  BY <1>1, Mailed, Typed, Zenon
<1>3. UNCHANGED <<inbox, outbox, used, group, created, age, issued>> /\ UNCHANGED <<invites, tokens, effect>>
  BY Zenon DEF retry_pending_welcomes, count
<1>4. p \in welcomes[e] /\ welcomes' = [welcomes EXCEPT ![e] = {q \in @ : age[q] < 2}]
  BY Zenon DEF retry_pending_welcomes, delete_expired_pending_welcomes
<1>5. welcomes' \in [Engines -> SUBSET Pairings] /\ \A d \in Engines : welcomes'[d] \subseteq welcomes[d]
  BY <1>4, Typed, Zenon
<1>6. p \in used'[Owner[p]]
  BY <1>3, <1>4, Zenon DEF PairIInv, Consumed, Ledger
<1>7. News(Out(p, kind))
  BY <1>1, <1>6, BridgeNews, Zenon
<1>8. EffectsKept
  BY <1>3, Zenon DEF EffectsKept
<1> QED
  BY <1>2, <1>3, <1>5, <1>7, <1>8, Typed, Untouched, Zenon

\* A rejection is sent again.
LEMMA FlushStep ==
    ASSUME PairIInv, NEW e \in Engines, NEW p \in Pairings, flush_pending_pairing_deliveries(e, p)
    PROVE  PairIInv' /\ Settled
<1> DEFINE kind == "PairingRejected"
<1>1. kind \in BridgeKinds /\ send_envelope(in, e, p, kind, tokens.owner)
  BY Zenon DEF flush_pending_pairing_deliveries, SendRejection, BridgeKinds
<1>2. /\ link' \in LinkTypes /\ slot' \in [Engines -> BOOLEAN] /\ bridge' \subseteq Range(issued)
      /\ Fed(in, in', Out(p, kind))
  BY <1>1, Mailed, Typed, Zenon
<1>3. /\ UNCHANGED <<inbox, outbox, used, group, created, age, issued>>
      /\ UNCHANGED <<welcomes, invites, tokens, effect>>
  BY Zenon DEF flush_pending_pairing_deliveries, tables, count
<1>4. News(Out(p, kind)) /\ EffectsKept
  BY <1>1, <1>3, BridgeNews, Zenon DEF EffectsKept
<1> QED
  BY <1>2, <1>3, <1>4, Typed, Untouched, Zenon

\* The owner rejects.
LEMMA RejectStep ==
    ASSUME PairIInv, NEW e \in Engines, NEW p \in Pairings, RejectPairing(e, p)
    PROVE  PairIInv' /\ Settled
<1> DEFINE kind == "PairingRejected"
<1>1. kind \in BridgeKinds /\ (send_envelope(in, e, p, kind, tokens.owner) \/ UNCHANGED wire)
  BY Zenon DEF RejectPairing, SendRejection, BridgeKinds
<1>2. /\ link' \in LinkTypes /\ slot' \in [Engines -> BOOLEAN] /\ bridge' \subseteq Range(issued)
      /\ Fed(in, in', Out(p, kind))
  BY <1>1, Mailed, Typed, Zenon
<1>3. /\ UNCHANGED <<used, group, created, age, issued>>
      /\ UNCHANGED <<welcomes, invites, tokens, effect>>
  BY Zenon DEF RejectPairing, count
<1>4. News(Out(p, kind)) /\ EffectsKept
  BY <1>1, <1>3, BridgeNews, Zenon DEF EffectsKept
<1>5. SetTables(e, commit_reject(Tables(e), p)) /\ Eases(Tables(e), commit_reject(Tables(e), p))
  BY RejectEases, Typed, ZenonT(30) DEF RejectPairing
<1> QED
  BY <1>2, <1>3, <1>4, <1>5, Typed, Eased, Zenon

\* Archival and the sweeps of the tables.
LEMMA SweepStep ==
    ASSUME PairIInv, NEW e \in Engines,
           (\E p \in Pairings : ArchivePairing(e, p)) \/ PeerProbeRound(e) \/ pairing_outbox(e)
    PROVE  PairIInv' /\ Settled
<1> DEFINE t == Tables(e)
<1>1. \E u : SetTables(e, u) /\ Eases(t, u)
  <2>1. ASSUME NEW p \in Pairings, ArchivePairing(e, p) PROVE \E u : SetTables(e, u) /\ Eases(t, u)
    BY <2>1, ArchiveEases, Typed, Zenon DEF ArchivePairing
  <2>2. CASE PeerProbeRound(e)
    <3> DEFINE v == expire_inbox(t)
    <3>1. Eases(t, v)
      BY ExpireIn, Typed, Zenon
    <3>2. v \in TableRows /\ AtMostOne(ActiveIn(v)) /\ AtMostOne(ActiveOut(v))
      BY <3>1, Typed, Zenon DEF Eases, Follows, AtMostOne
    <3> HIDE DEF v
    <3>3. Eases(v, expire_outbox(v))
      BY <3>2, ExpireOut, Typed, Zenon
    <3>4. SetTables(e, expire_outbox(v))
      BY <2>2, ZenonT(30) DEF PeerProbeRound, expire_pending_pairings, v
    <3> QED
      BY <3>1, <3>3, <3>4, EasesBoth, Zenon
  <2>3. CASE pairing_outbox(e)
    <3>1. complete_outbox_pairings_for_existing_contacts(e, t) = t
      BY CompleteNone, Typed, Zenon
    <3> QED
      BY <2>3, <3>1, ExpireOut, Typed, Zenon DEF pairing_outbox
  <2> QED
    BY <2>1, <2>2, <2>3, Zenon
<1>2. /\ UNCHANGED <<used, group, created, age, issued>>
      /\ UNCHANGED <<welcomes, invites, tokens, effect, link, in, slot, bridge>>
  BY Zenon DEF ArchivePairing, PeerProbeRound, pairing_outbox, wire, count
<1>3. EffectsKept
  BY <1>2, Zenon DEF EffectsKept
<1> QED
  BY <1>1, <1>2, <1>3, NoNews, Typed, Eased, Zenon

\* A cancellation is confirmed.
LEMMA CancelledStep ==
    ASSUME PairIInv, NEW e \in Engines, PairingCancelled(e)
    PROVE  PairIInv' /\ Settled
<1>1. effect[e].p \in Pairings
  BY Typed DEF PairingCancelled, Effects, NoEffect
<1>2. \E u : SetTables(e, u) /\ Eases(Tables(e), u)
  BY <1>1, CancelEases, EasesSame, Typed, Zenon DEF PairingCancelled
<1>3. effect' \in [Engines -> Effects] /\ EffectsKept
  BY Finished, Typed, Zenon DEF PairingCancelled
<1>4. /\ UNCHANGED <<used, group, created, age, issued>>
      /\ UNCHANGED <<welcomes, invites, tokens, link, in, slot, bridge>>
  BY Zenon DEF PairingCancelled, wire, count
<1> QED
  BY <1>2, <1>3, <1>4, NoNews, Typed, Eased, Zenon

\* A frame that RelayPoll takes.
LEMMA Polled ==
    ASSUME PairIInv, NEW e \in Engines, NEW kind, Polls(e, kind)
    PROVE  /\ Fed(in, Pop(e), {}) /\ Sound(e, Head(in[e])) /\ Head(in[e]).kind = kind
<1>1. in[e] # <<>> /\ Head(in[e]).kind = kind
  BY Zenon DEF Polls
<1>2. Head(in[e]) \in Range(in[e]) /\ Fed(in, Pop(e), {})
  BY <1>1, FedPop, Typed, Zenon
<1> QED
  BY <1>1, <1>2, Zenon DEF PairIInv, Addressed

\* The owner rejected.
LEMMA RejectionStep ==
    ASSUME PairIInv, NEW e \in Engines, RejectionReceived(e)
    PROVE  PairIInv' /\ Settled
<1> DEFINE p == Head(in[e]).p
<1>1. Fed(in, in', {}) /\ p \in Pairings
  BY Polled, Zenon DEF RejectionReceived, Sound
<1>2. \E u : SetTables(e, u) /\ Eases(Tables(e), u)
  BY <1>1, RejectionEases, Typed, Zenon DEF RejectionReceived
<1>3. /\ UNCHANGED <<used, group, created, age, issued>>
      /\ UNCHANGED <<welcomes, invites, tokens, effect, link, slot, bridge>>
  BY Zenon DEF RejectionReceived, count
<1>4. EffectsKept
  BY <1>3, Zenon DEF EffectsKept
<1> QED
  BY <1>1, <1>2, <1>3, <1>4, NoNews, Typed, Eased, Zenon

\* A step that keeps the ledger of the invites, after which the requests of e are
\* eased and moreover the request p of e has state s.
LEMMA ReceivedArrived ==
    ASSUME PairIInv, NEW e \in Engines, NEW v, Eases(Tables(e), v), NEW p \in Pairings, NEW s \in Box,
           SetTables(e, Arrived(v, p, s)), Settles(v.inbox[p], s), e = Owner[p],
           s \in {"Accepted", "Completed"} => p \in used'[e], s = "Completed" => p \in used'[Joiner[p]],
           \A d \in Engines : used[d] \subseteq used'[d]
    PROVE  Received' /\ Follows(Tables(e), Arrived(v, p, s))
<1> DEFINE u == Arrived(v, p, s)
<1>1. v \in TableRows
  BY Zenon DEF Eases, Follows
<1>2. /\ Follows(v, u) /\ u.inbox[p] = s
      /\ \A q \in Pairings \ {p} : /\ u.inbox[q] # "none" => v.inbox[q] # "none"
                                   /\ u.inbox[q] \in {"Accepted", "Completed"} => u.inbox[q] = v.inbox[q]
  BY <1>1, ArrivedFollows, ZenonT(30)
<1>3. SetTables(e, u)
  BY Zenon
<1> HIDE DEF u
<1>4. Follows(Tables(e), u)
  BY <1>2, Zenon DEF Eases, Follows, Settles
<1>5. /\ Tables(e)' = u /\ \A d \in Engines \ {e} : inbox'[d] = inbox[d] /\ outbox'[d] = outbox[d]
  BY <1>3, <1>4, TablesSet, Zenon
<1>6. ASSUME NEW d \in Engines, NEW q \in Pairings, d # e \/ q # p
      PROVE  /\ inbox'[d][q] # "none" => inbox[d][q] # "none"
             /\ inbox'[d][q] \in {"Accepted", "Completed"} => inbox'[d][q] = inbox[d][q]
  <2>1. CASE d = e
    <3>1. inbox'[d] = u.inbox
      BY <1>5, <2>1, Zenon DEF Tables
    <3> QED
      BY <1>2, <1>6, <2>1, <3>1, Zenon DEF Eases, Tables
  <2>2. CASE d # e
    BY <1>5, <2>2, Zenon
  <2> QED
    BY <2>1, <2>2, Zenon
<1>7. inbox'[e][p] = s
  BY <1>2, <1>5, Zenon DEF Tables
<1>8. Received'
  <2> SUFFICES ASSUME NEW d \in Engines, NEW q \in Pairings
               PROVE  /\ inbox'[d][q] # "none" => d = Owner[q]
                      /\ inbox'[d][q] \in {"Accepted", "Completed"} => q \in used'[d]
                      /\ inbox'[d][q] = "Completed" => q \in used'[Joiner[q]]
    BY Zenon DEF Received
  <2>1. CASE d = e /\ q = p
    BY <1>7, <2>1, ZenonT(30)
  <2>2. CASE d # e \/ q # p
    <3>1. Joiner[q] \in Engines
      BY PairingAssumption
    <3>2. /\ inbox[d][q] # "none" => d = Owner[q]
          /\ inbox[d][q] \in {"Accepted", "Completed"} => q \in used[d]
          /\ inbox[d][q] = "Completed" => q \in used[Joiner[q]]
      BY DEF PairIInv, Consumed, Received
    <3> QED
      BY <1>6, <2>2, <3>1, <3>2
  <2> QED
    BY <2>1, <2>2, Zenon
<1> QED
  BY <1>4, <1>8, Zenon DEF u

\* A step on the tables and the ledger that takes or posts frames.
LEMMA Moved ==
    ASSUME PairIInv, NEW e \in Engines, NEW u, SetTables(e, u), Follows(Tables(e), u), Received', Ledger', OneGroup',
           used' \in [Engines -> SUBSET Pairings], group' \in [Engines -> Pairings \cup {0}],
           welcomes' \in [Engines -> SUBSET Pairings], invites' \in [Engines -> SUBSET Pairings],
           created' \in [Pairings -> {0, 1}], \A d \in Engines : used[d] \subseteq used'[d],
           UNCHANGED <<age, issued>>,
           tokens' \in TokenTypes, effect' \in [Engines -> Effects], link' \in LinkTypes,
           slot' \in [Engines -> BOOLEAN], bridge' \subseteq Range(issued),
           EffectsKept, NEW F, Fed(in, in', F), News(F)
    PROVE  PairIInv' /\ Settled
<1>1. /\ inbox' \in [Engines -> [Pairings -> Box]] /\ outbox' \in [Engines -> [Pairings -> OutRows]]
      /\ \A d \in Engines : Follows(Tables(d), Tables(d)')
  BY TablesSet, Zenon
<1>2. StoredTypes'
  BY <1>1, Zenon DEF PairIInv, StoredTypes
<1>3. WireTypes'
  BY Zenon DEF PairIInv, WireTypes, TokenTypes, LinkTypes, Fed
<1>4. Consumed'
  BY Zenon DEF Consumed
<1> QED
  BY <1>1, <1>2, <1>3, <1>4, Kept, Zenon

\* The ledger is kept when nothing of it changes.
LEMMA LedgerSame ==
    ASSUME PairIInv, UNCHANGED <<used, group, welcomes, created>>
    PROVE  /\ Ledger' /\ OneGroup' /\ used' \in [Engines -> SUBSET Pairings] /\ group' \in [Engines -> Pairings \cup {0}]
           /\ welcomes' \in [Engines -> SUBSET Pairings] /\ created' \in [Pairings -> {0, 1}]
           /\ \A d \in Engines : used[d] \subseteq used'[d]
BY Zenon DEF PairIInv, Consumed, Ledger, OneGroup, StoredTypes

\* An offer arrives.
LEMMA OfferStep ==
    ASSUME PairIInv, NEW e \in Engines, PairingOffer(e)
    PROVE  PairIInv' /\ Settled
<1> DEFINE p == Head(in[e]).p
           t == Tables(e)
           u == merge_pairing_inbox(t, p)
<1>1. Fed(in, in', {}) /\ p \in Pairings /\ e = Owner[p]
  BY Polled, Zenon DEF PairingOffer, Sound
<1>2. SetTables(e, u)
  BY Zenon DEF PairingOffer
<1>3. /\ UNCHANGED <<used, group, welcomes, created>> /\ UNCHANGED <<age, issued>>
      /\ UNCHANGED <<invites, effect, link, slot, bridge>>
  BY Zenon DEF PairingOffer, count
<1>4. tokens' \in TokenTypes
  BY <1>1, Typed, Zenon DEF PairingOffer, TokenTypes
<1>5. \/ Eases(t, u)
      \/ \E v : Eases(t, v) /\ v.inbox[p] = "none" /\ u = Arrived(v, p, "Pending")
  BY <1>1, OfferFollows, Typed, Zenon
<1>6. \A d \in Engines : used[d] \subseteq used'[d]
  BY <1>3, Zenon
<1> HIDE DEF u, p, t
<1>7. Received' /\ Follows(t, u)
  <2>1. CASE Eases(t, u)
    BY <1>2, <1>6, <2>1, ReceivedEased, Zenon DEF t, Eases
  <2>2. ASSUME NEW v, Eases(t, v), v.inbox[p] = "none", u = Arrived(v, p, "Pending") PROVE Received' /\ Follows(t, u)
    <3>1. Settles(v.inbox[p], "Pending") /\ "Pending" \in Box
      BY <2>2, Zenon DEF Settles, Box, InviteState
    <3>2. SetTables(e, Arrived(v, p, "Pending")) /\ Eases(Tables(e), v)
      BY <1>2, <2>2, Zenon DEF t
    <3> QED
      BY <1>1, <1>6, <2>2, <3>1, <3>2, ReceivedArrived, Zenon DEF t
  <2> QED
    BY <1>5, <2>1, <2>2, Zenon
<1>8. EffectsKept
  BY <1>3, Zenon DEF EffectsKept
<1>9. SetTables(e, u) /\ Follows(Tables(e), u)
  BY <1>2, <1>7, ZenonT(30) DEF t
<1> QED
  BY <1>1, <1>3, <1>4, <1>7, <1>8, <1>9, LedgerSame, NoNews, Typed, Moved, ZenonT(30)

\* The relay reports the end of a pairing.
LEMMA FinalStep ==
    ASSUME PairIInv, NEW e \in Engines, PairingFinalized(e)
    PROVE  PairIInv' /\ Settled
<1> DEFINE p == Head(in[e]).p
           t == Tables(e)
           u == finalize_pairing(t, p)
<1>1. Fed(in, in', {}) /\ p \in Pairings /\ p \in used[Joiner[p]]
  BY Polled, Zenon DEF PairingFinalized, Sound
<1>2. SetTables(e, u)
  BY Zenon DEF PairingFinalized
<1>3. /\ UNCHANGED <<used, group, welcomes, created>> /\ UNCHANGED <<age, issued>>
      /\ UNCHANGED <<invites, tokens, effect, link, slot, bridge>>
  BY ZenonT(30) DEF PairingFinalized, count
<1>5. \/ Eases(t, u)
      \/ t.inbox[p] = "Accepted" /\ u = Arrived(t, p, "Completed")
  BY <1>1, FinalFollows, Typed, Zenon
<1>6. \A d \in Engines : used[d] \subseteq used'[d]
  BY <1>3, ZenonT(30)
<1> HIDE DEF u, p
<1>7. Received' /\ Follows(t, u)
  <2>1. CASE Eases(t, u)
    BY <1>2, <1>6, <2>1, ReceivedEased, ZenonT(30) DEF Eases
  <2>2. CASE t.inbox[p] = "Accepted" /\ u = Arrived(t, p, "Completed")
    <3>1. Settles(t.inbox[p], "Completed") /\ "Completed" \in Box /\ Eases(t, t)
      BY <2>2, EasesSame, Typed, Zenon DEF Settles, Box, InviteState
    <3>2. e = Owner[p] /\ p \in used'[e] /\ p \in used'[Joiner[p]]
      BY <1>1, <1>3, <2>2, Zenon DEF PairIInv, Consumed, Received, Tables
    <3> HIDE DEF t
    <3>3. SetTables(e, Arrived(t, p, "Completed")) /\ Eases(Tables(e), t)
      BY <1>2, <2>2, <3>1, Zenon DEF t
    <3> QED
      BY <1>1, <1>6, <2>2, <3>1, <3>2, <3>3, ReceivedArrived, Zenon DEF t
  <2> QED
    BY <1>5, <2>1, <2>2, Zenon
<1>8. EffectsKept
  BY <1>3, Zenon DEF EffectsKept
<1> QED
  BY <1>1, <1>2, <1>3, <1>7, <1>8, LedgerSame, NoNews, Typed, Moved, Zenon
==============================================================================
