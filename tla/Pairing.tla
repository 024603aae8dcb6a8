------------------------------- MODULE Pairing -------------------------------
(***************************************************************************)
(* Pairing two clients through the rendezvous relay: the pairing feature   *)
(* of the runtime, the engine's invite and Welcome handling, the relay     *)
(* actor of the client (relay/actor.rs) with its effect worker, and the    *)
(* part of the relay the two talk through.                                 *)
(*                                                                         *)
(* The owner of a code opens a slot; the joiner resolves the code, begins  *)
(* a pairing with an offer that carries an invite, and stores the request  *)
(* in its outbox when the effect returns.  The owner stores the offer in   *)
(* its inbox; accepting it creates the MLS group and the contact, and      *)
(* sends a Welcome; the joiner creates its contact from the Welcome and    *)
(* confirms with PairingCommitted, which the relay turns into a final      *)
(* frame for both.                                                         *)
(*                                                                         *)
(* A pairing identifier and the invite of its offer are one value; their   *)
(* order is the order of the random identifiers, not of time.  Tables are  *)
(* durable; tokens, keys, the connection and a running effect are lost in  *)
(* a restart.  A frame reaches the relay when it is sent and then waits in *)
(* the receiver's queue; relay state ends with a party's connection.       *)
(* age[p] is 0, then 1 when the 180 s of the request and of the bridge are *)
(* over, then 2 when the 15 minutes of the invite are.                     *)
(***************************************************************************)
EXTENDS Naturals, Sequences, FiniteSets, Folds

CONSTANTS
    Engines,      \* installations
    Pairings,     \* pairing identifiers, positive and ordered
    Joiner,       \* the installation that submits the code, for each pairing
    Owner,        \* the installation whose code it is
    MaxCodes,     \* bound: codes requested in a behaviour
    MaxExtras,    \* bound: connection losses, SOCKS changes, restarts and archivals
    QUEUE         \* bound: frames waiting for an engine; the relay drops one more (try_send)

ASSUME PairingAssumption ==
    /\ Cardinality(Engines) = 2
    /\ Pairings \subseteq Nat \ {0}
    /\ Joiner \in [Pairings -> Engines]
    /\ Owner \in [Pairings -> Engines]
    /\ \A p \in Pairings : Joiner[p] # Owner[p]
    /\ QUEUE \in Nat \ {0}
    /\ MaxCodes \in Nat /\ MaxExtras \in Nat

VARIABLES
    inbox,     \* pairing_inbox: the state of each received request
    outbox,    \* pairing_outbox: the row of each sent request
    used,      \* used_invites
    group,     \* the invite behind the contact's MLS group; 0: no contact
    welcomes,  \* pending_welcomes
    invites,   \* pending_local_invite_mls
    tokens,    \* owner_tokens, joiner_tokens and the joiner's rendezvous keys
    effect,    \* the relay effect of each engine
    link,      \* the rendezvous worker: "none", "live", "broken" (lost, not yet noticed)
    in,        \* frames waiting for the relay actor
    slot,      \* an open slot whose code its owner knows
    bridge,    \* open bridges at the relay
    issued,    \* pairings submitted so far, in order
    age,       \* deadlines passed
    created,   \* MLS groups created for an invite, over all restarts
    codes,     \* codes requested so far
    extras     \* faults and archivals so far

tables == <<inbox, outbox, used, group, welcomes, invites, created>>
wire == <<link, in, slot, bridge>>
count == <<issued, codes, extras>>
vars == <<tables, tokens, effect, wire, count, age>>

\* As in FiniteSetsExt and Functions; the rest of those modules would only stand in
\* the way of the provers.
Range(s) == {s[i] : i \in DOMAIN s}
Min(S) == CHOOSE x \in S : \A y \in S : x <= y
FoldSet(op(_, _), base, S) == MapThenFoldSet(op, base, LAMBDA x : x, LAMBDA T : CHOOSE x \in T : TRUE, S)

InviteState == {"Pending", "Accepted", "Rejected", "Completed", "Expired", "Cancelled", "Archived"}
Box == InviteState \cup {"none"}

\* An outbox row: its state, whether pair_key and recipient_installation_id
\* are set, and the invite its payload column holds (0: none).
Row == [state : Box, key : BOOLEAN, to : BOOLEAN, payload : Pairings \cup {0}]
NoRow == [state |-> "none", key |-> FALSE, to |-> FALSE, payload |-> 0]
NoEffect == [op |-> "none", p |-> 0, step |-> "idle"]
Frame == [kind : {"Created", "Stale", "Resolved", "Started", "Error", "Requested", "PairingAccepted",
                  "PairingRejected", "PairingCancelled", "PairingFinalized"}, p : Pairings \cup {0}]
frame(kind, p) == [kind |-> kind, p |-> p]

Init ==
    /\ inbox = [e \in Engines |-> [p \in Pairings |-> "none"]]
    /\ outbox = [e \in Engines |-> [p \in Pairings |-> NoRow]]
    /\ used = [e \in Engines |-> {}]
    /\ group = [e \in Engines |-> 0]
    /\ welcomes = [e \in Engines |-> {}]
    /\ invites = [e \in Engines |-> {}]
    /\ tokens = [owner |-> {}, joiner |-> {}, keys |-> {}]
    /\ effect = [e \in Engines |-> NoEffect]
    /\ link = [e \in Engines |-> "none"]
    /\ in = [e \in Engines |-> <<>>]
    /\ slot = [e \in Engines |-> FALSE]
    /\ bridge = {}
    /\ issued = <<>>
    /\ age = [p \in Pairings |-> 0]
    /\ created = [p \in Pairings |-> 0]
    /\ codes = 0
    /\ extras = 0

-----------------------------------------------------------------------------
(* Rules of the invite state                                               *)

pairing_is_active(s) == s \in {"Pending", "Accepted"}

\* The state after an action, "none" when the transition is refused.
transition_invite_state(s, action) ==
    CASE s = "Pending" /\ action = "Accept" -> "Accepted"
      [] s = "Pending" /\ action = "Reject" -> "Rejected"
      [] s = "Pending" /\ action = "Expire" -> "Expired"
      [] s \in {"Pending", "Accepted"} /\ action = "Cancel" -> "Cancelled"
      [] s = "Accepted" /\ action = "Complete" -> "Completed"
      [] s \in {"Accepted", "Rejected", "Completed", "Expired", "Cancelled"} /\ action = "Archive" -> "Archived"
      [] OTHER -> "none"

merge_invite_state(local, remote) ==
    IF local = remote \/ local \in {"Archived", "Completed"} THEN local
    ELSE IF remote \in {"Archived", "Completed"} \/ local = "Pending" THEN remote
    ELSE local

\* Seeded fault: a rejection always counts.
Faulty_next_state_for_peer_outcome(s, outcome) ==
    CASE outcome = "RejectionReceived" /\ s # "none" -> "Rejected"
      [] outcome = "WelcomePrepared" /\ s \in {"Accepted", "Completed"} -> "Completed"
      [] OTHER -> "none"

\* What the peer's answer makes of an outgoing request, "none" when refused.
next_state_for_peer_outcome(s, outcome) ==
    CASE outcome = "RejectionReceived" /\ s \in {"Pending", "Accepted", "Rejected"} -> "Rejected"
      [] outcome = "RejectionReceived" /\ s = "Completed" -> "Completed"
      [] outcome = "WelcomePrepared" /\ s \in {"Accepted", "Completed"} -> "Completed"
      [] OTHER -> "none"

-----------------------------------------------------------------------------
(* The pairing tables of one engine.  There are two installations, so all  *)
(* requests concern one pair and one pair_key.                             *)

Tables(e) == [inbox |-> inbox[e], outbox |-> outbox[e]]

ActiveIn(t) == {p \in Pairings : pairing_is_active(t.inbox[p])}
ActiveOut(t) == {p \in Pairings : pairing_is_active(t.outbox[p].state)}
Keyed(t) == {p \in ActiveOut(t) : t.outbox[p].key}

\* Inbox rows in S are archived, outbox rows in S are cancelled.
ArchiveInbox(t, S) == [t EXCEPT !.inbox = [p \in Pairings |-> IF p \in S THEN "Archived" ELSE @[p]]]
CancelOutbox(t, S) ==
    [t EXCEPT !.outbox = [p \in Pairings |-> IF p \in S THEN [@[p] EXCEPT !.state = "Cancelled"] ELSE @[p]]]

\* A keyed request with a smaller identifier in the outbox keeps this one out;
\* otherwise it retires the others of the pair.
put_pairing_inbox(t, p, s) ==
    LET crossed == {q \in ActiveOut(t) \ {p} : t.outbox[q].to}
        retired == ArchiveInbox(CancelOutbox(t, crossed), ActiveIn(t) \ {p})
    IN IF \E q \in Keyed(t) : q < p THEN t
       ELSE [retired EXCEPT !.inbox[p] = s,
                            !.outbox = [q \in Pairings |-> IF q \in crossed THEN [@[q] EXCEPT !.key = TRUE] ELSE @[q]]]

\* A row without pair_key competes with nothing.
put_pairing_outbox(t, p, row) ==
    IF ~row.key THEN [t EXCEPT !.outbox[p] = row]
    ELSE IF \E q \in ActiveIn(t) : q < p THEN t
    ELSE [CancelOutbox(ArchiveInbox(t, ActiveIn(t) \ {p}), Keyed(t) \ {p}) EXCEPT !.outbox[p] = row]

\* The request of an invite is found by its payload column.  It loses against
\* a keyed request with a smaller identifier; otherwise it is keyed, and only
\* the smallest active request of the pair is left.
bind_pairing_outbox_pair_key(t, invite) ==
    LET own == {q \in ActiveOut(t) : t.outbox[q].payload = invite}
        loses == \E q \in Keyed(t), c \in own : t.outbox[q].payload \notin {0, invite} /\ q < c
        bound == [CancelOutbox(t, Keyed(t) \ own) EXCEPT
                    !.outbox = [q \in Pairings |-> IF q \in own THEN [@[q] EXCEPT !.key = TRUE] ELSE @[q]]]
        losers == LET active == ActiveIn(bound) \cup Keyed(bound) IN active \ {Min(active)}
    IN IF own = {} THEN t
       ELSE IF loses THEN CancelOutbox(t, own)
       ELSE CancelOutbox(ArchiveInbox(bound, losers \cap ActiveIn(bound)), losers \cap Keyed(bound))

\* Seeded fault: a request expires with its invite.
Faulty_expire_outbox(t) ==
    LET late == {p \in Pairings : t.outbox[p].state = "Pending" /\ age[p] = 2} IN
    FoldSet(LAMBDA p, u : put_pairing_outbox(u, p, [u.outbox[p] EXCEPT !.state = "Expired"]), t, late)

expire_outbox(t) ==
    LET late == {p \in Pairings : t.outbox[p].state = "Pending" /\ age[p] >= 1} IN
    FoldSet(LAMBDA p, u : put_pairing_outbox(u, p, [u.outbox[p] EXCEPT !.state = "Expired"]), t, late)

expire_inbox(t) ==
    LET late == {p \in Pairings : t.inbox[p] = "Pending" /\ age[p] = 2} IN
    FoldSet(LAMBDA p, u : put_pairing_inbox(u, p, "Expired"), t, late)

\* Outstanding requests in S are completed.
Complete(t, S) ==
    FoldSet(LAMBDA p, u : put_pairing_outbox(u, p, [u.outbox[p] EXCEPT !.state = "Completed", !.to = TRUE]), t, S)

\* A request that names somebody who is a contact by now.
complete_for_existing_contact(e, row) == pairing_is_active(row.state) /\ row.to /\ group[e] # 0

complete_outbox_pairings_for_existing_contacts(e, t) ==
    Complete(t, {p \in Pairings : complete_for_existing_contact(e, t.outbox[p])})

\* A new contact completes the requests that name it, or else the only
\* outstanding one.
reconcile_outbox_items(t) ==
    LET named == {p \in ActiveOut(t) : t.outbox[p].to}
        single == IF Cardinality(ActiveOut(t)) = 1 THEN ActiveOut(t) ELSE {}
    IN Complete(t, IF named # {} THEN named ELSE single)

SetTables(e, t) ==
    /\ inbox' = [inbox EXCEPT ![e] = t.inbox]
    /\ outbox' = [outbox EXCEPT ![e] = t.outbox]

-----------------------------------------------------------------------------
(* The wire: the client's relay actor and the relay                        *)

\* Faults and archivals are counted.
Extra == extras < MaxExtras /\ extras' = extras + 1

Mine(e) == {p \in Pairings : e \in {Joiner[p], Owner[p]}}
Idle(e) == effect[e].op = "none"

\* A frame for e is queued unless its queue is full or its connection is gone.
post(q, e, f) == IF link[e] = "live" /\ Len(q[e]) < QUEUE THEN [q EXCEPT ![e] = Append(@, f)] ELSE q

\* The worker is gone: commands and events are dropped.
DropWorker(e) ==
    /\ link' = [link EXCEPT ![e] = "none"]
    /\ in' = [in EXCEPT ![e] = <<>>]

\* The relay's reaction to a frame of a bridge, where q are the waiting frames.
AtBridge(q, p, kind) ==
    CASE p \notin bridge -> in' = q /\ UNCHANGED bridge
      [] p \in bridge /\ kind = "PairingAccepted" -> in' = post(q, Joiner[p], frame(kind, p)) /\ UNCHANGED bridge
      [] OTHER -> /\ bridge' = bridge \ {p}
                  /\ in' = post(post(q, Owner[p], frame(kind, p)), Joiner[p], frame(kind, p))

Unsent(q) == in' = q /\ UNCHANGED <<link, slot, bridge>>

\* send_frame starts a worker when there is none.  A lost connection swallows
\* the frame or is noticed.
send_frame(q, e, p, kind) ==
    \/ link[e] # "broken" /\ link' = [link EXCEPT ![e] = "live"] /\ AtBridge(q, p, kind) /\ UNCHANGED slot
    \/ link[e] = "broken" /\ Unsent(q)
    \/ link[e] = "broken" /\ DropWorker(e) /\ UNCHANGED <<slot, bridge>>

\* Refused without the side's token, and while an effect has the relay actor.
send_envelope(q, e, p, kind, holders) ==
    IF Idle(e) /\ p \in holders THEN send_frame(q, e, p, kind) ELSE Unsent(q)

\* queue_relay_envelope: the frame that a payload becomes.
SendWelcome(e, p) == send_envelope(in, e, p, "PairingAccepted", tokens.owner)
SendRejection(e, p) == send_envelope(in, e, p, "PairingRejected", tokens.owner)
queue_welcome_applied(q, e, p) == send_envelope(q, e, p, "PairingFinalized", tokens.joiner)

\* The connection is lost: the relay ends its slot and its bridges and tells
\* nobody.
LinkLost(e) ==
    /\ Extra
    /\ link[e] = "live"
    /\ link' = [link EXCEPT ![e] = "broken"]
    /\ slot' = [slot EXCEPT ![e] = FALSE]
    /\ bridge' = bridge \ Mine(e)
    /\ UNCHANGED <<tables, tokens, effect, in, issued, codes, age>>

\* A new SOCKS endpoint; during an effect it waits for the outcome.
set_socks5_url(e) ==
    /\ Extra
    /\ Idle(e) /\ link[e] # "none"
    /\ DropWorker(e)
    /\ slot' = [slot EXCEPT ![e] = FALSE]
    /\ bridge' = bridge \ Mine(e)
    /\ UNCHANGED <<tables, tokens, effect, issued, codes, age>>

\* What a restart takes away besides the wire.
LoseVolatile(e) ==
    /\ tokens' = [owner |-> {p \in tokens.owner : Owner[p] # e},
                  joiner |-> {p \in tokens.joiner : Joiner[p] # e},
                  keys |-> {p \in tokens.keys : Joiner[p] # e}]
    /\ effect' = [effect EXCEPT ![e] = NoEffect]
    /\ link' = [link EXCEPT ![e] = "none"]
    /\ slot' = [slot EXCEPT ![e] = FALSE]
    /\ bridge' = bridge \ Mine(e)

Restart(e) ==
    /\ Extra
    /\ LoseVolatile(e)
    /\ in' = [in EXCEPT ![e] = <<>>]
    /\ UNCHANGED <<tables, issued, codes, age>>

-----------------------------------------------------------------------------
(* Commands that run as a relay effect: the command and the worker's first *)
(* frame, the worker's receives, and the outcome.  Between the last receive *)
(* and the outcome nothing can use the relay actor, so they are one step.   *)

Start(e, op, p, step) == effect' = [effect EXCEPT ![e] = [op |-> op, p |-> p, step |-> step]]

\* A request to the relay, behind the waiting frames q, which it answers.
Ask(e, q, op, p, step, answer) ==
    \/ /\ link[e] # "broken"
       /\ link' = [link EXCEPT ![e] = "live"]
       /\ in' = [in EXCEPT ![e] = IF Len(q) < QUEUE THEN Append(q, answer) ELSE q]
       /\ Start(e, op, p, step)
    \/ link[e] = "broken" /\ in' = [in EXCEPT ![e] = q] /\ UNCHANGED link /\ Start(e, op, p, step)
    \/ link[e] = "broken" /\ DropWorker(e) /\ UNCHANGED effect

\* The active slot is cancelled first.  A PairingSlotCreated that still waits
\* answers an earlier request.
RefreshPairingCode(e) ==
    /\ Idle(e)
    /\ \E p \in Pairings : Owner[p] = e
    /\ codes < MaxCodes /\ codes' = codes + 1
    /\ slot' = [slot EXCEPT ![e] = FALSE]
    /\ Ask(e, [i \in DOMAIN in[e] |-> IF in[e][i].kind = "Created" THEN frame("Stale", 0) ELSE in[e][i]],
           "refresh", 0, "create", frame("Created", 0))
    /\ UNCHANGED <<tables, tokens, bridge, issued, extras, age>>

\* Seeded fault: the outstanding request is not looked for.
Faulty_has_outstanding_request(t) == FALSE

has_outstanding_request(t) == ActiveOut(t) # {}

prepare_submit_pairing_code(e) ==
    LET t == complete_outbox_pairings_for_existing_contacts(e, expire_outbox(Tables(e))) IN
    ~has_outstanding_request(t) /\ SetTables(e, t)

\* The key package of the invite is kept, expired ones go.
build_contact_invite(e, p) == invites' = [invites EXCEPT ![e] = {q \in @ : age[q] < 2} \cup {p}]

SubmitPairingCode(e, p) ==
    /\ Idle(e)
    /\ Joiner[p] = e /\ p \notin Range(issued)
    /\ prepare_submit_pairing_code(e)
    /\ build_contact_invite(e, p)
    /\ issued' = Append(issued, p)
    /\ Ask(e, in[e], "submit", p, "resolve",
           IF slot[Owner[p]] THEN frame("Resolved", p) ELSE frame("Error", 0))
    /\ UNCHANGED <<used, group, welcomes, created, tokens, slot, bridge, codes, extras, age>>

Pop(e) == [in EXCEPT ![e] = Tail(@)]
Finish(e) == effect' = [effect EXCEPT ![e] = NoEffect]

\* receive_frame of a worker in the given step, when the next frame is f.
Receives(e, step) == effect[e].step = step /\ in[e] # <<>>

SlotCreated(e) ==
    /\ Receives(e, "create")
    /\ in' = Pop(e)
    /\ LET ok == Head(in[e]).kind = "Created" IN
       /\ slot' = [slot EXCEPT ![e] = ok /\ link[e] = "live"]
       /\ Finish(e)
    /\ UNCHANGED <<tables, tokens, link, bridge, count, age>>

\* The code is resolved: the joiner's keys are stored and the pairing begins.
\* The slot becomes a bridge, or is gone or expired by now.
SlotResolved(e) ==
    LET p == effect[e].p
        o == Owner[p]
    IN
    /\ Receives(e, "resolve") /\ Head(in[e]) = frame("Resolved", p)
    /\ tokens' = [tokens EXCEPT !.keys = @ \cup {p}]
    /\ CASE link[e] = "live" /\ slot[o] ->
                /\ slot' = [slot EXCEPT ![o] = FALSE]
                /\ bridge' = bridge \cup {p}
                /\ in' = post(post(Pop(e), o, frame("Requested", p)), e, frame("Started", p))
                /\ Start(e, "submit", p, "begin") /\ UNCHANGED link
         [] link[e] = "live" /\ ~slot[o] ->
                /\ in' = post(Pop(e), e, frame("Error", 0))
                /\ Start(e, "submit", p, "begin") /\ UNCHANGED <<link, slot, bridge>>
         [] OTHER ->
                /\ \/ in' = Pop(e) /\ Start(e, "submit", p, "begin") /\ UNCHANGED link
                   \/ DropWorker(e) /\ Finish(e)
                /\ UNCHANGED <<slot, bridge>>
    /\ UNCHANGED <<tables, count, age>>

commit_submitted_pairing(t, p) == put_pairing_outbox(t, p, [NoRow EXCEPT !.state = "Pending"])

\* PairingStarted is taken whatever request it answers; the outcome stores the
\* request.
PairingStarted(e) ==
    LET q == Head(in[e]).p IN
    /\ Receives(e, "begin") /\ Head(in[e]).kind = "Started"
    /\ tokens' = [tokens EXCEPT !.joiner = @ \cup {q}]
    /\ in' = Pop(e)
    /\ Finish(e)
    /\ SetTables(e, commit_submitted_pairing(Tables(e), q))
    /\ UNCHANGED <<used, group, welcomes, invites, created, link, slot, bridge, count, age>>

\* Any other frame ends the effect, and is consumed.
UnexpectedFrame(e) ==
    /\ \/ Receives(e, "resolve") /\ Head(in[e]) # frame("Resolved", effect[e].p)
       \/ Receives(e, "begin") /\ Head(in[e]).kind # "Started"
    /\ in' = Pop(e)
    /\ Finish(e)
    /\ UNCHANGED <<tables, tokens, link, slot, bridge, count, age>>

\* recv_timeout: thirty seconds without a frame, or the worker's error.
ResponseTimeout(e) ==
    /\ effect[e].step \in {"create", "resolve", "begin"} /\ in[e] = <<>>
    /\ IF link[e] = "broken" THEN DropWorker(e) ELSE UNCHANGED <<link, in>>
    /\ Finish(e)
    /\ UNCHANGED <<tables, tokens, slot, bridge, count, age>>

\* The state after a confirmed cancellation, "none" when it is refused.
confirm_cancel(s) == IF s \in {"Cancelled", "Pending", "Accepted"} THEN "Cancelled" ELSE "none"

\* prepare_cancel needs an outstanding request; the worker only sends, with
\* the joiner's token.
CancelPairing(e, p) ==
    /\ Idle(e)
    /\ pairing_is_active(outbox[e][p].state)
    /\ IF p \in tokens.joiner
       THEN /\ send_frame(in, e, p, "PairingCancelled")
            /\ Start(e, "cancel", p, IF link'[e] = "none" THEN "err" ELSE "ok")
       ELSE UNCHANGED wire /\ Start(e, "cancel", p, "err")
    /\ UNCHANGED <<tables, tokens, count, age>>

confirm_pairing_cancelled(t, p) ==
    LET s == confirm_cancel(t.outbox[p].state) IN
    IF s = "none" THEN t ELSE put_pairing_outbox(t, p, [t.outbox[p] EXCEPT !.state = s])

\* The outcome of a cancellation; it is committed when the frame was sent.
PairingCancelled(e) ==
    /\ effect[e].op = "cancel"
    /\ Finish(e)
    /\ SetTables(e, IF effect[e].step = "err" THEN Tables(e)
                    ELSE confirm_pairing_cancelled(Tables(e), effect[e].p))
    /\ UNCHANGED <<used, group, welcomes, invites, created, tokens, wire, count, age>>

-----------------------------------------------------------------------------
(* The owner answers                                                       *)

\* Seeded fault: an existing contact does not stand in the way.
Faulty_prepare_accept(e, p) ==
    \/ inbox[e][p] \in {"Accepted", "Completed"}
    \/ inbox[e][p] = "Pending" /\ age[p] < 2

\* A repeated acceptance is always prepared.
prepare_accept(e, p) ==
    \/ inbox[e][p] \in {"Accepted", "Completed"}
    \/ inbox[e][p] = "Pending" /\ age[p] < 2 /\ group[e] = 0

consume_invite(e, p) == used' = [used EXCEPT ![e] = @ \cup {p}]

\* The contact and the conversation with the new group replace what was there.
\* One contact row and one conversation per installation: a second pairing
\* replaces the group of the first.
promote_contact_with_status(e, p) == group' = [group EXCEPT ![e] = p]

welcome_accepted(e, p) == promote_contact_with_status(e, p)

\* One transaction: the invite is consumed, the contact and its conversation
\* are stored, the owner's Welcome is kept for retries and the joiner's invite
\* key goes.
commit_contact_with_conversation(e, p, pending) ==
    /\ consume_invite(e, p)
    /\ welcome_accepted(e, p)
    /\ welcomes' = [welcomes EXCEPT ![e] = @ \cup pending]
    /\ invites' = [invites EXCEPT ![e] = IF pending = {} THEN @ \ {p} ELSE @]

\* A consumed invite only repeats its Welcome; a new one creates the group.
accept_invite(e, p) ==
    \/ /\ p \in used[e]
       /\ IF p \in welcomes[e] THEN SendWelcome(e, p) ELSE UNCHANGED wire
       /\ UNCHANGED <<used, group, welcomes, invites, created>>
    \/ /\ p \notin used[e]
       /\ created' = [created EXCEPT ![p] = @ + 1]
       /\ commit_contact_with_conversation(e, p, {p})
       /\ SendWelcome(e, p)

\* A repeated acceptance changes nothing, a late one is refused.
commit_accept(t, p) == IF t.inbox[p] = "Pending" THEN put_pairing_inbox(t, p, "Accepted") ELSE t

AcceptPairing(e, p) ==
    /\ prepare_accept(e, p)
    /\ accept_invite(e, p)
    /\ SetTables(e, commit_accept(Tables(e), p))
    /\ UNCHANGED <<tokens, effect, count, age>>

\* The engine stops after accept_invite has committed; the Welcome may be out.
AcceptPairingTorn(e, p) ==
    /\ Extra
    /\ inbox[e][p] = "Pending" /\ prepare_accept(e, p) /\ p \notin used[e]
    /\ created' = [created EXCEPT ![p] = @ + 1]
    /\ commit_contact_with_conversation(e, p, {p})
    /\ LoseVolatile(e)
    /\ \E q \in {in} \cup {post(in, Joiner[x], frame("PairingAccepted", x)) :
                            x \in {p} \cap bridge \cap tokens.owner} : in' = [q EXCEPT ![e] = <<>>]
    /\ UNCHANGED <<inbox, outbox, issued, codes, age>>

\* Refused after the deadline, unless it was rejected before.
prepare_reject(e, p) == inbox[e][p] = "Rejected" \/ (inbox[e][p] = "Pending" /\ age[p] < 2)

commit_reject(t, p) == IF t.inbox[p] = "Pending" THEN put_pairing_inbox(t, p, "Rejected") ELSE t

\* A response is sent until it expires; response_delivered is never set.
claim_pairing_response_attempt(p) == age[p] < 2
prepare_pairing_response_payload(p) == claim_pairing_response_attempt(p)

RejectPairing(e, p) ==
    /\ prepare_reject(e, p)
    /\ SetTables(e, commit_reject(Tables(e), p))
    /\ \/ prepare_pairing_response_payload(p) /\ SendRejection(e, p)
       \/ inbox[e][p] = "Rejected" /\ UNCHANGED wire
    /\ UNCHANGED <<used, group, welcomes, invites, created, tokens, effect, count, age>>

\* The inbox is looked at first.
ensure_pairing_transition(t, p, action) ==
    transition_invite_state(IF t.inbox[p] # "none" THEN t.inbox[p] ELSE t.outbox[p].state, action) # "none"

transition_pairing(t, p, s) ==
    IF t.inbox[p] # "none" THEN put_pairing_inbox(t, p, s)
    ELSE put_pairing_outbox(t, p, [t.outbox[p] EXCEPT !.state = s])

ArchivePairing(e, p) ==
    /\ Extra
    /\ ensure_pairing_transition(Tables(e), p, "Archive")
    /\ SetTables(e, transition_pairing(Tables(e), p, "Archived"))
    /\ UNCHANGED <<used, group, welcomes, invites, created, tokens, effect, wire, issued, codes, age>>

-----------------------------------------------------------------------------
(* Relay events: RelayPoll takes a frame and handles what it means         *)

Polls(e, kind) == Idle(e) /\ in[e] # <<>> /\ Head(in[e]).kind = kind

merge_pairing_item(local, remote) == IF local = "none" THEN remote ELSE merge_invite_state(local, remote)

merge_remote_items(t, p, remote) == merge_pairing_item(t.inbox[p], remote)

\* The offer is merged into the inbox, after the deadlines.
merge_pairing_inbox(before, p) ==
    LET t == expire_inbox(before)
        s == merge_remote_items(t, p, "Pending")
    IN IF s = t.inbox[p] THEN t ELSE put_pairing_inbox(t, p, s)

PairingOffer(e) ==
    LET p == Head(in[e]).p IN
    /\ Polls(e, "Requested")
    /\ in' = Pop(e)
    /\ tokens' = [tokens EXCEPT !.owner = @ \cup {p}]
    /\ SetTables(e, merge_pairing_inbox(Tables(e), p))
    /\ UNCHANGED <<used, group, welcomes, invites, created, effect, link, slot, bridge, count, age>>

\* The invite's key is still there.
pending_local_invite_mls(e, p) == p \in invites[e] /\ age[p] < 2

\* Seeded fault: the Welcome is confirmed before the contact is stored.
Faulty_Welcome(e) ==
    LET p == Head(in[e]).p IN
    /\ Polls(e, "PairingAccepted") /\ p \in tokens.keys
    /\ queue_welcome_applied(Pop(e), e, p)
    /\ UNCHANGED <<tables, tokens, effect, count, age>>

\* The joiner's side of the handshake.  A duplicate is confirmed again; an
\* invite whose key is gone or expired is refused.
Welcome(e) ==
    LET p == Head(in[e]).p
        t == bind_pairing_outbox_pair_key(Tables(e), p)
    IN
    /\ Polls(e, "PairingAccepted")
    /\ CASE p \notin tokens.keys -> Unsent(Pop(e)) /\ UNCHANGED tables
         [] p \in tokens.keys /\ p \in used[e] ->
                /\ SetTables(e, t)
                /\ queue_welcome_applied(Pop(e), e, p)
                /\ UNCHANGED <<used, group, welcomes, invites, created>>
         [] p \in tokens.keys /\ p \notin used[e] /\ ~pending_local_invite_mls(e, p) ->
                /\ SetTables(e, t)
                /\ Unsent(Pop(e))
                /\ UNCHANGED <<used, group, welcomes, invites, created>>
         [] OTHER ->
                /\ commit_contact_with_conversation(e, p, {})
                /\ SetTables(e, reconcile_outbox_items(t))
                /\ queue_welcome_applied(Pop(e), e, p)
                /\ UNCHANGED created
    /\ UNCHANGED <<tokens, effect, count, age>>

\* The engine stops after the contact is stored: the request stays open.
WelcomeTorn(e) ==
    LET p == Head(in[e]).p IN
    /\ Extra
    /\ Polls(e, "PairingAccepted")
    /\ p \in tokens.keys \ used[e] /\ pending_local_invite_mls(e, p)
    /\ commit_contact_with_conversation(e, p, {})
    /\ SetTables(e, bind_pairing_outbox_pair_key(Tables(e), p))
    /\ LoseVolatile(e)
    /\ in' = [in EXCEPT ![e] = <<>>]
    /\ UNCHANGED <<created, issued, codes, age>>

apply_pairing_peer_outcome(t, p, outcome) ==
    LET s == next_state_for_peer_outcome(t.outbox[p].state, outcome) IN
    IF s \in {"none", t.outbox[p].state} THEN t ELSE put_pairing_outbox(t, p, [t.outbox[p] EXCEPT !.state = s])

\* PairingRejected, also for the side that sent it, which has no such request.
RejectionReceived(e) ==
    /\ Polls(e, "PairingRejected")
    /\ in' = Pop(e)
    /\ SetTables(e, apply_pairing_peer_outcome(Tables(e), Head(in[e]).p, "RejectionReceived"))
    /\ UNCHANGED <<used, group, welcomes, invites, created, tokens, effect, link, slot, bridge, count, age>>

\* The inbox is looked at first; a request in another state is left alone.
finalize_pairing(t, p) ==
    LET s == IF t.inbox[p] # "none" THEN transition_invite_state(t.inbox[p], "Complete")
             ELSE next_state_for_peer_outcome(t.outbox[p].state, "WelcomePrepared")
    IN IF s = "none" THEN t ELSE transition_pairing(t, p, s)

PairingFinalized(e) ==
    /\ Polls(e, "PairingFinalized")
    /\ in' = Pop(e)
    /\ SetTables(e, finalize_pairing(Tables(e), Head(in[e]).p))
    /\ UNCHANGED <<used, group, welcomes, invites, created, tokens, effect, link, slot, bridge, count, age>>

\* poll_event drops every other frame, and the worker when it has failed.
PollDrops(e) ==
    /\ Idle(e)
    /\ \/ in[e] # <<>> /\ Head(in[e]).kind \in {"Created", "Stale", "Resolved", "Started", "Error", "PairingCancelled"}
          /\ in' = Pop(e) /\ UNCHANGED link
       \/ in[e] = <<>> /\ link[e] = "broken" /\ DropWorker(e)
    /\ UNCHANGED <<tables, tokens, effect, slot, bridge, count, age>>

-----------------------------------------------------------------------------
(* Timers and time                                                         *)

delete_expired_pending_welcomes(e) == welcomes' = [welcomes EXCEPT ![e] = {p \in @ : age[p] < 2}]

\* A failed attempt is only noted: the Welcome stays due until it expires.
claim_pending_welcome_attempt(p) == age[p] < 2

\* Welcomes that are due are sent again, whatever became of the request.
retry_pending_welcomes(e, p) ==
    /\ p \in welcomes[e]
    /\ delete_expired_pending_welcomes(e)
    /\ IF claim_pending_welcome_attempt(p) THEN SendWelcome(e, p) ELSE UNCHANGED wire
    /\ UNCHANGED <<inbox, outbox, used, group, invites, created, tokens, effect, count, age>>

\* An acceptance has nothing to send: its effect is an Offer, which
\* deliver_send_effect skips.
pending_send_effects(e) == {p \in Pairings : inbox[e][p] = "Rejected"}

\* The retry of a response; a flush of several is a sequence of these steps.
flush_pending_pairing_deliveries(e, p) ==
    /\ p \in pending_send_effects(e)
    /\ prepare_pairing_response_payload(p)
    /\ SendRejection(e, p)
    /\ UNCHANGED <<tables, tokens, effect, count, age>>

expire_pending_pairings(t) == expire_outbox(expire_inbox(t))

PeerProbeRound(e) ==
    /\ SetTables(e, expire_pending_pairings(Tables(e)))
    /\ UNCHANGED <<used, group, welcomes, invites, created, tokens, effect, wire, count, age>>

\* The query of the outgoing requests repairs and expires them.
pairing_outbox(e) ==
    /\ SetTables(e, expire_outbox(complete_outbox_pairings_for_existing_contacts(e, Tables(e))))
    /\ UNCHANGED <<used, group, welcomes, invites, created, tokens, effect, wire, count, age>>

BridgeExpires(p) ==
    /\ p \in bridge /\ age[p] >= 1
    /\ bridge' = bridge \ {p}
    /\ UNCHANGED <<tables, tokens, effect, link, in, slot, count, age>>

\* A submission takes a minute at most, so no deadline of its pairing passes
\* before it returns; the deadlines of an earlier one come first.
Tick(p) ==
    /\ p \in Range(issued) /\ age[p] < 2
    /\ effect[Joiner[p]].op # "submit"
    /\ \E i \in DOMAIN issued : issued[i] = p /\ \A h \in 1..i - 1 : age[issued[h]] > age[p]
    /\ age' = [age EXCEPT ![p] = @ + 1]
    /\ UNCHANGED <<tables, tokens, effect, wire, count>>

OfEngine(e) ==
    \/ RefreshPairingCode(e)
    \/ SlotCreated(e)
    \/ SlotResolved(e)
    \/ PairingStarted(e)
    \/ UnexpectedFrame(e)
    \/ ResponseTimeout(e)
    \/ PairingCancelled(e)
    \/ PairingOffer(e)
    \/ Welcome(e)
    \/ WelcomeTorn(e)
    \/ RejectionReceived(e)
    \/ PairingFinalized(e)
    \/ PollDrops(e)
    \/ PeerProbeRound(e)
    \/ pairing_outbox(e)
    \/ LinkLost(e)
    \/ set_socks5_url(e)
    \/ Restart(e)

OfRequest(e, p) ==
    \/ SubmitPairingCode(e, p)
    \/ CancelPairing(e, p)
    \/ AcceptPairing(e, p)
    \/ AcceptPairingTorn(e, p)
    \/ RejectPairing(e, p)
    \/ ArchivePairing(e, p)
    \/ retry_pending_welcomes(e, p)
    \/ flush_pending_pairing_deliveries(e, p)

Next ==
    \/ \E e \in Engines : OfEngine(e) \/ \E p \in Pairings : OfRequest(e, p)
    \/ \E p \in Pairings : BridgeExpires(p) \/ Tick(p)

Spec == Init /\ [][Next]_vars

-----------------------------------------------------------------------------
(* Properties                                                              *)

TypeOK ==
    /\ inbox \in [Engines -> [Pairings -> Box]]
    /\ outbox \in [Engines -> [Pairings -> Row]]
    /\ used \in [Engines -> SUBSET Pairings]
    /\ group \in [Engines -> Pairings \cup {0}]
    /\ welcomes \in [Engines -> SUBSET Pairings]
    /\ invites \in [Engines -> SUBSET Pairings]
    /\ tokens \in [owner : SUBSET Pairings, joiner : SUBSET Pairings, keys : SUBSET Pairings]
    /\ \A e \in Engines : effect[e].op \in {"none", "refresh", "submit", "cancel"}
    /\ link \in [Engines -> {"none", "live", "broken"}]
    /\ \A e \in Engines : Len(in[e]) <= QUEUE /\ \A i \in DOMAIN in[e] : in[e][i] \in Frame
    /\ slot \in [Engines -> BOOLEAN]
    /\ bridge \subseteq Range(issued)
    /\ age \in [Pairings -> 0..2]

\* Two engines that have each other as a contact use the same MLS group: the
\* group in which the owner's accept_invite put the joiner, whatever was
\* retried, lost, torn or answered late before.
SharedGroup ==
    \A d, e \in Engines : group[d] # 0 /\ group[e] # 0 => group[d] = group[e]

\* Requests that crossed are one relationship: once both invites are consumed on
\* both sides, the two use one group.  put_pairing_inbox is said to retire the
\* local request of the pair when the other one arrives.
CrossedAgree == (\A e \in Engines : used[e] = Pairings) => SharedGroup

\* accept_invite creates one MLS group per invite, even when the engine stops
\* between its transaction and the one that marks the request accepted.
OneGroupPerInvite == \A p \in Pairings : created[p] <= 1

\* The owner sees a request as Completed only when both sides have consumed its
\* invite: PairingCommitted is sent after the joiner's transaction.
CompletedMeansBoth ==
    \A p \in Pairings : inbox[Owner[p]][p] = "Completed" => p \in used[Owner[p]] \cap used[Joiner[p]]

\* An engine has one outstanding request at a time, although the check is made
\* before the effect and the row is stored after it.
OneOutstanding == \A e \in Engines : Cardinality(ActiveOut(Tables(e))) <= 1

\* Of the requests of a pair one is actionable: put_pairing_inbox retires the
\* others.
OneActionable == \A e \in Engines : Cardinality(ActiveIn(Tables(e))) <= 1

\* The pairing tables are well typed, and a pair of engines never has two
\* requests, or two groups of one request, where the code means one.
RequestInv == TypeOK /\ OneGroupPerInvite /\ OneOutstanding /\ OneActionable

\* A completed request is only ever archived; no late rejection, cancellation,
\* expiry or offer takes it back.
CompletedIsFinal ==
    [][\A e \in Engines, p \in Pairings :
         /\ inbox[e][p] = "Completed" => inbox'[e][p] \in {"Completed", "Archived"}
         /\ outbox[e][p].state = "Completed" => outbox'[e][p].state \in {"Completed", "Archived"}]_vars

\* A request blocks the next one only while its own deadline runs: whatever was
\* lost, prepare_submit_pairing_code first expires what nobody answered.
BlockedOnlyInTime ==
    \A e \in Engines :
        has_outstanding_request(expire_outbox(Tables(e)))
            => \E p \in Pairings : outbox[e][p].state = "Pending" /\ age[p] = 0

=============================================================================
