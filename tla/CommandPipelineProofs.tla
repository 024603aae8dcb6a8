------------------------ MODULE CommandPipelineProofs ------------------------
(***************************************************************************)
(* Theorems about CommandPipeline, for any callers, identifiers, channel   *)
(* capacities and number of faults.                                        *)
(*                                                                         *)
(* The argument rests on what the single actor knows between two inputs:   *)
(* the identifier of a running relay effect has no replay record, every    *)
(* success on its way to a caller is the stored record of its identifier,  *)
(* and the revisions in the event channel are in order between the one     *)
(* last announced and the head.                                            *)
(***************************************************************************)
EXTENDS CommandPipeline, TLAPS

Inputs == {command(r) : r \in Calls} \cup {outcome(x) : x \in {"ok", "error", "panic"}} \cup {shutdown}
Outputs == [rev : Nat, r : Calls \cup {NoCall}, result : Results, value : Nat]
Points == [at : {"idle", "checkpoint", "save", "publish"}, r : Calls \cup {NoCall}, value : Nat, rev : Nat]
Effects == [r : Calls \cup {NoCall}, id : Ids, at : {"running", "returned"}]

\* Types of the volatile state.
Typed ==
    /\ TypeOK
    /\ inbox \in Seq(Inputs) /\ out \in Seq(Outputs)
    /\ pc \in Points /\ effect \in Effects \cup {NoEffect}

\* What is left of the process in each state of the engine; an outcome in the
\* inbox is the only one, and belongs to the effect that waits for it.
Process ==
    /\ pc.at = "idle" => pc = Idle
    /\ engine # "up" => effect = NoEffect /\ pc = Idle
    /\ engine \in {"down", "refused"} => inbox = <<>> /\ out = <<>>
    /\ engine = "up" =>
        \A i \in DOMAIN inbox : inbox[i].kind = "outcome" =>
            /\ effect.at = "returned"
            /\ \A j \in DOMAIN inbox : inbox[j].kind = "outcome" => j = i

CancelId(c) == \E r \in Calls : IdOf[r] = c /\ KindOf[r] = "Cancel"

\* Records, operations and effects belong to the commands that made them.
Rows ==
    /\ \A c \in Ids : processed[c].kind = "none" => processed[c] = NoRow
    /\ \A c \in Ids : IF CancelId(c) THEN processed[c].kind \in {"none", "Cancel"}
                                     ELSE operation[c] = "none" /\ processed[c].kind # "Cancel"
    /\ effect # NoEffect =>
        /\ CancelId(effect.id) /\ processed[effect.id] = NoRow
        /\ effect.r \in Calls => IdOf[effect.r] = effect.id /\ KindOf[effect.r] = "Cancel"
    /\ pc.at = "save" => pc.r \in Calls /\ KindOf[pc.r] = "Direct" /\ processed[IdOf[pc.r]] = NoRow /\ pc.rev = 0

\* What was committed has a record.
Once ==
    ~restored => \A c \in Ids :
        /\ applied[c]["Runtime"] <= 1 /\ applied[c]["Cancel"] <= 1
        /\ processed[c] = NoRow => applied[c]["Runtime"] = 0 /\ applied[c]["Cancel"] = 0

\* The success v of call r is the stored record.
Stored(r, v) ==
    r \in Calls => (KindOf[r] # "Direct" => processed[IdOf[r]] = [kind |-> KindOf[r], value |-> v])

Answers ==
    ~restored =>
        /\ \A r \in Calls : call[r] = "ok" => Stored(r, payload[r])
        /\ \A i \in DOMAIN out : out[i].result = "ok" => Stored(out[i].r, out[i].value)
        /\ pc.at \in {"checkpoint", "publish"} => Stored(pc.r, pc.value)

\* Revisions on their way to the host are in order.
Revisions ==
    engine \in {"up", "stopped"} =>
        /\ seen <= head
        /\ \A i \in DOMAIN out : out[i].rev # 0 =>
            /\ seen < out[i].rev /\ out[i].rev <= head
            /\ \A j \in DOMAIN out : j < i => out[j].rev < out[i].rev
        /\ pc.rev # 0 => pc.rev = head /\ seen < head /\ \A i \in DOMAIN out : out[i].rev < head

\* The stored snapshot is not behind the anchor, unless a replaced database
\* waits to be opened.
Anchored ==
    /\ ~restored \/ engine \in {"up", "stopped"} => mls >= anchor
    /\ ~restored => engine # "refused"

\* The inductive invariant.
CInv ==
    /\ Typed /\ Process /\ Rows /\ Once /\ Answers /\ Revisions /\ AnnouncedHead /\ Anchored
    /\ RegistryBehind /\ CancelledTogether

-----------------------------------------------------------------------------
(* Channels                                                                *)

\* Positions after an append.
LEMMA AppendPositions ==
    ASSUME NEW S, NEW s \in Seq(S), NEW e \in S
    PROVE  /\ Append(s, e) \in Seq(S) /\ Len(s) \in Nat /\ Len(Append(s, e)) = Len(s) + 1
           /\ DOMAIN s = 1..Len(s) /\ DOMAIN Append(s, e) = 1..(Len(s) + 1)
           /\ \A i \in 1..Len(s) : Append(s, e)[i] = s[i] /\ s[i] \in S
           /\ Append(s, e)[Len(s) + 1] = e
<1>1. /\ Append(s, e) \in Seq(S) /\ Len(Append(s, e)) = Len(s) + 1
      /\ \A i \in 1..Len(s) : Append(s, e)[i] = s[i]
      /\ Append(s, e)[Len(s) + 1] = e
  OBVIOUS
<1>2. /\ DOMAIN s = 1..Len(s) /\ Len(s) \in Nat /\ DOMAIN Append(s, e) = 1..Len(Append(s, e))
  BY <1>1
<1>3. \A i \in 1..Len(s) : s[i] \in S
  BY <1>2
<1> QED
  BY <1>1, <1>2, <1>3, Zenon

\* Positions after the first entry is taken.
LEMMA TailPositions ==
    ASSUME NEW S, NEW s \in Seq(S), s # <<>>
    PROVE  /\ Tail(s) \in Seq(S) /\ Len(s) \in Nat \ {0} /\ Len(Tail(s)) = Len(s) - 1
           /\ DOMAIN s = 1..Len(s) /\ DOMAIN Tail(s) = 1..(Len(s) - 1)
           /\ \A i \in 1..(Len(s) - 1) : Tail(s)[i] = s[i + 1]
           /\ Head(s) = s[1] /\ \A i \in 1..Len(s) : s[i] \in S
<1>1. /\ Tail(s) \in Seq(S) /\ Len(Tail(s)) = Len(s) - 1
      /\ \A i \in 1..Len(Tail(s)) : Tail(s)[i] = s[i + 1]
  OBVIOUS
<1>2. Len(s) \in Nat \ {0} /\ DOMAIN s = 1..Len(s)
  OBVIOUS
<1>3. DOMAIN Tail(s) = 1..Len(Tail(s))
  BY <1>1
<1>4. Head(s) = s[1]
  OBVIOUS
<1>5. \A i \in 1..Len(s) : s[i] \in S
  BY <1>2
<1> QED
  BY <1>1, <1>2, <1>3, <1>4, <1>5, Zenon

\* What an input of each kind carries.
LEMMA InputKinds ==
    /\ \A x \in Inputs : /\ x.kind = "command" => x.r \in Calls
                         /\ x.kind = "outcome" => x.r \in {"ok", "error", "panic"}
    /\ \A r \in Calls : command(r) \in Inputs /\ command(r).kind = "command"
    /\ \A x \in {"ok", "error", "panic"} : outcome(x) \in Inputs /\ outcome(x).kind = "outcome"
    /\ shutdown \in Inputs /\ shutdown.kind = "shutdown"
BY DEF Inputs, command, outcome, shutdown

\* A new input keeps the inbox in order; an outcome comes from the running effect.
LEMMA InboxAppend ==
    ASSUME Typed, Process, engine = "up", NEW x \in Inputs, Len(inbox) < INBOX,
           inbox' = Append(inbox, x), UNCHANGED <<engine, pc, out>>,
           IF x.kind = "outcome" THEN effect.at = "running" /\ effect'.at = "returned" ELSE effect' = effect
    PROVE  Process' /\ inbox' \in Seq(Inputs) /\ Len(inbox') <= INBOX
<1>1. inbox \in Seq(Inputs) /\ INBOX \in Nat
  BY PipelineAssumption, Zenon DEF Typed
<1>2. /\ inbox' \in Seq(Inputs) /\ Len(inbox) \in Nat /\ Len(inbox') = Len(inbox) + 1
      /\ DOMAIN inbox = 1..Len(inbox) /\ DOMAIN inbox' = 1..(Len(inbox) + 1)
      /\ \A i \in 1..Len(inbox) : inbox'[i] = inbox[i]
      /\ inbox'[Len(inbox) + 1] = x
  BY <1>1, AppendPositions
<1>3. ASSUME NEW i \in DOMAIN inbox', inbox'[i].kind = "outcome"
      PROVE  /\ effect'.at = "returned"
             /\ \A j \in DOMAIN inbox' : inbox'[j].kind = "outcome" => j = i
  <2>1. CASE x.kind = "outcome"
    <3>1. \A j \in DOMAIN inbox : inbox[j].kind # "outcome"
      BY <2>1, Zenon DEF Process
    <3> QED
      BY <1>2, <1>3, <2>1, <3>1
  <2>2. CASE x.kind # "outcome"
    <3>1. \A j \in DOMAIN inbox' : inbox'[j].kind = "outcome" => j \in DOMAIN inbox /\ inbox[j].kind = "outcome"
      BY <1>2, <2>2
    <3> QED
      BY <1>3, <2>2, <3>1, Zenon DEF Process
  <2> QED
    BY <2>1, <2>2, Zenon
<1> QED
  BY <1>1, <1>2, <1>3 DEF Process

\* The rest of the inbox after an input is taken.
LEMMA InboxTaken ==
    ASSUME Typed, Process, NEW kind, Takes(kind)
    PROVE  /\ engine = "up" /\ pc = Idle
           /\ Head(inbox) \in Inputs /\ Head(inbox).kind = kind
           /\ inbox' \in Seq(Inputs) /\ Len(inbox') <= INBOX
           /\ kind = "outcome" => effect.at = "returned"
           /\ \A i \in DOMAIN inbox' : inbox'[i].kind = "outcome" =>
                /\ kind # "outcome" /\ effect.at = "returned"
                /\ \A j \in DOMAIN inbox' : inbox'[j].kind = "outcome" => j = i
<1>1. /\ engine = "up" /\ pc.at = "idle" /\ inbox # <<>> /\ Head(inbox).kind = kind /\ inbox' = Tail(inbox)
  BY Zenon DEF Takes
<1>2. inbox \in Seq(Inputs) /\ INBOX \in Nat /\ Len(inbox) <= INBOX
  BY PipelineAssumption, Zenon DEF Typed, TypeOK
<1>3. /\ inbox' \in Seq(Inputs) /\ Len(inbox) \in Nat \ {0} /\ Len(inbox') = Len(inbox) - 1
      /\ DOMAIN inbox = 1..Len(inbox) /\ DOMAIN inbox' = 1..(Len(inbox) - 1)
      /\ \A i \in 1..(Len(inbox) - 1) : inbox'[i] = inbox[i + 1]
      /\ Head(inbox) = inbox[1] /\ inbox[1] \in Inputs
  BY <1>1, <1>2, TailPositions
<1>4. \A i \in DOMAIN inbox' : i + 1 \in DOMAIN inbox /\ inbox'[i] = inbox[i + 1] /\ i + 1 # 1
  BY <1>3
<1>5. 1 \in DOMAIN inbox
  BY <1>3
<1>6. kind = "outcome" => effect.at = "returned"
  BY <1>1, <1>3, <1>5, Zenon DEF Process
<1>7. ASSUME NEW i \in DOMAIN inbox', inbox'[i].kind = "outcome"
      PROVE  /\ kind # "outcome" /\ effect.at = "returned"
             /\ \A j \in DOMAIN inbox' : inbox'[j].kind = "outcome" => j = i
  <2>1. /\ effect.at = "returned"
        /\ \A j \in DOMAIN inbox : inbox[j].kind = "outcome" => j = i + 1
    BY <1>1, <1>4, <1>7, Zenon DEF Process
  <2>2. kind # "outcome"
    BY <1>1, <1>3, <1>4, <1>5, <2>1, Zenon
  <2>3. ASSUME NEW j \in DOMAIN inbox', inbox'[j].kind = "outcome" PROVE j = i
    <3>1. j + 1 = i + 1
      BY <1>4, <2>1, <2>3, Zenon
    <3> QED
      BY <1>3, <3>1
  <2> QED
    BY <2>1, <2>2, <2>3, Zenon
<1>8. Len(inbox') <= INBOX
  BY <1>2, <1>3
<1>9. pc = Idle
  BY <1>1, Zenon DEF Process
<1> QED
  BY <1>1, <1>3, <1>6, <1>7, <1>8, <1>9, Zenon

-----------------------------------------------------------------------------
(* What each part of the invariant depends on                              *)

\* A part is kept by a step that leaves its variables alone.
LEMMA Frames ==
    ASSUME CInv
    PROVE  /\ UNCHANGED <<engine, effect, pc, inbox, out>> => Process'
           /\ UNCHANGED <<operation, processed, effect, pc>> => Rows'
           /\ UNCHANGED <<restored, applied, processed>> => Once'
           /\ UNCHANGED <<restored, call, payload, out, pc, processed>> => Answers'
           /\ UNCHANGED <<engine, seen, head, out, pc, dropped>> => Revisions' /\ AnnouncedHead'
           /\ UNCHANGED <<restored, engine, mls, anchor>> => Anchored'
           /\ UNCHANGED <<registry, call>> => RegistryBehind'
           /\ UNCHANGED <<outbox, operation, processed>> => CancelledTogether'
<1>1. UNCHANGED <<engine, effect, pc, inbox, out>> => Process'
  BY Zenon DEF CInv, Process
<1>2. UNCHANGED <<operation, processed, effect, pc>> => Rows'
  BY Zenon DEF CInv, Rows
<1>3. UNCHANGED <<restored, applied, processed>> => Once'
  BY DEF CInv, Once
<1>4. UNCHANGED <<restored, call, payload, out, pc, processed>> => Answers'
  BY DEF CInv, Answers, Stored
<1>5. UNCHANGED <<engine, seen, head, out, pc, dropped>> => Revisions' /\ AnnouncedHead'
  BY DEF CInv, Revisions, AnnouncedHead
<1>6. UNCHANGED <<restored, engine, mls, anchor>> => Anchored'
  BY DEF CInv, Anchored
<1>7. UNCHANGED <<registry, call>> => RegistryBehind'
  BY Zenon DEF CInv, RegistryBehind
<1>8. UNCHANGED <<outbox, operation, processed>> => CancelledTogether'
  BY Zenon DEF CInv, CancelledTogether
<1> QED
  BY <1>1, <1>2, <1>3, <1>4, <1>5, <1>6, <1>7, <1>8, Zenon

\* Existing records are kept.
RowsStay == \A c \in Ids : processed[c] # NoRow => processed'[c] = processed[c]

\* A success that was stored stays stored.
LEMMA StoredStays ==
    ASSUME NEW r, NEW v, Stored(r, v), RowsStay
    PROVE  Stored(r, v)'
<1> SUFFICES ASSUME r \in Calls, KindOf[r] # "Direct"
             PROVE  processed'[IdOf[r]] = [kind |-> KindOf[r], value |-> v]
  BY Zenon DEF Stored
<1>1. IdOf[r] \in Ids /\ KindOf[r] \in Kinds
  BY PipelineAssumption, Zenon
<1>2. processed[IdOf[r]] = [kind |-> KindOf[r], value |-> v]
  BY Zenon DEF Stored
<1>3. processed[IdOf[r]].kind = KindOf[r]
  BY <1>2
<1>4. NoRow.kind = "none" /\ KindOf[r] # "none"
  BY <1>1, Zenon DEF NoRow, Kinds
<1>5. processed[IdOf[r]] # NoRow
  BY <1>3, <1>4, Zenon
<1> QED
  BY <1>1, <1>2, <1>5, Zenon DEF RowsStay

\* The events of an input are published: a success is a stored one, and a
\* revision the one the actor has just committed.
LEMMA Published ==
    ASSUME CInv, engine = "up", NEW e \in Outputs, Emit(e), RowsStay,
           UNCHANGED <<engine, seen, head, restored, call, payload>>,
           pc' = pc \/ pc' = Idle,
           e.rev = 0 \/ (e.rev = pc.rev /\ pc' = Idle),
           dropped' = TRUE \/ (dropped' = dropped /\ (pc' = pc \/ e.rev = pc.rev)),
           ~restored /\ e.result = "ok" => Stored(e.r, e.value)'
    PROVE  /\ out' \in Seq(Outputs) /\ Len(out') <= OUT
           /\ Answers' /\ Revisions' /\ AnnouncedHead'
<1> DEFINE n == Len(out)
<1>1. out \in Seq(Outputs) /\ pc \in Points /\ head \in Nat /\ seen \in Nat /\ OUT \in Nat
  BY PipelineAssumption, Zenon DEF CInv, Typed, TypeOK
<1>2. n < OUT /\ out' = Append(out, e)
  BY Zenon DEF Emit
<1>3. /\ out' \in Seq(Outputs) /\ n \in Nat /\ Len(out') = n + 1
      /\ DOMAIN out = 1..n /\ DOMAIN out' = 1..(n + 1)
      /\ \A i \in 1..n : out'[i] = out[i] /\ out[i] \in Outputs
      /\ out'[n + 1] = e
  BY <1>1, <1>2, AppendPositions
<1>4. e.rev \in Nat /\ pc.rev \in Nat /\ \A i \in 1..n : out[i].rev \in Nat
  BY <1>1, <1>3, Zenon DEF Outputs, Points
<1>5. Idle.rev = 0 /\ Idle.at = "idle"
  BY Zenon DEF Idle
<1> HIDE DEF n
<1>6. Len(out') <= OUT
  BY <1>1, <1>2, <1>3
<1>7. Answers'
  <2> SUFFICES ASSUME ~restored
               PROVE  /\ \A r \in Calls : call[r] = "ok" => Stored(r, payload[r])'
                      /\ \A i \in DOMAIN out' : out'[i].result = "ok" => Stored(out[i].r, out[i].value)'
                      /\ pc'.at \in {"checkpoint", "publish"} => Stored(pc.r, pc.value)'
    BY Zenon DEF Answers
  <2>1. /\ \A r \in Calls : call[r] = "ok" => Stored(r, payload[r])
        /\ \A i \in DOMAIN out : out[i].result = "ok" => Stored(out[i].r, out[i].value)
        /\ pc.at \in {"checkpoint", "publish"} => Stored(pc.r, pc.value)
    BY Zenon DEF CInv, Answers
  <2>2. \A r, v : Stored(r, v) => (r \in Calls => (KindOf[r] # "Direct" => processed'[IdOf[r]] = [kind |-> KindOf[r], value |-> v]))
    BY StoredStays, Zenon DEF Stored
  <2>3. ASSUME NEW r \in Calls, call[r] = "ok" PROVE Stored(r, payload[r])'
    BY <2>1, <2>2, <2>3 DEF Stored
  <2>4. ASSUME NEW i \in DOMAIN out', out'[i].result = "ok" PROVE Stored(out[i].r, out[i].value)'
    <3>1. CASE i \in 1..n
      <4>1. out'[i] = out[i] /\ Stored(out[i].r, out[i].value)
        BY <1>3, <2>1, <2>4, <3>1, Zenon
      <4> QED
        BY <2>2, <4>1 DEF Stored
    <3>2. CASE i = n + 1
      BY <1>3, <2>4, <3>2, Zenon DEF Stored
    <3> QED
      BY <1>3, <3>1, <3>2
  <2>5. pc'.at \in {"checkpoint", "publish"} => Stored(pc.r, pc.value)'
    BY <1>5, <2>1, <2>2 DEF Stored
  <2> QED
    BY <2>3, <2>4, <2>5, Zenon
<1>8. Revisions'
  <2>1. /\ seen <= head
        /\ \A i \in 1..n : out[i].rev # 0 =>
            /\ seen < out[i].rev /\ out[i].rev <= head
            /\ \A j \in 1..n : j < i => out[j].rev < out[i].rev
        /\ pc.rev # 0 => pc.rev = head /\ seen < head /\ \A i \in 1..n : out[i].rev < head
    BY <1>3, Zenon DEF CInv, Revisions
  <2>2. ASSUME NEW i \in 1..(n + 1), out'[i].rev # 0
        PROVE  /\ seen < out'[i].rev /\ out'[i].rev <= head
               /\ \A j \in 1..(n + 1) : j < i => out'[j].rev < out'[i].rev
    <3>1. CASE i \in 1..n
      BY <1>3, <2>1, <2>2, <3>1
    <3>2. CASE i = n + 1
      <4>1. out'[i].rev = pc.rev /\ pc.rev # 0
        BY <1>3, <2>2, <3>2, Zenon
      <4> QED
        BY <1>1, <1>3, <1>4, <2>1, <3>2, <4>1
    <3> QED
      BY <1>3, <3>1, <3>2
  <2>3. pc'.rev # 0 => pc'.rev = head /\ seen < head /\ \A i \in 1..(n + 1) : out'[i].rev < head
    <3>1. SUFFICES ASSUME pc'.rev # 0 PROVE pc'.rev = head /\ seen < head /\ \A i \in 1..(n + 1) : out'[i].rev < head
      OBVIOUS
    <3>2. pc' = pc /\ e.rev = 0 /\ pc.rev = head /\ seen < head /\ \A i \in 1..n : out[i].rev < head
      BY <1>5, <2>1, <3>1, Zenon
    <3> QED
      BY <1>1, <1>3, <1>4, <3>2
  <2> QED
    BY <1>3, <2>1, <2>2, <2>3, Zenon DEF Revisions
<1>9. AnnouncedHead'
  <2>1. /\ seen <= head
        /\ \/ seen = head \/ dropped
           \/ pc.rev = head \/ \E i \in 1..n : out[i].rev = head
    BY <1>3, Zenon DEF CInv, AnnouncedHead
  <2>2. CASE \E i \in 1..n : out[i].rev = head
    <3>1. \E i \in DOMAIN out' : out'[i].rev = head
      BY <1>3, <2>2
    <3> QED
      BY <2>1, <3>1, Zenon DEF AnnouncedHead
  <2>3. CASE pc.rev = head /\ e.rev = pc.rev
    <3>1. n + 1 \in DOMAIN out' /\ out'[n + 1].rev = head
      BY <1>3, <2>3
    <3> QED
      BY <2>1, <3>1, Zenon DEF AnnouncedHead
  <2>4. CASE seen = head \/ dropped' \/ pc'.rev = head
    BY <2>1, <2>4, Zenon DEF AnnouncedHead
  <2> QED
    BY <2>1, <2>2, <2>3, <2>4, Zenon
<1> QED
  BY <1>3, <1>6, <1>7, <1>8, <1>9, Zenon

\* A commit leaves its answer and its revision with the actor.
LEMMA Committed ==
    ASSUME CInv, engine = "up", pc = Idle, RowsStay, pc' \in Points,
           UNCHANGED <<engine, out, seen, dropped, restored, call, payload>>,
           \/ head' = head /\ pc'.rev = 0
           \/ head' = head + 1 /\ pc'.rev = head',
           pc'.at \in {"checkpoint", "publish"} => Stored(pc.r, pc.value)'
    PROVE  Answers' /\ Revisions' /\ AnnouncedHead'
<1>1. /\ out \in Seq(Outputs) /\ head \in Nat /\ seen \in Nat /\ Idle.rev = 0
      /\ \A i \in DOMAIN out : out[i].rev \in Nat
  <2>1. out \in Seq(Outputs) /\ head \in Nat /\ seen \in Nat
    BY Zenon DEF CInv, Typed, TypeOK
  <2>2. \A i \in DOMAIN out : out[i] \in Outputs
    BY <2>1
  <2> QED
    BY <2>1, <2>2, Zenon DEF Outputs, Idle
<1>2. Answers'
  <2>1. \A r, v : Stored(r, v) => (r \in Calls => (KindOf[r] # "Direct" => processed'[IdOf[r]] = [kind |-> KindOf[r], value |-> v]))
    BY StoredStays, Zenon DEF Stored
  <2>2. ~restored => /\ \A r \in Calls : call[r] = "ok" => Stored(r, payload[r])
                     /\ \A i \in DOMAIN out : out[i].result = "ok" => Stored(out[i].r, out[i].value)
    BY Zenon DEF CInv, Answers
  <2>3. ~restored => \A r \in Calls : call[r] = "ok" => Stored(r, payload[r])'
    BY <2>1, <2>2 DEF Stored
  <2>4. ~restored => \A i \in DOMAIN out : out[i].result = "ok" => Stored(out[i].r, out[i].value)'
    BY <2>1, <2>2 DEF Stored
  <2> QED
    BY <2>3, <2>4, Zenon DEF Answers
<1>3. Revisions'
  <2>1. /\ seen <= head
        /\ \A i \in DOMAIN out : out[i].rev # 0 =>
            /\ seen < out[i].rev /\ out[i].rev <= head
            /\ \A j \in DOMAIN out : j < i => out[j].rev < out[i].rev
    BY Zenon DEF CInv, Revisions
  <2>2. \A i \in DOMAIN out : out[i].rev <= head
    BY <1>1, <2>1
  <2>3. seen <= head' /\ \A i \in DOMAIN out : out[i].rev <= head'
    BY <1>1, <2>1, <2>2
  <2>4. pc'.rev # 0 => pc'.rev = head' /\ seen < head' /\ \A i \in DOMAIN out : out[i].rev < head'
    BY <1>1, <2>1, <2>2
  <2> QED
    BY <2>1, <2>3, <2>4, Zenon DEF Revisions
<1>4. AnnouncedHead'
  <2>1. seen <= head'
    BY <1>1 DEF CInv, AnnouncedHead
  <2>2. CASE head' = head /\ pc'.rev = 0
    BY <1>1, <2>1, <2>2, Zenon DEF CInv, AnnouncedHead
  <2>3. CASE head' = head + 1 /\ pc'.rev = head'
    BY <2>1, <2>3, Zenon DEF AnnouncedHead
  <2> QED
    BY <2>2, <2>3, Zenon
<1> QED
  BY <1>2, <1>3, <1>4, Zenon

-----------------------------------------------------------------------------
(* Callers, and inputs that arrive                                         *)

\* A caller that registers has no entry yet.
LEMMA SubmitStep ==
    ASSUME CInv, NEW r \in Calls, submit_with_command_id(r)
    PROVE  CInv'
<1>1. /\ call[r] = "idle"
      /\ UNCHANGED <<payload, pc, out, effect, tokens, engine, outbox, operation, processed, applied, head, mls,
                     anchor, restored, seen, dropped, faults>>
  BY Zenon DEF submit_with_command_id, durable, guard, view
<1>2. \/ /\ engine = "up" /\ Len(inbox) < INBOX /\ inbox' = Append(inbox, command(r))
         /\ registry' = registry \cup {r} /\ call' = [call EXCEPT ![r] = "waiting"]
      \/ /\ call' = [call EXCEPT ![r] = "error"] /\ UNCHANGED <<registry, inbox>>
  BY Zenon DEF submit_with_command_id
<1>3. /\ call \in [Calls -> CallState] /\ registry \subseteq Calls
  BY Zenon DEF CInv, Typed, TypeOK
<1>4. /\ call' \in [Calls -> CallState] /\ registry' \subseteq Calls
      /\ call'[r] \in {"waiting", "error"} /\ \A q \in Calls \ {r} : call'[q] = call[q]
  BY <1>2, <1>3, Zenon DEF CallState
<1>5. Process' /\ inbox' \in Seq(Inputs) /\ Len(inbox') <= INBOX
  <2>1. CASE engine = "up" /\ Len(inbox) < INBOX /\ inbox' = Append(inbox, command(r))
    BY <1>1, <2>1, InputKinds, InboxAppend, Zenon DEF CInv
  <2>2. CASE inbox' = inbox
    BY <1>1, <2>2, Frames, Zenon DEF CInv, Typed, TypeOK
  <2> QED
    BY <1>2, <2>1, <2>2, Zenon
<1>6. Typed'
  BY <1>1, <1>4, <1>5, Zenon DEF CInv, Typed, TypeOK
<1>7. Answers'
  BY <1>1, <1>4, Zenon DEF CInv, Answers, Stored
<1>8. RegistryBehind'
  <2>1. r \notin registry
    BY <1>1, Zenon DEF CInv, RegistryBehind
  <2> QED
    BY <1>2, <1>3, <1>4, <2>1 DEF CInv, RegistryBehind
<1> QED
  BY <1>1, <1>5, <1>6, <1>7, <1>8, Frames, Zenon DEF CInv

\* A caller that has given up still has its entry until it takes it out.
LEMMA GiveUpStep ==
    ASSUME CInv, NEW r \in Calls, TimesOut(r) \/ remove(r)
    PROVE  CInv'
<1>1. UNCHANGED <<payload, inbox, pc, out, effect, tokens, engine, outbox, operation, processed, applied, head, mls,
                  anchor, restored, seen, dropped>>
  BY Zenon DEF TimesOut, remove, volatile, durable, guard, view
<1>2. \/ /\ call[r] = "waiting" /\ call' = [call EXCEPT ![r] = "removing"]
         /\ registry' = registry /\ faults' = faults + 1
      \/ /\ call[r] = "removing" /\ call' = [call EXCEPT ![r] = "timeout"]
         /\ registry' = registry \ {r} /\ faults' = faults
  BY Zenon DEF TimesOut, remove
<1>3. /\ call \in [Calls -> CallState] /\ registry \subseteq Calls /\ faults \in Nat
  BY Zenon DEF CInv, Typed, TypeOK
<1>4. /\ call' \in [Calls -> CallState] /\ registry' \subseteq Calls /\ faults' \in Nat
      /\ call'[r] \in {"removing", "timeout"} /\ \A q \in Calls \ {r} : call'[q] = call[q]
  BY <1>2, <1>3 DEF CallState
<1>5. Typed'
  BY <1>1, <1>4, Zenon DEF CInv, Typed, TypeOK
<1>6. Answers'
  BY <1>1, <1>4, Zenon DEF CInv, Answers, Stored
<1>7. RegistryBehind'
  BY <1>2, <1>3, <1>4, Zenon DEF CInv, RegistryBehind
<1> QED
  BY <1>1, <1>5, <1>6, <1>7, Frames, Zenon DEF CInv

\* A shutdown is one more input.
LEMMA ShutdownRequestedStep ==
    ASSUME CInv, ShutdownRequested
    PROVE  CInv'
<1>1. /\ engine = "up" /\ Len(inbox) < INBOX /\ inbox' = Append(inbox, shutdown) /\ faults' = faults + 1
      /\ UNCHANGED <<call, payload, registry, pc, out, effect, tokens, engine, outbox, operation, processed, applied,
                     head, mls, anchor, restored, seen, dropped>>
  BY Zenon DEF ShutdownRequested, client, durable, guard, view
<1>2. Process' /\ inbox' \in Seq(Inputs) /\ Len(inbox') <= INBOX
  BY <1>1, InputKinds, InboxAppend, Zenon DEF CInv
<1>3. faults' \in Nat
  BY <1>1 DEF CInv, Typed, TypeOK
<1>4. Typed'
  BY <1>1, <1>2, <1>3, Zenon DEF CInv, Typed, TypeOK
<1> QED
  BY <1>1, <1>2, <1>4, Frames, Zenon DEF CInv

\* The running effect returns once.
LEMMA EffectReturnsStep ==
    ASSUME CInv, NEW x \in {"ok", "error", "panic"}, EffectReturns(x)
    PROVE  CInv'
<1>1. /\ effect.at = "running" /\ engine = "up" /\ Len(inbox) < INBOX
      /\ inbox' = Append(inbox, outcome(x)) /\ effect' = [effect EXCEPT !.at = "returned"]
      /\ UNCHANGED <<call, payload, registry, pc, out, tokens, engine, outbox, operation, processed, applied,
                     head, mls, anchor, restored, seen, dropped, faults>>
  BY Zenon DEF EffectReturns, client, durable, guard, view
<1>2. effect \in Effects
  BY <1>1 DEF CInv, Typed, NoEffect
<1>3. /\ effect' \in Effects /\ effect'.at = "returned" /\ effect'.id = effect.id /\ effect'.r = effect.r
      /\ effect' # NoEffect /\ effect # NoEffect /\ effect.id \in Ids
  BY <1>1, <1>2 DEF Effects, NoEffect
<1>4. Process' /\ inbox' \in Seq(Inputs) /\ Len(inbox') <= INBOX
  BY <1>1, <1>3, InputKinds, InboxAppend, Zenon DEF CInv
<1>5. Typed'
  BY <1>1, <1>3, <1>4, Zenon DEF CInv, Typed, TypeOK
<1>6. Rows'
  BY <1>1, <1>3, Zenon DEF CInv, Rows
<1> QED
  BY <1>1, <1>4, <1>5, <1>6, Frames, Zenon DEF CInv

-----------------------------------------------------------------------------
(* The command pipeline                                                    *)

\* The actor has taken a command and has not touched what no command changes.
Taken ==
    /\ engine = "up" /\ pc = Idle
    /\ inbox' \in Seq(Inputs) /\ Len(inbox') <= INBOX
    /\ \A i \in DOMAIN inbox' : inbox'[i].kind = "outcome" =>
         /\ effect.at = "returned"
         /\ \A j \in DOMAIN inbox' : inbox'[j].kind = "outcome" => j = i
    /\ UNCHANGED <<call, payload, registry, engine, tokens, outbox, anchor, restored, seen, dropped, faults>>

\* The input is a command of some call.
LEMMA CommandTaken ==
    ASSUME CInv, process_command_input
    PROVE  Taken /\ \E r \in Calls : Replay(r) \/ Refused(r) \/ RuntimeCommand(r) \/ DirectCommand(r) \/ CancelCommand(r)
<1>1. Takes("command") /\ Typed /\ Process
  BY Zenon DEF process_command_input, CInv
<1>2. /\ engine = "up" /\ pc = Idle
      /\ Head(inbox) \in Inputs /\ Head(inbox).kind = "command"
      /\ inbox' \in Seq(Inputs) /\ Len(inbox') <= INBOX
      /\ \A i \in DOMAIN inbox' : inbox'[i].kind = "outcome" =>
           /\ effect.at = "returned"
           /\ \A j \in DOMAIN inbox' : inbox'[j].kind = "outcome" => j = i
  BY <1>1, InboxTaken, Zenon
<1>3. Head(inbox).r \in Calls
  BY <1>2, InputKinds, Zenon
<1>4. /\ LET r == Head(inbox).r
         IN Replay(r) \/ Refused(r) \/ RuntimeCommand(r) \/ DirectCommand(r) \/ CancelCommand(r)
      /\ UNCHANGED <<call, payload, registry, engine, tokens, outbox, anchor, restored, seen, dropped, faults>>
  BY Zenon DEF process_command_input, client, guard, view
<1> QED
  BY <1>2, <1>3, <1>4, Zenon DEF Taken

\* A command that only answers.
LEMMA AnswerStep ==
    ASSUME CInv, Taken, NEW e \in Outputs, Emit(e), e.rev = 0, e.result = "ok" => Stored(e.r, e.value),
           UNCHANGED <<pc, effect, operation, processed, applied, head, mls>>
    PROVE  CInv'
<1>1. UNCHANGED <<call, payload, registry, engine, tokens, outbox, anchor, restored, seen, dropped, faults>>
  BY Zenon DEF Taken
<1>2. RowsStay /\ (e.result = "ok" => Stored(e.r, e.value)')
  BY Zenon DEF RowsStay, Stored
<1>3. /\ out' \in Seq(Outputs) /\ Len(out') <= OUT
      /\ Answers' /\ Revisions' /\ AnnouncedHead'
  BY <1>1, <1>2, Published, Zenon DEF Taken
<1>4. Typed'
  BY <1>1, <1>3, Zenon DEF CInv, Typed, TypeOK, Taken
<1>5. Process'
  BY <1>1, Zenon DEF CInv, Process, Taken
<1> QED
  BY <1>1, <1>3, <1>4, <1>5, Frames, Zenon DEF CInv

\* A failure is an answer.
LEMMA FailureIsOutput ==
    ASSUME NEW r \in Calls \cup {NoCall}
    PROVE  failure(r) \in Outputs /\ failure(r).rev = 0 /\ failure(r).result = "error"
BY Zenon DEF failure, events, Outputs, Results

\* A replayed success is the stored record.
LEMMA ReplayStep ==
    ASSUME CInv, Taken, NEW r \in Calls, Replay(r)
    PROVE  CInv'
<1> DEFINE row == processed[IdOf[r]]
           e == IF row.kind = KindOf[r] THEN events(0, r, "ok", row.value) ELSE failure(r)
<1>1. Emit(e) /\ UNCHANGED <<pc, effect, operation, processed, applied, head, mls>>
  BY Zenon DEF Replay, load_processed_command
<1>2. row \in [kind : Kinds \cup {"none"}, value : Nat]
  BY PipelineAssumption, Zenon DEF CInv, Typed, TypeOK
<1>3. row = [kind |-> row.kind, value |-> row.value] /\ row.value \in Nat
  BY <1>2, Zenon
<1> HIDE DEF row
<1>4. e \in Outputs /\ e.rev = 0
  BY <1>3, FailureIsOutput, Zenon DEF events, Outputs, Results
<1>5. e.result = "ok" => Stored(e.r, e.value)
  BY <1>3, FailureIsOutput, Zenon DEF events, Stored, row
<1> HIDE DEF e
<1> QED
  BY <1>1, <1>4, <1>5, AnswerStep, Zenon

\* A refused command changes nothing.
LEMMA RefusedStep ==
    ASSUME CInv, Taken, NEW r \in Calls, Refused(r)
    PROVE  CInv'
<1>1. Emit(failure(r)) /\ UNCHANGED <<pc, effect, operation, processed, applied, head, mls>>
  BY Zenon DEF Refused
<1> QED
  BY <1>1, FailureIsOutput, AnswerStep, Zenon

\* Counting a command changes one number.
LEMMA Counted ==
    ASSUME CInv, NEW c \in Ids, NEW k \in Kinds, applied' = Count(c, k)
    PROVE  /\ applied' \in [Ids -> [Kinds -> Nat]]
           /\ applied'[c][k] = applied[c][k] + 1
           /\ \A d \in Ids, l \in Kinds : <<d, l>> # <<c, k>> => applied'[d][l] = applied[d][l]
<1>1. applied \in [Ids -> [Kinds -> Nat]]
  BY Zenon DEF CInv, Typed, TypeOK
<1>2. applied' = [applied EXCEPT ![c] = [applied[c] EXCEPT ![k] = applied[c][k] + 1]]
  BY Zenon DEF Count
<1>3. [applied[c] EXCEPT ![k] = applied[c][k] + 1] \in [Kinds -> Nat]
  BY <1>1
<1> QED
  BY <1>1, <1>2, <1>3

\* A first record of an identifier whose count was 0, for Runtime and Cancel.
LEMMA SavedOnce ==
    ASSUME CInv, NEW c \in Ids, NEW k \in {"Runtime", "Cancel"}, processed[c] = NoRow,
           applied' = Count(c, k), save_processed_command(c, k), restored' = restored
    PROVE  /\ processed' \in [Ids -> [kind : Kinds \cup {"none"}, value : Nat]]
           /\ processed'[c] = [kind |-> k, value |-> applied'[c][k]] /\ processed'[c] # NoRow
           /\ \A d \in Ids \ {c} : processed'[d] = processed[d]
           /\ RowsStay /\ Once' /\ applied' \in [Ids -> [Kinds -> Nat]]
<1>0. k \in Kinds
  BY Zenon DEF Kinds
<1>1. /\ applied' \in [Ids -> [Kinds -> Nat]]
      /\ applied'[c][k] = applied[c][k] + 1
      /\ \A d \in Ids, l \in Kinds : <<d, l>> # <<c, k>> => applied'[d][l] = applied[d][l]
  BY <1>0, Counted, Zenon
<1>2. processed' = [processed EXCEPT ![c] = [kind |-> k, value |-> applied'[c][k]]]
  BY Zenon DEF save_processed_command
<1>3. [kind |-> k, value |-> applied'[c][k]] \in [kind : Kinds \cup {"none"}, value : Nat]
  BY <1>0, <1>1, Zenon
<1>4. processed \in [Ids -> [kind : Kinds \cup {"none"}, value : Nat]]
  BY Zenon DEF CInv, Typed, TypeOK
<1>5. /\ processed' \in [Ids -> [kind : Kinds \cup {"none"}, value : Nat]]
      /\ processed'[c] = [kind |-> k, value |-> applied'[c][k]]
      /\ \A d \in Ids \ {c} : processed'[d] = processed[d]
  BY <1>2, <1>3, <1>4, Zenon
<1>6. processed'[c] # NoRow
  BY <1>5 DEF NoRow
<1>7. RowsStay
  BY <1>5, Zenon DEF RowsStay
<1>8. Once'
  <2> SUFFICES ASSUME ~restored, NEW d \in Ids
               PROVE  /\ applied'[d]["Runtime"] <= 1 /\ applied'[d]["Cancel"] <= 1
                      /\ processed'[d] = NoRow => applied'[d]["Runtime"] = 0 /\ applied'[d]["Cancel"] = 0
    BY Zenon DEF Once
  <2>1. "Runtime" \in Kinds /\ "Cancel" \in Kinds
    BY Zenon DEF Kinds
  <2>2. /\ applied[d]["Runtime"] <= 1 /\ applied[d]["Cancel"] <= 1
        /\ processed[d] = NoRow => applied[d]["Runtime"] = 0 /\ applied[d]["Cancel"] = 0
    BY Zenon DEF CInv, Once
  <2>3. CASE d = c
    BY <1>1, <1>6, <2>1, <2>2, <2>3
  <2>4. CASE d # c
    BY <1>1, <1>5, <2>1, <2>2, <2>4, Zenon
  <2> QED
    BY <2>3, <2>4, Zenon
<1> QED
  BY <1>1, <1>5, <1>6, <1>7, <1>8, Zenon

\* An identifier of a cancellation belongs to no other command.
LEMMA CancelIdsApart ==
    ASSUME NEW r \in Calls, CancelId(IdOf[r])
    PROVE  KindOf[r] = "Cancel"
BY PipelineAssumption, Zenon DEF CancelId

\* The commit of a runtime command.
LEMMA RuntimeCommandStep ==
    ASSUME CInv, Taken, NEW r \in Calls, RuntimeCommand(r)
    PROVE  CInv'
<1> DEFINE c == IdOf[r]
<1>1. /\ KindOf[r] = "Runtime" /\ processed[c] = NoRow
      /\ applied' = Count(c, "Runtime") /\ save_processed_command(c, "Runtime")
      /\ head' = head + 1 /\ mls' = mls + 1
      /\ pc' = [at |-> "checkpoint", r |-> r, value |-> applied'[c]["Runtime"], rev |-> head']
      /\ UNCHANGED <<effect, operation, out>>
  BY Zenon DEF RuntimeCommand, load_processed_command, bump_projection_revision
<1>2. /\ engine = "up" /\ pc = Idle
      /\ UNCHANGED <<call, payload, registry, engine, tokens, outbox, anchor, restored, seen, dropped, faults>>
  BY Zenon DEF Taken
<1>3. c \in Ids /\ "Runtime" \in Kinds
  BY PipelineAssumption, Zenon DEF Kinds
<1>4. ~CancelId(c)
  BY <1>1, CancelIdsApart, Zenon
<1> HIDE DEF c
<1>5. /\ processed' \in [Ids -> [kind : Kinds \cup {"none"}, value : Nat]]
      /\ processed'[c] = [kind |-> "Runtime", value |-> applied'[c]["Runtime"]] /\ processed'[c] # NoRow
      /\ \A d \in Ids \ {c} : processed'[d] = processed[d]
      /\ RowsStay /\ Once' /\ applied' \in [Ids -> [Kinds -> Nat]]
  BY <1>1, <1>2, <1>3, SavedOnce, Zenon
<1>6. /\ head \in Nat /\ mls \in Nat /\ head' \in Nat /\ mls' \in Nat /\ anchor \in Nat
      /\ applied'[c]["Runtime"] \in Nat
  <2>1. head \in Nat /\ mls \in Nat /\ anchor \in Nat
    BY Zenon DEF CInv, Typed, TypeOK
  <2>2. head' \in Nat /\ mls' \in Nat
    BY <1>1, <2>1
  <2> QED
    BY <1>3, <1>5, <2>1, <2>2, Zenon
<1>7. /\ pc' \in Points /\ pc'.at = "checkpoint" /\ pc'.r = r /\ pc'.rev = head'
      /\ pc'.value = applied'[c]["Runtime"]
  BY <1>1, <1>6, Zenon DEF Points
<1>8. Stored(pc.r, pc.value)'
  BY <1>1, <1>5, <1>7, Zenon DEF Stored, c
<1>9. Answers' /\ Revisions' /\ AnnouncedHead'
  BY <1>1, <1>2, <1>5, <1>7, <1>8, Committed, Zenon
<1>10. Typed'
  <2>1. TypeOK'
    <3>1. {head', seen', mls', anchor', faults'} \subseteq Nat
      BY <1>2, <1>6, Zenon DEF CInv, Typed, TypeOK
    <3> QED
      BY <1>1, <1>2, <1>5, <1>7, <3>1, ZenonT(30) DEF CInv, Typed, TypeOK, Taken
  <2> QED
    BY <1>1, <1>2, <1>7, <2>1 DEF CInv, Typed, Taken
<1>11. Process'
  BY <1>1, <1>2, <1>7, Zenon DEF CInv, Process, Taken
<1>12. Rows'
  <2>1. processed'[c].kind = "Runtime"
    BY <1>5
  <2>2. operation[c] = "none"
    BY <1>3, <1>4, Zenon DEF CInv, Rows
  <2>3. effect # NoEffect => effect.id # c /\ effect.id \in Ids
    BY <1>4, Zenon DEF CInv, Rows, Typed, Effects
  <2>4. ASSUME NEW d \in Ids
        PROVE  /\ processed'[d].kind = "none" => processed'[d] = NoRow
               /\ IF CancelId(d) THEN processed'[d].kind \in {"none", "Cancel"}
                                 ELSE operation'[d] = "none" /\ processed'[d].kind # "Cancel"
    <3>1. CASE d = c
      BY <1>1, <1>4, <2>1, <2>2, <3>1, Zenon
    <3>2. CASE d # c
      BY <1>1, <1>5, <3>2 DEF CInv, Rows
    <3> QED
      BY <3>1, <3>2, Zenon
  <2>5. effect' # NoEffect =>
          /\ CancelId(effect'.id) /\ processed'[effect'.id] = NoRow
          /\ effect'.r \in Calls => IdOf[effect'.r] = effect'.id /\ KindOf[effect'.r] = "Cancel"
    BY <1>1, <1>5, <2>3, Zenon DEF CInv, Rows
  <2> QED
    BY <1>7, <2>4, <2>5, Zenon DEF Rows, CancelId
<1>13. Anchored'
  <2>1. /\ ~restored \/ engine \in {"up", "stopped"} => mls >= anchor
        /\ ~restored => engine # "refused"
    BY Zenon DEF CInv, Anchored
  <2>2. mls >= anchor => mls' >= anchor
    BY <1>1, <1>6
  <2> QED
    BY <1>2, <2>1, <2>2, Zenon DEF Anchored
<1>14. CancelledTogether'
  <2>1. processed'[c].kind = "Runtime" /\ operation[c] = "none"
    BY <1>3, <1>4, <1>5 DEF CInv, Rows
  <2> QED
    BY <1>1, <1>2, <1>5, <2>1, Zenon DEF CInv, CancelledTogether
<1> QED
  BY <1>2, <1>5, <1>9, <1>10, <1>11, <1>12, <1>13, <1>14, Frames, Zenon DEF CInv

\* A direct command writes first; its record is still to come.
LEMMA DirectCommandStep ==
    ASSUME CInv, Taken, NEW r \in Calls, DirectCommand(r)
    PROVE  CInv'
<1> DEFINE c == IdOf[r]
<1>1. /\ KindOf[r] = "Direct" /\ processed[c] = NoRow /\ applied' = Count(c, "Direct")
      /\ pc' = [at |-> "save", r |-> r, value |-> applied'[c]["Direct"], rev |-> 0]
      /\ UNCHANGED <<effect, operation, processed, out, head, mls>>
  BY Zenon DEF DirectCommand, load_processed_command
<1>2. /\ engine = "up" /\ pc = Idle
      /\ UNCHANGED <<call, payload, registry, engine, tokens, outbox, anchor, restored, seen, dropped, faults>>
  BY Zenon DEF Taken
<1>3. c \in Ids /\ {"Direct", "Runtime", "Cancel"} \subseteq Kinds
  BY PipelineAssumption, Zenon DEF Kinds
<1> HIDE DEF c
<1>4. /\ applied' \in [Ids -> [Kinds -> Nat]]
      /\ \A d \in Ids, l \in Kinds : <<d, l>> # <<c, "Direct">> => applied'[d][l] = applied[d][l]
  BY <1>1, <1>3, Counted, Zenon
<1>5. Once'
  <2>1. \A d \in Ids : applied'[d]["Runtime"] = applied[d]["Runtime"] /\ applied'[d]["Cancel"] = applied[d]["Cancel"]
    BY <1>3, <1>4, Zenon
  <2> QED
    BY <1>1, <1>2, <2>1, Zenon DEF CInv, Once
<1>6. pc' \in Points /\ pc'.at = "save" /\ pc'.r = r /\ pc'.rev = 0
  <2>1. applied'[c]["Direct"] \in Nat
    BY <1>3, <1>4, Zenon
  <2> QED
    BY <1>1, <2>1, Zenon DEF Points
<1>7. RowsStay
  BY <1>1, Zenon DEF RowsStay
<1>8. Answers' /\ Revisions' /\ AnnouncedHead'
  BY <1>1, <1>2, <1>6, <1>7, Committed, Zenon
<1>9. Typed'
  <2>1. TypeOK'
    BY <1>1, <1>2, <1>4, <1>6, ZenonT(30) DEF CInv, Typed, TypeOK, Taken
  <2> QED
    BY <1>1, <1>2, <1>6, <2>1 DEF CInv, Typed, Taken
<1>10. Process'
  BY <1>1, <1>2, <1>6, Zenon DEF CInv, Process, Taken
<1>11. Rows'
  BY <1>1, <1>6, Zenon DEF CInv, Rows, c
<1> QED
  BY <1>1, <1>2, <1>5, <1>8, <1>9, <1>10, <1>11, Frames, Zenon DEF CInv

\* Beginning or retrying an operation completes none and reopens none.
LEMMA OperationStep ==
    ASSUME CInv, NEW c \in Ids, begin_pairing(c) \/ retry_pairing(c)
    PROVE  /\ operation' \in [Ids -> OperationState]
           /\ \A d \in Ids : operation'[d] = "Completed" <=> operation[d] = "Completed"
           /\ \A d \in Ids \ {c} : operation'[d] = operation[d]
<1>1. operation \in [Ids -> OperationState]
  BY Zenon DEF CInv, Typed, TypeOK
<1>2. \/ operation' = [operation EXCEPT ![c] = IF operation[c] = "Completed" THEN operation[c] ELSE "Running"]
      \/ operation' = [operation EXCEPT ![c] = IF operation[c] = "Completed" THEN operation[c] ELSE "WaitingForRetry"]
  BY Zenon DEF begin_pairing, retry_pairing
<1> QED
  BY <1>1, <1>2, Zenon DEF OperationState

\* The same for the rows that go with it.
LEMMA OperationKeepsRows ==
    ASSUME CInv, NEW c \in Ids, CancelId(c), begin_pairing(c) \/ retry_pairing(c),
           UNCHANGED <<outbox, processed>>
    PROVE  /\ CancelledTogether'
           /\ \A d \in Ids : IF CancelId(d) THEN processed'[d].kind \in {"none", "Cancel"}
                                            ELSE operation'[d] = "none" /\ processed'[d].kind # "Cancel"
<1>1. /\ \A d \in Ids : operation'[d] = "Completed" <=> operation[d] = "Completed"
      /\ \A d \in Ids \ {c} : operation'[d] = operation[d]
  BY OperationStep, Zenon
<1>2. CancelledTogether'
  BY <1>1, Zenon DEF CInv, CancelledTogether
<1>3. \A d \in Ids : IF CancelId(d) THEN processed'[d].kind \in {"none", "Cancel"}
                                    ELSE operation'[d] = "none" /\ processed'[d].kind # "Cancel"
  BY <1>1 DEF CInv, Rows
<1> QED
  BY <1>2, <1>3, Zenon

\* A cancellation starts its effect or is refused.
LEMMA CancelCommandStep ==
    ASSUME CInv, Taken, NEW r \in Calls, CancelCommand(r)
    PROVE  CInv'
<1> DEFINE c == IdOf[r]
<1>1. /\ KindOf[r] = "Cancel" /\ processed[c] = NoRow
      /\ UNCHANGED <<pc, processed, applied, head, mls>>
      /\ \/ /\ effect = NoEffect /\ begin_pairing(c) /\ out' = out
            /\ effect' = [r |-> r, id |-> c, at |-> "running"]
         \/ Emit(failure(r)) /\ UNCHANGED <<operation, effect>>
  BY Zenon DEF CancelCommand, load_processed_command, ensure_relay_effect_available, defer_relay_effect
<1>2. CASE Emit(failure(r)) /\ UNCHANGED <<operation, effect>>
  BY <1>1, <1>2, FailureIsOutput, AnswerStep, Zenon
<1>3. CASE /\ effect = NoEffect /\ begin_pairing(c) /\ out' = out
           /\ effect' = [r |-> r, id |-> c, at |-> "running"]
  <2>1. /\ engine = "up" /\ pc = Idle
        /\ UNCHANGED <<call, payload, registry, engine, tokens, outbox, anchor, restored, seen, dropped, faults>>
    BY Zenon DEF Taken
  <2>2. c \in Ids /\ CancelId(c)
    BY <1>1, PipelineAssumption, Zenon DEF CancelId
  <2>3. effect' \in Effects /\ effect'.id = c /\ effect'.r = r
    BY <1>3, <2>2, Zenon DEF Effects
  <2>4. operation' \in [Ids -> OperationState]
    BY <1>3, <2>2, OperationStep, Zenon
  <2>5. /\ CancelledTogether'
        /\ \A d \in Ids : IF CancelId(d) THEN processed'[d].kind \in {"none", "Cancel"}
                                         ELSE operation'[d] = "none" /\ processed'[d].kind # "Cancel"
    BY <1>1, <1>3, <2>1, <2>2, OperationKeepsRows, Zenon
  <2>6. Typed'
    BY <1>1, <1>3, <2>1, <2>2, <2>3, <2>4, ZenonT(30) DEF CInv, Typed, TypeOK, Taken
  <2>7. Process'
    <3>1. effect.at # "returned"
      BY <1>3, Zenon DEF NoEffect
    <3>2. \A i \in DOMAIN inbox' : inbox'[i].kind # "outcome"
      BY <3>1, Zenon DEF Taken
    <3> QED
      BY <1>1, <1>3, <2>1, <3>2, Zenon DEF CInv, Process
  <2>8. Rows'
    <3>1. \A d \in Ids : processed'[d].kind = "none" => processed'[d] = NoRow
      BY <1>1, Zenon DEF CInv, Rows
    <3>2. effect' # NoEffect =>
            /\ CancelId(effect'.id) /\ processed'[effect'.id] = NoRow
            /\ effect'.r \in Calls => IdOf[effect'.r] = effect'.id /\ KindOf[effect'.r] = "Cancel"
      BY <1>1, <2>2, <2>3, Zenon
    <3>3. pc'.at # "save"
      BY <1>1, <2>1, Zenon DEF Idle
    <3> QED
      BY <2>5, <3>1, <3>2, <3>3, Zenon DEF Rows, CancelId
  <2> QED
    BY <1>1, <1>3, <2>1, <2>5, <2>6, <2>7, <2>8, Frames, Zenon DEF CInv
<1> QED
  BY <1>1, <1>2, <1>3, Zenon

\* Every command keeps the invariant.
LEMMA CommandStep == CInv /\ process_command_input => CInv'
BY CommandTaken, ReplayStep, RefusedStep, RuntimeCommandStep, DirectCommandStep, CancelCommandStep, Zenon

-----------------------------------------------------------------------------
(* The second step of a command                                            *)

\* The actor publishes what it has committed, with or without an error after it.
LEMMA PublishStep ==
    ASSUME CInv, record_checkpoint \/ CheckpointFails \/ FallbackFails \/ PublishOutcome
    PROVE  CInv'
<1>1. /\ engine = "up" /\ pc' = Idle
      /\ UNCHANGED <<call, payload, registry, inbox, effect, tokens, engine, outbox, operation, processed, applied, head,
                     mls, restored, seen>>
  BY Zenon DEF record_checkpoint, CheckpointFails, FallbackFails, PublishOutcome, client, durable, guard, view
<1>2. pc \in Points /\ faults \in Nat /\ mls \in Nat /\ anchor \in Nat
  BY Zenon DEF CInv, Typed, TypeOK
<1>3. pc.r \in Calls \cup {NoCall} /\ pc.value \in Nat /\ pc.rev \in Nat
  BY <1>2, Zenon DEF Points
<1>4. PICK e \in Outputs :
        /\ Emit(e) /\ (e.rev = 0 \/ e.rev = pc.rev)
        /\ ~restored /\ e.result = "ok" => Stored(e.r, e.value)'
        /\ dropped' = TRUE \/ (dropped' = dropped /\ e.rev = pc.rev)
  <2>1. CASE record_checkpoint \/ PublishOutcome
    <3> DEFINE e == events(pc.rev, pc.r, "ok", pc.value)
    <3>1. Emit(e) /\ pc.at \in {"checkpoint", "publish"} /\ dropped' = dropped
      BY <2>1, Zenon DEF record_checkpoint, PublishOutcome, view
    <3>2. e \in Outputs /\ e.rev = pc.rev /\ e.r = pc.r /\ e.value = pc.value
      BY <1>3, Zenon DEF events, Outputs, Results
    <3> HIDE DEF e
    <3>3. ~restored => Stored(e.r, e.value)
      BY <3>1, <3>2, Zenon DEF CInv, Answers
    <3>4. Stored(e.r, e.value) => (e.r \in Calls => (KindOf[e.r] # "Direct" => processed'[IdOf[e.r]] = [kind |-> KindOf[e.r], value |-> e.value]))
      BY <1>1, Zenon DEF Stored
    <3> QED
      BY <3>1, <3>2, <3>3, <3>4, Zenon DEF Stored
  <2>2. CASE CheckpointFails \/ FallbackFails
    <3> DEFINE e == failure(pc.r)
    <3>1. Emit(e)
      BY <2>2, Zenon DEF CheckpointFails, FallbackFails
    <3>2. e \in Outputs /\ e.rev = 0 /\ e.result = "error"
      BY <1>3, FailureIsOutput, Zenon
    <3> HIDE DEF e
    <3>3. dropped' = TRUE \/ (dropped' = dropped /\ pc.rev = 0)
      BY <2>2, Zenon DEF CheckpointFails, FallbackFails, view, CInv, Rows
    <3> QED
      BY <3>1, <3>2, <3>3, Zenon
  <2> QED
    BY <2>1, <2>2, Zenon
<1>5. RowsStay
  BY <1>1, Zenon DEF RowsStay
<1>6. /\ out' \in Seq(Outputs) /\ Len(out') <= OUT
      /\ Answers' /\ Revisions' /\ AnnouncedHead'
  BY <1>1, <1>4, <1>5, Published, Zenon
<1>7. anchor' \in {anchor, mls} /\ faults' \in {faults, faults + 1} /\ dropped' \in {dropped, TRUE}
  BY Zenon DEF record_checkpoint, CheckpointFails, FallbackFails, PublishOutcome, guard, view
<1>8. Idle \in Points /\ Idle.at = "idle"
  BY Zenon DEF Points, Idle
<1>9. anchor' \in Nat /\ faults' \in Nat /\ dropped' \in BOOLEAN /\ mls >= anchor'
  <2>1. mls >= anchor
    BY <1>1, Zenon DEF CInv, Anchored
  <2>2. dropped \in BOOLEAN
    BY Zenon DEF CInv, Typed, TypeOK
  <2>3. dropped' \in BOOLEAN
    BY <1>7, <2>2, Zenon
  <2>4. anchor' \in Nat /\ faults' \in Nat /\ mls >= anchor'
    BY <1>2, <1>7, <2>1
  <2> QED
    BY <2>3, <2>4, Zenon
<1>10. Typed'
  BY <1>1, <1>6, <1>8, <1>9, Zenon DEF CInv, Typed, TypeOK
<1>11. Process'
  BY <1>1, Zenon DEF CInv, Process
<1>12. Rows'
  BY <1>1, <1>8, Zenon DEF CInv, Rows
<1>13. Anchored'
  BY <1>1, <1>9, Zenon DEF CInv, Anchored
<1> QED
  BY <1>1, <1>6, <1>10, <1>11, <1>12, <1>13, Frames, Zenon DEF CInv

\* The fallback stores the first record of its identifier.
LEMMA FallbackRecordStep ==
    ASSUME CInv, FallbackRecord
    PROVE  CInv'
<1> DEFINE c == IdOf[pc.r]
           row == [kind |-> "Direct", value |-> pc.value]
<1>1. /\ engine = "up" /\ pc.at = "save" /\ Emit(events(pc.rev, pc.r, "ok", pc.value)) /\ pc' = Idle
      /\ processed' = [processed EXCEPT ![c] = row]
      /\ UNCHANGED <<call, payload, registry, inbox, effect, tokens, engine, outbox, operation, applied, head, mls,
                     anchor, restored, seen, dropped, faults>>
  BY Zenon DEF FallbackRecord, client, guard, view
<1>2. pc \in Points /\ processed \in [Ids -> [kind : Kinds \cup {"none"}, value : Nat]]
  BY Zenon DEF CInv, Typed, TypeOK
<1>3. /\ pc.r \in Calls /\ KindOf[pc.r] = "Direct" /\ processed[c] = NoRow
      /\ c \in Ids /\ pc.value \in Nat /\ pc.rev \in Nat
  BY <1>1, <1>2, PipelineAssumption, Zenon DEF CInv, Rows, Points
<1>4. PICK e \in Outputs : Emit(e) /\ e.rev = pc.rev /\ e.r = pc.r
  <2>1. /\ events(pc.rev, pc.r, "ok", pc.value) \in Outputs
        /\ events(pc.rev, pc.r, "ok", pc.value).rev = pc.rev /\ events(pc.rev, pc.r, "ok", pc.value).r = pc.r
    BY <1>3, Zenon DEF events, Outputs, Results
  <2> QED
    BY <1>1, <2>1, Zenon
<1>5. row \in [kind : Kinds \cup {"none"}, value : Nat] /\ row.kind = "Direct" /\ row # NoRow
  BY <1>3, Zenon DEF Kinds, NoRow
<1>6. ~CancelId(c)
  BY <1>3, CancelIdsApart, Zenon
<1>7. e.result = "ok" => Stored(e.r, e.value)'
  BY <1>3, <1>4, Zenon DEF Stored
<1> HIDE DEF c, row
<1>8. /\ processed' \in [Ids -> [kind : Kinds \cup {"none"}, value : Nat]]
      /\ processed'[c] = row /\ \A d \in Ids \ {c} : processed'[d] = processed[d]
  BY <1>1, <1>2, <1>3, <1>5, Zenon
<1>9. RowsStay
  BY <1>3, <1>8, Zenon DEF RowsStay
<1>10. /\ out' \in Seq(Outputs) /\ Len(out') <= OUT
       /\ Answers' /\ Revisions' /\ AnnouncedHead'
  BY <1>1, <1>4, <1>7, <1>9, Published, Zenon
<1>11. Idle \in Points /\ Idle.at = "idle"
  BY Zenon DEF Points, Idle
<1>12. Typed'
  BY <1>1, <1>8, <1>10, <1>11, Zenon DEF CInv, Typed, TypeOK
<1>13. Process'
  BY <1>1, Zenon DEF CInv, Process
<1>14. operation[c] = "none" /\ (effect # NoEffect => effect.id # c /\ effect.id \in Ids)
  BY <1>3, <1>6, Zenon DEF CInv, Rows, Typed, Effects
<1>15. Rows'
  <2>1. ASSUME NEW d \in Ids
        PROVE  /\ processed'[d].kind = "none" => processed'[d] = NoRow
               /\ IF CancelId(d) THEN processed'[d].kind \in {"none", "Cancel"}
                                 ELSE operation'[d] = "none" /\ processed'[d].kind # "Cancel"
    <3>1. CASE d = c
      BY <1>1, <1>5, <1>6, <1>8, <1>14, <3>1, Zenon
    <3>2. CASE d # c
      BY <1>1, <1>8, <3>2, Zenon DEF CInv, Rows
    <3> QED
      BY <3>1, <3>2, Zenon
  <2>2. effect' # NoEffect =>
          /\ CancelId(effect'.id) /\ processed'[effect'.id] = NoRow
          /\ effect'.r \in Calls => IdOf[effect'.r] = effect'.id /\ KindOf[effect'.r] = "Cancel"
    BY <1>1, <1>8, <1>14, Zenon DEF CInv, Rows
  <2> QED
    BY <1>1, <1>11, <2>1, <2>2, Zenon DEF Rows, CancelId
<1>16. Once'
  <2>1. \A d \in Ids : processed'[d] = NoRow => processed[d] = NoRow
    BY <1>5, <1>8, ZenonT(30)
  <2> QED
    BY <1>1, <2>1, Zenon DEF CInv, Once
<1>17. CancelledTogether'
  BY <1>1, <1>5, <1>8, <1>14 DEF CInv, CancelledTogether
<1> QED
  BY <1>1, <1>10, <1>12, <1>13, <1>15, <1>16, <1>17, Frames, Zenon DEF CInv

-----------------------------------------------------------------------------
(* Relay effects                                                           *)

\* What the actor knows of the effect whose outcome it takes.
LEMMA OutcomeTaken ==
    ASSUME CInv, process_relay_effect_outcome
    PROVE  /\ engine = "up" /\ pc = Idle /\ Head(inbox).r \in {"ok", "error", "panic"}
           /\ effect \in Effects /\ effect.id \in Ids /\ effect.r \in Calls \cup {NoCall}
           /\ CancelId(effect.id) /\ processed[effect.id] = NoRow
           /\ effect.r \in Calls => IdOf[effect.r] = effect.id /\ KindOf[effect.r] = "Cancel"
           /\ inbox' \in Seq(Inputs) /\ Len(inbox') <= INBOX
           /\ \A i \in DOMAIN inbox' : inbox'[i].kind # "outcome"
           /\ effect' = NoEffect
           /\ UNCHANGED <<call, payload, registry, engine, tokens, mls, anchor, restored, seen, dropped, faults>>
<1>1. /\ Takes("outcome") /\ effect' = NoEffect
      /\ UNCHANGED <<call, payload, registry, engine, tokens, mls, anchor, restored, seen, dropped, faults>>
  BY Zenon DEF process_relay_effect_outcome, client, guard, view
<1>2. /\ engine = "up" /\ pc = Idle /\ Head(inbox) \in Inputs /\ Head(inbox).kind = "outcome"
      /\ inbox' \in Seq(Inputs) /\ Len(inbox') <= INBOX
      /\ effect.at = "returned"
      /\ \A i \in DOMAIN inbox' : inbox'[i].kind # "outcome"
  BY <1>1, InboxTaken, Zenon DEF CInv
<1>3. effect \in Effects /\ effect # NoEffect
  BY <1>2 DEF CInv, Typed, NoEffect
<1>4. effect.id \in Ids /\ effect.r \in Calls \cup {NoCall}
  BY <1>3, Zenon DEF Effects
<1>5. Head(inbox).r \in {"ok", "error", "panic"}
  BY <1>2, InputKinds, Zenon
<1> QED
  BY <1>1, <1>2, <1>3, <1>4, <1>5, Zenon DEF CInv, Rows

\* An outcome that cancels nothing.
LEMMA OutcomeRefusedStep ==
    ASSUME CInv, process_relay_effect_outcome, Emit(failure(effect.r)),
           UNCHANGED <<pc, outbox, processed, applied, head>>,
           operation' = operation \/ retry_pairing(effect.id)
    PROVE  CInv'
<1>1. /\ engine = "up" /\ pc = Idle
      /\ effect.id \in Ids /\ effect.r \in Calls \cup {NoCall} /\ CancelId(effect.id)
      /\ inbox' \in Seq(Inputs) /\ Len(inbox') <= INBOX
      /\ \A i \in DOMAIN inbox' : inbox'[i].kind # "outcome"
      /\ effect' = NoEffect
      /\ UNCHANGED <<call, payload, registry, engine, tokens, mls, anchor, restored, seen, dropped, faults>>
  BY OutcomeTaken, Zenon
<1>2. PICK e \in Outputs : Emit(e) /\ e.rev = 0 /\ e.result = "error"
  BY <1>1, FailureIsOutput, Zenon
<1>3. RowsStay
  BY Zenon DEF RowsStay
<1>4. /\ out' \in Seq(Outputs) /\ Len(out') <= OUT
      /\ Answers' /\ Revisions' /\ AnnouncedHead'
  BY <1>1, <1>2, <1>3, Published, Zenon
<1>5. operation' \in [Ids -> OperationState]
  BY <1>1, OperationStep, Zenon DEF CInv, Typed, TypeOK
<1>6. /\ CancelledTogether'
      /\ \A d \in Ids : IF CancelId(d) THEN processed'[d].kind \in {"none", "Cancel"}
                                       ELSE operation'[d] = "none" /\ processed'[d].kind # "Cancel"
  <2>1. CASE operation' = operation
    BY <2>1, Frames, Zenon DEF CInv, Rows
  <2>2. CASE retry_pairing(effect.id)
    BY <1>1, <2>2, OperationKeepsRows, Zenon
  <2> QED
    BY <2>1, <2>2, Zenon
<1>7. Typed'
  BY <1>1, <1>4, <1>5, Zenon DEF CInv, Typed, TypeOK
<1>8. Process'
  BY <1>1, Zenon DEF CInv, Process
<1>9. Rows'
  BY <1>1, <1>6, Zenon DEF CInv, Rows, CancelId, Idle
<1> QED
  BY <1>1, <1>4, <1>6, <1>7, <1>8, <1>9, Frames, Zenon DEF CInv

\* The commit of a cancellation.
LEMMA OutcomeCommitStep ==
    ASSUME CInv, process_relay_effect_outcome, commit_pairing_cancelled_outcome, outbox # "Answered"
    PROVE  CInv'
<1> DEFINE c == effect.id
<1>1. /\ engine = "up" /\ pc = Idle
      /\ c \in Ids /\ effect.r \in Calls \cup {NoCall} /\ CancelId(c) /\ processed[c] = NoRow
      /\ effect.r \in Calls => IdOf[effect.r] = c /\ KindOf[effect.r] = "Cancel"
      /\ inbox' \in Seq(Inputs) /\ Len(inbox') <= INBOX
      /\ \A i \in DOMAIN inbox' : inbox'[i].kind # "outcome"
      /\ effect' = NoEffect
      /\ UNCHANGED <<call, payload, registry, engine, tokens, mls, anchor, restored, seen, dropped, faults>>
  BY OutcomeTaken, Zenon
<1>2. /\ outbox' = "Cancelled" /\ operation' = [operation EXCEPT ![c] = "Completed"]
      /\ applied' = Count(c, "Cancel") /\ save_processed_command(c, "Cancel") /\ out' = out
      /\ head' = IF outbox = "Cancelled" THEN head ELSE head + 1
      /\ pc' = [at |-> "publish", r |-> effect.r, value |-> applied'[c]["Cancel"],
                rev |-> IF outbox = "Cancelled" THEN 0 ELSE head']
  BY Zenon DEF commit_pairing_cancelled_outcome, complete_pairing, bump_projection_revision
<1> HIDE DEF c
<1>3. /\ processed' \in [Ids -> [kind : Kinds \cup {"none"}, value : Nat]]
      /\ processed'[c] = [kind |-> "Cancel", value |-> applied'[c]["Cancel"]] /\ processed'[c] # NoRow
      /\ \A d \in Ids \ {c} : processed'[d] = processed[d]
      /\ RowsStay /\ Once' /\ applied' \in [Ids -> [Kinds -> Nat]]
  BY <1>1, <1>2, SavedOnce, Zenon
<1>4. head \in Nat /\ head' \in Nat /\ "Cancel" \in Kinds /\ applied'[c]["Cancel"] \in Nat
  <2>1. head \in Nat /\ "Cancel" \in Kinds
    BY Zenon DEF CInv, Typed, TypeOK, Kinds
  <2>2. head' \in Nat
    BY <1>2, <2>1
  <2> QED
    BY <1>1, <1>3, <2>1, <2>2, Zenon
<1>5. /\ pc' \in Points /\ pc'.at = "publish" /\ pc'.r = effect.r /\ pc'.value = applied'[c]["Cancel"]
      /\ pc'.rev = IF outbox = "Cancelled" THEN 0 ELSE head'
  BY <1>1, <1>2, <1>4, Zenon DEF Points
<1>6. Stored(pc.r, pc.value)'
  <2>1. pc'.r \in Calls => (KindOf[pc'.r] # "Direct" => processed'[IdOf[pc'.r]] = [kind |-> KindOf[pc'.r], value |-> pc'.value])
    BY <1>1, <1>3, <1>5, Zenon
  <2> QED
    BY <2>1, Zenon DEF Stored
<1>7. Answers' /\ Revisions' /\ AnnouncedHead'
  <2>1. \/ head' = head /\ pc'.rev = 0
        \/ head' = head + 1 /\ pc'.rev = head'
    BY <1>2, <1>5, Zenon
  <2> QED
    BY <1>1, <1>2, <1>3, <1>5, <1>6, <2>1, Committed, Zenon
<1>8. /\ operation' \in [Ids -> OperationState] /\ operation'[c] = "Completed"
      /\ \A d \in Ids \ {c} : operation'[d] = operation[d]
  BY <1>1, <1>2, Zenon DEF CInv, Typed, TypeOK, OperationState
<1>9. Typed'
  BY <1>1, <1>2, <1>3, <1>4, <1>5, <1>8, Zenon DEF CInv, Typed, TypeOK
<1>10. Process'
  BY <1>1, <1>5, Zenon DEF CInv, Process
<1>11. processed'[c].kind = "Cancel"
  BY <1>3
<1>12. Rows'
  <2>1. ASSUME NEW d \in Ids
        PROVE  /\ processed'[d].kind = "none" => processed'[d] = NoRow
               /\ IF CancelId(d) THEN processed'[d].kind \in {"none", "Cancel"}
                                 ELSE operation'[d] = "none" /\ processed'[d].kind # "Cancel"
    <3>1. CASE d = c
      BY <1>1, <1>11, <3>1, Zenon
    <3>2. CASE d # c
      BY <1>3, <1>8, <3>2 DEF CInv, Rows
    <3> QED
      BY <3>1, <3>2, Zenon
  <2> QED
    BY <1>1, <1>5, <2>1, Zenon DEF Rows, CancelId
<1>13. CancelledTogether'
  <2>1. \A d \in Ids : operation'[d] = "Completed" <=> processed'[d].kind = "Cancel"
    <3> TAKE d \in Ids
    <3>1. CASE d = c
      BY <1>8, <1>11, <3>1, Zenon
    <3>2. CASE d # c
      BY <1>3, <1>8, <3>2, Zenon DEF CInv, CancelledTogether
    <3> QED
      BY <3>1, <3>2, Zenon
  <2> QED
    BY <1>1, <1>2, <1>8, <2>1, Zenon DEF CancelledTogether
<1> QED
  BY <1>1, <1>3, <1>7, <1>9, <1>10, <1>12, <1>13, Frames, Zenon DEF CInv

\* Every outcome keeps the invariant.
LEMMA OutcomeStep ==
    ASSUME CInv, process_relay_effect_outcome
    PROVE  CInv'
<1>1. Head(inbox).r \in {"ok", "error", "panic"}
  BY OutcomeTaken, Zenon
<1>2. CASE Head(inbox).r = "ok"
  <2>1. commit_pairing_cancelled_outcome
    BY <1>2, Zenon DEF process_relay_effect_outcome
  <2>2. CASE outbox = "Answered"
    <3>1. Emit(failure(effect.r)) /\ UNCHANGED <<pc, outbox, operation, processed, applied, head>>
      BY <2>1, <2>2, Zenon DEF commit_pairing_cancelled_outcome
    <3> QED
      BY <3>1, OutcomeRefusedStep, Zenon
  <2> QED
    BY <2>1, <2>2, OutcomeCommitStep, Zenon
<1>3. CASE Head(inbox).r = "error"
  <2>1. /\ retry_pairing(effect.id) /\ Emit(failure(effect.r)) /\ UNCHANGED <<pc, outbox, processed, applied, head>>
    BY <1>3, Zenon DEF process_relay_effect_outcome
  <2> QED
    BY <2>1, OutcomeRefusedStep, Zenon
<1>4. CASE Head(inbox).r = "panic"
  <2>1. Emit(failure(effect.r)) /\ UNCHANGED <<pc, outbox, operation, processed, applied, head>>
    BY <1>4, Zenon DEF process_relay_effect_outcome
  <2> QED
    BY <2>1, OutcomeRefusedStep, Zenon
<1> QED
  BY <1>1, <1>2, <1>3, <1>4, Zenon

\* A resumed operation starts its effect again, or waits.
LEMMA ResumeStep ==
    ASSUME CInv, NEW c \in Ids, resume_due_durable_operation(c)
    PROVE  CInv'
<1>1. /\ engine = "up" /\ pc.at = "idle" /\ effect = NoEffect /\ operation[c] \in {"Running", "WaitingForRetry"}
      /\ \/ begin_pairing(c) /\ effect' = [r |-> NoCall, id |-> c, at |-> "running"]
         \/ retry_pairing(c) /\ effect' = effect
      /\ UNCHANGED <<call, payload, registry, inbox, pc, out, tokens, engine, outbox, processed, applied, head, mls,
                     anchor, restored, seen, dropped, faults>>
  BY Zenon DEF resume_due_durable_operation, ensure_relay_effect_available, pending_operations, defer_relay_effect,
         client, guard, view
<1>2. CancelId(c) /\ processed[c] = NoRow
  <2>1. CancelId(c) /\ processed[c].kind \in {"none", "Cancel"}
    BY <1>1, Zenon DEF CInv, Rows
  <2>2. processed[c].kind # "Cancel"
    BY <1>1, Zenon DEF CInv, CancelledTogether
  <2> QED
    BY <2>1, <2>2, Zenon DEF CInv, Rows
<1>3. operation' \in [Ids -> OperationState]
  BY <1>1, OperationStep, Zenon
<1>4. /\ CancelledTogether'
      /\ \A d \in Ids : IF CancelId(d) THEN processed'[d].kind \in {"none", "Cancel"}
                                       ELSE operation'[d] = "none" /\ processed'[d].kind # "Cancel"
  BY <1>1, <1>2, OperationKeepsRows, Zenon
<1>5. effect' = NoEffect \/ (effect' \in Effects /\ effect'.id = c /\ effect'.r = NoCall)
  BY <1>1 DEF Effects
<1>6. Typed'
  BY <1>1, <1>3, <1>5, Zenon DEF CInv, Typed, TypeOK
<1>7. Process'
  <2>1. \A i \in DOMAIN inbox : inbox[i].kind # "outcome"
    BY <1>1, Zenon DEF CInv, Process, NoEffect
  <2> QED
    BY <1>1, <2>1, Zenon DEF CInv, Process
<1>8. Rows'
  <2>1. \A d \in Ids : processed'[d].kind = "none" => processed'[d] = NoRow
    BY <1>1, Zenon DEF CInv, Rows
  <2>2. effect' # NoEffect =>
          /\ CancelId(effect'.id) /\ processed'[effect'.id] = NoRow
          /\ effect'.r \in Calls => IdOf[effect'.r] = effect'.id /\ KindOf[effect'.r] = "Cancel"
    BY <1>1, <1>2, <1>5, PipelineAssumption, Zenon
  <2>3. pc'.at # "save"
    BY <1>1, Zenon
  <2> QED
    BY <1>4, <2>1, <2>2, <2>3, Zenon DEF Rows, CancelId
<1> QED
  BY <1>1, <1>4, <1>6, <1>7, <1>8, Frames, Zenon DEF CInv

\* A pairing that is answered was not cancelled.
LEMMA PairingAnsweredStep ==
    ASSUME CInv, PairingAnswered
    PROVE  CInv'
<1>1. /\ outbox = "Pending" /\ outbox' = "Answered"
      /\ UNCHANGED <<call, payload, registry, inbox, pc, out, effect, tokens, engine, operation, processed, applied,
                     head, mls, anchor, restored, seen, dropped, faults>>
  BY Zenon DEF PairingAnswered, client, volatile, guard, view
<1>2. Typed'
  BY <1>1, Zenon DEF CInv, Typed, TypeOK
<1>3. CancelledTogether'
  BY <1>1, Zenon DEF CInv, CancelledTogether
<1> QED
  BY <1>1, <1>2, <1>3, Frames, Zenon DEF CInv

-----------------------------------------------------------------------------
(* The event router                                                        *)

\* An answer changes the callers that still wait, and takes their entries out.
LEMMA AnswerKeeps ==
    ASSUME CInv, NEW rs, NEW result \in Results, NEW value \in Nat, Answer(rs, result, value)
    PROVE  /\ call' \in [Calls -> CallState] /\ payload' \in [Calls -> Nat] /\ registry' \subseteq Calls
           /\ RegistryBehind'
           /\ \A r \in Calls : call'[r] = "ok" => \/ call[r] = "ok" /\ payload'[r] = payload[r]
                                                  \/ r \in rs /\ result = "ok" /\ payload'[r] = value
<1> DEFINE told == {r \in rs \cap registry : call[r] = "waiting"}
<1>1. /\ registry' = registry \ rs
      /\ call' = [r \in Calls |-> IF r \in told THEN result ELSE call[r]]
      /\ payload' = [r \in Calls |-> IF r \in told THEN value ELSE payload[r]]
  BY Zenon DEF Answer
<1>2. /\ call \in [Calls -> CallState] /\ payload \in [Calls -> Nat] /\ registry \subseteq Calls
  BY Zenon DEF CInv, Typed, TypeOK
<1>3. told \subseteq rs
  OBVIOUS
<1> HIDE DEF told
<1>4. Results \subseteq CallState
  BY Zenon DEF Results, CallState
<1>5. call' \in [Calls -> CallState] /\ payload' \in [Calls -> Nat]
  BY <1>1, <1>2, <1>4, Zenon
<1>6. RegistryBehind'
  BY <1>1, <1>2, <1>3, Zenon DEF CInv, RegistryBehind
<1>7. \A r \in Calls : call'[r] = "ok" => \/ call[r] = "ok" /\ payload'[r] = payload[r]
                                          \/ r \in rs /\ result = "ok" /\ payload'[r] = value
  BY <1>1, <1>2, <1>3, Zenon
<1> QED
  BY <1>1, <1>2, <1>5, <1>6, <1>7, Zenon

\* The router takes the first entry: its revision is the next one to announce.
LEMMA RouteEventStep ==
    ASSUME CInv, RouteEvent
    PROVE  CInv'
<1> DEFINE n == Len(out)
<1>1. /\ engine \in {"up", "stopped"} /\ out # <<>> /\ out' = Tail(out)
      /\ Answer({Head(out).r}, Head(out).result, Head(out).value)
      /\ seen' = IF Head(out).rev = 0 THEN seen ELSE Head(out).rev
      /\ UNCHANGED <<inbox, pc, effect, tokens, engine, outbox, operation, processed, applied, head, mls, anchor,
                     restored, dropped, faults>>
  BY Zenon DEF RouteEvent, durable, guard
<1>2. out \in Seq(Outputs) /\ pc \in Points /\ seen \in Nat /\ head \in Nat /\ OUT \in Nat /\ n <= OUT
  BY PipelineAssumption, Zenon DEF CInv, Typed, TypeOK
<1>3. /\ out' \in Seq(Outputs) /\ n \in Nat \ {0} /\ Len(out') = n - 1
      /\ DOMAIN out = 1..n /\ DOMAIN out' = 1..(n - 1)
      /\ \A i \in 1..(n - 1) : out'[i] = out[i + 1]
      /\ Head(out) = out[1] /\ \A i \in 1..n : out[i] \in Outputs
  BY <1>1, <1>2, TailPositions, Zenon
<1>4. \A i \in 1..n : out[i].rev \in Nat /\ out[i].result \in Results /\ out[i].value \in Nat
  BY <1>3, Zenon DEF Outputs
<1> HIDE DEF n
<1>5. 1 \in 1..n /\ \A i \in 1..(n - 1) : i + 1 \in 1..n /\ 1 < i + 1
  BY <1>3
<1>6. /\ call' \in [Calls -> CallState] /\ payload' \in [Calls -> Nat] /\ registry' \subseteq Calls
      /\ RegistryBehind'
      /\ \A r \in Calls : call'[r] = "ok" => \/ call[r] = "ok" /\ payload'[r] = payload[r]
                                             \/ r = out[1].r /\ out[1].result = "ok" /\ payload'[r] = out[1].value
  <2>1. PICK e \in Outputs : e = out[1] /\ e.result \in Results /\ e.value \in Nat
    BY <1>3, <1>4, <1>5, Zenon
  <2> DEFINE rs == {e.r}
  <2>2. Answer(rs, e.result, e.value)
    BY <1>1, <1>3, <2>1, Zenon
  <2> HIDE DEF rs
  <2>3. /\ call' \in [Calls -> CallState] /\ payload' \in [Calls -> Nat] /\ registry' \subseteq Calls
        /\ RegistryBehind'
        /\ \A r \in Calls : call'[r] = "ok" => \/ call[r] = "ok" /\ payload'[r] = payload[r]
                                               \/ r \in rs /\ e.result = "ok" /\ payload'[r] = e.value
    BY <2>1, <2>2, AnswerKeeps
  <2> QED
    BY <2>1, <2>3, Zenon DEF rs
<1>7. seen' \in Nat /\ Len(out') <= OUT
  BY <1>1, <1>2, <1>3, <1>4, <1>5
<1>8. Typed'
  BY <1>1, <1>3, <1>6, <1>7 DEF CInv, Typed, TypeOK
<1>9. Process'
  BY <1>1, Zenon DEF CInv, Process
<1>10. Answers'
  <2> SUFFICES ASSUME ~restored
               PROVE  /\ \A r \in Calls : call'[r] = "ok" => Stored(r, payload'[r])
                      /\ \A i \in DOMAIN out' : out'[i].result = "ok" => Stored(out'[i].r, out'[i].value)
                      /\ pc.at \in {"checkpoint", "publish"} => Stored(pc.r, pc.value)
    BY <1>1, Zenon DEF Answers, Stored
  <2>1. /\ \A r \in Calls : call[r] = "ok" => Stored(r, payload[r])
        /\ \A i \in 1..n : out[i].result = "ok" => Stored(out[i].r, out[i].value)
        /\ pc.at \in {"checkpoint", "publish"} => Stored(pc.r, pc.value)
    BY <1>3, Zenon DEF CInv, Answers
  <2>2. \A r \in Calls : call'[r] = "ok" => Stored(r, payload'[r])
    BY <1>5, <1>6, <2>1, Zenon
  <2>3. \A i \in DOMAIN out' : out'[i].result = "ok" => Stored(out'[i].r, out'[i].value)
    BY <1>3, <1>5, <2>1, Zenon
  <2> QED
    BY <2>1, <2>2, <2>3, Zenon
<1>11. /\ seen <= head
       /\ \A i \in 1..n : out[i].rev # 0 =>
            /\ seen < out[i].rev /\ out[i].rev <= head
            /\ \A j \in 1..n : j < i => out[j].rev < out[i].rev
       /\ pc.rev # 0 => pc.rev = head /\ seen < head /\ \A i \in 1..n : out[i].rev < head
  BY <1>1, <1>3, Zenon DEF CInv, Revisions
<1>12. seen' = IF out[1].rev = 0 THEN seen ELSE out[1].rev
  BY <1>1, <1>3, Zenon
<1>13. seen' <= head /\ (pc.rev # 0 => seen' < head)
  BY <1>5, <1>11, <1>12, Zenon
<1>14. Revisions'
  <2>1. ASSUME NEW i \in 1..(n - 1), out'[i].rev # 0
        PROVE  /\ seen' < out'[i].rev /\ out'[i].rev <= head
               /\ \A j \in 1..(n - 1) : j < i => out'[j].rev < out'[i].rev
    <3>1. i + 1 \in 1..n /\ 1 < i + 1 /\ out'[i] = out[i + 1] /\ out[i + 1].rev # 0
      BY <1>3, <1>5, <2>1, Zenon
    <3>2. /\ seen < out[i + 1].rev /\ out[i + 1].rev <= head
          /\ \A j \in 1..n : j < i + 1 => out[j].rev < out[i + 1].rev
      BY <1>11, <3>1, Zenon
    <3>3. seen' < out[i + 1].rev
      BY <1>5, <1>12, <3>1, <3>2, Zenon
    <3>4. ASSUME NEW j \in 1..(n - 1), j < i PROVE out'[j].rev < out[i + 1].rev
      <4>1. j + 1 \in 1..n /\ j + 1 < i + 1
        BY <1>3, <3>4
      <4>2. out'[j] = out[j + 1]
        BY <1>3, Zenon
      <4> QED
        BY <3>2, <4>1, <4>2, Zenon
    <3> QED
      BY <3>1, <3>2, <3>3, <3>4, Zenon
  <2>2. pc.rev # 0 => pc.rev = head /\ \A i \in 1..(n - 1) : out'[i].rev < head
    BY <1>3, <1>5, <1>11, Zenon
  <2> QED
    BY <1>1, <1>3, <1>13, <2>1, <2>2, Zenon DEF Revisions
<1>15. AnnouncedHead'
  <2> SUFFICES ASSUME engine = "up"
               PROVE  \/ seen' = head \/ dropped
                      \/ pc.rev = head \/ \E i \in 1..(n - 1) : out'[i].rev = head
    BY <1>1, <1>3, <1>13, Zenon DEF AnnouncedHead
  <2>1. \/ seen = head \/ dropped
        \/ pc.rev = head \/ \E i \in 1..n : out[i].rev = head
    BY <1>3, Zenon DEF CInv, AnnouncedHead
  <2>2. CASE seen = head
    <3>1. out[1].rev = 0
      BY <1>2, <1>4, <1>5, <1>11, <2>2
    <3> QED
      BY <1>12, <2>2, <3>1, Zenon
  <2>3. ASSUME NEW i \in 1..n, out[i].rev = head
        PROVE  seen' = head \/ \E j \in 1..(n - 1) : out'[j].rev = head
    <3>1. CASE i = 1
      BY <1>2, <1>11, <1>12, <2>3, <3>1
    <3>2. CASE i # 1
      <4>1. i - 1 \in 1..(n - 1) /\ (i - 1) + 1 = i
        BY <1>3, <3>2
      <4> QED
        BY <1>3, <2>3, <4>1, Zenon
    <3> QED
      BY <3>1, <3>2, Zenon
  <2> QED
    BY <2>1, <2>2, <2>3, Zenon
<1> QED
  BY <1>1, <1>6, <1>8, <1>9, <1>10, <1>14, <1>15, Frames, Zenon DEF CInv

\* A closed router fails every waiter.
LEMMA FailAllStep ==
    ASSUME CInv, fail_all
    PROVE  CInv'
<1>1. /\ Answer(registry, "error", 0)
      /\ UNCHANGED <<inbox, pc, out, effect, tokens, engine, outbox, operation, processed, applied, head, mls, anchor,
                     restored, seen, dropped, faults>>
  BY Zenon DEF fail_all, volatile, durable, guard, view
<1>2. "error" \in Results /\ 0 \in Nat /\ "error" # "ok"
  BY Zenon DEF Results
<1>3. /\ call' \in [Calls -> CallState] /\ payload' \in [Calls -> Nat] /\ registry' \subseteq Calls
      /\ RegistryBehind'
      /\ \A r \in Calls : call'[r] = "ok" => call[r] = "ok" /\ payload'[r] = payload[r]
  BY <1>1, <1>2, AnswerKeeps, Zenon
<1>4. Typed'
  BY <1>1, <1>3, Zenon DEF CInv, Typed, TypeOK
<1>5. Answers'
  BY <1>1, <1>3, Zenon DEF CInv, Answers, Stored
<1> QED
  BY <1>1, <1>3, <1>4, <1>5, Frames, Zenon DEF CInv

-----------------------------------------------------------------------------
(* Stop, crash and start                                                   *)

\* The actor returns with nothing in its hands.
LEMMA StopStep ==
    ASSUME CInv, process_shutdown_input \/ Fatal
    PROVE  CInv'
<1>1. /\ engine = "up" /\ engine' = "stopped" /\ pc.at = "idle" /\ pc' = Idle /\ effect' = NoEffect
      /\ UNCHANGED <<call, payload, registry, out, tokens, outbox, operation, processed, applied, head, mls, anchor,
                     restored, seen, dropped>>
      /\ faults' \in {faults, faults + 1}
  BY Zenon DEF process_shutdown_input, Fatal, Stops, Takes, client, durable, guard, view
<1>2. inbox' \in Seq(Inputs) /\ Len(inbox') <= INBOX
  <2>1. CASE process_shutdown_input
    BY <2>1, InboxTaken, Zenon DEF process_shutdown_input, CInv
  <2>2. CASE Fatal
    <3>1. inbox' = <<>>
      BY <2>2, Zenon DEF Fatal
    <3>2. <<>> \in Seq(Inputs) /\ Len(<<>>) = 0 /\ INBOX \in Nat
      BY PipelineAssumption
    <3> QED
      BY <3>1, <3>2
  <2> QED
    BY <2>1, <2>2, Zenon
<1>3. pc = Idle
  BY <1>1, Zenon DEF CInv, Process
<1>4. Idle \in Points /\ Idle.at = "idle"
  BY Zenon DEF Points, Idle
<1>5. faults' \in Nat
  BY <1>1 DEF CInv, Typed, TypeOK
<1>6. Typed'
  BY <1>1, <1>2, <1>4, <1>5, Zenon DEF CInv, Typed, TypeOK
<1>7. Process'
  BY <1>1, Zenon DEF CInv, Process
<1>8. Rows'
  BY <1>1, <1>4, Zenon DEF CInv, Rows
<1>9. Revisions' /\ AnnouncedHead'
  BY <1>1, <1>3, Zenon DEF CInv, Revisions, AnnouncedHead
<1>10. Anchored'
  BY <1>1, Zenon DEF CInv, Anchored
<1> QED
  BY <1>1, <1>3, <1>6, <1>7, <1>8, <1>9, <1>10, Frames, Zenon DEF CInv

\* A crash loses everything but the database and the anchor.
LEMMA CrashStep ==
    ASSUME CInv, Crash
    PROVE  CInv'
<1>1. /\ engine \in {"up", "stopped"} /\ engine' = "down"
      /\ inbox' = <<>> /\ pc' = Idle /\ out' = <<>> /\ effect' = NoEffect /\ tokens' = FALSE /\ registry' = {}
      /\ call' = [r \in Calls |-> IF call[r] \in {"waiting", "removing"} THEN "lost" ELSE call[r]]
      /\ faults' = faults + 1
      /\ UNCHANGED <<payload, outbox, operation, processed, applied, head, mls, anchor, restored, seen, dropped>>
  BY Zenon DEF Crash, durable, guard, view
<1>2. call \in [Calls -> CallState] /\ faults \in Nat /\ INBOX \in Nat /\ OUT \in Nat
  BY PipelineAssumption, Zenon DEF CInv, Typed, TypeOK
<1>3. /\ call' \in [Calls -> CallState] /\ \A r \in Calls : call'[r] = "ok" => call[r] = "ok"
  BY <1>1, <1>2, Zenon DEF CallState
<1>4. /\ Idle \in Points /\ Idle.at = "idle"
  BY Zenon DEF Points, Idle
<1>5. /\ inbox' \in Seq(Inputs) /\ Len(inbox') <= INBOX /\ out' \in Seq(Outputs) /\ Len(out') <= OUT
      /\ faults' \in Nat /\ DOMAIN out' = {}
  BY <1>1, <1>2
<1>6. Typed'
  BY <1>1, <1>3, <1>4, <1>5, ZenonT(30) DEF CInv, Typed, TypeOK
<1>7. Process'
  BY <1>1, Zenon DEF Process
<1>8. Rows'
  BY <1>1, <1>4, Zenon DEF CInv, Rows
<1>9. Answers'
  BY <1>1, <1>3, <1>4, <1>5, Zenon DEF CInv, Answers, Stored
<1>10. Revisions' /\ AnnouncedHead' /\ RegistryBehind'
  BY <1>1, Zenon DEF Revisions, AnnouncedHead, RegistryBehind
<1>11. Anchored'
  BY <1>1, Zenon DEF CInv, Anchored
<1> QED
  BY <1>1, <1>6, <1>7, <1>8, <1>9, <1>10, <1>11, Frames, Zenon DEF CInv

\* A replaced database promises nothing about what was answered before.
LEMMA RestoreBackupStep ==
    ASSUME CInv, RestoreBackup
    PROVE  CInv'
<1>1. /\ engine = "down" /\ restored' = TRUE /\ outbox' = "Pending"
      /\ operation' = [c \in Ids |-> "none"] /\ processed' = [c \in Ids |-> NoRow]
      /\ head' = 0 /\ mls' = 0 /\ faults' = faults + 1
      /\ UNCHANGED <<call, payload, registry, inbox, pc, out, effect, tokens, engine, applied, anchor, seen, dropped>>
  BY Zenon DEF RestoreBackup, client, volatile, view
<1>2. /\ NoRow \in [kind : Kinds \cup {"none"}, value : Nat] /\ NoRow.kind = "none" /\ "none" \in OperationState
  BY Zenon DEF NoRow, OperationState
<1>3. effect = NoEffect /\ pc = Idle /\ Idle.at = "idle"
  BY <1>1, Zenon DEF CInv, Process, Idle
<1>4. /\ operation' \in [Ids -> OperationState] /\ processed' \in [Ids -> [kind : Kinds \cup {"none"}, value : Nat]]
      /\ head' \in Nat /\ mls' \in Nat /\ faults' \in Nat
  BY <1>1, <1>2 DEF CInv, Typed, TypeOK
<1>5. Typed'
  <2>1. restored' \in BOOLEAN
    BY <1>1, Zenon
  <2> QED
    BY <1>1, <1>4, <2>1, Zenon DEF CInv, Typed, TypeOK
<1>6. Rows'
  BY <1>1, <1>2, <1>3, Zenon DEF Rows
<1>7. Once' /\ Answers' /\ Anchored'
  BY <1>1, Zenon DEF Once, Answers, Anchored
<1>8. Revisions' /\ AnnouncedHead'
  BY <1>1, Zenon DEF Revisions, AnnouncedHead
<1>9. CancelledTogether'
  BY <1>1, <1>2, Zenon DEF CancelledTogether
<1> QED
  BY <1>1, <1>5, <1>6, <1>7, <1>8, <1>9, Frames, Zenon DEF CInv

\* The engine opens a snapshot that is not behind its anchor, and no other.
LEMMA StartStep ==
    ASSUME CInv, Start
    PROVE  CInv'
<1>1. /\ engine = "down"
      /\ UNCHANGED <<call, payload, registry, inbox, pc, out, effect, tokens, outbox, operation, processed, applied, head,
                     mls, restored, faults>>
      /\ IF mls >= anchor
         THEN anchor' = mls /\ engine' = "up" /\ seen' = head /\ dropped' = FALSE
         ELSE anchor' = anchor /\ engine' = "refused" /\ UNCHANGED <<seen, dropped>>
  BY Zenon DEF Start, validate_snapshot_checkpoint, validate_checkpoint, client, volatile, durable, view
<1>2. /\ effect = NoEffect /\ pc = Idle /\ inbox = <<>> /\ out = <<>> /\ Idle.rev = 0
  BY <1>1, Zenon DEF CInv, Process, Idle
<1>3. anchor' \in Nat /\ seen' \in Nat /\ head \in Nat /\ mls \in Nat /\ anchor \in Nat
  BY <1>1, Zenon DEF CInv, Typed, TypeOK
<1>4. dropped' \in BOOLEAN /\ engine' \in {"up", "refused"}
  BY <1>1, Zenon DEF CInv, Typed, TypeOK
<1>5. Typed'
  BY <1>1, <1>3, <1>4, Zenon DEF CInv, Typed, TypeOK
<1>6. Process'
  BY <1>1, <1>2 DEF CInv, Process
<1>7. Revisions' /\ AnnouncedHead'
  BY <1>1, <1>2, <1>3 DEF Revisions, AnnouncedHead
<1>8. Anchored'
  BY <1>1, <1>3 DEF CInv, Anchored
<1> QED
  BY <1>1, <1>5, <1>6, <1>7, <1>8, Frames, Zenon DEF CInv

-----------------------------------------------------------------------------
(* The theorems                                                            *)

\* The invariant holds in a new engine.
LEMMA InitCInv == Init => CInv
<1> SUFFICES ASSUME Init PROVE CInv
  OBVIOUS
<1>1. /\ call = [r \in Calls |-> "idle"] /\ payload = [r \in Calls |-> 0] /\ registry = {}
      /\ inbox = <<>> /\ pc = Idle /\ out = <<>> /\ engine = "up" /\ effect = NoEffect
      /\ outbox = "Pending" /\ head = 0 /\ seen = 0 /\ mls = 0 /\ anchor = 0 /\ faults = 0
  BY Zenon DEF Init
<1>2. /\ operation = [c \in Ids |-> "none"] /\ processed = [c \in Ids |-> NoRow]
      /\ applied = [c \in Ids |-> [k \in Kinds |-> 0]]
      /\ tokens = TRUE /\ dropped = FALSE /\ restored = FALSE
  BY Zenon DEF Init
<1>3. /\ NoRow \in [kind : Kinds \cup {"none"}, value : Nat] /\ NoRow.kind = "none" /\ "none" \in OperationState
      /\ Idle \in Points /\ Idle.at = "idle" /\ Idle.rev = 0 /\ "idle" \in CallState
      /\ {"Runtime", "Cancel"} \subseteq Kinds
  BY Zenon DEF NoRow, OperationState, Idle, Points, CallState, Kinds
<1>4. /\ inbox \in Seq(Inputs) /\ Len(inbox) <= INBOX /\ out \in Seq(Outputs) /\ Len(out) <= OUT
      /\ DOMAIN inbox = {} /\ DOMAIN out = {}
  BY <1>1, PipelineAssumption
<1>5. Typed
  <2>1. {tokens, dropped, restored} \subseteq BOOLEAN
    BY <1>2, Zenon
  <2>2. {head, seen, mls, anchor, faults} \subseteq Nat /\ engine \in {"up", "stopped", "down", "refused"}
    BY <1>1
  <2>3. /\ call \in [Calls -> CallState] /\ payload \in [Calls -> Nat] /\ operation \in [Ids -> OperationState]
        /\ processed \in [Ids -> [kind : Kinds \cup {"none"}, value : Nat]] /\ applied \in [Ids -> [Kinds -> Nat]]
    BY <1>1, <1>2, <1>3, Zenon
  <2> QED
    BY <1>1, <1>3, <1>4, <2>1, <2>2, <2>3, Zenon DEF Typed, TypeOK
<1>6. Process /\ Rows
  BY <1>1, <1>2, <1>3, <1>4, Zenon DEF Process, Rows
<1>7. Once
  BY <1>2, <1>3 DEF Once
<1>8. Answers
  BY <1>1, <1>3, <1>4, Zenon DEF Answers
<1>9. Revisions /\ AnnouncedHead /\ Anchored
  BY <1>1, <1>3, <1>4 DEF Revisions, AnnouncedHead, Anchored
<1>10. RegistryBehind /\ CancelledTogether
  BY <1>1, <1>2, <1>3, Zenon DEF RegistryBehind, CancelledTogether
<1> QED
  BY <1>5, <1>6, <1>7, <1>8, <1>9, <1>10, Zenon DEF CInv

\* Every step keeps the invariant.
LEMMA NextCInv == CInv /\ [Next]_vars => CInv'
<1> SUFFICES ASSUME CInv, [Next]_vars PROVE CInv'
  OBVIOUS
<1>1. CASE \E r \in Calls : submit_with_command_id(r) \/ TimesOut(r) \/ remove(r)
  BY <1>1, SubmitStep, GiveUpStep, Zenon
<1>2. CASE Actor \/ CheckpointFails \/ FallbackFails
  BY <1>2, CommandStep, PublishStep, FallbackRecordStep, OutcomeStep, StopStep, Zenon DEF Actor
<1>3. CASE \E result \in {"ok", "error", "panic"} : EffectReturns(result)
  BY <1>3, EffectReturnsStep, Zenon
<1>4. CASE \E c \in Ids : resume_due_durable_operation(c)
  BY <1>4, ResumeStep, Zenon
<1>5. CASE PairingAnswered \/ RouteEvent \/ fail_all
  BY <1>5, PairingAnsweredStep, RouteEventStep, FailAllStep, Zenon
<1>6. CASE ShutdownRequested \/ Fatal \/ Crash \/ RestoreBackup \/ Start
  BY <1>6, ShutdownRequestedStep, StopStep, CrashStep, RestoreBackupStep, StartStep, Zenon
<1>7. CASE UNCHANGED vars
  <2>1. UNCHANGED <<call, payload, registry, inbox, pc, out, effect, tokens, engine, outbox, operation, processed, applied,
                    head, mls, anchor, restored, seen, dropped, faults>>
    BY <1>7, Zenon DEF vars, client, volatile, durable, guard, view
  <2>2. Typed'
    BY <2>1, Zenon DEF CInv, Typed, TypeOK
  <2> QED
    BY <2>1, <2>2, Frames, Zenon DEF CInv
<1> QED
  BY <1>1, <1>2, <1>3, <1>4, <1>5, <1>6, <1>7, Zenon DEF Next

\* The invariant always holds.
LEMMA AlwaysCInv == Spec => []CInv
BY InitCInv, NextCInv, PTL DEF Spec

\* The registry holds an entry only while a caller is behind it, and a completed
\* cancellation, its replay record and the cancelled pairing go together
\* (submit_with_command_id, commit_pairing_cancelled_outcome).
THEOREM PipelineInvariant == Spec => []PipelineInv
<1>1. CInv => PipelineInv
  BY Zenon DEF CInv, Typed, PipelineInv
<1> QED
  BY <1>1, AlwaysCInv, PTL

\* A command that is repeated, lost in a crash or given up has one effect, and
\* everyone who is told of its success is told the same (processor.rs,
\* with_runtime_idempotent).
THEOREM CommandsIdempotent == Spec => []Idempotent
<1>1. CInv => Idempotent
  <2> SUFFICES ASSUME CInv PROVE Idempotent
    OBVIOUS
  <2>1. AppliedOnce
    BY Zenon DEF CInv, Once, AppliedOnce
  <2>2. SameAnswer
    <3> SUFFICES ASSUME ~restored, NEW r \in Calls, NEW q \in Calls,
                        call[r] = "ok", call[q] = "ok", IdOf[r] = IdOf[q], KindOf[r] # "Direct", KindOf[q] # "Direct"
                 PROVE  KindOf[r] = KindOf[q] /\ payload[r] = payload[q]
      BY Zenon DEF SameAnswer
    <3>1. Stored(r, payload[r]) /\ Stored(q, payload[q])
      BY Zenon DEF CInv, Answers
    <3>2. [kind |-> KindOf[r], value |-> payload[r]] = [kind |-> KindOf[q], value |-> payload[q]]
      BY <3>1, Zenon DEF Stored
    <3> QED
      BY <3>2, Zenon
  <2> QED
    BY <2>1, <2>2, Zenon DEF Idempotent
<1> QED
  BY <1>1, AlwaysCInv, PTL

\* An announced revision is committed, and the head is announced, on its way or
\* given up after an error (with_runtime_internal).
THEOREM HeadAnnounced == Spec => []AnnouncedHead
<1>1. CInv => AnnouncedHead
  BY Zenon DEF CInv
<1> QED
  BY <1>1, AlwaysCInv, PTL

\* The anchor never goes back although the hosts overwrite it without looking,
\* and an engine that was only killed starts again (validate_snapshot_checkpoint).
THEOREM AnchorIsSound == Spec => AnchorSound
<1>1. CInv => RestartAccepted
  BY Zenon DEF CInv, Anchored, RestartAccepted
<1>2. CInv /\ [Next]_vars => [anchor' >= anchor]_anchor
  <2> SUFFICES ASSUME CInv, [Next]_vars, anchor' # anchor PROVE anchor' >= anchor
    OBVIOUS
  <2>1. CASE record_checkpoint
    BY <2>1, Zenon DEF record_checkpoint, CInv, Anchored
  <2>2. CASE Start
    BY <2>2, Zenon DEF Start, validate_snapshot_checkpoint, validate_checkpoint
  <2>3. CASE ~record_checkpoint /\ ~Start
    <3>1. UNCHANGED anchor
      BY <2>3, Zenon DEF Next, Actor, vars, guard, submit_with_command_id, TimesOut, remove, ShutdownRequested,
                  process_command_input, CheckpointFails, FallbackRecord, FallbackFails, EffectReturns,
                  process_relay_effect_outcome, PublishOutcome, resume_due_durable_operation, PairingAnswered,
                  RouteEvent, fail_all, process_shutdown_input, Fatal, Crash, RestoreBackup
    <3> QED
      BY <3>1, Zenon
  <2> QED
    BY <2>1, <2>2, <2>3, Zenon
<1> QED
  BY <1>1, <1>2, AlwaysCInv, PTL DEF Spec, AnchorSound, AnchorNeverBack
==============================================================================
