--------------------------- MODULE CommandPipeline ---------------------------
(***************************************************************************)
(* Commands of the engine, from the typed client API to the response: the  *)
(* registry of waiting callers, the engine inbox, the command pipeline     *)
(* with its replay records, the runtime transaction, relay effects that    *)
(* outlive their command, durable cancellation operations, the event       *)
(* router, and a restart with the anchor that guards MLS snapshots.        *)
(*                                                                         *)
(* A command is one of three kinds.  "Runtime" handlers store the replay   *)
(* record in the transaction of the mutation; "Direct" handlers write the  *)
(* database first and the record afterwards; "Cancel" starts a relay       *)
(* effect and commits when its outcome comes back through the inbox.  A    *)
(* payload is abstracted to the number of times the command was applied.   *)
(* The database and the anchor are durable, everything else ends with the  *)
(* process.  One pairing is cancelled; its other transitions are those of  *)
(* Pairing, and count as "Answered".                                       *)
(***************************************************************************)
EXTENDS Naturals, Sequences

CONSTANTS
    Calls,       \* calls of the client API
    Ids,         \* command identifiers
    IdOf,        \* the command identifier each call carries
    KindOf,      \* the kind of command each call carries
    INBOX,       \* bound: ENGINE_INBOX_CAPACITY
    OUT,         \* bound: WORKER_OUTCOME_CHANNEL_CAPACITY
    MaxFaults    \* bound: crashes, stops, failed writes, restored backups, timeouts

Kinds == {"Runtime", "Direct", "Cancel"}

NoCall == "resume"                       \* the request id of a resumed operation

\* The host draws a new identifier for every operation and only repeats it for
\* the same method, so a cancellation shares its identifier with none but
\* repetitions of itself.
ASSUME PipelineAssumption ==
    /\ IdOf \in [Calls -> Ids] /\ NoCall \notin Calls
    /\ KindOf \in [Calls -> Kinds]
    /\ \A r, q \in Calls : IdOf[r] = IdOf[q] /\ KindOf[r] = "Cancel" => KindOf[q] = "Cancel"
    /\ INBOX \in Nat \ {0} /\ OUT \in Nat \ {0} /\ MaxFaults \in Nat

VARIABLES
    call,       \* what each caller is doing or was told
    payload,    \* the payload a caller received; 0: none
    registry,   \* PendingResponseRegistry
    inbox,      \* engine inbox
    pc,         \* the actor between a commit and its published events
    out,        \* events on their way to the router, one entry per input
    engine,     \* "up", "stopped" (the actor has returned), "down", "refused"
    effect,     \* the relay effect in progress
    tokens,     \* the relay actor still holds the joiner token of the pairing
    outbox,     \* state of the outgoing pairing
    operation,  \* durable_operations: the cancellation started by each command
    processed,  \* processed_commands
    applied,    \* how often a command of each kind and identifier was committed
    head,       \* projection revision
    seen,       \* last revision announced to the host
    dropped,    \* an announcement was given up after its commit
    mls,        \* state_version of the stored conversation snapshot
    anchor,     \* state_version of the anchored checkpoint
    restored,   \* an older database was put back
    faults

client == <<call, payload, registry>>
volatile == <<inbox, pc, out, effect, tokens>>
durable == <<outbox, operation, processed, applied, head, mls>>
guard == <<anchor, restored>>
view == <<seen, dropped>>
vars == <<client, volatile, engine, durable, guard, view, faults>>

CallState == {"idle", "waiting", "removing", "ok", "error", "timeout", "lost"}
OperationState == {"none", "Running", "WaitingForRetry", "Completed"}
NoRow == [kind |-> "none", value |-> 0]
NoEffect == [r |-> NoCall, id |-> "none", at |-> "none"]
Idle == [at |-> "idle", r |-> NoCall, value |-> 0, rev |-> 0]
Results == {"ok", "error"}

\* One entry of the event channel: a revision to announce (0: none) and the
\* response of the input.
events(rev, r, result, value) == [rev |-> rev, r |-> r, result |-> result, value |-> value]
failure(r) == events(0, r, "error", 0)
command(r) == [kind |-> "command", r |-> r]
outcome(result) == [kind |-> "outcome", r |-> result]
shutdown == [kind |-> "shutdown", r |-> NoCall]

Init ==
    /\ call = [r \in Calls |-> "idle"]
    /\ payload = [r \in Calls |-> 0]
    /\ registry = {}
    /\ inbox = <<>> /\ pc = Idle /\ out = <<>>
    /\ engine = "up"
    /\ effect = NoEffect
    /\ tokens = TRUE
    /\ outbox = "Pending"
    /\ operation = [c \in Ids |-> "none"]
    /\ processed = [c \in Ids |-> NoRow]
    /\ applied = [c \in Ids |-> [k \in Kinds |-> 0]]
    /\ head = 0 /\ seen = 0 /\ dropped = FALSE
    /\ mls = 0 /\ anchor = 0 /\ restored = FALSE
    /\ faults = 0

-----------------------------------------------------------------------------
(* Callers                                                                 *)

\* A caller registers and queues its command; a full inbox makes it wait, and
\* once the actor has returned the inbox is closed: the entry is taken out
\* again.
submit_with_command_id(r) ==
    /\ call[r] = "idle"
    /\ \/ /\ engine = "up" /\ Len(inbox) < INBOX
          /\ inbox' = Append(inbox, command(r))
          /\ registry' = registry \cup {r}
          /\ call' = [call EXCEPT ![r] = "waiting"]
       \/ /\ engine = "stopped"
          /\ call' = [call EXCEPT ![r] = "error"]
          /\ UNCHANGED <<registry, inbox>>
    /\ UNCHANGED <<payload, pc, out, effect, tokens, engine, durable, guard, view, faults>>

\* ENGINE_RESPONSE_TIMEOUT: the caller gives up, then takes its entry out.
TimesOut(r) ==
    /\ call[r] = "waiting" /\ faults < MaxFaults
    /\ call' = [call EXCEPT ![r] = "removing"]
    /\ faults' = faults + 1
    /\ UNCHANGED <<payload, registry, volatile, engine, durable, guard, view>>

remove(r) ==
    /\ call[r] = "removing"
    /\ call' = [call EXCEPT ![r] = "timeout"]
    /\ registry' = registry \ {r}
    /\ UNCHANGED <<payload, volatile, engine, durable, guard, view, faults>>

\* ShutdownGuard: the token is cancelled and ShutdownRequested queued.
ShutdownRequested ==
    /\ engine = "up" /\ Len(inbox) < INBOX /\ \A i \in DOMAIN inbox : inbox[i] # shutdown
    /\ faults < MaxFaults
    /\ inbox' = Append(inbox, shutdown)
    /\ faults' = faults + 1
    /\ UNCHANGED <<client, pc, out, effect, tokens, engine, durable, guard, view>>

-----------------------------------------------------------------------------
(* Command pipeline.  The actor takes the next input when the events of    *)
(* the last one are published; a commit and the publication are two steps, *)
(* because the process may stop between them.                              *)

Takes(kind) ==
    /\ engine = "up" /\ pc.at = "idle" /\ inbox # <<>>
    /\ Head(inbox).kind = kind
    /\ inbox' = Tail(inbox)

\* Events go through a bounded channel; a full one makes the actor wait.
Emit(e) ==
    /\ Len(out) < OUT
    /\ out' = Append(out, e)

\* Seeded fault: the replay record is only looked at for deferred commands.
Faulty_load_processed_command(r) ==
    IF KindOf[r] = "Cancel" THEN processed[IdOf[r]] ELSE NoRow

load_processed_command(r) == processed[IdOf[r]]

\* A stored result is returned as it is; an identifier used for another
\* command is a conflict.
Replay(r) ==
    LET row == load_processed_command(r)
    IN  /\ row # NoRow
        /\ Emit(IF row.kind = KindOf[r] THEN events(0, r, "ok", row.value) ELSE failure(r))
        /\ UNCHANGED <<pc, effect, operation, processed, applied, head, mls>>

\* A domain error: the transaction and the staged events are rolled back.
Refused(r) ==
    /\ KindOf[r] # "Cancel" /\ load_processed_command(r) = NoRow
    /\ Emit(failure(r))
    /\ UNCHANGED <<pc, effect, operation, processed, applied, head, mls>>

Count(c, k) == [applied EXCEPT ![c][k] = @ + 1]

\* An existing record stays as it is.
save_processed_command(c, k) ==
    processed' = IF processed[c] = NoRow THEN [processed EXCEPT ![c] = [kind |-> k, value |-> applied'[c][k]]]
                                         ELSE processed

bump_projection_revision == head + 1

\* Seeded fault: the announced revision is read before it is advanced.
Faulty_RuntimeCommand(r) ==
    /\ KindOf[r] = "Runtime" /\ load_processed_command(r) = NoRow
    /\ applied' = Count(IdOf[r], "Runtime")
    /\ save_processed_command(IdOf[r], "Runtime")
    /\ head' = bump_projection_revision
    /\ mls' = mls + 1
    /\ pc' = [at |-> "checkpoint", r |-> r, value |-> applied'[IdOf[r]]["Runtime"], rev |-> head]
    /\ UNCHANGED <<effect, operation, out>>

\* with_runtime_idempotent: the mutation, the projection revision and the
\* replay record commit together.  The message encrypted by the command
\* advances the stored MLS snapshot.
RuntimeCommand(r) ==
    /\ KindOf[r] = "Runtime" /\ load_processed_command(r) = NoRow
    /\ applied' = Count(IdOf[r], "Runtime")
    /\ save_processed_command(IdOf[r], "Runtime")
    /\ head' = bump_projection_revision
    /\ mls' = mls + 1
    /\ pc' = [at |-> "checkpoint", r |-> r, value |-> applied'[IdOf[r]]["Runtime"], rev |-> head']
    /\ UNCHANGED <<effect, operation, out>>

DirectCommand(r) ==
    /\ KindOf[r] = "Direct" /\ load_processed_command(r) = NoRow
    /\ applied' = Count(IdOf[r], "Direct")
    /\ pc' = [at |-> "save", r |-> r, value |-> applied'[IdOf[r]]["Direct"], rev |-> 0]
    /\ UNCHANGED <<effect, operation, processed, out, head, mls>>

prepare_cancel == outbox = "Pending"

\* A completed operation is left as it is.
begin_pairing(c) ==
    operation' = [operation EXCEPT ![c] = IF @ = "Completed" THEN @ ELSE "Running"]

\* The effect takes the relay actor away until its outcome returns.
ensure_relay_effect_available == effect = NoEffect
defer_relay_effect(c, r) == effect' = [r |-> r, id |-> c, at |-> "running"]

\* The operation is stored and the pairing looked at in one transaction.
CancelCommand(r) ==
    /\ KindOf[r] = "Cancel" /\ load_processed_command(r) = NoRow
    /\ IF ensure_relay_effect_available /\ prepare_cancel
       THEN begin_pairing(IdOf[r]) /\ defer_relay_effect(IdOf[r], r) /\ UNCHANGED out
       ELSE Emit(failure(r)) /\ UNCHANGED <<operation, effect>>
    /\ UNCHANGED <<pc, processed, applied, head, mls>>

process_command_input ==
    /\ Takes("command")
    /\ LET r == Head(inbox).r
       IN Replay(r) \/ Refused(r) \/ RuntimeCommand(r) \/ DirectCommand(r) \/ CancelCommand(r)
    /\ UNCHANGED <<client, engine, tokens, outbox, guard, view, faults>>

\* The checkpoint of the committed snapshot goes to the anchor, then the
\* revision is announced and the caller answered.
record_checkpoint ==
    /\ engine = "up" /\ pc.at = "checkpoint"
    /\ Emit(events(pc.rev, pc.r, "ok", pc.value))
    /\ anchor' = mls
    /\ pc' = Idle
    /\ UNCHANGED <<client, inbox, effect, tokens, engine, durable, restored, view, faults>>

\* The anchor fails after the commit: the caller sees an error, and the
\* announcement is lost with the other events.
CheckpointFails ==
    /\ engine = "up" /\ pc.at = "checkpoint" /\ faults < MaxFaults
    /\ Emit(failure(pc.r))
    /\ pc' = Idle
    /\ dropped' = TRUE
    /\ faults' = faults + 1
    /\ UNCHANGED <<client, inbox, effect, tokens, engine, durable, guard, seen>>

\* The fallback of a direct handler: its record is written after the fact.
FallbackRecord ==
    /\ engine = "up" /\ pc.at = "save"
    /\ Emit(events(pc.rev, pc.r, "ok", pc.value))
    /\ processed' = [processed EXCEPT ![IdOf[pc.r]] = [kind |-> "Direct", value |-> pc.value]]
    /\ pc' = Idle
    /\ UNCHANGED <<client, inbox, effect, tokens, engine, outbox, operation, applied, head, mls,
                   guard, view, faults>>

FallbackFails ==
    /\ engine = "up" /\ pc.at = "save" /\ faults < MaxFaults
    /\ Emit(failure(pc.r))
    /\ pc' = Idle
    /\ faults' = faults + 1
    /\ UNCHANGED <<client, inbox, effect, tokens, engine, durable, guard, view>>

-----------------------------------------------------------------------------
(* Relay effects and durable operations                                    *)

\* The worker answers in every case, a panic included; without the joiner
\* token the relay actor cannot cancel.
EffectReturns(result) ==
    /\ effect.at = "running" /\ engine = "up" /\ Len(inbox) < INBOX
    /\ result = "ok" => tokens
    /\ inbox' = Append(inbox, outcome(result))
    /\ effect' = [effect EXCEPT !.at = "returned"]
    /\ UNCHANGED <<client, pc, out, tokens, engine, durable, guard, view, faults>>

\* Seeded fault: the operation completes although the pairing was answered.
Faulty_commit_pairing_cancelled_outcome ==
    /\ operation' = [operation EXCEPT ![effect.id] = "Completed"]
    /\ applied' = Count(effect.id, "Cancel")
    /\ save_processed_command(effect.id, "Cancel")
    /\ pc' = [at |-> "publish", r |-> effect.r, value |-> applied'[effect.id]["Cancel"], rev |-> 0]
    /\ UNCHANGED <<out, outbox, head>>

complete_pairing(c) == operation' = [operation EXCEPT ![c] = "Completed"]

\* The pairing, the operation and the replay record change together; a
\* pairing answered meanwhile refuses, and the operation stays Running.
commit_pairing_cancelled_outcome ==
    IF outbox = "Answered"
    THEN /\ Emit(failure(effect.r))
         /\ UNCHANGED <<pc, outbox, operation, processed, applied, head>>
    ELSE /\ outbox' = "Cancelled"
         /\ complete_pairing(effect.id)
         /\ applied' = Count(effect.id, "Cancel")
         /\ save_processed_command(effect.id, "Cancel")
         /\ head' = IF outbox = "Cancelled" THEN head ELSE bump_projection_revision
         /\ pc' = [at |-> "publish", r |-> effect.r, value |-> applied'[effect.id]["Cancel"],
                   rev |-> IF outbox = "Cancelled" THEN 0 ELSE head']
         /\ UNCHANGED out

\* Network backoff has no last attempt: retry_pairing never fails the
\* operation for good.
retry_pairing(c) ==
    operation' = [operation EXCEPT ![c] = IF @ = "Completed" THEN @ ELSE "WaitingForRetry"]

process_relay_effect_outcome ==
    /\ Takes("outcome")
    /\ effect' = NoEffect
    /\ CASE Head(inbox).r = "ok" -> commit_pairing_cancelled_outcome
         [] Head(inbox).r = "error" ->
              /\ retry_pairing(effect.id)
              /\ Emit(failure(effect.r))
              /\ UNCHANGED <<pc, outbox, processed, applied, head>>
         [] Head(inbox).r = "panic" ->
              /\ Emit(failure(effect.r))
              /\ UNCHANGED <<pc, outbox, operation, processed, applied, head>>
    /\ UNCHANGED <<client, engine, tokens, mls, guard, view, faults>>

PublishOutcome ==
    /\ engine = "up" /\ pc.at = "publish"
    /\ Emit(events(pc.rev, pc.r, "ok", pc.value))
    /\ pc' = Idle
    /\ UNCHANGED <<client, inbox, effect, tokens, engine, durable, guard, view, faults>>

\* A Running operation is due at once, a waiting one when its time comes.
pending_operations == {c \in Ids : operation[c] \in {"Running", "WaitingForRetry"}}

resume_due_durable_operation(c) ==
    /\ engine = "up" /\ pc.at = "idle" /\ ensure_relay_effect_available
    /\ c \in pending_operations
    /\ IF prepare_cancel
       THEN begin_pairing(c) /\ defer_relay_effect(c, NoCall)
       ELSE retry_pairing(c) /\ UNCHANGED effect
    /\ UNCHANGED <<client, inbox, pc, out, tokens, engine, outbox, processed, applied, head, mls,
                   guard, view, faults>>

\* The peer answers the pairing, or it expires.
PairingAnswered ==
    /\ engine = "up" /\ pc.at = "idle" /\ outbox = "Pending"
    /\ outbox' = "Answered"
    /\ UNCHANGED <<client, volatile, engine, operation, processed, applied, head, mls, guard, view, faults>>

-----------------------------------------------------------------------------
(* Event router                                                            *)

\* A response reaches its caller only while the registry has the entry; a
\* caller that has given up dropped the receiver.
Answer(rs, result, value) ==
    LET told == {r \in rs \cap registry : call[r] = "waiting"}
    IN  /\ registry' = registry \ rs
        /\ call' = [r \in Calls |-> IF r \in told THEN result ELSE call[r]]
        /\ payload' = [r \in Calls |-> IF r \in told THEN value ELSE payload[r]]

RouteEvent ==
    /\ engine \in {"up", "stopped"} /\ out # <<>>
    /\ LET e == Head(out)
       IN  /\ Answer({e.r}, e.result, e.value)
           /\ seen' = IF e.rev = 0 THEN seen ELSE e.rev
    /\ out' = Tail(out)
    /\ UNCHANGED <<inbox, pc, effect, tokens, engine, durable, guard, dropped, faults>>

\* Seeded fault: a closed router leaves its waiters alone.
Faulty_fail_all ==
    /\ engine = "stopped" /\ out = <<>> /\ registry # {}
    /\ UNCHANGED vars

\* The channel is closed and drained: every waiter gets engine_closed.
fail_all ==
    /\ engine = "stopped" /\ out = <<>> /\ registry # {}
    /\ Answer(registry, "error", 0)
    /\ UNCHANGED <<volatile, engine, durable, guard, view, faults>>

-----------------------------------------------------------------------------
(* Stop, crash and start                                                   *)

\* The actor returns; what is still in the inbox is dropped with it.
Stops ==
    /\ engine' = "stopped"
    /\ pc' = Idle /\ effect' = NoEffect

process_shutdown_input ==
    /\ Takes("shutdown")
    /\ Stops
    /\ UNCHANGED <<client, out, tokens, durable, guard, view, faults>>

\* A storage error in a timer or in the scheduler plan ends the actor.
Fatal ==
    /\ engine = "up" /\ pc.at = "idle" /\ faults < MaxFaults
    /\ Stops
    /\ inbox' = <<>>
    /\ faults' = faults + 1
    /\ UNCHANGED <<client, out, tokens, durable, guard, view>>

Crash ==
    /\ engine \in {"up", "stopped"} /\ faults < MaxFaults
    /\ engine' = "down"
    /\ inbox' = <<>> /\ pc' = Idle /\ out' = <<>> /\ effect' = NoEffect /\ tokens' = FALSE
    /\ registry' = {}
    /\ call' = [r \in Calls |-> IF call[r] \in {"waiting", "removing"} THEN "lost" ELSE call[r]]
    /\ faults' = faults + 1
    /\ UNCHANGED <<payload, durable, guard, view>>

\* The database file is replaced by one from before the first command.
RestoreBackup ==
    /\ engine = "down" /\ ~restored /\ mls > 0 /\ faults < MaxFaults
    /\ restored' = TRUE
    /\ outbox' = "Pending"
    /\ operation' = [c \in Ids |-> "none"]
    /\ processed' = [c \in Ids |-> NoRow]
    /\ head' = 0 /\ mls' = 0
    /\ faults' = faults + 1
    /\ UNCHANGED <<client, volatile, engine, applied, anchor, view>>

\* Seeded fault: any snapshot is accepted.
Faulty_validate_checkpoint(anchored, candidate) == TRUE

\* A snapshot older than the anchored checkpoint needs a new pairing.
validate_checkpoint(anchored, candidate) == candidate >= anchored

\* An accepted snapshot is recorded as the new checkpoint.
validate_snapshot_checkpoint(accepted) ==
    /\ accepted = validate_checkpoint(anchor, mls)
    /\ anchor' = IF accepted THEN mls ELSE anchor

\* Opening the engine checks the stored snapshot; the host then loads a
\* projection of the current revision.
Start ==
    /\ engine = "down"
    /\ \E accepted \in BOOLEAN :
       /\ validate_snapshot_checkpoint(accepted)
       /\ IF accepted
          THEN engine' = "up" /\ seen' = head /\ dropped' = FALSE
          ELSE engine' = "refused" /\ UNCHANGED view
    /\ UNCHANGED <<client, volatile, durable, restored, faults>>

-----------------------------------------------------------------------------
Actor == process_command_input \/ record_checkpoint \/ FallbackRecord
            \/ process_relay_effect_outcome \/ PublishOutcome \/ process_shutdown_input

Next ==
    \/ \E r \in Calls : submit_with_command_id(r) \/ TimesOut(r) \/ remove(r)
    \/ Actor \/ CheckpointFails \/ FallbackFails
    \/ \E result \in {"ok", "error", "panic"} : EffectReturns(result)
    \/ \E c \in Ids : resume_due_durable_operation(c)
    \/ PairingAnswered \/ RouteEvent \/ fail_all
    \/ ShutdownRequested \/ Fatal \/ Crash \/ RestoreBackup \/ Start

\* The tasks of the engine run, the worker returns and a caller's future is
\* polled; nothing obliges a caller to call, a timeout to happen or an
\* operation to be due.
Fairness ==
    /\ WF_vars(Actor)
    /\ WF_vars(\E result \in {"ok", "error", "panic"} : EffectReturns(result))
    /\ WF_vars(RouteEvent) /\ WF_vars(fail_all)
    /\ \A r \in Calls : WF_vars(remove(r))

Spec == Init /\ [][Next]_vars /\ Fairness

-----------------------------------------------------------------------------
TypeOK ==
    /\ call \in [Calls -> CallState]
    /\ payload \in [Calls -> Nat]
    /\ registry \subseteq Calls
    /\ Len(inbox) <= INBOX /\ Len(out) <= OUT
    /\ pc.at \in {"idle", "checkpoint", "save", "publish"}
    /\ engine \in {"up", "stopped", "down", "refused"}
    /\ effect = NoEffect \/ effect.id \in Ids
    /\ outbox \in {"Pending", "Answered", "Cancelled"}
    /\ operation \in [Ids -> OperationState]
    /\ processed \in [Ids -> [kind : Kinds \cup {"none"}, value : Nat]]
    /\ applied \in [Ids -> [Kinds -> Nat]]
    /\ {head, seen, mls, anchor, faults} \subseteq Nat
    /\ {tokens, dropped, restored} \subseteq BOOLEAN

\* A command with one identifier is committed at most once, whatever callers
\* repeat, time out or lose in a crash, and whether the anchor fails after
\* the commit: replay record and mutation share a transaction
\* (runtime_transaction.rs).  Direct handlers give no such promise.
AppliedOnce ==
    ~restored => \A c \in Ids : applied[c]["Runtime"] <= 1 /\ applied[c]["Cancel"] <= 1

\* Callers that repeat a command and are told it succeeded are told the same
\* result, even across a restart (the stored payload is returned).
SameAnswer ==
    ~restored =>
    \A r, q \in Calls :
        /\ call[r] = "ok" /\ call[q] = "ok" /\ IdOf[r] = IdOf[q]
        /\ KindOf[r] # "Direct" /\ KindOf[q] # "Direct"
        => KindOf[r] = KindOf[q] /\ payload[r] = payload[q]

\* A repeated command is idempotent: one effect and one answer.
Idempotent == AppliedOnce /\ SameAnswer

\* The registry holds an entry only while a caller is behind it, so timeouts
\* do not leak entries (submit_with_command_id).
RegistryBehind ==
    \A r \in registry : call[r] \in {"waiting", "removing"}

\* A completed cancellation and its replay record mean the pairing was
\* cancelled by it, and a pairing is cancelled by nothing else
\* (commit_pairing_cancelled_outcome).
CancelledTogether ==
    /\ outbox = "Cancelled" <=> \E c \in Ids : operation[c] = "Completed"
    /\ \A c \in Ids : operation[c] = "Completed" <=> processed[c].kind = "Cancel"

\* The registry and the rows of a cancellation are well typed and agree with the
\* callers and the pairing they stand for.
PipelineInv == TypeOK /\ RegistryBehind /\ CancelledTogether

\* A revision that was announced is committed, and the last one announced is
\* the head unless its announcement is under way or was given up after an
\* error (with_runtime_internal).
AnnouncedHead ==
    engine = "up" =>
        /\ seen <= head
        /\ \/ seen = head \/ dropped
           \/ pc.rev = head \/ \E i \in DOMAIN out : out[i].rev = head

\* The anchored version never goes back, although the hosts overwrite the
\* entry without a comparison: a replaced database is refused before its
\* checkpoint is recorded (validate_snapshot_checkpoint).
AnchorNeverBack == [][anchor' >= anchor]_anchor

\* An engine whose database was not replaced always starts again: the anchor
\* is written after the commit, never before.
RestartAccepted == ~restored => engine # "refused"

\* The anchor refuses a replaced database and no other: it never goes back, and
\* an engine that was only killed starts again.
AnchorSound == []RestartAccepted /\ AnchorNeverBack

\* Every caller is answered, by the router when the engine stops, without
\* relying on the timeout: callers never wait for ever.
EventuallyAnswered ==
    []<>(\A r \in Calls : call[r] # "waiting")
=============================================================================
