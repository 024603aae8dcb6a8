--------------------------- MODULE EngineScheduler ---------------------------
(***************************************************************************)
(* The engine's input loop (actor/run.rs), its timer handlers and the      *)
(* scheduler task (scheduler/worker.rs).                                   *)
(*                                                                         *)
(* After every input the actor publishes a plan with a new generation      *)
(* through a watch channel.  The task sleeps until the earliest deadline   *)
(* of the plan, sends one TimerElapsed per due timer into the bounded      *)
(* inbox, and waits for another generation.  The actor ignores timers of   *)
(* an obsolete generation; since every handled input starts a generation,  *)
(* of a batch of timers at most the first is handled, and the rest has to  *)
(* come back with the next plan.                                           *)
(*                                                                         *)
(* RetryDue serves only the kind that next_retry_deadline puts first: all  *)
(* overdue kinds tie at the current time and min_by_key takes the first in *)
(* RetryOrder.  It then resumes the earliest due durable operation.        *)
(*                                                                         *)
(* Generations are compared with the current one only: a queued timer is   *)
(* either of the current generation or "obsolete", and task.fresh says     *)
(* whether the task's plan is the current one.                             *)
(* Deadlines are "none", "later" or "due".  Stopping the engine ends all   *)
(* behaviour and is left out.                                              *)
(***************************************************************************)
EXTENDS Naturals, Sequences, FiniteSets

CONSTANTS
    RetryOrder,             \* retry kinds in the order of next_retry_deadline
    Stuck,                  \* kinds whose flush leaves the due row as it was
    ENGINE_INBOX_CAPACITY,
    MaxInputs               \* bound: commands, facts, peer and relay events in a behaviour

RetryKinds == {RetryOrder[i] : i \in DOMAIN RetryOrder}
Timers == {"RelayPoll", "PeerProbeRound", "RetryDue"}
Deadlines == {"RelayPoll", "PeerProbeRound", "Operation"} \cup RetryKinds

ASSUME SchedulerAssumption ==
    /\ RetryOrder \in Seq(STRING)
    /\ RetryKinds \cap {"RelayPoll", "PeerProbeRound", "Operation"} = {}
    /\ \A i, j \in DOMAIN RetryOrder : RetryOrder[i] = RetryOrder[j] => i = j
    /\ Stuck \subseteq RetryKinds
    /\ ENGINE_INBOX_CAPACITY \in Nat \ {0}
    /\ MaxInputs \in Nat

VARIABLES
    deadline,   \* of the relay poll, the probe round, each retry kind and the durable operation
    runnable,   \* online with a SOCKS endpoint
    busy,       \* who has the relay: "no" effect worker, a "command"'s or the "operation"'s
    recheck,    \* the recheck delay of a blocked retry has passed
    inbox,      \* queued inputs
    derived,    \* number of relay events found by the last poll
    task,       \* the scheduler task: phase, freshness of its plan, timers still to send
    inputs,     \* inputs so far
    overtook    \* deadlines served since another one became due

schedulerVars == <<deadline, runnable, busy, recheck, inbox, derived, task, inputs, overtook>>

Input == Timers \cup {"obsolete", "input", "outcome"}

SchedulerInit ==
    /\ deadline \in [Deadlines -> {"none", "later", "due"}]
    /\ deadline["RelayPoll"] = "later"
    /\ deadline["PeerProbeRound"] = "due"
    /\ runnable = FALSE
    /\ busy = "no"
    /\ recheck = FALSE
    /\ inbox = <<>>
    /\ derived = 0
    /\ task = [phase |-> "wait", fresh |-> TRUE, batch |-> <<>>]
    /\ inputs = 0
    /\ overtook = [d \in Deadlines |-> {}]

PendingKinds == {k \in RetryKinds : deadline[k] # "none"}
OperationBlocked == ~runnable \/ busy # "no"

\* The plan holds a recheck delay instead of a deadline.
Blocked ==
    \/ ~runnable /\ PendingKinds # {}
    \/ OperationBlocked /\ deadline["Operation"] # "none"

\* The timers of the published plan that are due: scheduler_plan with
\* next_retry_wakeup_at and next_durable_operation_wakeup_at.
RetryWakeupDue ==
    \/ runnable /\ \E k \in RetryKinds : deadline[k] = "due"
    \/ ~OperationBlocked /\ deadline["Operation"] = "due"
    \/ recheck /\ Blocked

IsDue(t) == IF t = "RetryDue" THEN RetryWakeupDue ELSE deadline[t] = "due"

\* due_kinds lists the due timers in this order.
WhenDue(t) == IF IsDue(t) THEN <<t>> ELSE <<>>
due_kinds == WhenDue("RelayPoll") \o WhenDue("PeerProbeRound") \o WhenDue("RetryDue")

\* The kind next_retry_deadline returns when something is due.
FirstDue(k) ==
    \E i \in DOMAIN RetryOrder :
        /\ RetryOrder[i] = k
        /\ deadline[k] = "due"
        /\ \A j \in 1..(i - 1) : deadline[RetryOrder[j]] # "due"

-----------------------------------------------------------------------------
(* The scheduler task                                                      *)

\* The plan changed while the task slept.
PlanChanged ==
    /\ task.phase = "wait" /\ ~task.fresh
    /\ task' = [task EXCEPT !.fresh = TRUE]
    /\ UNCHANGED <<deadline, runnable, busy, recheck, inbox, derived, inputs, overtook>>

\* sleep_until returned.  The plan may have been replaced in the meantime: then
\* the batch comes from an obsolete plan.
DeadlineReached ==
    /\ task.phase = "wait"
    /\ \/ task.fresh /\ due_kinds # <<>> /\ task' = [task EXCEPT !.phase = "send", !.batch = due_kinds]
       \/ ~task.fresh /\ task' = [task EXCEPT !.phase = "send", !.batch = <<"obsolete">>]
    /\ UNCHANGED <<deadline, runnable, busy, recheck, inbox, derived, inputs, overtook>>

\* inbox.send(..).await: the task waits for room.
SendTimer ==
    /\ task.phase = "send"
    /\ Len(inbox) < ENGINE_INBOX_CAPACITY
    /\ inbox' = Append(inbox, Head(task.batch))
    /\ task' = [task EXCEPT !.batch = Tail(@), !.phase = IF Len(task.batch) = 1 THEN "hold" ELSE "send"]
    /\ UNCHANGED <<deadline, runnable, busy, recheck, derived, inputs, overtook>>

\* Seeded fault: the task goes back to sleep without taking the new plan.
Faulty_GenerationChanged ==
    /\ task.phase = "hold" /\ ~task.fresh
    /\ task' = [task EXCEPT !.fresh = TRUE]
    /\ UNCHANGED <<deadline, runnable, busy, recheck, inbox, derived, inputs, overtook>>

\* Another generation was published: the task takes its plan.
GenerationChanged ==
    /\ task.phase = "hold" /\ ~task.fresh
    /\ task' = [task EXCEPT !.phase = "wait", !.fresh = TRUE]
    /\ UNCHANGED <<deadline, runnable, busy, recheck, inbox, derived, inputs, overtook>>

-----------------------------------------------------------------------------
(* Other producers, and time                                               *)

Submit ==
    /\ Len(inbox) < ENGINE_INBOX_CAPACITY
    /\ inputs < MaxInputs
    /\ inbox' = Append(inbox, "input")
    /\ inputs' = inputs + 1
    /\ UNCHANGED <<deadline, runnable, busy, recheck, derived, task, overtook>>

\* The effect worker returns the relay (one worker at a time).
EffectFinished ==
    /\ busy # "no"
    /\ \A i \in DOMAIN inbox : inbox[i] # "outcome"
    /\ Len(inbox) < ENGINE_INBOX_CAPACITY
    /\ inbox' = Append(inbox, "outcome")
    /\ UNCHANGED <<deadline, runnable, busy, recheck, derived, task, inputs, overtook>>

\* Intervals and back-offs are long against a round of the loop: a deadline that
\* was served while another one was due does not pass again before that one.
Elapse(d) ==
    /\ deadline[d] = "later"
    /\ \A e \in Deadlines : deadline[e] = "due" => d \notin overtook[e]
    /\ deadline' = [deadline EXCEPT ![d] = "due"]
    /\ UNCHANGED <<runnable, busy, recheck, inbox, derived, task, inputs, overtook>>

RecheckElapses ==
    /\ ~recheck /\ Blocked
    /\ recheck' = TRUE
    /\ UNCHANGED <<deadline, runnable, busy, inbox, derived, task, inputs, overtook>>

-----------------------------------------------------------------------------
(* The actor                                                               *)

\* Takes the next input from the inbox, when no derived input is left.
Received(what) ==
    derived = 0 /\ inbox # <<>> /\ Head(inbox) = what

\* Seeded fault: the plan is replaced under the same generation.
Faulty_Publish(rest) ==
    /\ inbox' = rest
    /\ task' = [task EXCEPT !.fresh = FALSE]
    /\ recheck' = FALSE

\* scheduler_tx.send_replace with the next generation: queued timers and the
\* task's plan become obsolete, and recheck delays start again.
Publish(rest) ==
    /\ inbox' = [i \in DOMAIN rest |-> IF rest[i] \in Timers THEN "obsolete" ELSE rest[i]]
    /\ task' = [task EXCEPT !.fresh = FALSE, !.batch = [i \in DOMAIN @ |-> "obsolete"]]
    /\ recheck' = FALSE

Serve(served) ==
    overtook' = [d \in Deadlines |->
        IF d \in served THEN {} ELSE IF deadline[d] = "due" THEN overtook[d] \cup served ELSE {}]

\* A command, platform fact, peer event or relay event: it may enqueue, complete
\* or reschedule one durable row and change the connectivity.
ProcessInput ==
    /\ \/ derived > 0 /\ derived' = derived - 1 /\ Publish(inbox)
       \/ Received("input") /\ UNCHANGED derived /\ Publish(Tail(inbox))
    /\ \E k \in RetryKinds \cup {"Operation"}, v \in {"none", "later", "due"} :
        /\ deadline' = [deadline EXCEPT ![k] = v]
        /\ overtook' = [overtook EXCEPT ![k] = {}]
        /\ \/ UNCHANGED busy
           \/ busy = "no" /\ busy' = IF k = "Operation" /\ v = "due" THEN "operation" ELSE "command"
    /\ runnable' \in BOOLEAN
    /\ UNCHANGED inputs

ProcessOutcome ==
    /\ Received("outcome")
    /\ Publish(Tail(inbox))
    /\ busy' = "no"
    /\ \E v \in IF busy = "operation" THEN {"none", "later"} ELSE {deadline["Operation"]} :
        deadline' = [deadline EXCEPT !["Operation"] = v]
    /\ overtook' = IF busy = "operation" THEN [overtook EXCEPT !["Operation"] = {}] ELSE overtook
    /\ UNCHANGED <<runnable, derived, inputs>>

IgnoreTimer ==
    /\ Received("obsolete")
    /\ inbox' = Tail(inbox)
    /\ UNCHANGED <<deadline, runnable, busy, recheck, derived, task, inputs, overtook>>

RunsTimer(t) ==
    /\ Received(t)
    /\ Publish(Tail(inbox))

RelayPoll ==
    /\ RunsTimer("RelayPoll")
    /\ deadline' = [deadline EXCEPT !["RelayPoll"] = "later"]
    /\ Serve({"RelayPoll"})
    /\ \E n \in 0..(MaxInputs - inputs) : derived' = n /\ inputs' = inputs + n
    /\ UNCHANGED <<runnable, busy>>

\* Seeded fault: the round does not schedule the next one.
Faulty_PeerProbeRound ==
    /\ RunsTimer("PeerProbeRound")
    /\ Serve({"PeerProbeRound"})
    /\ UNCHANGED <<deadline, runnable, busy, derived, inputs>>

PeerProbeRound ==
    /\ RunsTimer("PeerProbeRound")
    /\ deadline' = [deadline EXCEPT !["PeerProbeRound"] = "later"]
    /\ Serve({"PeerProbeRound"})
    /\ UNCHANGED <<runnable, busy, derived, inputs>>

\* Seeded fault: a due kind waits until no durable operation is due.
Faulty_run_retry_scheduler_collect(k) ==
    runnable /\ FirstDue(k) /\ deadline["Operation"] = "none"

run_retry_scheduler_collect(k) == runnable /\ FirstDue(k)

\* A flush serves every due row of its kind; the next deadline is another row,
\* the back-off of a failed one, or none.  resume_due_durable_operation hands the
\* operation to an effect worker (it stays Running, hence due), or closes or
\* reschedules it when it cannot be prepared.
RetryDue ==
    LET flushed == {k \in RetryKinds : run_retry_scheduler_collect(k)}
        resumed == {d \in {"Operation"} : ~OperationBlocked /\ deadline[d] = "due"}
    IN
    /\ RunsTimer("RetryDue")
    /\ \E started \in SUBSET resumed :
        /\ \E next \in [(flushed \ Stuck) \cup (resumed \ started) -> {"none", "later"}] :
            deadline' = [d \in Deadlines |-> IF d \in DOMAIN next THEN next[d] ELSE deadline[d]]
        /\ busy' = IF started # {} THEN "operation" ELSE busy
    /\ Serve(flushed \cup resumed)
    /\ UNCHANGED <<runnable, derived, inputs>>

Actor == ProcessInput \/ ProcessOutcome \/ IgnoreTimer \/ RelayPoll \/ PeerProbeRound \/ RetryDue
Task == PlanChanged \/ DeadlineReached \/ SendTimer \/ GenerationChanged

SchedulerNext ==
    \/ Actor
    \/ Task
    \/ Submit
    \/ EffectFinished
    \/ RecheckElapses
    \/ \E d \in Deadlines : Elapse(d)

SchedulerSpec == SchedulerInit /\ [][SchedulerNext]_schedulerVars

\* The actor and the task are never suspended for ever (an await on a channel
\* that stays full would be), effect workers return because every relay request
\* has a timeout, and time passes.
Fairness ==
    /\ WF_schedulerVars(Actor)
    /\ WF_schedulerVars(PlanChanged \/ GenerationChanged \/ DeadlineReached)
    /\ SF_schedulerVars(SendTimer)
    /\ SF_schedulerVars(EffectFinished)

SchedulerFairSpec == SchedulerSpec /\ Fairness

-----------------------------------------------------------------------------
(* Properties                                                              *)

\* Type invariant of the loop, the inbox and the scheduler task.
SchedulerTypeOK ==
    /\ deadline \in [Deadlines -> {"none", "later", "due"}]
    /\ runnable \in BOOLEAN
    /\ busy \in {"no", "command", "operation"}
    /\ recheck \in BOOLEAN
    /\ inbox \in Seq(Input) /\ Len(inbox) <= ENGINE_INBOX_CAPACITY
    /\ derived \in 0..MaxInputs
    /\ task \in [phase : {"wait", "send", "hold"}, fresh : BOOLEAN, batch : Seq(Timers \cup {"obsolete"})]
    /\ task.phase = "send" <=> task.batch # <<>>
    /\ inputs \in 0..MaxInputs
    /\ overtook \in [Deadlines -> SUBSET Deadlines]

\* No lost wake-up: when the task waits for another generation (the last loop of
\* spawn_engine_scheduler) and none has been published, a timer that will make the
\* actor publish one is still in the inbox.
NoLostWakeup ==
    task.phase = "hold" /\ task.fresh =>
        \E i \in DOMAIN inbox : inbox[i] \in Timers

\* The loop and the scheduler task are well typed, and never both wait for the
\* other (spawn_engine_scheduler, process_timer_input).
LoopInv == SchedulerTypeOK /\ NoLostWakeup

\* No early or repeated run: process_timer_input runs a timer only when the
\* deadline of the current plan has passed, however long the timer was queued and
\* whatever rescheduled it meanwhile.
NoEarlyRun ==
    [][\A t \in Timers : RunsTimer(t) => IsDue(t)]_schedulerVars

\* A relay poll or probe round that is due is run, although every other input
\* makes the timer already sent for it obsolete.
DueTimerRuns ==
    \A t \in {"RelayPoll", "PeerProbeRound"} : deadline[t] = "due" ~> deadline[t] # "due"

\* Every durable retry that is due is attempted while the engine is online: no
\* retry kind and no durable operation is starved by the others, a kind whose
\* flush cannot make progress included.
RetriesServed ==
    \A k \in (RetryKinds \ Stuck) \cup {"Operation"} :
        (runnable /\ deadline[k] = "due") ~> (deadline[k] # "due" \/ ~runnable)
=============================================================================
