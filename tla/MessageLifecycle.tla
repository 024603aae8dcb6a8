--------------------------- MODULE MessageLifecycle ---------------------------
(***************************************************************************)
(* What the outbox promises about a message, without leases, durable       *)
(* operations, attempts, the transport or restarts: the life of a message  *)
(* as its sender sees it.  One event moves at most one message.            *)
(***************************************************************************)
CONSTANT Messages

VARIABLE status

Status == {"unsent", "pending", "sent", "delivered", "read", "failed", "deleted"}

Init == status = [m \in Messages |-> "unsent"]

\* Message m may move from one of `from` to `to`.
Move(m, from, to) ==
    /\ status[m] \in from
    /\ status' = [status EXCEPT ![m] = to]

Submit(m) == Move(m, {"unsent"}, "pending")
Persist(m) == Move(m, {"pending"}, "sent")
Deliver(m) == Move(m, {"pending", "sent"}, "delivered")
Read(m) == Move(m, {"sent", "delivered"}, "read")
Fail(m) == Move(m, {"pending", "sent"}, "failed")
Retry(m) == Move(m, {"failed"}, "pending")
Delete(m) == Move(m, Status \ {"unsent", "deleted"}, "deleted")

Next ==
    \E m \in Messages :
        Submit(m) \/ Persist(m) \/ Deliver(m) \/ Read(m) \/ Fail(m) \/ Retry(m) \/ Delete(m)

Spec == Init /\ [][Next]_status
=============================================================================
