---------------------------- MODULE MessageRules ----------------------------
(***************************************************************************)
(* The state machine of one outgoing message                               *)
(* (torchat-runtime/src/message_rules.rs): which state a send attempt and  *)
(* which state a transport outcome leads to.  Both rules are partial; the  *)
(* Rust `None` is the value NoState, and every caller turns it into a      *)
(* Conflict error that rolls its transaction back.                         *)
(***************************************************************************)

MessageState == {"QUEUED", "SENDING", "SENT", "DELIVERED", "READ", "FAILED"}

\* The states the retry scheduler still works on (the SQL that lists pending
\* messages selects exactly these).
PendingState == {"QUEUED", "SENDING"}

RetryOutcome == {"PeerUnavailable", "RetryableFailure"}
FailureOutcome == {"PermanentFailure", "PeerAuthenticationFailed", "PeerRejected"}
DeliveredOutcome == {"Delivered", "PeerDelivered"}
SuccessOutcome == DeliveredOutcome \cup {"PeerPersisted"}
MessageTransportOutcome == RetryOutcome \cup FailureOutcome \cup SuccessOutcome

NoState == "none"

message_state_on_send_prepare(current) ==
    IF current \in PendingState THEN "SENDING" ELSE NoState

message_state_after_transport_outcome(current, outcome) ==
    CASE outcome = "PeerPersisted" /\ current = "SENDING" -> "SENT"
      [] outcome = "PeerPersisted" /\ current \in {"SENT", "DELIVERED", "READ"} -> current
      [] outcome \in DeliveredOutcome /\ current \in {"SENDING", "SENT", "DELIVERED"} -> "DELIVERED"
      [] outcome \in DeliveredOutcome /\ current = "READ" -> "READ"
      [] outcome \in RetryOutcome /\ current \in {"QUEUED", "SENDING", "SENT"} -> "QUEUED"
      [] outcome \in FailureOutcome /\ current \in {"QUEUED", "SENDING", "SENT", "FAILED"} -> "FAILED"
      [] OTHER -> NoState
=============================================================================
