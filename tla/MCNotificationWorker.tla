------------------------- MODULE MCNotificationWorker --------------------------
(* Instances of NotificationWorker for TLC. *)
EXTENDS NotificationWorker

\* An operator has bound the retry exchange to the consumed queue and the
\* dead-letter exchange to the dead-letter queue.
OperatorBound == [e \in {"retry", "dlx"} |-> IF e = "retry" THEN "main" ELSE "dlq"]
================================================================================
