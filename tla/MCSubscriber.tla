----------------------------- MODULE MCSubscriber ------------------------------
(* Instances of Subscriber for TLC. *)
EXTENDS Subscriber, TLC

\* The broker knows only the bindings the code makes.
AsBuilt == [e \in {"retry", "dlx"} |-> "nowhere"]

\* An operator has bound the retry exchange to the consumed queue and the
\* dead-letter exchange to the dead-letter queue.
OperatorBound == [e \in {"retry", "dlx"} |-> IF e = "retry" THEN "main" ELSE "dlq"]

\* An operator has bound the declared retry queue to its exchange and the
\* consumed queue to the .dlx exchange, where expired retries go: dead letters
\* come back too.
RetriesReturn == [e \in {"retry", "dlx"} |-> IF e = "retry" THEN "retry_q" ELSE "main"]

\* Bound on the handlers run, for RetriesReturn's loop: one message is
\* handled twice, the others once.
RunsCapped == \E again \in Messages : \A m \in Messages :
                  runs[m] <= IF m = again THEN 2 ELSE 1

\* Nothing tells messages apart, and no property here is a liveness property.
\* Copies are not interchangeable: FreeCopy chooses among them.
MessagesAlike == Permutations(Messages)
================================================================================
