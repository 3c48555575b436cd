----------------------------- MODULE MCAuthSession -----------------------------
(* Instances of AuthSession for TLC. *)
EXTENDS AuthSession, TLC

\* Requests and replicas are interchangeable.
Interchangeable == Permutations(Requests) \cup Permutations(Backends)
================================================================================
