-------------------------- MODULE MCRabbitConnection ---------------------------
(* Instances of RabbitConnection for TLC. *)
EXTENDS RabbitConnection, TLC

\* Connections are interchangeable.
Interchangeable == Permutations(Conns)
================================================================================
