-------------------------- MODULE MCAssistantStream ----------------------------
(* Instances of AssistantStream for TLC. *)
EXTENDS AssistantStream
================================================================================
