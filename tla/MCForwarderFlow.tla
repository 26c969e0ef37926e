-------------------------- MODULE MCForwarderFlow ---------------------------
(* Small instances of ForwarderFlow for TLC. *)
EXTENDS ForwarderFlow

CONSTANT src   \* all sessions come from one source

MCSource == {src}
MCSourceOf == [s \in Session |-> src]
=============================================================================
