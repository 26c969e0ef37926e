--------------------------- MODULE MCFlowDispatch ---------------------------
(***************************************************************************)
(* Instances of FlowDispatch for TLC.  All sessions come from one source,  *)
(* so that its activity counter is shared.                                 *)
(***************************************************************************)
EXTENDS FlowDispatch

CONSTANTS src

MCSource == {src}

MCSourceOf == [s \in Session |-> src]
=============================================================================
