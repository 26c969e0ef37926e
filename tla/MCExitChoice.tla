---------------------------- MODULE MCExitChoice ----------------------------
(* Every stream names the group g, whose only exit may fail; the hash and the *)
(* score are not used by a round robin.                                       *)
EXTENDS ExitChoice

mc_Hash(target) == 0
mc_Score(source, generation, x) == 0

MCExits == <<"x1", "x2">>
MCGroups == [x1 |-> {"g"}, x2 |-> {}]
MCWeight == [x1 |-> 2, x2 |-> 1]

MCConfigs == {[mode |-> "RoundRobin", policy |-> "Off", flows |-> 1, faulty |-> {"x1"}, until |-> 1,
               asks |-> {[source |-> "a", target |-> "t", group |-> "g"]}]}
=============================================================================
