----------------------------- MODULE MCMeshLink -----------------------------
(***************************************************************************)
(* One session with up to three payloads one way and one the other way.    *)
(***************************************************************************)
EXTENDS MeshLink

MCLoads == {<<3, 1>>, <<1, 3>>}
=============================================================================
