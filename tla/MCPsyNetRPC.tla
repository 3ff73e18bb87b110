----------------------------- MODULE MCPsyNetRPC -----------------------------
(***************************************************************************)
(* PsyNetRPC for model checking: the symmetry of the calls, for the runs   *)
(* that check no liveness property and give all calls the same role.       *)
(***************************************************************************)
EXTENDS PsyNetRPC_props, TLC

CallSymmetry == Permutations(Calls)
=============================================================================
