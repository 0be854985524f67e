----------------------------- MODULE MCTeeproxyd -----------------------------
(* Teeproxyd for TLC. *)
EXTENDS Requests, TLC

PidSymmetry == Permutations(Pids)

=============================================================================
