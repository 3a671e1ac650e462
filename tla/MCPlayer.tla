------------------------------ MODULE MCPlayer ------------------------------
(* Player with interchangeable connection addresses, for safety runs.      *)
EXTENDS Player, TLC

Addresses == Permutations(Conns)

=============================================================================
