------------------------- MODULE MCCheckpointVoting -------------------------
(* Model-checking instances of CheckpointVoting. *)
EXTENDS CheckpointVoting, TLC

(* Validators are interchangeable, and so are the competing blocks. *)
Permuted == Permutations(Validators) \cup Permutations(Hashes)

=============================================================================
