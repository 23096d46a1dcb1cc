--------------------------- MODULE MCPulseRounds ---------------------------
(* Small instances of PulseRounds: two units of time to a round and two     *)
(* rounds (MaxRound = 1) before miner blocks are taken.                     *)
EXTENDS PulseRounds

\* The masternodes run short for the block of height 2.
ShortAtTwo == {2}
=============================================================================
