-------------------------- MODULE MCMasternodeList --------------------------
(* Model-checking instances of MasternodeList. *)
EXTENDS MasternodeList, TLC

CONSTANT Main  \* one of the blocks

(* A block id stands for the block with everything below it, so the first   *)
(* block at a new height may be given any name: only blocks at heights that *)
(* were reached before compete.                                             *)
Renamed == \A b \in Blocks \ {Main} :
    chain' = Append(chain, b) => Len(chain) < peak

MCNext == Next /\ Renamed
MCSpec == Init /\ [][MCNext]_vars /\ Fairness

=============================================================================
