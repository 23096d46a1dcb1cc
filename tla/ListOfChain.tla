---------------------------- MODULE ListOfChain ----------------------------
(***************************************************************************)
(* What the masternode list promises to the rest of the daemon, whatever   *)
(* it caches, archives or stores: it is the list the blocks of the main    *)
(* chain determine.  It follows every block as it is connected, it never   *)
(* holds the effect of a block that is not on the chain, and when blocks   *)
(* are cut off or the daemon restarts it may fall back to an earlier block *)
(* of the same chain, from which it then catches up block by block.        *)
(*                                                                         *)
(* A chain is the sequence of its blocks; the list is represented by the   *)
(* chain it was computed from.                                             *)
(***************************************************************************)
EXTENDS Integers, Sequences

CONSTANT Blocks

VARIABLES
    chain,  \* the main chain
    list    \* the chain the masternode list was computed from

First(c, n) == SubSeq(c, 1, n)

Init == /\ chain = <<>>
        /\ list = <<>>

(* A block joins the main chain and the list with it. *)
Connect(b) ==
    /\ list = chain
    /\ chain' = Append(chain, b)
    /\ list' = chain'

(* The blocks above height n leave; what the list keeps is of the rest. *)
Cut(n) ==
    /\ list = chain
    /\ chain' = First(chain, n)
    /\ \E k \in 0..n : list' = First(chain, k)

(* The list takes in the next block of the chain. *)
CatchUp ==
    /\ Len(list) < Len(chain)
    /\ list' = First(chain, Len(list) + 1)
    /\ UNCHANGED chain

(* The list starts again from what it has for some block of the chain. *)
Restart ==
    /\ \E k \in 0..Len(chain) : list' = First(chain, k)
    /\ UNCHANGED chain

Next == \/ \E b \in Blocks : Connect(b)
        \/ \E n \in 0..(Len(chain) - 1) : Cut(n)
        \/ CatchUp
        \/ Restart

Spec == Init /\ [][Next]_<<chain, list>>

=============================================================================
