---------------------------- MODULE BlinkQuorum -----------------------------
(***************************************************************************)
(* What the members of the blink subquorums promise together: a member     *)
(* signs an approval only for a transaction its mempool accepts next to    *)
(* all it holds, keeps it there, and gives it up only for a transaction    *)
(* that has its approvals, or when the pool is full.  Locks, threads,      *)
(* messages and restarts are left to Blink, which implements this.         *)
(***************************************************************************)
EXTENDS BlinkTx

VARIABLES
    pool,    \* pool[n]: the transactions of n's mempool
    signed,  \* the signatures made: <<blink, signature>>
    dropped  \* nodes whose full pool has dropped a transaction

vars == <<pool, signed, dropped>>

SignedFor(b) == {s \in Signatures : <<b, s>> \in signed}

Passed(b) == Approved(b, SignedFor(b))

Init ==
    /\ pool = [n \in Nodes |-> {}]
    /\ signed = {}
    /\ dropped = {}

Vote(n, b, ok) == signed' = signed \cup {<<b, Signature(n, ok)>>}

(* The member takes the transaction into its pool and signs an approval. *)
Approve(n, b) ==
    /\ n \in Members(b)
    /\ ConflictsIn(pool[n], b.tx) = {}
    /\ pool' = [pool EXCEPT ![n] = @ \cup {b.tx}]
    /\ Vote(n, b, TRUE)
    /\ UNCHANGED dropped

Reject(n, b) ==
    /\ n \in Members(b)
    /\ Vote(n, b, FALSE)
    /\ UNCHANGED <<pool, dropped>>

(* A node lets go of what conflicts with an approved transaction ... *)
GiveWay(n, b, kept) ==
    /\ Passed(b)
    /\ pool' = [pool EXCEPT ![n] = (@ \ ConflictsIn(@, b.tx)) \cup kept]

(* ... takes it, and may sign it as well; or finds that its chain does not *)
(* allow it.                                                               *)
Accept(n, b) ==
    /\ GiveWay(n, b, {b.tx})
    /\ signed' \in {signed, signed \cup {<<b, Signature(n, TRUE)>>}}
    /\ UNCHANGED dropped

GiveUp(n, b) ==
    /\ b.tx \notin pool[n]
    /\ GiveWay(n, b, {})
    /\ signed' \in {signed, signed \cup {<<b, Signature(n, FALSE)>>}}
    /\ UNCHANGED dropped

(* A transaction from a peer or a wallet. *)
AddTx(n, t) ==
    /\ ConflictsIn(pool[n], t) = {}
    /\ pool' = [pool EXCEPT ![n] = @ \cup {t}]
    /\ UNCHANGED <<signed, dropped>>

(* A full pool drops a transaction to make room. *)
DropTx(n, t) ==
    /\ dropped' = dropped \cup {n}
    /\ pool' = [pool EXCEPT ![n] = @ \ {t}]
    /\ UNCHANGED signed

Next ==
    \E n \in Nodes :
       \/ \E b \in Blinks : \/ Approve(n, b)
                            \/ Reject(n, b)
                            \/ Accept(n, b)
                            \/ GiveUp(n, b)
       \/ \E t \in Txs : AddTx(n, t) \/ DropTx(n, t)

Spec == Init /\ [][Next]_vars

(* Fewer members of every subquorum have dropped a transaction than two    *)
(* majorities of it have in common.                                        *)
Sound ==
    \A b \in Blinks : \A h \in QuorumHeights(b) :
       Cardinality(dropped \cap Quorum[h])
          < 2 * MinVotes - Cardinality(Quorum[h])

(* Two conflicting transactions never both collect the approvals of their  *)
(* subquorums, as long as their authorization heights are close enough to  *)
(* share a subquorum (approved(), the double-spend check of add_tx and     *)
(* remove_blink_conflicts).                                                *)
NoConflictingBlinks ==
    Sound =>
       \A b, c \in Blinks :
          b.tx # c.tx /\ Conflict(b.tx, c.tx) => ~(Passed(b) /\ Passed(c))
=============================================================================
