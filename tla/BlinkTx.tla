------------------------------ MODULE BlinkTx -------------------------------
(***************************************************************************)
(* Blink transactions: the two subquorums that decide about one, the       *)
(* signatures in its slots and the verdicts they amount to                 *)
(* (src/cryptonote_core/tx_blink.h, tx_blink.cpp), and the conflicts       *)
(* between transactions that a mempool sees (tx_pool.cpp).                 *)
(***************************************************************************)
EXTENDS Integers, FiniteSets

CONSTANTS
    Nodes,     \* daemons
    Quorum,    \* Quorum[h]: the blink subquorum generated at height h
    Interval,  \* BLINK_QUORUM_INTERVAL
    Lag,       \* BLINK_QUORUM_LAG
    MinVotes,  \* BLINK_MIN_VOTES
    Size,      \* BLINK_SUBQUORUM_SIZE
    Blinks,    \* transactions put to a quorum: [tx, height]
    Plain,     \* transactions sent without blink
    Inputs     \* Inputs[t]: the key images transaction t spends

Txs == {b.tx : b \in Blinks} \cup Plain

(* blink_tx::quorum_height, for the base (q = 0) and the future subquorum. *)
QuorumHeight(b, q) == b.height - (b.height % Interval) - Lag + q * Interval

QuorumHeights(b) == {QuorumHeight(b, q) : q \in {0, 1}}

Members(b) == UNION {Quorum[h] : h \in QuorumHeights(b)}

(* get_blink_quorums accepts subquorums of MinVotes up to Size members,    *)
(* of heights above 0; 2 * MinVotes > Size stands for the static_assert    *)
(* BLINK_MIN_VOTES > BLINK_SUBQUORUM_SIZE / 2.                             *)
ASSUME BlinkAssumption ==
    /\ IsFiniteSet(Nodes)
    /\ Interval \in Nat \ {0}
    /\ MinVotes \in Nat /\ Size \in Nat
    /\ 2 * MinVotes > Size
    /\ \A b \in Blinks : \A h \in QuorumHeights(b) :
          /\ h > 0
          /\ Quorum[h] \subseteq Nodes
          /\ Cardinality(Quorum[h]) \in MinVotes..Size
    /\ \A t \in Txs : Inputs[t] # {}

Signature(n, ok) == [by |-> n, ok |-> ok]
Signatures == [by : Nodes, ok : BOOLEAN]

SignersOf(S, ok) == {n \in Nodes : Signature(n, ok) \in S}

(* approved(): enough approvals in each subquorum. *)
Approved(b, S) ==
    \A h \in QuorumHeights(b) :
       Cardinality(SignersOf(S, TRUE) \cap Quorum[h]) >= MinVotes

(* Mutant: rejected() with >= for >. *)
RejectedEarly(b, S) ==
    \E h \in QuorumHeights(b) :
       Cardinality(SignersOf(S, FALSE) \cap Quorum[h])
          + (Size - Cardinality(Quorum[h])) >= Size - MinVotes

(* rejected(): too many rejections in one subquorum.  limit_signatures has *)
(* marked the slots beyond a small subquorum as rejected.                  *)
Rejected(b, S) ==
    \E h \in QuorumHeights(b) :
       Cardinality(SignersOf(S, FALSE) \cap Quorum[h])
          + (Size - Cardinality(Quorum[h])) > Size - MinVotes

Decided(b, S) == Approved(b, S) \/ Rejected(b, S)

(* add_prechecked_signature over a list: a slot keeps its first signature. *)
(* A list can hold both kinds of a member that has voted again.            *)
Additions(old, S) ==
    LET taken == {s.by : s \in old}
        free == {s \in S : s.by \notin taken}
    IN {new \in SUBSET free :
           \A s \in free : Cardinality({r \in new : r.by = s.by}) = 1}

Conflict(t, u) == Inputs[t] \cap Inputs[u] # {}

(* Mutant: only the transaction itself counts. *)
ConflictsSelf(p, t) == p \cap {t}

(* have_tx_keyimges_as_spent: the transaction itself counts, if pooled. *)
ConflictsIn(p, t) == {u \in p : Conflict(t, u)}
=============================================================================
