---------------------------- MODULE BlinkProofs -----------------------------
(***************************************************************************)
(* Proofs about Blink, for every set of nodes, subquorums, transactions,   *)
(* key images, threads and restarts.  The quorum of members that vote in   *)
(* single steps (BlinkQuorum) never approves two conflicting transactions, *)
(* and the member with its threads and locks votes like one of them.       *)
(*                                                                         *)
(* Why conflicting transactions are not both approved: the first of them   *)
(* that is approved, c, has voters that hold c.tx, give it up for nothing, *)
(* and so never vote for b (Blocks).  Conflicts are not transitive: a      *)
(* voter of b may have given b.tx up for a third transaction and then      *)
(* voted for c.  That is why the invariant speaks of the first approved    *)
(* rival of b and of its voters at that moment.                            *)
(***************************************************************************)
EXTENDS Blink, FiniteSetTheorems, TLAPS

(* Blinks that conflict were authorized at heights with a common subquorum. *)
Neighbours ==
    \A b, c \in Blinks :
       b.tx # c.tx /\ Conflict(b.tx, c.tx)
       => QuorumHeights(b) \cap QuorumHeights(c) # {}

Rival(b, c) == b.tx # c.tx /\ Conflict(b.tx, c.tx)

EnoughVotes(b, V) ==
    \A h \in QuorumHeights(b) : Cardinality(V \cap Quorum[h]) >= MinVotes

(* Promise!Sound, of any set of nodes. *)
FewDropped(D) ==
    \A b \in Blinks : \A h \in QuorumHeights(b) :
       Cardinality(D \cap Quorum[h]) < 2 * MinVotes - Cardinality(Quorum[h])

Voters(b) == {n \in Nodes : <<b, Signature(n, TRUE)>> \in signed}

Passed(b) == EnoughVotes(b, Voters(b))

(* No two transactions of a pool conflict. *)
PoolsAgree ==
    \A n \in Nodes : \A t, u \in pool[n] : t # u => ~Conflict(t, u)

Blocked(b) == \E c \in Blinks : Rival(b, c) /\ Passed(c)

(* A voter keeps the transaction until a rival is approved. *)
VotersKeep ==
    \A b \in Blinks : \A n \in Voters(b) \ dropped :
       b.tx \in pool[n] \/ Blocked(b)

(* The nodes W, enough to approve c, hold c.tx and have not voted for b. *)
Blocks(c, W, b) ==
    /\ Rival(b, c)
    /\ Passed(c)
    /\ EnoughVotes(c, W)
    /\ \A n \in W \ dropped : c.tx \in pool[n] /\ n \notin Voters(b)

FirstRivalBlocks ==
    \A b \in Blinks : Blocked(b) =>
       \E c \in Blinks : \E W \in SUBSET Nodes : Blocks(c, W, b)

QuorumInv ==
    /\ pool \in [Nodes -> SUBSET Txs]
    /\ PoolsAgree
    /\ VotersKeep
    /\ FewDropped(dropped) => FirstRivalBlocks

-----------------------------------------------------------------------------
(* Counting *)

(* approved() asks for MinVotes of each subquorum, a majority of it: two   *)
(* approvals of blinks with a common subquorum have a voter in common that *)
(* has dropped nothing.                                                    *)
LEMMA CommonVoter ==
    ASSUME NEW b \in Blinks, NEW c \in Blinks, Rival(b, c), Neighbours,
           NEW V, NEW W, NEW D,
           EnoughVotes(b, V), EnoughVotes(c, W), FewDropped(D)
    PROVE  \E n \in V \cap W : n \notin D
<1>1. PICK h \in QuorumHeights(b) : h \in QuorumHeights(c)
  BY DEF Neighbours, Rival
<1> DEFINE Q == Quorum[h]
           S == V \cap Q
           T == W \cap Q
           R == D \cap Q
<1>2. /\ IsFiniteSet(Q)
      /\ Cardinality(S) >= MinVotes /\ Cardinality(T) >= MinVotes
      /\ Cardinality(R) < 2 * MinVotes - Cardinality(Q)
  <2>1. Q \subseteq Nodes /\ IsFiniteSet(Nodes)
    BY <1>1, BlinkAssumption
  <2>2. QED
    BY <2>1, <1>1, FS_Subset DEF EnoughVotes, FewDropped
<1>3. /\ IsFiniteSet(S) /\ IsFiniteSet(T) /\ IsFiniteSet(R)
      /\ IsFiniteSet(S \cap T) /\ IsFiniteSet(S \cup T)
  <2>1. /\ S \in SUBSET Q /\ T \in SUBSET Q /\ R \in SUBSET Q
        /\ S \cap T \in SUBSET Q /\ S \cup T \in SUBSET Q
    OBVIOUS
  <2> HIDE DEF S, T, R, Q
  <2>2. QED
    BY <2>1, <1>2, FS_Subset
<1>4. Cardinality(S \cup T) <= Cardinality(Q)
  <2>1. S \cup T \in SUBSET Q
    OBVIOUS
  <2> HIDE DEF S, T, R, Q
  <2>2. QED
    BY <2>1, <1>2, FS_Subset
<1>5. ~(S \cap T \subseteq R)
  <2> HIDE DEF S, T, R, Q
  <2>1. /\ Cardinality(S) \in Nat /\ Cardinality(T) \in Nat
        /\ Cardinality(R) \in Nat /\ Cardinality(Q) \in Nat
        /\ Cardinality(S \cap T) \in Nat /\ Cardinality(S \cup T) \in Nat
    BY <1>2, <1>3, FS_CardinalityType
  <2>2. Cardinality(S \cup T) = Cardinality(S) + Cardinality(T) - Cardinality(S \cap T)
    BY <1>3, FS_Union
  <2>3. Cardinality(S \cap T) > Cardinality(R)
    BY <1>2, <1>4, <2>1, <2>2, BlinkAssumption
  <2>4. S \cap T \subseteq R => Cardinality(S \cap T) <= Cardinality(R)
    BY <1>3, FS_Subset
  <2>5. QED
    BY <2>1, <2>3, <2>4
<1>6. QED
  BY <1>5

(* More votes never undo an approval. *)
LEMMA VotesGrow ==
    ASSUME NEW b \in Blinks, NEW V, NEW W, V \subseteq W, EnoughVotes(b, V)
    PROVE  EnoughVotes(b, W)
<1> SUFFICES ASSUME NEW h \in QuorumHeights(b)
             PROVE  Cardinality(W \cap Quorum[h]) >= MinVotes
  BY DEF EnoughVotes
<1> DEFINE S == V \cap Quorum[h]
           T == W \cap Quorum[h]
<1>1. Cardinality(S) >= MinVotes
  BY DEF EnoughVotes
<1>2. IsFiniteSet(T) /\ S \in SUBSET T
  <2>1. Quorum[h] \subseteq Nodes /\ IsFiniteSet(Nodes)
    BY BlinkAssumption
  <2>2. T \subseteq Nodes
    BY <2>1
  <2>3. QED
    BY <2>1, <2>2, FS_Subset
<1> HIDE DEF S, T
<1>3. Cardinality(S) <= Cardinality(T) /\ IsFiniteSet(S)
  BY <1>2, FS_Subset
<1>4. Cardinality(S) \in Nat /\ Cardinality(T) \in Nat
  BY <1>2, <1>3, FS_CardinalityType
<1>5. Cardinality(T) >= MinVotes
  BY <1>1, <1>3, <1>4, BlinkAssumption
<1>6. QED
  BY <1>5 DEF T

(* Nodes that have dropped something are not forgotten. *)
LEMMA DroppedGrow ==
    ASSUME NEW D, NEW E, D \subseteq E, FewDropped(E)
    PROVE  FewDropped(D)
<1> SUFFICES ASSUME NEW b \in Blinks, NEW h \in QuorumHeights(b)
             PROVE  Cardinality(D \cap Quorum[h])
                       < 2 * MinVotes - Cardinality(Quorum[h])
  BY DEF FewDropped
<1> DEFINE S == D \cap Quorum[h]
           T == E \cap Quorum[h]
           Q == Quorum[h]
<1>1. Cardinality(T) < 2 * MinVotes - Cardinality(Q)
  BY DEF FewDropped
<1>2. IsFiniteSet(T) /\ S \in SUBSET T /\ IsFiniteSet(Q)
  <2>1. Q \subseteq Nodes /\ IsFiniteSet(Nodes)
    BY BlinkAssumption
  <2>2. T \subseteq Nodes
    BY <2>1
  <2>3. QED
    BY <2>1, <2>2, FS_Subset
<1> HIDE DEF S, T, Q
<1>3. Cardinality(S) <= Cardinality(T) /\ IsFiniteSet(S)
  BY <1>2, FS_Subset
<1>4. Cardinality(S) \in Nat /\ Cardinality(T) \in Nat /\ Cardinality(Q) \in Nat
  BY <1>2, <1>3, FS_CardinalityType
<1>5. Cardinality(S) < 2 * MinVotes - Cardinality(Q)
  BY <1>1, <1>3, <1>4, BlinkAssumption
<1>6. QED
  BY <1>5 DEF S, Q

-----------------------------------------------------------------------------
(* The quorum that votes in single steps *)

(* Counting the signatures of an approval is the same in both modules. *)
LEMMA SameCount ==
    ASSUME NEW S
    PROVE  Promise!Cardinality(S) = Cardinality(S)
  BY DEF Promise!Cardinality, Cardinality

(* approved() of all the signatures made counts the voters. *)
LEMMA PassedIs ==
    ASSUME NEW b \in Blinks
    PROVE  Promise!Passed(b) <=> Passed(b)
<1>1. Promise!SignersOf(Promise!SignedFor(b), TRUE) = Voters(b)
  BY DEF Promise!SignersOf, Promise!Signature, Promise!SignedFor, Voters, Signature, Signatures,
         Promise!Signatures
<1>2. Promise!QuorumHeights(b) = QuorumHeights(b)
  BY DEF Promise!QuorumHeights, Promise!QuorumHeight, QuorumHeights, QuorumHeight
<1>3. QED
  BY <1>1, <1>2, SameCount DEF Promise!Passed, Promise!Approved, Passed, EnoughVotes

(* Signatures are never unmade, so a blink that has passed stays so. *)
LEMMA SignedGrow ==
    ASSUME Promise!Next
    PROVE  /\ signed \subseteq signed'
           /\ dropped \subseteq dropped'
           /\ \A b \in Blinks : Voters(b) \subseteq Voters(b)'
           /\ \A b \in Blinks : Passed(b) => Passed(b)'
           /\ \A b \in Blinks : Blocked(b) => Blocked(b)'
<1>1. signed \subseteq signed' /\ dropped \subseteq dropped'
  BY DEF Promise!Next, Promise!Approve, Promise!Reject, Promise!Accept,
         Promise!GiveUp, Promise!AddTx, Promise!DropTx, Promise!Vote
<1>2. \A b \in Blinks : Voters(b) \subseteq Voters(b)'
  BY <1>1 DEF Voters
<1>3. \A b \in Blinks : Passed(b) => Passed(b)'
  BY <1>2, VotesGrow DEF Passed
<1>4. \A b \in Blinks : Blocked(b) => Blocked(b)'
  BY <1>3 DEF Blocked
<1>5. QED
  BY <1>1, <1>2, <1>3, <1>4

(* The double-spend check of add_tx and remove_blink_conflicts keep pools  *)
(* free of conflicts.                                                      *)
LEMMA PoolsStep ==
    ASSUME pool \in [Nodes -> SUBSET Txs], PoolsAgree, Promise!Next
    PROVE  pool' \in [Nodes -> SUBSET Txs] /\ PoolsAgree'
<1>1. \A b \in Blinks : b.tx \in Txs
  BY DEF Txs
<1>2. PICK n \in Nodes :
        \/ \E b \in Blinks : \/ Promise!Approve(n, b)
                             \/ Promise!Reject(n, b)
                             \/ Promise!Accept(n, b)
                             \/ Promise!GiveUp(n, b)
        \/ \E t \in Txs : Promise!AddTx(n, t) \/ Promise!DropTx(n, t)
  BY DEF Promise!Next, Promise!Txs, Txs
<1>3. ASSUME NEW b \in Blinks, Promise!Approve(n, b)
      PROVE  pool' \in [Nodes -> SUBSET Txs] /\ PoolsAgree'
  BY <1>1, <1>3 DEF Promise!Approve, PoolsAgree, Promise!ConflictsIn,
         Promise!Conflict, Conflict
<1>4. ASSUME NEW b \in Blinks, Promise!Reject(n, b)
      PROVE  pool' \in [Nodes -> SUBSET Txs] /\ PoolsAgree'
  BY <1>4 DEF Promise!Reject, PoolsAgree
<1>5. ASSUME NEW b \in Blinks, Promise!Accept(n, b)
      PROVE  pool' \in [Nodes -> SUBSET Txs] /\ PoolsAgree'
  BY <1>1, <1>5 DEF Promise!Accept, Promise!GiveWay, PoolsAgree, Promise!ConflictsIn,
         Promise!Conflict, Conflict
<1>6. ASSUME NEW b \in Blinks, Promise!GiveUp(n, b)
      PROVE  pool' \in [Nodes -> SUBSET Txs] /\ PoolsAgree'
  BY <1>6 DEF Promise!GiveUp, Promise!GiveWay, PoolsAgree, Promise!ConflictsIn,
         Promise!Conflict, Conflict
<1>7. ASSUME NEW t \in Txs, Promise!AddTx(n, t)
      PROVE  pool' \in [Nodes -> SUBSET Txs] /\ PoolsAgree'
  BY <1>7 DEF Promise!AddTx, PoolsAgree, Promise!ConflictsIn,
         Promise!Conflict, Conflict
<1>8. ASSUME NEW t \in Txs, Promise!DropTx(n, t)
      PROVE  pool' \in [Nodes -> SUBSET Txs] /\ PoolsAgree'
  BY <1>8 DEF Promise!DropTx, PoolsAgree
<1>9. QED
  BY <1>2, <1>3, <1>4, <1>5, <1>6, <1>7, <1>8

(* A step of node n takes a transaction out of a pool only when the pool   *)
(* is full or for an approved rival.                                       *)
LEMMA PoolLosses ==
    ASSUME pool \in [Nodes -> SUBSET Txs], Promise!Next,
           NEW m \in Nodes, NEW t \in pool[m], t \notin pool'[m]
    PROVE  \/ m \in dropped'
           \/ \E d \in Blinks : Passed(d) /\ d.tx # t /\ Conflict(d.tx, t)
<1>2. PICK n \in Nodes :
        \/ \E b \in Blinks : \/ Promise!Approve(n, b)
                             \/ Promise!Reject(n, b)
                             \/ Promise!Accept(n, b)
                             \/ Promise!GiveUp(n, b)
        \/ \E u \in Txs : Promise!AddTx(n, u) \/ Promise!DropTx(n, u)
  BY DEF Promise!Next, Promise!Txs, Txs
<1>3. ASSUME NEW b \in Blinks, Promise!Approve(n, b)
      PROVE  FALSE
  BY <1>3 DEF Promise!Approve
<1>4. ASSUME NEW b \in Blinks, Promise!Reject(n, b)
      PROVE  FALSE
  BY <1>4 DEF Promise!Reject
<1>5. ASSUME NEW b \in Blinks, Promise!Accept(n, b)
      PROVE  Passed(b) /\ b.tx # t /\ Conflict(b.tx, t)
  BY <1>5, PassedIs DEF Promise!Accept, Promise!GiveWay,
         Promise!ConflictsIn, Promise!Conflict, Conflict
<1>6. ASSUME NEW b \in Blinks, Promise!GiveUp(n, b)
      PROVE  Passed(b) /\ b.tx # t /\ Conflict(b.tx, t)
  BY <1>6, PassedIs DEF Promise!GiveUp, Promise!GiveWay,
         Promise!ConflictsIn, Promise!Conflict, Conflict
<1>7. ASSUME NEW u \in Txs, Promise!AddTx(n, u)
      PROVE  FALSE
  BY <1>7 DEF Promise!AddTx
<1>8. ASSUME NEW u \in Txs, Promise!DropTx(n, u)
      PROVE  m \in dropped'
  BY <1>8 DEF Promise!DropTx
<1>9. QED
  BY <1>2, <1>3, <1>4, <1>5, <1>6, <1>7, <1>8

(* Who signs an approval has the transaction in its pool, and had nothing  *)
(* there that conflicts with it unless it is approved already.             *)
LEMMA NewVoter ==
    ASSUME pool \in [Nodes -> SUBSET Txs], Promise!Next,
           NEW b \in Blinks, NEW m \in Voters(b)', m \notin Voters(b)
    PROVE  /\ b.tx \in pool'[m]
           /\ ConflictsIn(pool[m], b.tx) = {} \/ Passed(b)
<1>1. m \in Nodes /\ <<b, Signature(m, TRUE)>> \in signed' \ signed
  BY DEF Voters
<1>2. PICK n \in Nodes :
        \/ \E c \in Blinks : \/ Promise!Approve(n, c)
                             \/ Promise!Reject(n, c)
                             \/ Promise!Accept(n, c)
                             \/ Promise!GiveUp(n, c)
        \/ \E u \in Txs : Promise!AddTx(n, u) \/ Promise!DropTx(n, u)
  BY DEF Promise!Next, Promise!Txs, Txs
<1>3. ASSUME NEW c \in Blinks, Promise!Approve(n, c)
      PROVE  b.tx \in pool'[m] /\ ConflictsIn(pool[m], b.tx) = {}
  <2>1. c = b /\ n = m
    BY <1>1, <1>3 DEF Promise!Approve, Promise!Vote, Signature,
           Promise!Signature
  <2>2. QED
    BY <1>3, <2>1 DEF Promise!Approve, Promise!ConflictsIn, Promise!Conflict,
         ConflictsIn, Conflict
<1>4. ASSUME NEW c \in Blinks, Promise!Reject(n, c)
      PROVE  FALSE
  BY <1>1, <1>4 DEF Promise!Reject, Promise!Vote, Signature,
           Promise!Signature
<1>5. ASSUME NEW c \in Blinks, Promise!Accept(n, c)
      PROVE  b.tx \in pool'[m] /\ Passed(b)
  <2>1. c = b /\ n = m
    BY <1>1, <1>5 DEF Promise!Accept, Signature, Promise!Signature
  <2>2. QED
    BY <1>5, <2>1, PassedIs DEF Promise!Accept, Promise!GiveWay
<1>6. ASSUME NEW c \in Blinks, Promise!GiveUp(n, c)
      PROVE  FALSE
  BY <1>1, <1>6 DEF Promise!GiveUp, Signature, Promise!Signature
<1>7. ASSUME NEW u \in Txs, Promise!AddTx(n, u) \/ Promise!DropTx(n, u)
      PROVE  FALSE
  BY <1>1, <1>7 DEF Promise!AddTx, Promise!DropTx
<1>8. QED
  BY <1>2, <1>3, <1>4, <1>5, <1>6, <1>7

(* One step signs for one blink. *)
LEMMA OneVote ==
    ASSUME Promise!Next, NEW b \in Blinks, NEW c \in Blinks, b # c,
           Voters(c)' # Voters(c)
    PROVE  Voters(b)' = Voters(b)
<1>1. \E d \in Blinks, s \in Promise!Signatures : signed' \in {signed, signed \cup {<<d, s>>}}
  <2>1. ASSUME NEW n \in Nodes, NEW ok \in BOOLEAN
        PROVE  Promise!Signature(n, ok) \in Promise!Signatures
    BY DEF Promise!Signature, Promise!Signatures
  <2>2. QED
    BY <2>1 DEF Promise!Next, Promise!Approve, Promise!Reject, Promise!Accept,
           Promise!GiveUp, Promise!AddTx, Promise!DropTx, Promise!Vote
<1>2. QED
  BY <1>1 DEF Voters

(* A voter that gives the transaction up, other than from a full pool,     *)
(* does so for an approved rival (remove_blink_conflicts).                 *)
LEMMA VotersKeepStep ==
    ASSUME pool \in [Nodes -> SUBSET Txs], VotersKeep, Promise!Next
    PROVE  VotersKeep'
<1> SUFFICES ASSUME NEW b \in Blinks, NEW n \in Voters(b)', n \notin dropped'
             PROVE  b.tx \in pool'[n] \/ Blocked(b)'
  BY DEF VotersKeep
<1>1. n \in Nodes /\ n \notin dropped
  BY SignedGrow DEF Voters
<1>2. CASE n \notin Voters(b)
  BY <1>2, NewVoter
<1>3. CASE n \in Voters(b)
  <2>1. b.tx \in pool[n] \/ Blocked(b)
    BY <1>1, <1>3 DEF VotersKeep
  <2>2. CASE Blocked(b)
    BY <2>2, SignedGrow
  <2>3. CASE b.tx \in pool[n] /\ b.tx \notin pool'[n]
    <3>1. PICK d \in Blinks : Passed(d) /\ d.tx # b.tx /\ Conflict(d.tx, b.tx)
      BY <1>1, <2>3, PoolLosses
    <3>2. Blocked(b)
      BY <3>1 DEF Blocked, Rival, Conflict
    <3>3. QED
      BY <3>2, SignedGrow
  <2>4. QED
    BY <2>1, <2>2, <2>3
<1>4. QED
  BY <1>2, <1>3

(* No two rivals are approved while the voters of the first one hold on. *)
LEMMA NoRivals ==
    ASSUME Neighbours, FewDropped(dropped), FirstRivalBlocks,
           NEW b \in Blinks, Passed(b)
    PROVE  ~Blocked(b)
<1> SUFFICES ASSUME Blocked(b) PROVE FALSE
  OBVIOUS
<1>1. PICK c \in Blinks, W \in SUBSET Nodes : Blocks(c, W, b)
  BY DEF FirstRivalBlocks
<1>2. \E n \in Voters(b) \cap W : n \notin dropped
  BY <1>1, CommonVoter DEF Blocks, Passed
<1>3. QED
  BY <1>1, <1>2 DEF Blocks

(* The voters of the first approved rival of b go on holding it and never  *)
(* vote for b.                                                             *)
LEMMA BlocksStep ==
    ASSUME Neighbours, QuorumInv, FewDropped(dropped), Promise!Next,
           NEW b \in Blinks, NEW c \in Blinks, NEW W \in SUBSET Nodes,
           Blocks(c, W, b)
    PROVE  Blocks(c, W, b)'
<1>1. Passed(c)' /\ dropped \subseteq dropped'
  BY SignedGrow DEF Blocks
<1>2. ~Passed(b) /\ ~Blocked(c)
  <2>1. Blocked(b)
    BY DEF Blocks, Blocked
  <2>2. QED
    BY <2>1, NoRivals DEF QuorumInv, Blocks
<1>3. ASSUME NEW n \in W \ dropped'
      PROVE  c.tx \in pool'[n]
  <2>1. n \in Nodes /\ c.tx \in pool[n]
    BY <1>1, <1>3 DEF Blocks
  <2>2. SUFFICES ASSUME c.tx \notin pool'[n] PROVE FALSE
    OBVIOUS
  <2>3. PICK d \in Blinks : Passed(d) /\ d.tx # c.tx /\ Conflict(d.tx, c.tx)
    BY <1>3, <2>1, <2>2, PoolLosses DEF QuorumInv
  <2>4. QED
    BY <1>2, <2>3 DEF Blocked, Rival, Conflict
<1>4. ASSUME NEW n \in W \ dropped'
      PROVE  n \notin Voters(b)'
  <2>1. c.tx \in pool[n] /\ n \notin Voters(b)
    BY <1>1, <1>4 DEF Blocks
  <2>2. ConflictsIn(pool[n], b.tx) # {}
    BY <2>1 DEF ConflictsIn, Blocks, Rival
  <2>3. QED
    BY <1>2, <2>1, <2>2, NewVoter DEF QuorumInv
<1>5. QED
  BY <1>1, <1>3, <1>4 DEF Blocks

(* When c is the first rival of b to be approved, its voters are nodes     *)
(* that hold c.tx and have not voted for b.                                *)
LEMMA BlocksBegin ==
    ASSUME Neighbours, QuorumInv, FewDropped(dropped), FewDropped(dropped'),
           VotersKeep', Promise!Next,
           NEW b \in Blinks, NEW c \in Blinks,
           Rival(b, c), ~Blocked(b), Passed(c)',
           NEW W \in SUBSET Nodes, W = Voters(c)'
    PROVE  Blocks(c, W, b)'
<1>1. ~Blocked(c)
  <2> SUFFICES ASSUME Blocked(c) PROVE FALSE
    OBVIOUS
  <2>1. PICK d \in Blinks, X \in SUBSET Nodes : Blocks(d, X, c)
    BY DEF QuorumInv, FirstRivalBlocks
  <2>2. Blocks(d, X, c)'
    BY <2>1, BlocksStep
  <2>3. \E n \in Voters(c)' \cap X : n \notin dropped'
    BY <2>2, CommonVoter DEF Blocks, Passed
  <2>4. QED
    BY <2>2, <2>3 DEF Blocks
<1>2. ~Passed(c)
  BY DEF Blocked
<1>3. \A d \in Blinks : d # c => Voters(d)' = Voters(d)
  BY <1>2, OneVote DEF Passed
<1>4. ~Blocked(c)'
  BY <1>1, <1>3 DEF Blocked, Rival, Passed
<1>5. ASSUME NEW n \in Voters(c)', n \notin dropped'
      PROVE  c.tx \in pool'[n]
  BY <1>4, <1>5 DEF VotersKeep
<1>6. ASSUME NEW n \in Voters(c)', n \notin dropped', n \in Voters(b)'
      PROVE  FALSE
  <2>1. n \in Nodes /\ n \in Voters(b) /\ n \notin dropped
    BY <1>3, <1>6, SignedGrow DEF Voters, Rival
  <2>2. b.tx \in pool[n]
    BY <2>1 DEF QuorumInv, VotersKeep
  <2>3. Conflict(c.tx, b.tx) /\ Conflict(b.tx, c.tx) /\ b.tx # c.tx
    BY DEF Rival, Conflict
  <2>4. CASE n \in Voters(c)
    <3>1. c.tx \in pool[n]
      BY <1>1, <2>1, <2>4 DEF QuorumInv, VotersKeep
    <3>2. QED
      BY <2>1, <2>2, <2>3, <3>1 DEF QuorumInv, PoolsAgree
  <2>5. CASE n \notin Voters(c)
    <3>1. ConflictsIn(pool[n], c.tx) = {}
      BY <1>2, <1>6, <2>5, NewVoter DEF QuorumInv
    <3>2. QED
      BY <2>2, <2>3, <3>1 DEF ConflictsIn
  <2>6. QED
    BY <2>4, <2>5
<1>7. EnoughVotes(c, W)
  BY DEF Passed
<1>8. QED
  BY <1>5, <1>6, <1>7 DEF Blocks

(* Before the first vote nothing is approved. *)
LEMMA QuorumStart == Promise!Init => QuorumInv
<1> SUFFICES ASSUME Promise!Init PROVE QuorumInv
  OBVIOUS
<1>1. \A b \in Blinks : Voters(b) = {}
  BY DEF Promise!Init, Voters
<1>2. pool \in [Nodes -> SUBSET Txs] /\ PoolsAgree /\ VotersKeep
  BY <1>1 DEF Promise!Init, PoolsAgree, VotersKeep
<1>3. ASSUME NEW b \in Blinks, NEW c \in Blinks, Rival(b, c), Passed(c)
      PROVE  \E W \in SUBSET Nodes : Blocks(c, W, b)
  <2>1. Blocks(c, {}, b)
    BY <1>1, <1>3 DEF Blocks, Passed
  <2>2. QED
    BY <2>1
<1>4. FirstRivalBlocks
  BY <1>3 DEF FirstRivalBlocks, Blocked
<1>5. QED
  BY <1>2, <1>4 DEF QuorumInv

(* Every vote, eviction and loss keeps the invariant. *)
LEMMA QuorumStep ==
    ASSUME Neighbours, QuorumInv, [Promise!Next]_(Promise!vars)
    PROVE  QuorumInv'
<1>1. CASE UNCHANGED Promise!vars
  <2>1. UNCHANGED <<pool, signed, dropped>>
    BY <1>1 DEF Promise!vars
  <2>2. \A b \in Blinks : Voters(b)' = Voters(b)
    BY <2>1 DEF Voters
  <2>3. \A b \in Blinks : (Passed(b)' <=> Passed(b)) /\ (Blocked(b)' <=> Blocked(b))
    BY <2>2 DEF Passed, Blocked
  <2>4. PoolsAgree' /\ VotersKeep'
    BY <2>1, <2>2, <2>3 DEF QuorumInv, PoolsAgree, VotersKeep
  <2>5. FirstRivalBlocks => FirstRivalBlocks'
    BY <2>1, <2>2, <2>3 DEF FirstRivalBlocks, Blocks
  <2>6. QED
    BY <2>1, <2>4, <2>5 DEF QuorumInv
<1>2. CASE Promise!Next
  <2>1. pool' \in [Nodes -> SUBSET Txs] /\ PoolsAgree' /\ VotersKeep'
    BY <1>2, PoolsStep, VotersKeepStep DEF QuorumInv
  <2>2. ASSUME FewDropped(dropped'), NEW b \in Blinks, Blocked(b)'
        PROVE  \E c \in Blinks : \E W \in SUBSET Nodes : Blocks(c, W, b)'
    <3>1. FewDropped(dropped)
      BY <1>2, <2>2, SignedGrow, DroppedGrow
    <3>2. CASE Blocked(b)
      <4>1. PICK c \in Blinks, W \in SUBSET Nodes : Blocks(c, W, b)
        BY <3>1, <3>2 DEF QuorumInv, FirstRivalBlocks
      <4>2. Blocks(c, W, b)'
        BY <1>2, <3>1, <4>1, BlocksStep
      <4>3. QED
        BY <4>2
    <3>3. CASE ~Blocked(b)
      <4>1. PICK c \in Blinks : Rival(b, c) /\ Passed(c)'
        BY <2>2 DEF Blocked
      <4>2. PICK W \in SUBSET Nodes : W = Voters(c)'
        BY DEF Voters
      <4>3. Blocks(c, W, b)'
        BY <1>2, <2>1, <2>2, <3>1, <3>3, <4>1, <4>2, BlocksBegin
      <4>4. QED
        BY <4>3
    <3>4. QED
      BY <3>2, <3>3
  <2>3. FewDropped(dropped') => FirstRivalBlocks'
    BY <2>2 DEF FirstRivalBlocks
  <2>4. QED
    BY <2>1, <2>3 DEF QuorumInv
<1>3. QED
  BY <1>1, <1>2

(* The invariant says that no two rivals are approved. *)
LEMMA QuorumInvImplies ==
    ASSUME Neighbours, QuorumInv
    PROVE  NoConflictingBlinks
<1>1. Promise!Sound <=> FewDropped(dropped)
  <2>1. \A b \in Blinks : Promise!QuorumHeights(b) = QuorumHeights(b)
    BY DEF Promise!QuorumHeights, Promise!QuorumHeight, QuorumHeights, QuorumHeight
  <2>2. QED
    BY <2>1, SameCount DEF Promise!Sound, FewDropped
<1>2. ASSUME FewDropped(dropped), NEW b \in Blinks, NEW c \in Blinks,
             Rival(b, c), Passed(b), Passed(c)
      PROVE  FALSE
  <2>1. Blocked(b)
    BY <1>2 DEF Blocked
  <2>2. QED
    BY <1>2, <2>1, NoRivals DEF QuorumInv
<1>3. QED
  BY <1>1, <1>2, PassedIs DEF NoConflictingBlinks, Promise!NoConflictingBlinks,
         Rival, Promise!Conflict, Conflict

-----------------------------------------------------------------------------
(* The member with its threads *)

(* A thread holds signatures that were made, for a blink of Self's quorums. *)
GoodThread(th) ==
    /\ th \in Threads
    /\ Self \in Members(th.blink)
    /\ \A s \in th.sigs : <<th.blink, s>> \in signed

(* So do the slots of the blink_txs and the signatures kept for later. *)
MemberInv ==
    /\ sigs \in [Blinks -> SUBSET Signatures]
    /\ pending \in [Blinks -> SUBSET Signatures]
    /\ \A b \in Blinks : \A s \in sigs[b] \cup pending[b] : <<b, s>> \in signed
    /\ \A th \in work : GoodThread(th)

(* A blink that approved() finds approved has passed: its signatures were  *)
(* made.                                                                   *)
LEMMA ApprovedPassed ==
    ASSUME NEW b \in Blinks, NEW S, \A s \in S : <<b, s>> \in signed,
           Approved(b, S)
    PROVE  Promise!Passed(b)
<1>1. EnoughVotes(b, SignersOf(S, TRUE))
  BY DEF Approved, EnoughVotes
<1>2. SignersOf(S, TRUE) \subseteq Voters(b)
  BY DEF SignersOf, Voters
<1>3. EnoughVotes(b, Voters(b))
  BY <1>1, <1>2, VotesGrow
<1>4. QED
  BY <1>3, PassedIs DEF Passed

(* A thread that goes on with signatures that were made stays good. *)
LEMMA GoodGoes ==
    ASSUME NEW b \in Blinks, Self \in Members(b), NEW phase \in Phases,
           NEW tag \in BOOLEAN, NEW S \in SUBSET Signatures,
           \A s \in S : <<b, s>> \in signed'
    PROVE  GoodThread(Thread(b, phase, tag, S))'
  BY DEF GoodThread, Thread, Threads

(* The threads that a step leaves alone stay good. *)
LEMMA GoodStays ==
    ASSUME NEW th, GoodThread(th), signed \subseteq signed'
    PROVE  GoodThread(th)'
  BY DEF GoodThread

(* Self's signature is made with the approval or rejection it stands for. *)
LEMMA SignGood ==
    ASSUME MemberInv, NEW th \in work, NEW ok \in BOOLEAN, Sign(th, ok)
    PROVE  /\ signed \subseteq signed'
           /\ \A x \in work' : GoodThread(x)'
<1>1. signed \subseteq signed' /\ <<th.blink, Signature(Self, ok)>> \in signed'
  BY DEF Sign
<1>2. GoodThread(th)
  BY DEF MemberInv
<1> DEFINE next == Thread(th.blink, "sigs", th.tag, th.sigs \cup {Signature(Self, ok)})
<1>3. GoodThread(next)'
  <2>1. Signature(Self, ok) \in Signatures
    BY MemberAssumption DEF Signature, Signatures
  <2>2. /\ th.blink \in Blinks /\ th.tag \in BOOLEAN /\ "sigs" \in Phases
        /\ th.sigs \cup {Signature(Self, ok)} \in SUBSET Signatures
    BY <1>2, <2>1 DEF GoodThread, Threads, Phases
  <2>3. \A s \in th.sigs \cup {Signature(Self, ok)} : <<th.blink, s>> \in signed'
    BY <1>1, <1>2 DEF GoodThread
  <2>4. Self \in Members(th.blink)
    BY <1>2 DEF GoodThread
  <2>5. QED
    BY <2>2, <2>3, <2>4, GoodGoes
<1>4. work' = (work \ {th}) \cup {next}
  BY DEF Sign, Goes
<1> HIDE DEF next
<1>5. QED
  BY <1>1, <1>3, <1>4, GoodStays DEF MemberInv

(* A step that leaves the slots alone and signs only on a good thread. *)
LEMMA MemberKeeps ==
    ASSUME MemberInv, signed \subseteq signed', UNCHANGED <<sigs, pending>>,
           \A th \in work' : GoodThread(th)'
    PROVE  MemberInv'
  BY DEF MemberInv

(* The handlers of a blink submission and of relayed blinks. *)
LEMMA HandleBlinkGood ==
    ASSUME MemberInv, NEW b \in Blinks,
           NotStarted(b) \/ SubmitKnown(b) \/ SubmitNew(b) \/ RelayBlink(b)
    PROVE  MemberInv'
<1>1. CASE NotStarted(b) \/ SubmitKnown(b)
  <2>1. UNCHANGED <<signed, sigs, pending, work>>
    BY <1>1 DEF NotStarted, SubmitKnown, others, quorumState
  <2>2. QED
    BY <2>1, GoodStays, MemberKeeps DEF MemberInv
<1>2. CASE SubmitNew(b)
  <2>1. UNCHANGED <<signed, sigs, pending>> /\ Self \in Members(b)
    BY <1>2 DEF SubmitNew, others, quorumState
  <2>2. work' = work \cup {Thread(b, "store", TRUE, {})}
    BY <1>2 DEF SubmitNew, Starts
  <2>3. GoodThread(Thread(b, "store", TRUE, {}))'
    BY <2>1, GoodGoes DEF Phases
  <2>4. QED
    BY <2>1, <2>2, <2>3, GoodStays, MemberKeeps DEF MemberInv
<1>3. CASE RelayBlink(b)
  <2>1. /\ UNCHANGED <<signed, sigs>> /\ Self \in Members(b)
        /\ pending' = [pending EXCEPT ![b] = {}]
    BY <1>3 DEF RelayBlink, others, Stored
  <2>0. PICK S \in SUBSET Signatures : S = pending[b]
    BY DEF MemberInv
  <2>2. work' = work \cup {Thread(b, "check", FALSE, S)}
    BY <1>3, <2>0 DEF RelayBlink, Starts
  <2>3. GoodThread(Thread(b, "check", FALSE, S))'
    <3>1. \A s \in S : <<b, s>> \in signed'
      BY <2>0, <2>1 DEF MemberInv
    <3>2. QED
      BY <2>1, <3>1, GoodGoes DEF Phases
  <2>4. \A th \in work' : GoodThread(th)'
    BY <2>1, <2>2, <2>3, GoodStays DEF MemberInv
  <2>5. QED
    BY <2>1, <2>4 DEF MemberInv
<1>4. QED
  BY <1>1, <1>2, <1>3

(* Signatures that other members have relayed were made. *)
LEMMA ReceiveGood ==
    ASSUME MemberInv, NEW b \in Blinks, NEW S \in SUBSET Relayed(b),
           ReceiveSignatures(b, S)
    PROVE  MemberInv'
<1>1. S \in SUBSET Signatures /\ \A s \in S : <<b, s>> \in signed
  BY DEF Relayed, Promise!SignedFor, Promise!Signatures, Signatures
<1>2. UNCHANGED <<signed, sigs>> /\ Self \in Members(b)
  BY DEF ReceiveSignatures, others
<1>3. CASE UNCHANGED pending /\ Starts(Thread(b, "sigs", b \in tags, S))
  <2>0. PICK tag \in BOOLEAN : tag = (b \in tags)
    <3>1. (b \in tags) \in BOOLEAN
      OBVIOUS
    <3>2. QED
      BY <3>1
  <2>1. GoodThread(Thread(b, "sigs", tag, S))'
    BY <1>1, <1>2, GoodGoes DEF Phases
  <2>2. work' = work \cup {Thread(b, "sigs", tag, S)}
    BY <1>3, <2>0 DEF Starts
  <2>3. QED
    BY <1>2, <1>3, <2>1, <2>2, GoodStays, MemberKeeps DEF MemberInv
<1>4. CASE UNCHANGED work /\ pending' = [pending EXCEPT ![b] = @ \cup S]
  <2>1. \A th \in work' : GoodThread(th)'
    BY <1>2, <1>4, GoodStays DEF MemberInv
  <2>2. QED
    BY <1>1, <1>2, <1>4, <2>1 DEF MemberInv
<1>5. QED
  BY <1>3, <1>4 DEF ReceiveSignatures

(* The steps of a thread between two locks. *)
LEMMA ThreadGood ==
    ASSUME MemberInv, NEW th \in work, ThreadStep(th)
    PROVE  MemberInv'
<1> USE DEF Phases
<1>0. /\ GoodThread(th) /\ th.blink \in Blinks /\ th.tag \in BOOLEAN
      /\ th.sigs \in SUBSET Signatures /\ Self \in Members(th.blink)
      /\ \A s \in th.sigs : <<th.blink, s>> \in signed
  BY DEF MemberInv, GoodThread, Threads
<1>1. CASE StoreBlink(th)
  <2>1. UNCHANGED <<signed, sigs>>
    BY <1>1 DEF StoreBlink, others
  <2>2. CASE Ends(th) /\ UNCHANGED pending
    BY <2>1, <2>2, GoodStays, MemberKeeps DEF MemberInv, Ends
  <2>3. CASE /\ Stored(th.blink, TRUE)
             /\ Goes(th, Thread(th.blink, "check", TRUE, pending[th.blink]))
    <3>0. PICK S \in SUBSET Signatures : S = pending[th.blink]
      BY <1>0 DEF MemberInv
    <3>1. \A s \in S : <<th.blink, s>> \in signed'
      BY <1>0, <2>1, <3>0 DEF MemberInv
    <3>2. GoodThread(Thread(th.blink, "check", TRUE, S))'
      BY <1>0, <3>1, GoodGoes
    <3>3. \A x \in work' : GoodThread(x)'
      BY <2>1, <2>3, <3>0, <3>2, GoodStays DEF MemberInv, Goes
    <3>4. pending' = [pending EXCEPT ![th.blink] = {}]
      BY <2>3 DEF Stored
    <3>5. QED
      BY <2>1, <3>3, <3>4 DEF MemberInv
  <2>4. QED
    BY <1>1, <2>2, <2>3 DEF StoreBlink
<1>2. CASE CheckBlink(th)
  <2>1. UNCHANGED <<sigs, pending>>
    BY <1>2 DEF CheckBlink, quorumState
  <2>2. CASE Sign(th, FALSE)
    BY <2>1, <2>2, SignGood, MemberKeeps
  <2>3. CASE /\ Goes(th, Thread(th.blink, "add", th.tag, th.sigs))
             /\ UNCHANGED signed
    <3>1. GoodThread(Thread(th.blink, "add", th.tag, th.sigs))'
      BY <1>0, <2>3, GoodGoes
    <3>2. QED
      BY <2>1, <2>3, <3>1, GoodStays, MemberKeeps DEF MemberInv, Goes
  <2>4. QED
    BY <1>2, <2>2, <2>3 DEF CheckBlink
<1>3. CASE AddUnapproved(th) \/ AddApproved(th)
  <2>1. UNCHANGED <<sigs, pending>> /\ \E ok \in BOOLEAN : Sign(th, ok)
    BY <1>3 DEF AddUnapproved, AddApproved, quorumState
  <2>2. QED
    BY <2>1, SignGood, MemberKeeps
<1>4. CASE AddSignatures(th)
  <2>1. UNCHANGED <<signed, pending>>
    BY <1>4 DEF AddSignatures, others
  <2>2. PICK new \in Additions(sigs[th.blink], th.sigs) :
          /\ sigs' = [sigs EXCEPT ![th.blink] = sigs[th.blink] \cup new]
          /\ Goes(th, Thread(th.blink, "record", th.tag, new)) \/ Ends(th)
    BY <1>4 DEF AddSignatures
  <2>3. new \subseteq th.sigs
    BY DEF Additions
  <2>4. GoodThread(Thread(th.blink, "record", th.tag, new))'
    <3>1. new \in SUBSET Signatures /\ \A s \in new : <<th.blink, s>> \in signed'
      BY <1>0, <2>1, <2>3
    <3>2. QED
      BY <1>0, <3>1, GoodGoes
  <2>5. \A x \in work' : GoodThread(x)'
    BY <2>1, <2>2, <2>4, GoodStays DEF MemberInv, Goes, Ends
  <2>6. QED
    BY <1>0, <2>1, <2>2, <2>3, <2>5 DEF MemberInv
<1>5. CASE RecordBlink(th)
  <2>1. UNCHANGED <<signed, sigs, pending>>
    BY <1>5 DEF RecordBlink, others, quorumState
  <2>2. GoodThread(Thread(th.blink, "publish", th.tag, th.sigs))'
    BY <1>0, <2>1, GoodGoes
  <2>3. QED
    BY <1>5, <2>1, <2>2, GoodStays, MemberKeeps DEF MemberInv, Goes, RecordBlink
<1>6. CASE PublishBlink(th)
  <2>1. UNCHANGED <<signed, sigs, pending>> /\ work' = work \ {th}
    BY <1>6 DEF PublishBlink, others, quorumState, Ends
  <2>2. QED
    BY <2>1, GoodStays, MemberKeeps DEF MemberInv
<1>7. QED
  BY <1>1, <1>2, <1>3, <1>4, <1>5, <1>6 DEF ThreadStep

(* Restarts forget the slots, and everything else only reads them. *)
LEMMA MemberStep ==
    ASSUME MemberInv, [Next]_vars
    PROVE  MemberInv'
<1>1. ASSUME UNCHANGED <<sigs, pending, work>>, signed \subseteq signed'
      PROVE  MemberInv'
  BY <1>1, GoodStays, MemberKeeps DEF MemberInv
<1>2. CASE UNCHANGED vars
  BY <1>1, <1>2 DEF vars, others, quorumState
<1>3. CASE HandleBlink
  BY <1>3, HandleBlinkGood DEF HandleBlink
<1>4. CASE HandleSignatures
  BY <1>4, ReceiveGood DEF HandleSignatures
<1>5. CASE \E th \in work : ThreadStep(th)
  BY <1>5, ThreadGood
<1>6. CASE Environment
  <2>1. ASSUME NEW b \in Blinks, ReceiveApproved(b)
        PROVE  MemberInv'
    BY <1>1, <2>1 DEF ReceiveApproved, quorumState
  <2>2. ASSUME NEW t \in Txs, ReceiveTx(t) \/ FillPool(t)
        PROVE  MemberInv'
    BY <1>1, <2>2 DEF ReceiveTx, FillPool, quorumState
  <2>3. CASE Restart
    <3>1. /\ work' = {} /\ UNCHANGED signed
          /\ sigs' = [b \in Blinks |-> {}] /\ pending' = [b \in Blinks |-> {}]
      BY <2>3 DEF Restart, others
    <3>2. QED
      BY <3>1 DEF MemberInv
  <2>4. ASSUME NEW n \in Nodes \ {Self}, OtherStep(n)
        PROVE  MemberInv'
    <3>1. UNCHANGED <<sigs, pending, work>>
      BY <2>4 DEF OtherStep, quorumState
    <3>2. signed \subseteq signed'
      BY <2>4 DEF OtherStep, OtherVotes, OtherAccepts, OtherDrops, Promise!Approve,
             Promise!Reject, Promise!AddTx, Promise!DropTx, Promise!Vote
    <3>3. QED
      BY <1>1, <3>1, <3>2
  <2>5. QED
    BY <1>6, <2>1, <2>2, <2>3, <2>4 DEF Environment
<1>7. QED
  BY <1>2, <1>3, <1>4, <1>5, <1>6 DEF Next

-----------------------------------------------------------------------------
(* Each step of the daemon is a step of the quorum, or none *)

(* The operators of BlinkTx are the same in both modules. *)
LEMMA SameOperators ==
    /\ Promise!Txs = Txs
    /\ \A P, t : Promise!ConflictsIn(P, t) = ConflictsIn(P, t)
    /\ \A n, ok : Promise!Signature(n, ok) = Signature(n, ok)
    /\ \A b : Promise!Members(b) = Members(b)
<1>1. Promise!Txs = Txs
  BY DEF Promise!Txs, Txs
<1>2. \A P, t : Promise!ConflictsIn(P, t) = ConflictsIn(P, t)
  BY DEF Promise!ConflictsIn, Promise!Conflict, ConflictsIn, Conflict
<1>3. \A n, ok : Promise!Signature(n, ok) = Signature(n, ok)
  BY DEF Promise!Signature, Signature
<1>4. \A b : Promise!Members(b) = Members(b)
  BY DEF Promise!Members, Promise!QuorumHeights, Promise!QuorumHeight,
         Members, QuorumHeights, QuorumHeight
<1>5. QED
  BY <1>1, <1>2, <1>3, <1>4

(* add_tx and the signature it leads to. *)
LEMMA AddRefines ==
    ASSUME MemberInv, NEW th \in work,
           CheckBlink(th) \/ AddUnapproved(th) \/ AddApproved(th)
    PROVE  Promise!Next \/ UNCHANGED Promise!vars
<1> DEFINE b == th.blink
<1>0. b \in Blinks /\ Self \in Members(b) /\ Self \in Nodes
  BY MemberAssumption DEF MemberInv, GoodThread, Threads
<1>1. ASSUME Sign(th, FALSE), UNCHANGED <<pool, dropped>>
      PROVE  Promise!Next
  <2>1. Promise!Reject(Self, b)
    BY <1>0, <1>1, SameOperators DEF Promise!Reject, Promise!Vote, Sign
  <2>2. QED
    BY <1>0, <2>1 DEF Promise!Next
<1>2. CASE CheckBlink(th)
  <2>1. UNCHANGED <<pool, dropped>>
    BY <1>2 DEF CheckBlink, poolState
  <2>2. CASE Sign(th, FALSE)
    BY <1>1, <2>1, <2>2
  <2>3. CASE UNCHANGED signed
    BY <2>1, <2>3 DEF Promise!vars
  <2>4. QED
    BY <1>2, <2>2, <2>3 DEF CheckBlink
<1>3. CASE AddUnapproved(th)
  <2>1. CASE Sign(th, FALSE) /\ UNCHANGED pool
    BY <1>1, <1>3, <2>1 DEF AddUnapproved
  <2>2. CASE /\ Accepts(b.tx) /\ Sign(th, TRUE)
             /\ pool' = [pool EXCEPT ![Self] = @ \cup {b.tx}]
    <3>1. Promise!Approve(Self, b)
      BY <1>0, <1>3, <2>2, SameOperators
         DEF AddUnapproved, Accepts, Sign, Promise!Approve, Promise!Vote
    <3>2. QED
      BY <1>0, <3>1 DEF Promise!Next
  <2>3. QED
    BY <1>3, <2>1, <2>2 DEF AddUnapproved
<1>4. CASE AddApproved(th)
  <2>1. Promise!Passed(b) /\ UNCHANGED dropped
    BY <1>0, <1>4, ApprovedPassed DEF AddApproved, MemberInv
  <2>2. CASE Replace(b.tx, {b.tx}) /\ Sign(th, TRUE)
    <3>1. Promise!Accept(Self, b)
      BY <2>1, <2>2, SameOperators
         DEF Replace, Sign, Promise!Accept, Promise!GiveWay
    <3>2. QED
      BY <1>0, <3>1 DEF Promise!Next
  <2>3. CASE Replace(b.tx, {}) /\ Sign(th, FALSE)
    <3>1. Promise!GiveUp(Self, b)
      BY <2>1, <2>3, SameOperators
         DEF Replace, Sign, Promise!GiveUp, Promise!GiveWay
    <3>2. QED
      BY <1>0, <3>1 DEF Promise!Next
  <2>4. CASE Sign(th, FALSE) /\ UNCHANGED poolState
    BY <1>1, <2>1, <2>4 DEF poolState
  <2>5. QED
    BY <1>4, <2>2, <2>3, <2>4 DEF AddApproved
<1>5. QED
  BY <1>2, <1>3, <1>4

(* Approved blinks and transactions from peers, full pools, restarts and   *)
(* the other members.                                                      *)
LEMMA EnvironmentRefines ==
    ASSUME MemberInv, Environment
    PROVE  Promise!Next \/ UNCHANGED Promise!vars
<1>0. Self \in Nodes
  BY MemberAssumption
<1>1. ASSUME NEW b \in Blinks, ReceiveApproved(b)
      PROVE  Promise!Next \/ UNCHANGED Promise!vars
  <2>1. \A s \in Relayed(b) : <<b, s>> \in signed
    BY DEF Relayed, Promise!SignedFor
  <2>2. Promise!Passed(b) /\ UNCHANGED <<signed, dropped>>
    BY <1>1, <2>1, ApprovedPassed DEF ReceiveApproved, Verified
  <2>3. CASE Replace(b.tx, {b.tx})
    <3>1. Promise!Accept(Self, b)
      BY <2>2, <2>3, SameOperators DEF Replace, Promise!Accept, Promise!GiveWay
    <3>2. QED
      BY <1>0, <3>1 DEF Promise!Next
  <2>4. CASE Replace(b.tx, {})
    <3>1. Promise!GiveUp(Self, b)
      BY <2>2, <2>4, SameOperators DEF Replace, Promise!GiveUp, Promise!GiveWay
    <3>2. QED
      BY <1>0, <3>1 DEF Promise!Next
  <2>5. CASE UNCHANGED pool
    BY <2>2, <2>5 DEF Promise!vars
  <2>6. QED
    BY <1>1, <2>3, <2>4, <2>5 DEF ReceiveApproved
<1>2. ASSUME NEW t \in Txs, ReceiveTx(t)
      PROVE  Promise!Next
  <2>1. Promise!AddTx(Self, t)
    BY <1>2, SameOperators DEF ReceiveTx, Accepts, Promise!AddTx
  <2>2. QED
    BY <1>0, <2>1, SameOperators DEF Promise!Next
<1>3. ASSUME NEW t \in Txs, FillPool(t)
      PROVE  Promise!Next
  <2>1. Promise!DropTx(Self, t)
    BY <1>3 DEF FillPool, Promise!DropTx
  <2>2. QED
    BY <1>0, <2>1, SameOperators DEF Promise!Next
<1>4. CASE Restart
  BY <1>4 DEF Restart, others, Promise!vars
<1>5. ASSUME NEW n \in Nodes \ {Self}, OtherStep(n)
      PROVE  Promise!Next
  <2>1. ASSUME NEW b \in Blinks, OtherVotes(n, b)
        PROVE  Promise!Next
    BY <2>1 DEF OtherVotes, Promise!Next
  <2>2. ASSUME NEW b \in Blinks, OtherAccepts(n, b)
        PROVE  Promise!Next
    <3>1. Promise!Accept(n, b)
      BY <2>2 DEF OtherAccepts, Promise!Accept
    <3>2. QED
      BY <3>1 DEF Promise!Next
  <2>3. ASSUME NEW t \in Txs, Promise!AddTx(n, t) \/ OtherDrops(n, t)
        PROVE  Promise!Next
    BY <2>3, SameOperators DEF OtherDrops, Promise!Next
  <2>4. Plain \subseteq Txs
    BY DEF Txs
  <2>5. QED
    BY <1>5, <2>1, <2>2, <2>3, <2>4 DEF OtherStep
<1>6. QED
  BY <1>1, <1>2, <1>3, <1>4, <1>5 DEF Environment

(* Storing, receiving and counting signatures leave pool and votes alone. *)
LEMMA NextRefines ==
    ASSUME MemberInv, [Next]_vars
    PROVE  [Promise!Next]_(Promise!vars)
<1>1. CASE UNCHANGED vars
  BY <1>1 DEF vars, others, Promise!vars
<1>2. CASE HandleBlink
  BY <1>2 DEF HandleBlink, NotStarted, SubmitKnown, SubmitNew, RelayBlink, others,
         Promise!vars
<1>3. CASE HandleSignatures
  BY <1>3 DEF HandleSignatures, ReceiveSignatures, others, Promise!vars
<1>4. ASSUME NEW th \in work, ThreadStep(th)
      PROVE  Promise!Next \/ UNCHANGED Promise!vars
  <2>1. CASE StoreBlink(th) \/ AddSignatures(th) \/ RecordBlink(th) \/ PublishBlink(th)
    BY <2>1 DEF StoreBlink, AddSignatures, RecordBlink, PublishBlink, others,
           Promise!vars
  <2>2. CASE CheckBlink(th) \/ AddUnapproved(th) \/ AddApproved(th)
    BY <2>2, AddRefines
  <2>3. QED
    BY <1>4, <2>1, <2>2 DEF ThreadStep
<1>5. CASE Environment
  BY <1>5, EnvironmentRefines
<1>6. QED
  BY <1>1, <1>2, <1>3, <1>4, <1>5 DEF Next

(* A daemon starts with nothing stored. *)
LEMMA MemberStart == Init => MemberInv
  BY DEF Init, MemberInv

-----------------------------------------------------------------------------

(* A member with its threads, locks, restarts and peer-to-peer traffic     *)
(* (handle_blink, process_blink_signatures, add_tx) votes and keeps its    *)
(* pool like one that does both in a single step.                          *)
THEOREM MemberImplements == Spec => VotesAsPromised
<1>1. Init => Promise!Init
  BY DEF Init
<1>2. MemberInv /\ [Next]_vars => MemberInv'
  BY MemberStep
<1>3. MemberInv /\ [Next]_vars => [Promise!Next]_(Promise!vars)
  BY NextRefines
<1>4. QED
  BY <1>1, <1>2, <1>3, MemberStart, PTL DEF Spec, VotesAsPromised, Promise!Spec

(* Two conflicting transactions authorized at close heights never both     *)
(* collect the approvals of their subquorums (approved()), as long as      *)
(* fewer members of each subquorum have dropped a transaction from a full  *)
(* pool than two majorities of it have in common.                          *)
THEOREM BlinksAgree == ASSUME Neighbours PROVE Spec => []NoConflictingBlinks
<1>1. Promise!Init => QuorumInv
  BY QuorumStart
<1>2. QuorumInv /\ [Promise!Next]_(Promise!vars) => QuorumInv'
  BY QuorumStep
<1>3. QuorumInv => NoConflictingBlinks
  BY QuorumInvImplies
<1>4. Promise!Spec => []NoConflictingBlinks
  BY <1>1, <1>2, <1>3, PTL DEF Promise!Spec
<1>5. QED
  BY <1>4, MemberImplements, PTL DEF VotesAsPromised

-----------------------------------------------------------------------------
(* What is relayed *)

(* m_blinks, the threads that record and publish a blink, and the flag     *)
(* do_not_relay all follow from an approval.                               *)
RelayInv ==
    /\ \A r \in recorded : r \in Blinks /\ Passed(r)
    /\ \A th \in work : th.phase \in {"record", "publish"} => Passed(th.blink)
    /\ \A t \in relayable : t \in Plain \/ \E b \in Blinks : b.tx = t /\ Passed(b)

(* Approvals are never taken back. *)
LEMMA PassedStays ==
    ASSUME MemberInv, [Next]_vars, NEW b \in Blinks, Passed(b)
    PROVE  Passed(b)'
<1>1. CASE Promise!Next
  BY <1>1, SignedGrow
<1>2. CASE UNCHANGED Promise!vars
  BY <1>2 DEF Promise!vars, Passed, Voters
<1>3. QED
  BY <1>1, <1>2, NextRefines

(* A thread that goes on in a phase is in it. *)
LEMMA PhaseOf ==
    ASSUME NEW b, NEW phase, NEW tag, NEW S
    PROVE  /\ Thread(b, phase, tag, S).phase = phase
           /\ Thread(b, phase, tag, S).blink = b
  BY DEF Thread

(* A thread that is going to sign has recorded nothing yet. *)
LEMMA SignPhase ==
    ASSUME NEW th \in work, NEW ok, Sign(th, ok)
    PROVE  \A x \in work' : x \in work \/ x.phase = "sigs"
  BY PhaseOf DEF Sign, Goes

(* A thread's step records, publishes and relays only approved blinks. *)
LEMMA RelayThread ==
    ASSUME MemberInv, RelayInv, NEW th \in work, ThreadStep(th)
    PROVE  RelayInv'
<1>0. /\ th.blink \in Blinks /\ [Next]_vars
      /\ \A x \in work : x.blink \in Blinks
  BY DEF MemberInv, GoodThread, Threads, Next
<1>1. \A b \in Blinks : Passed(b) => Passed(b)'
  BY <1>0, PassedStays
<1>2. \A S : (\A s \in S : <<th.blink, s>> \in signed) /\ Approved(th.blink, S)
             => Passed(th.blink)
  BY <1>0, ApprovedPassed, PassedIs
<1>3. \A x \in work : x.phase \in {"record", "publish"} => Passed(x.blink)'
  BY <1>0, <1>1 DEF RelayInv
<1>4. CASE StoreBlink(th) \/ CheckBlink(th) \/ AddUnapproved(th)
  <2>1. UNCHANGED <<recorded, relayable>>
    BY <1>4 DEF StoreBlink, CheckBlink, AddUnapproved, poolState
  <2>2. \A x \in work' : x \in work \/ x.phase \notin {"record", "publish"}
    <3>1. \/ \E ok \in BOOLEAN : Sign(th, ok)
          \/ Ends(th)
          \/ \E phase \in {"check", "add"} : \E tag, S :
                Goes(th, Thread(th.blink, phase, tag, S))
      BY <1>4 DEF StoreBlink, CheckBlink, AddUnapproved
    <3>2. CASE \E ok \in BOOLEAN : Sign(th, ok)
      BY <3>2, SignPhase
    <3>3. CASE Ends(th)
      BY <3>3 DEF Ends
    <3>4. ASSUME NEW phase \in {"check", "add"}, NEW tag, NEW S,
                 Goes(th, Thread(th.blink, phase, tag, S))
          PROVE  \A x \in work' : x \in work \/ x.phase \notin {"record", "publish"}
      BY <3>4, PhaseOf DEF Goes
    <3>5. QED
      BY <3>1, <3>2, <3>3, <3>4
  <2>3. QED
    BY <1>1, <1>3, <2>1, <2>2 DEF RelayInv
<1>5. CASE AddApproved(th)
  <2>1. Passed(th.blink)'
    BY <1>0, <1>1, <1>2, <1>5 DEF AddApproved, MemberInv
  <2>2. \A r \in recorded' : r \in recorded \/ r = th.blink
    BY <1>5 DEF AddApproved, poolState
  <2>3. \A t \in relayable' : t \in relayable \/ t = th.blink.tx
    BY <1>5 DEF AddApproved, poolState, Replace
  <2>4. \A x \in work' : x \in work \/ x.phase \notin {"record", "publish"}
    <3>1. \E ok \in BOOLEAN : Sign(th, ok)
      BY <1>5 DEF AddApproved
    <3>2. QED
      BY <3>1, SignPhase
  <2>5. QED
    BY <1>0, <1>1, <1>3, <2>1, <2>2, <2>3, <2>4 DEF RelayInv
<1>6. CASE AddSignatures(th)
  <2>1. UNCHANGED <<recorded, relayable, signed>>
    BY <1>6 DEF AddSignatures, others
  <2>2. PICK new \in Additions(sigs[th.blink], th.sigs) :
          \/ /\ Goes(th, Thread(th.blink, "record", th.tag, new))
             /\ Approved(th.blink, sigs[th.blink] \cup new)
          \/ Ends(th)
    BY <1>6 DEF AddSignatures
  <2>3. \A s \in sigs[th.blink] \cup new : <<th.blink, s>> \in signed
    BY <1>0 DEF MemberInv, GoodThread, Additions
  <2>4. CASE Ends(th)
    BY <1>1, <1>3, <2>1, <2>4 DEF Ends, RelayInv
  <2>5. CASE /\ Goes(th, Thread(th.blink, "record", th.tag, new))
             /\ Approved(th.blink, sigs[th.blink] \cup new)
    <3>1. Passed(th.blink)'
      BY <1>0, <1>1, <1>2, <2>3, <2>5
    <3>2. \A x \in work' : x \in work \/ x.blink = th.blink
      BY <2>5 DEF Goes, Thread
    <3>3. QED
      BY <1>1, <1>3, <2>1, <3>1, <3>2 DEF RelayInv
  <2>6. QED
    BY <2>2, <2>4, <2>5
<1>7. CASE RecordBlink(th)
  <2>1. Passed(th.blink)' /\ UNCHANGED relayable
    BY <1>3, <1>7 DEF RecordBlink
  <2>2. \A r \in recorded' : r \in recorded \/ r = th.blink
    BY <1>7 DEF RecordBlink
  <2>3. \A x \in work' : x \in work \/ x.blink = th.blink
    BY <1>7 DEF RecordBlink, Goes, Thread
  <2>4. QED
    BY <1>0, <1>1, <1>3, <2>1, <2>2, <2>3 DEF RelayInv
<1>8. CASE PublishBlink(th)
  <2>1. Passed(th.blink)' /\ UNCHANGED recorded /\ work' \subseteq work
    BY <1>3, <1>8 DEF PublishBlink, Ends
  <2>2. \A t \in relayable' : t \in relayable \/ t = th.blink.tx
    BY <1>8 DEF PublishBlink, SetRelayable
  <2>3. QED
    BY <1>0, <1>1, <1>3, <2>1, <2>2 DEF RelayInv
<1>9. QED
  BY <1>4, <1>5, <1>6, <1>7, <1>8 DEF ThreadStep

(* So do all other steps. *)
LEMMA RelayStep ==
    ASSUME MemberInv, RelayInv, [Next]_vars
    PROVE  RelayInv'
<1>1. /\ \A b \in Blinks : Passed(b) => Passed(b)'
      /\ \A x \in work : x.blink \in Blinks
  BY PassedStays DEF MemberInv, GoodThread, Threads
<1>2. ASSUME recorded' \subseteq recorded, relayable' \subseteq relayable,
             \A x \in work' : x \in work \/ x.phase \notin {"record", "publish"}
      PROVE  RelayInv'
  BY <1>1, <1>2 DEF RelayInv
<1>3. CASE UNCHANGED vars
  BY <1>2, <1>3 DEF vars
<1>4. ASSUME NEW b \in Blinks,
             NotStarted(b) \/ SubmitKnown(b) \/ SubmitNew(b) \/ RelayBlink(b)
      PROVE  RelayInv'
  <2>1. UNCHANGED <<recorded, relayable>>
    BY <1>4 DEF NotStarted, SubmitKnown, SubmitNew, RelayBlink
  <2>2. \/ UNCHANGED work
        \/ \E phase \in {"store", "check"} : \E tag, S :
              Starts(Thread(b, phase, tag, S))
    BY <1>4 DEF NotStarted, SubmitKnown, SubmitNew, RelayBlink
  <2>3. \A x \in work' : x \in work \/ x.phase \notin {"record", "publish"}
    BY <2>2, PhaseOf DEF Starts
  <2>4. QED
    BY <1>2, <2>1, <2>3
<1>5. CASE HandleSignatures
  BY <1>2, <1>5 DEF HandleSignatures, ReceiveSignatures, Starts, Thread
<1>6. CASE \E th \in work : ThreadStep(th)
  BY <1>6, RelayThread
<1>7. CASE Environment
  <2>1. ASSUME NEW b \in Blinks, ReceiveApproved(b)
        PROVE  RelayInv'
    <3>1. \A s \in Relayed(b) : <<b, s>> \in signed
      BY DEF Relayed, Promise!SignedFor
    <3>2. Passed(b)'
      BY <1>1, <2>1, <3>1, ApprovedPassed, PassedIs DEF ReceiveApproved, Verified
    <3>3. /\ recorded' = recorded \cup {b} /\ UNCHANGED work
          /\ \A t \in relayable' : t \in relayable \/ t = b.tx
      BY <2>1 DEF ReceiveApproved, Replace
    <3>4. QED
      BY <1>1, <3>2, <3>3 DEF RelayInv
  <2>2. ASSUME NEW t \in Txs, ReceiveTx(t)
        PROVE  RelayInv'
    <3>1. /\ UNCHANGED <<recorded, work>> /\ relayable' = relayable \cup {t}
          /\ t \in Plain \/ \E r \in recorded : r.tx = t
      BY <2>2 DEF ReceiveTx, TxsOf
    <3>2. QED
      BY <1>1, <3>1 DEF RelayInv
  <2>3. ASSUME NEW t \in Txs, FillPool(t)
        PROVE  RelayInv'
    BY <1>2, <2>3 DEF FillPool
  <2>4. CASE Restart
    BY <1>2, <2>4 DEF Restart
  <2>5. ASSUME NEW n \in Nodes \ {Self}, OtherStep(n)
        PROVE  RelayInv'
    BY <1>2, <2>5 DEF OtherStep
  <2>6. QED
    BY <1>7, <2>1, <2>2, <2>3, <2>4, <2>5 DEF Environment
<1>8. QED
  BY <1>3, <1>4, <1>5, <1>6, <1>7 DEF Next, HandleBlink

(* A blink leaves the quorum as an ordinary transaction, without           *)
(* do_not_relay, only when it has its approvals (set_relayable, add_tx,    *)
(* parse_incoming_blinks), whichever thread, peer or restart comes between. *)
THEOREM OnlyApprovedRelayed == Spec => []RelayedIsApproved
<1>1. Init => MemberInv /\ RelayInv
  BY MemberStart DEF Init, RelayInv
<1>2. MemberInv /\ RelayInv /\ [Next]_vars => MemberInv' /\ RelayInv'
  BY MemberStep, RelayStep
<1>3. RelayInv => RelayedIsApproved
  BY PassedIs DEF RelayInv, RelayedIsApproved
<1>4. QED
  BY <1>1, <1>2, <1>3, PTL DEF Spec

=============================================================================
