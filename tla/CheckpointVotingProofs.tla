----------------------- MODULE CheckpointVotingProofs -----------------------
(***************************************************************************)
(* Proofs about CheckpointVoting: checkpoints that different masternodes   *)
(* store for one height agree, for every number of nodes, validators,      *)
(* competing blocks, reorganisations and restarts.                         *)
(*                                                                         *)
(* The inductive invariant is about three things.  The votes a node holds, *)
(* in its pool, in the hands of its threads and in its checkpoint, were    *)
(* really cast (GoodState).  A validator that has not been re-armed and    *)
(* still has to vote has not voted (NotYetVoted).  The re-armed nodes are  *)
(* few (FewRearmed).                                                       *)
(***************************************************************************)
EXTENDS CheckpointVoting, FiniteSetTheorems, TLAPS

(* Every validator in sigs has voted for h. *)
Backed(h, sigs, V) == \A i \in sigs : Vote(i, h) \in V

GoodCheckpoint(c, V) ==
    \/ c = NoCheckpoint
    \/ /\ c \in [hash : Hashes, sigs : SUBSET Active]
       /\ Enough(c.sigs)
       /\ Backed(c.hash, c.sigs, V)

GoodState(s, V) ==
    /\ s \in NodeStates
    /\ \A h \in Hashes : Backed(h, s.pool[h], V)
    /\ \A w \in s.work : Enough(w.sigs) /\ Backed(w.hash, w.sigs, V)
    /\ GoodCheckpoint(s.checkpoint, V)

NotYetVoted ==
    \A n \in Nodes \ rearmed : node[n].due => \A v \in votes : v.voter # n

FewRearmed == rearmed \subseteq Nodes /\ Cardinality(rearmed) <= MaxRearmed

VotingInv ==
    /\ node \in [Nodes -> NodeStates]
    /\ \A n \in Nodes : GoodState(node[n], votes)
    /\ votes \subseteq Votes
    /\ OneVotePerHeight
    /\ NotYetVoted
    /\ FewRearmed
    /\ reorgs \in 0..MaxReorgs
    /\ restarts \in 0..MaxRestarts

-----------------------------------------------------------------------------
(* Operators *)

(* The sets of voters that the code counts are finite. *)
LEMMA FiniteNodes ==
    /\ IsFiniteSet(Nodes) /\ IsFiniteSet(Validators) /\ IsFiniteSet(Active)
    /\ Active \subseteq Nodes
  BY VotingAssumption, FS_Subset

(* Adding signatures never takes a checkpoint below CHECKPOINT_MIN_VOTES.  *)
LEMMA EnoughGrows ==
    ASSUME NEW S \in SUBSET Active, NEW T \in SUBSET Active, Enough(T)
    PROVE  Enough(S \cup T)
<1>1. IsFiniteSet(S \cup T) /\ T \subseteq S \cup T
  <2>1. S \cup T \subseteq Active
    OBVIOUS
  <2>2. QED
    BY <2>1, FiniteNodes, FS_Subset
<1>2. Cardinality(T) <= Cardinality(S \cup T)
  BY <1>1, FS_Subset
<1>3. IsFiniteSet(T) /\ Cardinality(T) \in Nat /\ Cardinality(S \cup T) \in Nat
  BY <1>1, FS_Subset, FS_CardinalityType
<1>4. QED
  BY <1>2, <1>3, VotingAssumption DEF Enough

(* The state of a node stays good as more votes come into existence.       *)
LEMMA GoodMonotone ==
    ASSUME NEW V, NEW W, V \subseteq W, NEW s, GoodState(s, V)
    PROVE  GoodState(s, W)
  BY DEF GoodState, GoodCheckpoint, Backed

(* handle_checkpoint_vote stores a good checkpoint.                        *)
LEMMA MergeGood ==
    ASSUME NEW V, NEW c, GoodCheckpoint(c, V), NEW h \in Hashes,
           NEW sigs \in SUBSET Active, Enough(sigs), Backed(h, sigs, V)
    PROVE  GoodCheckpoint(Merge(c, h, sigs), V)
<1>1. CASE c.hash = h
  <2>1. c # NoCheckpoint
    BY <1>1, VotingAssumption DEF NoCheckpoint
  <2>2. c \in [hash : Hashes, sigs : SUBSET Active] /\ Backed(c.hash, c.sigs, V)
    BY <2>1 DEF GoodCheckpoint
  <2>3. Merge(c, h, sigs) = [c EXCEPT !.sigs = c.sigs \cup sigs]
    BY <1>1 DEF Merge
  <2>4. Merge(c, h, sigs) = [hash |-> h, sigs |-> c.sigs \cup sigs]
    BY <1>1, <2>2, <2>3
  <2>5. Enough(c.sigs \cup sigs)
    BY <2>2, EnoughGrows
  <2>6. Backed(h, c.sigs \cup sigs, V)
    BY <1>1, <2>2 DEF Backed
  <2>7. QED
    BY <2>2, <2>4, <2>5, <2>6 DEF GoodCheckpoint
<1>2. CASE c.hash # h
  <2>1. Merge(c, h, sigs) = [hash |-> h, sigs |-> sigs]
    BY <1>2 DEF Merge
  <2>2. QED
    BY <2>1 DEF GoodCheckpoint
<1>3. QED
  BY <1>1, <1>2

(* A state is well formed when its fields are.                             *)
LEMMA StateFields ==
    ASSUME NEW a \in Chains, NEW d \in BOOLEAN, NEW p \in [Hashes -> SUBSET Active],
           NEW w \in SUBSET [hash : Hashes, sigs : SUBSET Active], NEW c \in Checkpoints
    PROVE  [chain |-> a, due |-> d, pool |-> p, work |-> w, checkpoint |-> c] \in NodeStates
  BY DEF NodeStates

(* What voting leaves of a node's state, field by field.                   *)
LEMMA CastVoteFields ==
    ASSUME NEW s \in NodeStates, NEW n, MustVote(s, n)
    PROVE  CastVote(s, n) =
             [chain      |-> s.chain,
              due        |-> FALSE,
              pool       |-> [s.pool EXCEPT ![s.chain] = s.pool[s.chain] \cup {n}],
              work       |-> s.work,
              checkpoint |-> IF n \in s.pool[s.chain] THEN s.checkpoint
                             ELSE HandleCheckpointVote(s.checkpoint, s.chain,
                                                       s.pool[s.chain] \cup {n})]
  BY DEF CastVote, NodeStates

(* Voting keeps a node's state good once its vote is counted among the     *)
(* votes cast.                                                             *)
LEMMA CastVoteGood ==
    ASSUME NEW V, NEW s, GoodState(s, V), NEW n,
           MustVote(s, n) => Vote(n, s.chain) \in V
    PROVE  /\ GoodState(CastVote(s, n), V)
           /\ CastVote(s, n).chain = s.chain
           /\ CastVote(s, n).due <=> s.due /\ ~MustVote(s, n)
<1>1. CASE ~MustVote(s, n)
  BY <1>1 DEF CastVote
<1>2. CASE MustVote(s, n)
  <2> DEFINE t == CastVote(s, n)
             sigs == s.pool[s.chain] \cup {n}
  <2>1. s \in NodeStates /\ n \in Active /\ s.chain \in Hashes
    BY <1>2 DEF GoodState, MustVote
  <2>2. s.pool \in [Hashes -> SUBSET Active] /\ s.chain \in Chains
    BY <2>1 DEF NodeStates
  <2>3. sigs \in SUBSET Active
    BY <2>1, <2>2
  <2>4. Backed(s.chain, sigs, V)
    BY <1>2, <2>1 DEF GoodState, Backed
  <2>5. GoodCheckpoint(HandleCheckpointVote(s.checkpoint, s.chain, sigs), V)
    <3>1. GoodCheckpoint(s.checkpoint, V)
      BY DEF GoodState
    <3>2. CASE Enough(sigs)
      <4> HIDE DEF sigs
      <4>1. QED
        BY <2>1, <2>3, <2>4, <3>1, <3>2, MergeGood DEF HandleCheckpointVote
    <3>3. CASE ~Enough(sigs)
      BY <3>1, <3>3 DEF HandleCheckpointVote
    <3>4. QED
      BY <3>2, <3>3
  <2> DEFINE c == IF n \in s.pool[s.chain] THEN s.checkpoint
                  ELSE HandleCheckpointVote(s.checkpoint, s.chain, sigs)
  <2>6. GoodCheckpoint(c, V)
    BY <2>5 DEF GoodState
  <2>7. t = [chain |-> s.chain, due |-> FALSE, pool |-> [s.pool EXCEPT ![s.chain] = sigs],
             work |-> s.work, checkpoint |-> c]
    BY <1>2, <2>1, CastVoteFields
  <2>8. c \in Checkpoints
    BY <2>6 DEF GoodCheckpoint, Checkpoints
  <2>9. s.work \in SUBSET [hash : Hashes, sigs : SUBSET Active]
    BY <2>1 DEF NodeStates
  <2> HIDE DEF c, sigs
  <2>10. t \in NodeStates
    <3> DEFINE p == [s.pool EXCEPT ![s.chain] = sigs]
               a == s.chain
               w == s.work
    <3>1. p \in [Hashes -> SUBSET Active]
      BY <2>2, <2>3
    <3>2. a \in Chains /\ w \in SUBSET [hash : Hashes, sigs : SUBSET Active]
      BY <2>2, <2>9
    <3>3. t = [chain |-> a, due |-> FALSE, pool |-> p, work |-> w, checkpoint |-> c]
      BY <2>7
    <3> HIDE DEF p, a, w, t
    <3>4. [chain |-> a, due |-> FALSE, pool |-> p, work |-> w, checkpoint |-> c] \in NodeStates
      BY <2>8, <3>1, <3>2, StateFields
    <3>5. QED
      BY <3>3, <3>4
  <2>11. \A h \in Hashes : Backed(h, t.pool[h], V)
    BY <2>1, <2>2, <2>4, <2>7 DEF GoodState
  <2>12. t.work = s.work /\ t.checkpoint = c /\ t.chain = s.chain /\ t.due = FALSE
    BY <2>7
  <2>13. GoodState(t, V)
    BY <2>6, <2>10, <2>11, <2>12 DEF GoodState
  <2>14. QED
    BY <1>2, <2>12, <2>13
<1>3. QED
  BY <1>1, <1>2

(* Overwriting one field of a good state.                                  *)
LEMMA GoodWithCheckpoint ==
    ASSUME NEW V, NEW s, GoodState(s, V), NEW c, GoodCheckpoint(c, V)
    PROVE  LET t == [s EXCEPT !.checkpoint = c]
           IN GoodState(t, V) /\ t.chain = s.chain /\ t.due = s.due
<1> DEFINE t == [s EXCEPT !.checkpoint = c]
<1>1. s \in NodeStates
  BY DEF GoodState
<1>2. c \in Checkpoints
  BY DEF GoodCheckpoint, Checkpoints
<1>3. t \in NodeStates
  BY <1>1, <1>2 DEF NodeStates
<1>4. /\ t.chain = s.chain /\ t.due = s.due /\ t.pool = s.pool
      /\ t.work = s.work /\ t.checkpoint = c
  BY <1>1 DEF NodeStates
<1>5. GoodState(t, V)
  <2> HIDE DEF t
  <2>1. QED
    BY <1>3, <1>4 DEF GoodState
<1>6. QED
  BY <1>4, <1>5

(* Only the chain changes: the checkpoint and the votes stay good. *)
LEMMA GoodWithChain ==
    ASSUME NEW V, NEW s, GoodState(s, V), NEW a \in Chains
    PROVE  LET t == [s EXCEPT !.chain = a]
           IN GoodState(t, V) /\ t.chain = a /\ t.due = s.due
<1> DEFINE t == [s EXCEPT !.chain = a]
<1>1. s \in NodeStates
  BY DEF GoodState
<1>2. t \in NodeStates
  BY <1>1 DEF NodeStates
<1>3. /\ t.chain = a /\ t.due = s.due /\ t.pool = s.pool
      /\ t.work = s.work /\ t.checkpoint = s.checkpoint
  BY <1>1 DEF NodeStates
<1>4. GoodState(t, V)
  <2> HIDE DEF t
  <2>1. QED
    BY <1>2, <1>3 DEF GoodState
<1>5. QED
  BY <1>3, <1>4

(* Adding the block of H, with or without a checkpoint attached to it.     *)
LEMMA WithBlockGood ==
    ASSUME NEW V, NEW s, GoodState(s, V), NEW n, NEW h \in Hashes,
           NEW c, GoodCheckpoint(c, V),
           n \in Active /\ s.due => Vote(n, h) \in V
    PROVE  /\ GoodState(WithBlock(s, n, h, c), V)
           /\ WithBlock(s, n, h, c).chain = h
           /\ WithBlock(s, n, h, c).due <=> s.due /\ n \notin Active
<1> DEFINE r == [s EXCEPT !.chain = h]
           t == CastVote(r, n)
<1>1. h \in Chains
  BY DEF Chains
<1>2. GoodState(r, V) /\ r.chain = h /\ r.due = s.due
  BY <1>1, GoodWithChain
<1>3. MustVote(r, n) <=> n \in Active /\ s.due
  <2> HIDE DEF r
  <2>1. QED
    BY <1>2 DEF MustVote
<1>4. GoodState(t, V) /\ t.chain = h /\ (t.due <=> s.due /\ n \notin Active)
  <2> HIDE DEF r
  <2>1. QED
    BY <1>2, <1>3, CastVoteGood
<1>5. CASE c = NoCheckpoint
  <2>1. WithBlock(s, n, h, c) = t
    BY <1>5 DEF WithBlock, StoreAttached
  <2>2. QED
    BY <1>4, <2>1
<1>6. CASE c # NoCheckpoint
  <2>1. WithBlock(s, n, h, c) = [t EXCEPT !.checkpoint = c]
    BY <1>6 DEF WithBlock, StoreAttached
  <2> HIDE DEF t
  <2>2. QED
    BY <1>4, <2>1, GoodWithCheckpoint
<1>7. QED
  BY <1>5, <1>6

(* Detaching the chain.                                                    *)
LEMMA DetachedGood ==
    ASSUME NEW V, NEW s, GoodState(s, V),
           NEW split \in {"above", "ready", "short"}, NEW deep \in BOOLEAN
    PROVE  LET t == Detached(s, split, deep)
           IN GoodState(t, V) /\ (t.due <=> s.due \/ deep)
<1> DEFINE t == Detached(s, split, deep)
           a == ChainAfterDetach(s, split)
           d == DueAfterDetach(s, deep)
           p == PoolAfterDetach(s, split)
           c == CheckpointAfterDetach(s, split)
<1>1. s \in NodeStates
  BY DEF GoodState
<1>2. a \in Chains
  BY <1>1 DEF NodeStates, Chains, ChainAfterDetach
<1>3. d \in BOOLEAN /\ (d <=> s.due \/ deep)
  BY <1>1 DEF NodeStates, DueAfterDetach
<1>4. p \in [Hashes -> SUBSET Active] /\ \A h \in Hashes : Backed(h, p[h], V)
  BY <1>1 DEF NodeStates, EmptyPool, Backed, GoodState, PoolAfterDetach
<1>5. GoodCheckpoint(c, V)
  BY DEF GoodState, GoodCheckpoint, CheckpointAfterDetach
<1>6. c \in Checkpoints
  BY <1>5 DEF GoodCheckpoint, Checkpoints
<1>7. t = [chain |-> a, due |-> d, pool |-> p, work |-> s.work, checkpoint |-> c]
  <2>1. t = [s EXCEPT !.chain = a, !.due = d, !.pool = p, !.checkpoint = c]
    BY DEF Detached
  <2> HIDE DEF t, a, d, p, c
  <2>2. QED
    BY <1>1, <2>1 DEF NodeStates
<1>8. s.work \in SUBSET [hash : Hashes, sigs : SUBSET Active]
  BY <1>1 DEF NodeStates
<1> HIDE DEF t, a, d, p, c
<1>9. t \in NodeStates
  <2> DEFINE w == s.work
  <2>1. w \in SUBSET [hash : Hashes, sigs : SUBSET Active]
    BY <1>8
  <2>2. t = [chain |-> a, due |-> d, pool |-> p, work |-> w, checkpoint |-> c]
    BY <1>7
  <2> HIDE DEF w
  <2>3. QED
    BY <1>2, <1>3, <1>4, <1>6, <2>1, <2>2, StateFields
<1>10. t.due = d /\ t.pool = p /\ t.work = s.work /\ t.checkpoint = c
  BY <1>7
<1>11. GoodState(t, V)
  BY <1>4, <1>5, <1>9, <1>10 DEF GoodState
<1>12. QED
  BY <1>3, <1>10, <1>11 DEF t

-----------------------------------------------------------------------------
(* Steps *)

(* One node n goes to a good state t and casts at most the vote it owed,   *)
(* or any votes if it is one that votes anew.                              *)
NodeStep(n, t) ==
    /\ node' = [node EXCEPT ![n] = t]
    /\ GoodState(t, votes')
    /\ rearmed \subseteq rearmed'
    /\ FewRearmed'
    /\ reorgs' \in 0..MaxReorgs
    /\ restarts' \in 0..MaxRestarts
    /\ \/ votes' = votes /\ (t.due => node[n].due \/ n \in rearmed')
       \/ /\ \E h \in Hashes : votes' = votes \cup {Vote(n, h)}
          /\ n \in Active
          /\ ~t.due
          /\ node[n].due \/ n \in rearmed'
       \/ /\ n \in rearmed' /\ n \in Active
          /\ votes \subseteq votes'
          /\ \A v \in votes' \ votes : \E h \in Hashes : v = Vote(n, h)

(* Such a step preserves the invariant.                                    *)
LEMMA NodeStepInv ==
    ASSUME VotingInv, NEW n \in Nodes, NEW t, NodeStep(n, t)
    PROVE  VotingInv'
<1>1. t \in NodeStates /\ votes \subseteq votes'
  BY DEF NodeStep, GoodState
<1>2. node' \in [Nodes -> NodeStates]
  BY <1>1 DEF NodeStep, VotingInv
<1>3. /\ node'[n] = t
      /\ \A m \in Nodes : m # n => node'[m] = node[m]
  BY DEF NodeStep, VotingInv
<1>4. \A m \in Nodes : GoodState(node'[m], votes')
  <2>1. SUFFICES ASSUME NEW m \in Nodes PROVE GoodState(node'[m], votes')
    OBVIOUS
  <2>2. CASE m = n
    BY <1>3, <2>2 DEF NodeStep
  <2>3. CASE m # n
    <3>1. GoodState(node[m], votes)
      BY DEF VotingInv
    <3>2. GoodState(node[m], votes')
      BY <1>1, <3>1, GoodMonotone
    <3>3. QED
      BY <1>3, <2>3, <3>2
  <2>4. QED
    BY <2>2, <2>3
<1>5. rearmed \subseteq rearmed' /\ FewRearmed'
  BY DEF NodeStep
<1>6. CASE votes' = votes /\ (t.due => node[n].due \/ n \in rearmed')
  <2>1. votes' \subseteq Votes
    BY <1>6 DEF VotingInv
  <2>2. OneVotePerHeight'
    BY <1>5, <1>6 DEF VotingInv, OneVotePerHeight
  <2>3. NotYetVoted'
    BY <1>3, <1>5, <1>6 DEF VotingInv, NotYetVoted
  <2>4. QED
    BY <1>2, <1>4, <1>5, <2>1, <2>2, <2>3 DEF VotingInv, NodeStep
<1>7. CASE /\ \E h \in Hashes : votes' = votes \cup {Vote(n, h)}
           /\ n \in Active
           /\ ~t.due
           /\ node[n].due \/ n \in rearmed'
  <2>1. PICK h \in Hashes : votes' = votes \cup {Vote(n, h)}
    BY <1>7
  <2>2. Vote(n, h) \in Votes /\ Vote(n, h).voter = n
    BY <1>7 DEF Vote, Votes
  <2>3. votes' \subseteq Votes
    BY <2>1, <2>2 DEF VotingInv
  <2>4. n \notin rearmed' => \A v \in votes : v.voter # n
    BY <1>5, <1>7 DEF VotingInv, NotYetVoted
  <2>5. OneVotePerHeight'
    <3>1. SUFFICES ASSUME NEW u \in votes', NEW v \in votes',
                          u.voter = v.voter, u.voter \notin rearmed'
                   PROVE  u = v
      BY DEF OneVotePerHeight
    <3>2. u \in votes /\ v \in votes => u = v
      BY <1>5, <3>1 DEF VotingInv, OneVotePerHeight
    <3>3. QED
      BY <2>1, <2>2, <2>4, <3>1, <3>2
  <2>6. NotYetVoted'
    BY <1>3, <1>5, <1>7, <2>1, <2>2 DEF VotingInv, NotYetVoted
  <2>7. QED
    BY <1>2, <1>4, <1>5, <2>3, <2>5, <2>6 DEF VotingInv, NodeStep
<1>8. CASE /\ n \in rearmed' /\ n \in Active
           /\ votes \subseteq votes'
           /\ \A v \in votes' \ votes : \E h \in Hashes : v = Vote(n, h)
  <2>1. \A v \in votes' \ votes : v \in Votes /\ v.voter = n
    BY <1>8 DEF Vote, Votes
  <2>2. votes' \subseteq Votes
    BY <2>1 DEF VotingInv
  <2>3. OneVotePerHeight'
    <3>1. SUFFICES ASSUME NEW u \in votes', NEW v \in votes',
                          u.voter = v.voter, u.voter \notin rearmed'
                   PROVE  u = v
      BY DEF OneVotePerHeight
    <3>2. u \in votes /\ v \in votes
      BY <1>8, <2>1, <3>1
    <3>3. QED
      BY <1>5, <3>1, <3>2 DEF VotingInv, OneVotePerHeight
  <2>4. NotYetVoted'
    BY <1>3, <1>5, <1>8, <2>1 DEF VotingInv, NotYetVoted
  <2>5. QED
    BY <1>2, <1>4, <1>5, <2>2, <2>3, <2>4 DEF VotingInv, NodeStep
<1>9. QED
  BY <1>6, <1>7, <1>8 DEF NodeStep

(* A node in state s votes if it has to, ends in state t, and W are the    *)
(* votes cast by then.                                                     *)
VotesIfDue(s, t, n, W) ==
    /\ GoodState(t, W)
    /\ \/ W = votes /\ (t.due => s.due)
       \/ /\ \E h \in Hashes : W = votes \cup {Vote(n, h)}
          /\ n \in Active
          /\ ~t.due
          /\ s.due

(* Voting in the block hook, as a change of one node and its votes. *)
LEMMA CastVoteStep ==
    ASSUME NEW s, GoodState(s, votes), NEW n
    PROVE  VotesIfDue(s, CastVote(s, n), n, VotesAfter(s, CastVote(s, n), n))
<1> DEFINE t == CastVote(s, n)
           W == VotesAfter(s, t, n)
<1>1. CASE MustVote(s, n)
  <2> DEFINE X == votes \cup {Vote(n, s.chain)}
  <2>1. GoodState(s, X)
    BY GoodMonotone
  <2>2. GoodState(t, X) /\ t.chain = s.chain /\ ~t.due
    BY <1>1, <2>1, CastVoteGood
  <2>3. s.due /\ n \in Active /\ s.chain \in Hashes
    BY <1>1 DEF MustVote
  <2>4. W = X
    BY <2>2, <2>3 DEF VotesAfter
  <2> HIDE DEF t, W
  <2>5. QED
    BY <2>2, <2>3, <2>4 DEF VotesIfDue, t, W
<1>2. CASE ~MustVote(s, n)
  <2>1. GoodState(t, votes) /\ (t.due <=> s.due)
    BY <1>2, CastVoteGood
  <2>2. W = votes
    BY <2>1 DEF VotesAfter
  <2>3. QED
    BY <2>1, <2>2 DEF VotesIfDue
<1>3. QED
  BY <1>1, <1>2

(* The hooks of quorum cop and checkpoint store after a block. *)
LEMMA BlockStep ==
    ASSUME NEW s, GoodState(s, votes), NEW n, NEW h \in Hashes,
           NEW c, GoodCheckpoint(c, votes)
    PROVE  VotesIfDue(s, WithBlock(s, n, h, c), n, VotesAfter(s, WithBlock(s, n, h, c), n))
<1> DEFINE t == WithBlock(s, n, h, c)
           W == VotesAfter(s, t, n)
<1>1. CASE n \in Active /\ s.due
  <2> DEFINE X == votes \cup {Vote(n, h)}
  <2>1. GoodState(s, X)
    BY GoodMonotone
  <2>2. GoodCheckpoint(c, X)
    BY DEF GoodCheckpoint, Backed
  <2>3. GoodState(t, X) /\ t.chain = h /\ ~t.due
    BY <1>1, <2>1, <2>2, WithBlockGood
  <2>4. W = X
    BY <1>1, <2>3 DEF VotesAfter
  <2>5. QED
    BY <1>1, <2>3, <2>4 DEF VotesIfDue
<1>2. CASE ~(n \in Active /\ s.due)
  <2>1. GoodState(t, votes) /\ (t.due <=> s.due)
    BY <1>2, WithBlockGood
  <2>2. W = votes
    BY <2>1 DEF VotesAfter
  <2>3. QED
    BY <2>1, <2>2 DEF VotesIfDue
<1>3. QED
  BY <1>1, <1>2

(* Checkpoints that arrive with a block are good.                          *)
LEMMA AttachedGood ==
    ASSUME NEW c \in Attached
    PROVE  GoodCheckpoint(c, votes)
  BY DEF Attached, Attachable, GoodCheckpoint, Backed

-----------------------------------------------------------------------------
(* Actions *)

(* Advance keeps the invariant. *)
LEMMA AdvanceInv ==
    ASSUME VotingInv, NEW n \in Nodes, Advance(n)
    PROVE  VotingInv'
<1> DEFINE t == [node[n] EXCEPT !.chain = "ready"]
<1>1. GoodState(node[n], votes) /\ "ready" \in Chains
  BY DEF VotingInv, Chains
<1>2. GoodState(t, votes) /\ t.due = node[n].due
  BY <1>1, GoodWithChain
<1>3. node' = [node EXCEPT ![n] = t]
  BY DEF Advance
<1>4. UNCHANGED <<votes, rearmed, reorgs, restarts>>
  BY DEF Advance
<1> HIDE DEF t
<1>5. NodeStep(n, t)
  BY <1>2, <1>3, <1>4 DEF NodeStep, VotingInv, FewRearmed
<1>6. QED
  BY <1>5, NodeStepInv

(* BlockAdded keeps the invariant. *)
LEMMA BlockAddedInv ==
    ASSUME VotingInv, NEW n \in Nodes, NEW h \in Hashes, NEW c \in Attached,
           BlockAdded(n, h, c)
    PROVE  VotingInv'
<1> DEFINE d == Preferred(node[n], c)
           t == WithBlock(node[n], n, h, d)
<1>1. GoodState(node[n], votes)
  BY DEF VotingInv
<1>2. GoodCheckpoint(d, votes)
  <2>1. GoodCheckpoint(c, votes)
    BY AttachedGood
  <2>2. QED
    BY <2>1 DEF Preferred, GoodCheckpoint
<1>3. /\ node' = [node EXCEPT ![n] = t]
      /\ votes' = VotesAfter(node[n], t, n)
      /\ UNCHANGED <<rearmed, reorgs, restarts>>
  BY DEF BlockAdded
<1> HIDE DEF d
<1>4. VotesIfDue(node[n], t, n, votes')
  BY <1>1, <1>2, <1>3, BlockStep
<1> HIDE DEF t
<1>5. NodeStep(n, t)
  BY <1>3, <1>4 DEF NodeStep, VotesIfDue, VotingInv, FewRearmed
<1>6. QED
  BY <1>5, NodeStepInv

(* LaterBlock keeps the invariant. *)
LEMMA LaterBlockInv ==
    ASSUME VotingInv, NEW n \in Nodes, LaterBlock(n)
    PROVE  VotingInv'
<1> DEFINE t == CastVote(node[n], n)
<1>1. GoodState(node[n], votes)
  BY DEF VotingInv
<1>2. /\ node' = [node EXCEPT ![n] = t]
      /\ votes' = VotesAfter(node[n], t, n)
      /\ UNCHANGED <<rearmed, reorgs, restarts>>
  BY DEF LaterBlock
<1>3. VotesIfDue(node[n], t, n, votes')
  BY <1>1, <1>2, CastVoteStep
<1> HIDE DEF t
<1>4. NodeStep(n, t)
  BY <1>2, <1>3 DEF NodeStep, VotesIfDue, VotingInv, FewRearmed
<1>5. QED
  BY <1>4, NodeStepInv

(* ReceiveVote keeps the invariant. *)
LEMMA ReceiveVoteInv ==
    ASSUME VotingInv, NEW n \in Nodes, NEW v \in votes, ReceiveVote(n, v)
    PROVE  VotingInv'
<1> DEFINE s == node[n]
           sigs == s.pool[v.hash] \cup {v.voter}
           p == [s.pool EXCEPT ![v.hash] = sigs]
           w == IF Enough(sigs) THEN s.work \cup {[hash |-> v.hash, sigs |-> sigs]}
                ELSE s.work
           t == [s EXCEPT !.pool = p, !.work = w]
<1>1. GoodState(s, votes) /\ s \in NodeStates
  BY DEF VotingInv, GoodState
<1>2. s.pool \in [Hashes -> SUBSET Active]
  BY <1>1 DEF NodeStates
<1>3. s.work \in SUBSET [hash : Hashes, sigs : SUBSET Active]
  BY <1>1 DEF NodeStates
<1>4. v.voter \in Active /\ v.hash \in Hashes /\ v = Vote(v.voter, v.hash)
  BY DEF VotingInv, Votes, Vote
<1>5. sigs \in SUBSET Active /\ Backed(v.hash, sigs, votes)
  BY <1>1, <1>2, <1>4 DEF GoodState, Backed
<1>6. node' = [node EXCEPT ![n] = t] /\ UNCHANGED <<votes, rearmed, reorgs, restarts>>
  BY <1>1 DEF ReceiveVote, VotingInv, NodeStates
<1> HIDE DEF s, sigs
<1>7. p \in [Hashes -> SUBSET Active] /\ \A h \in Hashes : Backed(h, p[h], votes)
  BY <1>1, <1>2, <1>4, <1>5 DEF GoodState
<1>8. /\ w \in SUBSET [hash : Hashes, sigs : SUBSET Active]
      /\ \A x \in w : Enough(x.sigs) /\ Backed(x.hash, x.sigs, votes)
  BY <1>1, <1>3, <1>4, <1>5 DEF GoodState
<1> HIDE DEF p, w
<1>9. /\ t \in NodeStates
      /\ t.due = s.due /\ t.pool = p /\ t.work = w /\ t.checkpoint = s.checkpoint
  BY <1>1, <1>7, <1>8 DEF NodeStates
<1> HIDE DEF t
<1>10. GoodState(t, votes)
  BY <1>1, <1>7, <1>8, <1>9 DEF GoodState
<1>11. NodeStep(n, t)
  BY <1>6, <1>9, <1>10 DEF NodeStep, VotingInv, FewRearmed, s
<1>12. QED
  BY <1>11, NodeStepInv

(* FinishVote keeps the invariant. *)
LEMMA FinishVoteInv ==
    ASSUME VotingInv, NEW n \in Nodes, NEW w \in node[n].work, FinishVote(n, w)
    PROVE  VotingInv'
<1> DEFINE s == node[n]
           c == Merge(s.checkpoint, w.hash, w.sigs)
           x == s.work \ {w}
           t == [s EXCEPT !.work = x, !.checkpoint = c]
<1>1. GoodState(s, votes) /\ s \in NodeStates
  BY DEF VotingInv, GoodState
<1>2. s.work \in SUBSET [hash : Hashes, sigs : SUBSET Active]
  BY <1>1 DEF NodeStates
<1>3. w.hash \in Hashes /\ w.sigs \in SUBSET Active
  BY <1>2
<1>4. GoodCheckpoint(c, votes)
  <2>1. Enough(w.sigs) /\ Backed(w.hash, w.sigs, votes) /\ GoodCheckpoint(s.checkpoint, votes)
    BY <1>1 DEF GoodState
  <2> HIDE DEF s
  <2>2. QED
    BY <1>3, <2>1, MergeGood
<1>5. c \in Checkpoints
  BY <1>4 DEF GoodCheckpoint, Checkpoints
<1>6. node' = [node EXCEPT ![n] = t] /\ UNCHANGED <<votes, rearmed, reorgs, restarts>>
  BY DEF FinishVote
<1>7. x \in SUBSET [hash : Hashes, sigs : SUBSET Active] /\ x \subseteq s.work
  BY <1>2
<1> HIDE DEF s, c, x
<1>8. /\ t \in NodeStates
      /\ t.due = s.due /\ t.pool = s.pool /\ t.work = x /\ t.checkpoint = c
  BY <1>1, <1>5, <1>7 DEF NodeStates
<1> HIDE DEF t
<1>9. GoodState(t, votes)
  BY <1>1, <1>4, <1>7, <1>8 DEF GoodState
<1>10. NodeStep(n, t)
  BY <1>6, <1>8, <1>9 DEF NodeStep, VotingInv, FewRearmed, s
<1>11. QED
  BY <1>10, NodeStepInv

(* Re-arming one more node within the bound.                               *)
LEMMA RearmFew ==
    ASSUME VotingInv, NEW n \in Nodes, MayRearm(n)
    PROVE  rearmed \cup {n} \subseteq Nodes /\ Cardinality(rearmed \cup {n}) <= MaxRearmed
  BY DEF VotingInv, FewRearmed, MayRearm

(* Reorg keeps the invariant. *)
LEMMA ReorgInv ==
    ASSUME VotingInv, NEW n \in Nodes, NEW split \in {"above", "ready", "short"},
           NEW deep \in BOOLEAN, Reorg(n, split, deep)
    PROVE  VotingInv'
<1> DEFINE s == node[n]
           t == Detached(s, split, deep)
<1>1. GoodState(s, votes)
  BY DEF VotingInv
<1>2. GoodState(t, votes) /\ (t.due <=> s.due \/ deep)
  BY <1>1, DetachedGood
<1>3. /\ rearmed' = (IF deep THEN rearmed \cup {n} ELSE rearmed)
      /\ deep => MayRearm(n)
      /\ reorgs < MaxReorgs /\ reorgs' = reorgs + 1
      /\ restarts' = restarts
  BY DEF Reorg, RearmedAfter
<1>4. rearmed \subseteq rearmed' /\ FewRearmed' /\ (deep => n \in rearmed')
  <2>1. CASE deep
    BY <1>3, <2>1, RearmFew DEF FewRearmed
  <2>2. CASE ~deep
    BY <1>3, <2>2 DEF FewRearmed, VotingInv
  <2>3. QED
    BY <2>1, <2>2
<1>5. reorgs' \in 0..MaxReorgs /\ restarts' \in 0..MaxRestarts
  BY <1>3, VotingAssumption DEF VotingInv
<1>6. ASSUME NEW u, node' = [node EXCEPT ![n] = u], VotesIfDue(t, u, n, votes')
      PROVE  VotingInv'
  <2> HIDE DEF t
  <2>1. NodeStep(n, u)
    BY <1>2, <1>4, <1>5, <1>6 DEF NodeStep, VotesIfDue
  <2>2. QED
    BY <2>1, NodeStepInv
<1>7. CASE /\ split = "above"
           /\ node' = [node EXCEPT ![n] = CastVote(t, n)]
           /\ votes' = VotesAfter(t, CastVote(t, n), n)
  <2> HIDE DEF t
  <2>1. VotesIfDue(t, CastVote(t, n), n, votes')
    BY <1>2, <1>7, CastVoteStep
  <2>2. QED
    BY <1>6, <1>7, <2>1
<1>8. CASE /\ node' = [node EXCEPT ![n] = t]
           /\ votes' = VotesAfter(t, t, n)
  <2> HIDE DEF t
  <2>1. votes' = votes
    BY <1>8 DEF VotesAfter
  <2>2. VotesIfDue(t, t, n, votes')
    BY <1>2, <2>1 DEF VotesIfDue
  <2>3. QED
    BY <1>6, <1>8, <2>2
<1>9. ASSUME NEW h \in Hashes, NEW c, GoodCheckpoint(c, votes),
             node' = [node EXCEPT ![n] = WithBlock(t, n, h, c)],
             votes' = VotesAfter(t, WithBlock(t, n, h, c), n)
      PROVE  VotingInv'
  <2> HIDE DEF t
  <2>1. VotesIfDue(t, WithBlock(t, n, h, c), n, votes')
    BY <1>2, <1>9, BlockStep
  <2>2. QED
    BY <1>6, <1>9, <2>1
<1>10. QED
  BY <1>7, <1>8, <1>9, AttachedGood DEF Reorg

(* Putting back the old chain s of node n after the detached state w, when *)
(* W1 are the votes cast so far: n casts at most one more vote.            *)
LEMMA RollBackStep ==
    ASSUME NEW W1, votes \subseteq W1, NEW s, GoodState(s, votes), NEW w, GoodState(w, W1),
           NEW n
    PROVE  LET z == RolledBack(s, w, n)
               W2 == W1 \cup VotesAfter(w, z, n)
           IN /\ GoodState(z, W2)
              /\ z.due => w.due
              /\ \/ W2 = W1
                 \/ /\ \E h \in Hashes : W2 = W1 \cup {Vote(n, h)}
                    /\ n \in Active /\ w.due /\ ~z.due
<1> DEFINE z == RolledBack(s, w, n)
           W2 == W1 \cup VotesAfter(w, z, n)
<1>1. s \in NodeStates /\ s.chain \in Chains
  BY DEF GoodState, NodeStates
<1>2. CASE s.chain \in Hashes
  <2> DEFINE X == W1 \cup {Vote(n, s.chain)}
  <2>1. z = WithBlock(w, n, s.chain, s.checkpoint)
    BY <1>2 DEF RolledBack
  <2>2. GoodCheckpoint(s.checkpoint, W1) /\ GoodCheckpoint(s.checkpoint, X)
    BY DEF GoodState, GoodCheckpoint, Backed
  <2>3. GoodState(w, X)
    BY GoodMonotone
  <2> HIDE DEF z
  <2>4. GoodState(z, X) /\ z.chain = s.chain /\ (z.due <=> w.due /\ n \notin Active)
    BY <1>2, <2>1, <2>2, <2>3, WithBlockGood
  <2>5. CASE n \in Active /\ w.due
    <3>1. W2 = X
      BY <2>4, <2>5 DEF VotesAfter
    <3>2. QED
      BY <1>2, <2>4, <2>5, <3>1 DEF z
  <2>6. CASE ~(n \in Active /\ w.due)
    <3>1. GoodState(z, W1)
      BY <1>2, <2>1, <2>2, <2>6, WithBlockGood
    <3>2. W2 = W1
      BY <2>4, <2>6 DEF VotesAfter
    <3>3. QED
      BY <2>4, <3>1, <3>2 DEF z
  <2>7. QED
    BY <2>5, <2>6
<1>3. CASE s.chain \notin Hashes
  <2>1. z = [w EXCEPT !.chain = s.chain]
    BY <1>3 DEF RolledBack
  <2> HIDE DEF z
  <2>2. GoodState(z, W1) /\ z.due = w.due
    BY <1>1, <2>1, GoodWithChain
  <2>3. W2 = W1
    BY <2>2 DEF VotesAfter
  <2>4. QED
    BY <2>2, <2>3 DEF z
<1>4. QED
  BY <1>2, <1>3

(* FailedReorg keeps the invariant. *)
LEMMA FailedReorgInv ==
    ASSUME VotingInv, NEW n \in Nodes, NEW split \in {"ready", "short"},
           NEW deep \in BOOLEAN, NEW again \in BOOLEAN, FailedReorg(n, split, deep, again)
    PROVE  VotingInv'
<1> DEFINE s == node[n]
           t == Detached(s, split, deep)
<1>1. GoodState(s, votes)
  BY DEF VotingInv
<1>2. GoodState(t, votes) /\ (t.due <=> s.due \/ deep)
  BY <1>1, DetachedGood
<1>3. /\ rearmed' = RearmedAfter(n, deep \/ again)
      /\ deep \/ again => MayRearm(n)
      /\ reorgs < MaxReorgs /\ reorgs' = reorgs + 1
      /\ restarts' = restarts
  BY DEF FailedReorg
<1>4. rearmed \subseteq rearmed' /\ FewRearmed' /\ (deep \/ again => n \in rearmed')
  <2>1. CASE deep \/ again
    BY <1>3, <2>1, RearmFew DEF FewRearmed, RearmedAfter
  <2>2. CASE ~(deep \/ again)
    BY <1>3, <2>2 DEF FewRearmed, VotingInv, RearmedAfter
  <2>3. QED
    BY <2>1, <2>2
<1>5. reorgs' \in 0..MaxReorgs /\ restarts' \in 0..MaxRestarts
  BY <1>3, VotingAssumption DEF VotingInv
<1>6. ASSUME NEW u, VotesIfDue(t, u, n, VotesAfter(t, u, n)),
             node' = [node EXCEPT ![n] = RolledBack(s, Detached(u, split, again), n)],
             votes' = VotesAfter(t, u, n)
                        \cup VotesAfter(Detached(u, split, again),
                                        RolledBack(s, Detached(u, split, again), n), n)
      PROVE  VotingInv'
  <2> DEFINE W1 == VotesAfter(t, u, n)
             w == Detached(u, split, again)
             z == RolledBack(s, w, n)
  <2>1. GoodState(u, W1)
    BY <1>6 DEF VotesIfDue
  <2>2. GoodState(w, W1) /\ (w.due <=> u.due \/ again)
    BY <2>1, DetachedGood
  <2>3. votes \subseteq W1
    BY DEF VotesAfter
  <2>4. votes' = W1 \cup VotesAfter(w, z, n) /\ node' = [node EXCEPT ![n] = z]
    BY <1>6
  <2>5. \/ W1 = votes /\ (u.due => t.due)
        \/ /\ \E h \in Hashes : W1 = votes \cup {Vote(n, h)}
           /\ n \in Active /\ ~u.due /\ t.due
    BY <1>6 DEF VotesIfDue
  <2> HIDE DEF W1, w, t, s
  <2>6. /\ GoodState(z, votes')
        /\ z.due => w.due
        /\ \/ votes' = W1
           \/ /\ \E h \in Hashes : votes' = W1 \cup {Vote(n, h)}
              /\ n \in Active /\ w.due /\ ~z.due
    BY <1>1, <2>2, <2>3, <2>4, RollBackStep
  <2> HIDE DEF z
  <2>7. CASE deep \/ again
    <3>1. \/ votes' = votes
          \/ /\ n \in Active
             /\ votes \subseteq votes'
             /\ \A v \in votes' \ votes : \E h \in Hashes : v = Vote(n, h)
      BY <2>3, <2>5, <2>6
    <3>2. NodeStep(n, z)
      BY <1>4, <1>5, <2>4, <2>6, <2>7, <3>1 DEF NodeStep
    <3>3. QED
      BY <3>2, NodeStepInv
  <2>8. CASE ~(deep \/ again)
    <3>1. (w.due <=> u.due) /\ (t.due <=> s.due)
      BY <1>2, <2>2, <2>8
    <3>2. \/ votes' = votes /\ (z.due => s.due)
          \/ /\ \E h \in Hashes : votes' = votes \cup {Vote(n, h)}
             /\ n \in Active /\ ~z.due /\ s.due
      BY <2>5, <2>6, <3>1
    <3>3. NodeStep(n, z)
      BY <1>4, <1>5, <2>4, <2>6, <3>2 DEF NodeStep, s
    <3>4. QED
      BY <3>3, NodeStepInv
  <2>9. QED
    BY <2>7, <2>8
<1>7. VotesIfDue(t, t, n, VotesAfter(t, t, n))
  <2> HIDE DEF t
  <2>1. QED
    BY <1>2 DEF VotesIfDue, VotesAfter
<1>8. ASSUME NEW h \in Hashes, NEW c \in Attached
      PROVE  VotesIfDue(t, WithBlock(t, n, h, c), n, VotesAfter(t, WithBlock(t, n, h, c), n))
  <2> HIDE DEF t
  <2>1. QED
    BY <1>2, AttachedGood, BlockStep
<1>9. QED
  BY <1>6, <1>7, <1>8 DEF FailedReorg

(* Restart keeps the invariant. *)
LEMMA RestartInv ==
    ASSUME VotingInv, NEW n \in Nodes, Restart(n)
    PROVE  VotingInv'
<1> DEFINE s == node[n]
           t == [s EXCEPT !.due = TRUE, !.pool = EmptyPool, !.work = {}]
<1>1. GoodState(s, votes) /\ s \in NodeStates
  BY DEF VotingInv, GoodState
<1>2. node' = [node EXCEPT ![n] = t]
  BY DEF Restart
<1>3. EmptyPool \in [Hashes -> SUBSET Active] /\ \A h \in Hashes : EmptyPool[h] = {}
  BY DEF EmptyPool
<1> HIDE DEF s
<1>4. /\ t \in NodeStates
      /\ t.pool = EmptyPool /\ t.work = {} /\ t.checkpoint = s.checkpoint
  BY <1>1, <1>3 DEF NodeStates
<1> HIDE DEF t
<1>5. GoodState(t, votes)
  BY <1>1, <1>3, <1>4 DEF GoodState, Backed
<1>6. /\ rearmed' = rearmed \cup {n} /\ MayRearm(n)
      /\ restarts < MaxRestarts /\ restarts' = restarts + 1
      /\ votes' = votes /\ reorgs' = reorgs
  BY DEF Restart
<1>7. FewRearmed'
  BY <1>6, RearmFew DEF FewRearmed
<1>8. reorgs' \in 0..MaxReorgs /\ restarts' \in 0..MaxRestarts
  BY <1>6, VotingAssumption DEF VotingInv
<1>9. NodeStep(n, t)
  BY <1>2, <1>5, <1>6, <1>7, <1>8 DEF NodeStep
<1>10. QED
  BY <1>9, NodeStepInv

-----------------------------------------------------------------------------
(* Theorems *)

(* The invariant before the first vote. *)
LEMMA InitInv == Init => VotingInv
<1> SUFFICES ASSUME Init PROVE VotingInv
  OBVIOUS
<1>1. EmptyPool \in [Hashes -> SUBSET Active] /\ \A h \in Hashes : EmptyPool[h] = {}
  BY DEF EmptyPool
<1>2. Fresh \in NodeStates
  BY <1>1 DEF Fresh, NodeStates, Chains, Checkpoints
<1>3. GoodState(Fresh, votes)
  <2>1. Fresh.pool = EmptyPool /\ Fresh.work = {} /\ Fresh.checkpoint = NoCheckpoint
    BY DEF Fresh
  <2>2. QED
    BY <1>1, <1>2, <2>1 DEF GoodState, GoodCheckpoint, Backed
<1>4. node \in [Nodes -> NodeStates] /\ \A n \in Nodes : GoodState(node[n], votes)
  BY <1>2, <1>3 DEF Init
<1>5. FewRearmed
  BY FS_EmptySet, VotingAssumption DEF Init, FewRearmed
<1>6. votes \subseteq Votes /\ OneVotePerHeight /\ NotYetVoted
  BY DEF Init, OneVotePerHeight, NotYetVoted
<1>7. reorgs \in 0..MaxReorgs /\ restarts \in 0..MaxRestarts
  BY VotingAssumption DEF Init
<1>8. QED
  BY <1>4, <1>5, <1>6, <1>7 DEF VotingInv

(* Every step keeps the invariant. *)
LEMMA NextInv == VotingInv /\ [Next]_vars => VotingInv'
<1> SUFFICES ASSUME VotingInv, [Next]_vars PROVE VotingInv'
  OBVIOUS
<1>1. CASE Next
  <2>1. PICK n \in Nodes : NodeAction(n)
    BY <1>1 DEF Next
  <2>2. QED
    BY <2>1, AdvanceInv, BlockAddedInv, LaterBlockInv, ReceiveVoteInv, FinishVoteInv,
       ReorgInv, FailedReorgInv, RestartInv DEF NodeAction
<1>2. CASE UNCHANGED vars
  BY <1>2 DEF vars, VotingInv, OneVotePerHeight, NotYetVoted, FewRearmed
<1>3. QED
  BY <1>1, <1>2

(* The invariant holds throughout. *)
LEMMA Invariance == Spec => []VotingInv
  BY InitInv, NextInv, PTL DEF Spec

(* The state of quorum_cop, the vote pool and the checkpoint store keeps   *)
(* its shape, for every set of nodes, validators and competing blocks.     *)
THEOREM VotingTypeCorrect == Spec => []TypeOK
<1>1. VotingInv => TypeOK
  BY DEF VotingInv, TypeOK, FewRearmed
<1>2. QED
  BY <1>1, Invariance, PTL

(* process_quorums and blockchain_detached never make a validator that was *)
(* neither restarted nor reorganised deeply sign two blocks of one height. *)
THEOREM VotesOnce == Spec => []OneVotePerHeight
<1>1. VotingInv => OneVotePerHeight
  BY DEF VotingInv
<1>2. QED
  BY <1>1, Invariance, PTL

(* Every checkpoint that handle_checkpoint_vote or a block stores carries  *)
(* CHECKPOINT_MIN_VOTES signatures that were made for its block.           *)
THEOREM StoredCheckpointsVerify == Spec => []CheckpointVerifies
<1>1. VotingInv => CheckpointVerifies
  BY DEF VotingInv, CheckpointVerifies, GoodState, GoodCheckpoint, Enough, Backed
<1>2. QED
  BY <1>1, Invariance, PTL

(* Two sets of CHECKPOINT_MIN_VOTES validators share one that voted once.  *)
LEMMA SharedVoter ==
    ASSUME VotingInv, QuorumsOverlap,
           NEW S \in SUBSET Active, NEW T \in SUBSET Active, Enough(S), Enough(T)
    PROVE  \E i \in S \cap T : i \notin rearmed
<1>1. /\ IsFiniteSet(S) /\ IsFiniteSet(T) /\ IsFiniteSet(S \cap T) /\ IsFiniteSet(S \cup T)
      /\ IsFiniteSet(rearmed)
  <2>1. S \cup T \subseteq Active /\ S \cap T \subseteq Active /\ rearmed \subseteq Nodes
    BY DEF VotingInv, FewRearmed
  <2>2. QED
    BY <2>1, FiniteNodes, FS_Subset
<1>2. Cardinality(S \cup T) <= Cardinality(Validators)
  <2>1. S \cup T \subseteq Validators
    BY VotingAssumption
  <2>2. QED
    BY <2>1, FiniteNodes, FS_Subset
<1>3. Cardinality(S \cup T) = Cardinality(S) + Cardinality(T) - Cardinality(S \cap T)
  BY <1>1, FS_Union
<1>4. /\ Cardinality(S) \in Nat /\ Cardinality(T) \in Nat /\ Cardinality(S \cap T) \in Nat
      /\ Cardinality(S \cup T) \in Nat /\ Cardinality(Validators) \in Nat
      /\ Cardinality(rearmed) \in Nat
  BY <1>1, FiniteNodes, FS_CardinalityType
<1>5. Cardinality(S \cap T) > Cardinality(rearmed)
  <2>1. Cardinality(S) >= MinVotes /\ Cardinality(T) >= MinVotes
    BY DEF Enough
  <2>2. Cardinality(rearmed) <= MaxRearmed
    BY DEF VotingInv, FewRearmed
  <2>3. QED
    BY <1>2, <1>3, <1>4, <2>1, <2>2, VotingAssumption DEF QuorumsOverlap
<1>6. SUFFICES ASSUME S \cap T \subseteq rearmed PROVE FALSE
  OBVIOUS
<1>7. Cardinality(S \cap T) <= Cardinality(rearmed)
  BY <1>1, <1>6, FS_Subset
<1>8. QED
  BY <1>4, <1>5, <1>7

(* Masternodes never store checkpoints for two different blocks of one     *)
(* height, provided any two sets of CHECKPOINT_MIN_VOTES validators still  *)
(* overlap when the ones that were restarted or deeply reorganised while   *)
(* the height was voted on are left out.                                   *)
THEOREM CheckpointsAgree == ASSUME QuorumsOverlap PROVE Spec => []CheckpointAgreement
<1>1. VotingInv => CheckpointAgreement
  <2>1. SUFFICES ASSUME VotingInv, NEW m \in Nodes, NEW n \in Nodes,
                        node[m].checkpoint # NoCheckpoint, node[n].checkpoint # NoCheckpoint
                 PROVE  node[m].checkpoint.hash = node[n].checkpoint.hash
    BY DEF CheckpointAgreement
  <2> DEFINE c == node[m].checkpoint
             d == node[n].checkpoint
  <2>2. /\ c \in [hash : Hashes, sigs : SUBSET Active] /\ Enough(c.sigs)
        /\ Backed(c.hash, c.sigs, votes)
    BY <2>1 DEF VotingInv, GoodState, GoodCheckpoint
  <2>3. /\ d \in [hash : Hashes, sigs : SUBSET Active] /\ Enough(d.sigs)
        /\ Backed(d.hash, d.sigs, votes)
    BY <2>1 DEF VotingInv, GoodState, GoodCheckpoint
  <2> HIDE DEF c, d
  <2>4. PICK i \in c.sigs \cap d.sigs : i \notin rearmed
    BY <2>1, <2>2, <2>3, QuorumsOverlap, SharedVoter
  <2>5. Vote(i, c.hash) \in votes /\ Vote(i, d.hash) \in votes
    BY <2>2, <2>3, <2>4 DEF Backed
  <2>6. Vote(i, c.hash) = Vote(i, d.hash)
    BY <2>1, <2>4, <2>5 DEF VotingInv, OneVotePerHeight, Vote
  <2>7. c.hash = d.hash
    BY <2>6 DEF Vote
  <2>8. QED
    BY <2>7 DEF c, d
<1>2. QED
  BY <1>1, Invariance, PTL

-----------------------------------------------------------------------------
(* Signatures are kept *)

Keeps(s, t) ==
    t.chain = s.chain /\ s.checkpoint.hash = t.checkpoint.hash
        => s.checkpoint.sigs \subseteq t.checkpoint.sigs

(* Merging keeps the signatures of a checkpoint of the same block. *)
LEMMA MergeKeeps ==
    ASSUME NEW c \in Checkpoints, NEW h, NEW sigs, Merge(c, h, sigs).hash = c.hash
    PROVE  c.sigs \subseteq Merge(c, h, sigs).sigs
<1>1. CASE c.hash = h
  <2>1. Merge(c, h, sigs) = [c EXCEPT !.sigs = c.sigs \cup sigs]
    BY <1>1 DEF Merge
  <2>2. Merge(c, h, sigs).sigs = c.sigs \cup sigs
    BY <2>1 DEF Checkpoints, NoCheckpoint
  <2>3. QED
    BY <2>2
<1>2. CASE c.hash # h
  BY <1>2 DEF Merge
<1>3. QED
  BY <1>1, <1>2

(* Voting loses no signature of a stored checkpoint. *)
LEMMA CastVoteKeeps ==
    ASSUME NEW s \in NodeStates, NEW n
    PROVE  Keeps(s, CastVote(s, n))
<1>1. CASE ~MustVote(s, n)
  BY <1>1 DEF CastVote, Keeps
<1>2. CASE MustVote(s, n)
  <2> DEFINE sigs == s.pool[s.chain] \cup {n}
             p == [s.pool EXCEPT ![s.chain] = sigs]
             c == IF n \in s.pool[s.chain] THEN s.checkpoint
                  ELSE HandleCheckpointVote(s.checkpoint, s.chain, sigs)
  <2>1. CastVote(s, n) = [chain |-> s.chain, due |-> FALSE, pool |-> p,
                          work |-> s.work, checkpoint |-> c]
    BY <1>2, CastVoteFields
  <2>2. s.checkpoint \in Checkpoints
    BY DEF NodeStates
  <2>3. s.checkpoint.hash = c.hash => s.checkpoint.sigs \subseteq c.sigs
    <3> HIDE DEF sigs
    <3>1. QED
      BY <2>2, MergeKeeps DEF HandleCheckpointVote
  <2> HIDE DEF p, c
  <2>4. CastVote(s, n).checkpoint = c
    BY <2>1
  <2>5. QED
    BY <2>3, <2>4 DEF Keeps
<1>3. QED
  BY <1>1, <1>2

(* A block comes with its checkpoint, if it has one. *)
LEMMA WithBlockChain ==
    ASSUME NEW V, NEW s, GoodState(s, V), NEW n, NEW h \in Hashes,
           NEW c, GoodCheckpoint(c, V)
    PROVE  /\ WithBlock(s, n, h, c).chain = h
           /\ c # NoCheckpoint => WithBlock(s, n, h, c).checkpoint = c
<1> DEFINE X == V \cup {Vote(n, h)}
           r == [s EXCEPT !.chain = h]
           t == CastVote(r, n)
<1>1. GoodState(s, X) /\ GoodCheckpoint(c, X)
  BY GoodMonotone DEF GoodCheckpoint, Backed
<1>2. WithBlock(s, n, h, c).chain = h
  BY <1>1, WithBlockGood
<1>3. ASSUME c # NoCheckpoint PROVE WithBlock(s, n, h, c).checkpoint = c
  <2>1. h \in Chains
    BY DEF Chains
  <2>2. GoodState(r, X) /\ r.chain = h
    BY <1>1, <2>1, GoodWithChain
  <2>3. MustVote(r, n) => Vote(n, r.chain) \in X
    BY <2>2
  <2>4. t \in NodeStates
    <3> HIDE DEF r
    <3>1. GoodState(t, X)
      BY <2>2, <2>3, CastVoteGood
    <3>2. QED
      BY <3>1 DEF GoodState
  <2>5. WithBlock(s, n, h, c) = [t EXCEPT !.checkpoint = c]
    BY <1>3 DEF WithBlock, StoreAttached
  <2> HIDE DEF t
  <2>6. QED
    BY <2>4, <2>5 DEF NodeStates
<1>4. QED
  BY <1>2, <1>3

(* A reorganisation of n that leaves the block of H in place keeps the     *)
(* signatures of its checkpoint.                                           *)
LEMMA ReorgKeeps ==
    ASSUME VotingInv, NEW n \in Nodes, NEW split \in {"above", "ready", "short"},
           NEW deep \in BOOLEAN, Reorg(n, split, deep)
    PROVE  Keeps(node[n], node'[n])
<1> DEFINE s == node[n]
           t == Detached(s, split, deep)
<1>1. GoodState(s, votes) /\ s \in NodeStates /\ node \in [Nodes -> NodeStates]
  BY DEF VotingInv, GoodState
<1>2. GoodState(t, votes) /\ t \in NodeStates
  BY <1>1, DetachedGood DEF GoodState
<1>3. /\ t.chain = (IF split = "above" THEN s.chain ELSE split)
      /\ t.checkpoint = (IF split = "above" THEN s.checkpoint ELSE NoCheckpoint)
  BY <1>1 DEF Detached, ChainAfterDetach, CheckpointAfterDetach, NodeStates
<1>4. s.chain \in Hashes \/ (s.chain = "ready" /\ split = "short")
  BY DEF Reorg, Detachable
<1>5. CASE split = "above" /\ node' = [node EXCEPT ![n] = CastVote(t, n)]
  <2>1. node'[n] = CastVote(t, n)
    BY <1>1, <1>5
  <2>2. Keeps(t, CastVote(t, n))
    BY <1>2, CastVoteKeeps
  <2>3. t.chain = s.chain /\ t.checkpoint = s.checkpoint
    BY <1>3, <1>5
  <2> HIDE DEF t, s
  <2>4. QED
    BY <2>1, <2>2, <2>3 DEF Keeps, s
<1>6. CASE split # "above" /\ node' = [node EXCEPT ![n] = t]
  <2>1. node'[n] = t
    BY <1>1, <1>6
  <2>2. t.chain # s.chain
    BY <1>3, <1>4, <1>6, VotingAssumption
  <2>3. QED
    BY <2>1, <2>2 DEF Keeps
<1>7. ASSUME NEW h \in Hashes \ {s.chain}, NEW c \in Attached,
             node' = [node EXCEPT ![n] = WithBlock(t, n, h, c)]
      PROVE  Keeps(s, node'[n])
  <2>1. node'[n] = WithBlock(t, n, h, c)
    BY <1>1, <1>7
  <2>2. GoodCheckpoint(c, votes)
    BY AttachedGood
  <2> HIDE DEF t, s
  <2>3. WithBlock(t, n, h, c).chain = h
    BY <1>2, <2>2, WithBlockChain
  <2>4. QED
    BY <2>1, <2>3 DEF Keeps
<1>8. QED
  BY <1>5, <1>6, <1>7 DEF Reorg

(* A switch that is rolled back keeps them too.                            *)
LEMMA FailedReorgKeeps ==
    ASSUME VotingInv, NEW n \in Nodes, NEW split \in {"ready", "short"},
           NEW deep \in BOOLEAN, NEW again \in BOOLEAN, FailedReorg(n, split, deep, again)
    PROVE  Keeps(node[n], node'[n])
<1> DEFINE s == node[n]
           t == Detached(s, split, deep)
<1>1. GoodState(s, votes) /\ s \in NodeStates /\ node \in [Nodes -> NodeStates]
  BY DEF VotingInv, GoodState
<1>2. GoodState(t, votes)
  BY <1>1, DetachedGood
<1>3. CASE s.checkpoint = NoCheckpoint
  BY <1>3 DEF Keeps, NoCheckpoint
<1>4. ASSUME s.checkpoint # NoCheckpoint, NEW u, NEW V, votes \subseteq V, GoodState(u, V),
             node' = [node EXCEPT ![n] = RolledBack(s, Detached(u, split, again), n)]
      PROVE  Keeps(s, node'[n])
  <2> DEFINE w == Detached(u, split, again)
  <2>1. GoodState(w, V) /\ w \in NodeStates
    BY <1>4, DetachedGood DEF GoodState
  <2>2. w.checkpoint = NoCheckpoint
    <3>1. u \in NodeStates
      BY <1>4 DEF GoodState
    <3>2. QED
      BY <3>1 DEF Detached, CheckpointAfterDetach, NodeStates
  <2>3. node'[n] = RolledBack(s, w, n)
    BY <1>1, <1>4
  <2> HIDE DEF w
  <2>4. CASE s.chain \in Hashes
    <3>1. GoodCheckpoint(s.checkpoint, V)
      BY <1>1, <1>4, GoodMonotone DEF GoodState
    <3>2. RolledBack(s, w, n).checkpoint = s.checkpoint
      BY <1>4, <2>1, <2>4, <3>1, WithBlockChain DEF RolledBack
    <3>3. QED
      BY <2>3, <3>2 DEF Keeps
  <2>5. CASE s.chain \notin Hashes
    <3>1. RolledBack(s, w, n).checkpoint = NoCheckpoint
      BY <2>1, <2>2, <2>5 DEF RolledBack, NodeStates
    <3>2. s.checkpoint.hash \in Hashes
      BY <1>1, <1>4 DEF NodeStates, Checkpoints
    <3>3. node'[n].checkpoint.hash = "none"
      BY <2>3, <3>1 DEF NoCheckpoint
    <3>4. s.checkpoint.hash # "none"
      BY <3>2, VotingAssumption
    <3>5. QED
      BY <3>3, <3>4 DEF Keeps
  <2>6. QED
    BY <2>4, <2>5
<1>5. ASSUME NEW h \in Hashes, NEW c \in Attached
      PROVE  \E V : votes \subseteq V /\ GoodState(WithBlock(t, n, h, c), V)
  <2> DEFINE X == VotesAfter(t, WithBlock(t, n, h, c), n)
  <2> HIDE DEF t
  <2>1. GoodState(WithBlock(t, n, h, c), X)
    BY <1>2, AttachedGood, BlockStep DEF VotesIfDue
  <2>2. votes \subseteq X
    BY DEF VotesAfter
  <2>3. QED
    BY <2>1, <2>2
<1>6. QED
  BY <1>2, <1>3, <1>4, <1>5 DEF FailedReorg

(* Whatever a step does to a node whose chain stays as it is, it keeps the *)
(* signatures of a checkpoint that stays on the same block.                *)
LEMMA NextKeeps ==
    ASSUME VotingInv, NEW n \in Nodes, NodeAction(n), NEW m \in Nodes
    PROVE  Keeps(node[m], node'[m])
<1>1. node \in [Nodes -> NodeStates] /\ GoodState(node[n], votes) /\ node[n] \in NodeStates
  BY DEF VotingInv
<1>2. m # n => node'[m] = node[m]
  <2>1. Advance(n) \/ LaterBlock(n) \/ Restart(n) => (m # n => node'[m] = node[m])
    BY <1>1 DEF Advance, LaterBlock, Restart
  <2>2. ASSUME NEW h, NEW c, BlockAdded(n, h, c) PROVE m # n => node'[m] = node[m]
    BY <1>1, <2>2 DEF BlockAdded
  <2>3. ASSUME NEW v, ReceiveVote(n, v) PROVE m # n => node'[m] = node[m]
    BY <1>1, <2>3 DEF ReceiveVote
  <2>4. ASSUME NEW w, FinishVote(n, w) PROVE m # n => node'[m] = node[m]
    BY <1>1, <2>4 DEF FinishVote
  <2>5. ASSUME NEW split, NEW deep, Reorg(n, split, deep) PROVE m # n => node'[m] = node[m]
    BY <1>1, <2>5 DEF Reorg
  <2>6. ASSUME NEW split, NEW deep, NEW again, FailedReorg(n, split, deep, again)
        PROVE  m # n => node'[m] = node[m]
    BY <1>1, <2>6 DEF FailedReorg
  <2>7. QED
    BY <2>1, <2>2, <2>3, <2>4, <2>5, <2>6 DEF NodeAction
<1>3. CASE m # n
  BY <1>2, <1>3 DEF Keeps
<1>4. SUFFICES ASSUME m = n PROVE Keeps(node[n], node'[n])
  BY <1>3
<1>5. CASE Advance(n)
  BY <1>1, <1>5 DEF Advance, Keeps, NodeStates
<1>6. ASSUME NEW h \in Hashes, NEW c \in Attached, BlockAdded(n, h, c)
      PROVE  Keeps(node[n], node'[n])
  <2> DEFINE d == Preferred(node[n], c)
  <2>1. node'[n] = WithBlock(node[n], n, h, d) /\ node[n].chain = "ready"
    BY <1>1, <1>6 DEF BlockAdded
  <2>2. GoodCheckpoint(c, votes)
    BY AttachedGood
  <2>3. GoodCheckpoint(d, votes)
    BY <2>2 DEF Preferred, GoodCheckpoint
  <2> HIDE DEF d
  <2>4. node'[n].chain = h
    BY <1>1, <2>1, <2>3, WithBlockChain
  <2>5. QED
    BY <2>1, <2>4, VotingAssumption DEF Keeps
<1>7. CASE LaterBlock(n)
  <2>1. node'[n] = CastVote(node[n], n)
    BY <1>1, <1>7 DEF LaterBlock
  <2>2. QED
    BY <1>1, <2>1, CastVoteKeeps
<1>8. ASSUME NEW v \in votes, ReceiveVote(n, v)
      PROVE  Keeps(node[n], node'[n])
  <2>1. node'[n].checkpoint = node[n].checkpoint
    BY <1>1, <1>8 DEF ReceiveVote, NodeStates
  <2>2. QED
    BY <2>1 DEF Keeps
<1>9. ASSUME NEW w \in node[n].work, FinishVote(n, w)
      PROVE  Keeps(node[n], node'[n])
  <2>1. node'[n].checkpoint = Merge(node[n].checkpoint, w.hash, w.sigs)
    BY <1>1, <1>9 DEF FinishVote, NodeStates
  <2>2. node[n].checkpoint \in Checkpoints
    BY <1>1 DEF NodeStates
  <2>3. QED
    BY <2>1, <2>2, MergeKeeps DEF Keeps
<1>10. CASE Restart(n)
  <2>1. node'[n].checkpoint = node[n].checkpoint
    BY <1>1, <1>10 DEF Restart, NodeStates
  <2>2. QED
    BY <2>1 DEF Keeps
<1>11. QED
  BY <1>5, <1>6, <1>7, <1>8, <1>9, <1>10, ReorgKeeps, FailedReorgKeeps DEF NodeAction

(* However many threads race through handle_checkpoint_vote, and across    *)
(* restarts, rolled-back switches and reorganisations above H, no          *)
(* signature is lost from a checkpoint whose block stays on the chain.     *)
THEOREM NoSignatureLost == Spec => SignaturesKept
<1> DEFINE Keep == \A n \in Nodes :
               LET c == node[n].checkpoint
                   d == node'[n].checkpoint
               IN node'[n].chain = node[n].chain /\ c.hash = d.hash => c.sigs \subseteq d.sigs
<1>1. VotingInv /\ [Next]_vars => [Keep]_vars
  <2> SUFFICES ASSUME VotingInv, Next PROVE Keep
    OBVIOUS
  <2>1. SUFFICES ASSUME NEW m \in Nodes PROVE Keeps(node[m], node'[m])
    BY DEF Keeps
  <2>2. PICK n \in Nodes : NodeAction(n)
    BY DEF Next
  <2>3. QED
    BY <2>2, NextKeeps
<1>2. QED
  BY <1>1, Invariance, PTL DEF Spec, SignaturesKept

-----------------------------------------------------------------------------
(* A block never leaves fewer signatures *)

(* What a vote leaves of a stored checkpoint when the block of H is new. *)
LEMMA WithBlockKeeps ==
    ASSUME NEW s \in NodeStates, NEW n, NEW h \in Hashes,
           NEW t, t = WithBlock(s, n, h, NoCheckpoint),
           t.checkpoint.hash = s.checkpoint.hash
    PROVE  s.checkpoint.sigs \subseteq t.checkpoint.sigs
<1> DEFINE r == [s EXCEPT !.chain = h]
<1>1. r \in NodeStates /\ r.checkpoint = s.checkpoint
  BY DEF NodeStates, Chains
<1>2. t = CastVote(r, n)
  BY DEF WithBlock, StoreAttached
<1> HIDE DEF r
<1>3. Keeps(r, t)
  BY <1>1, <1>2, CastVoteKeeps
<1>4. t.chain = r.chain
  <2>1. CASE MustVote(r, n)
    <3> DEFINE p == [r.pool EXCEPT ![r.chain] = r.pool[r.chain] \cup {n}]
               c == IF n \in r.pool[r.chain] THEN r.checkpoint
                    ELSE HandleCheckpointVote(r.checkpoint, r.chain, r.pool[r.chain] \cup {n})
    <3>1. CastVote(r, n) = [chain |-> r.chain, due |-> FALSE, pool |-> p,
                            work |-> r.work, checkpoint |-> c]
      BY <1>1, <2>1, CastVoteFields
    <3> HIDE DEF p, c
    <3>2. QED
      BY <1>2, <3>1
  <2>2. CASE ~MustVote(r, n)
    BY <1>2, <2>2 DEF CastVote
  <2> QED BY <2>1, <2>2
<1>5. QED
  BY <1>1, <1>3, <1>4 DEF Keeps

(* The quorum cop's hook adds to the checkpoint, the store's hook replaces *)
(* it only by one with at least as many signatures.                        *)
LEMMA BlockAddedKeepsCount ==
    ASSUME VotingInv, NEW n \in Nodes, NEW h \in Hashes, NEW c \in Attached,
           BlockAdded(n, h, c),
           node[n].checkpoint.hash = node'[n].checkpoint.hash
    PROVE  Cardinality(node[n].checkpoint.sigs) <= Cardinality(node'[n].checkpoint.sigs)
<1> DEFINE s == node[n]
           d == Preferred(s, c)
<1>1. GoodState(s, votes) /\ s \in NodeStates /\ s.checkpoint \in Checkpoints
  BY DEF VotingInv, NodeStates
<1>2. node'[n] = WithBlock(s, n, h, d)
  BY DEF BlockAdded, VotingInv
<1>3. GoodCheckpoint(c, votes) /\ c \in Checkpoints
  BY AttachedGood DEF Attached, Attachable, Checkpoints
<1>4. GoodCheckpoint(d, votes)
  BY <1>3 DEF Preferred, GoodCheckpoint
<1>5. \A k \in Checkpoints : IsFiniteSet(k.sigs) /\ Cardinality(k.sigs) \in Nat
  <2> SUFFICES ASSUME NEW k \in Checkpoints
               PROVE  IsFiniteSet(k.sigs) /\ Cardinality(k.sigs) \in Nat
    OBVIOUS
  <2>1. k.sigs \subseteq Active
    BY DEF Checkpoints, NoCheckpoint
  <2>2. QED
    BY <2>1, FiniteNodes, FS_Subset, FS_CardinalityType
<1>6. CASE d = NoCheckpoint
  <2>1. s.checkpoint.sigs \subseteq node'[n].checkpoint.sigs
    <3> HIDE DEF s, d
    <3>1. QED
      BY <1>1, <1>2, <1>6, WithBlockKeeps DEF s
  <2>2. node'[n].checkpoint \in Checkpoints
    <3>1. VotingInv'
      BY BlockAddedInv
    <3>2. QED
      BY <3>1 DEF VotingInv, NodeStates
  <2>3. IsFiniteSet(node'[n].checkpoint.sigs)
    BY <1>5, <2>2
  <2>4. QED
    BY <2>1, <2>3, FS_Subset
<1>7. CASE d # NoCheckpoint
  <2>1. d = c /\ ~(Cardinality(c.sigs) < Cardinality(s.checkpoint.sigs))
    BY <1>7 DEF Preferred
  <2>2. node'[n].checkpoint = c
    <3> HIDE DEF s, d
    <3>1. QED
      BY <1>1, <1>2, <1>4, <1>7, <2>1, WithBlockChain
  <2> DEFINE x == Cardinality(c.sigs)
             y == Cardinality(s.checkpoint.sigs)
  <2>3. x \in Nat /\ y \in Nat /\ ~(x < y)
    BY <1>1, <1>3, <1>5, <2>1
  <2> HIDE DEF x, y
  <2>4. y <= x
    BY <2>3
  <2>5. QED
    BY <2>2, <2>4 DEF x, y
<1>8. QED
  BY <1>6, <1>7

(* Only a new block takes a node from H - 1 to H without a chain switch. *)
LEMMA OnlyBlocksAdd ==
    ASSUME VotingInv, NEW n \in Nodes, NodeAction(n), NEW m \in Nodes,
           node[m].chain = "ready", node'[m].chain \in Hashes, reorgs' = reorgs
    PROVE  m = n /\ \E h \in Hashes, c \in Attached : BlockAdded(n, h, c)
<1>1. /\ node \in [Nodes -> NodeStates] /\ node[n] \in NodeStates
      /\ "ready" \notin Hashes /\ reorgs \in Nat
  BY VotingAssumption DEF VotingInv
<1>2. ~\E split \in {"above", "ready", "short"}, deep \in BOOLEAN : Reorg(n, split, deep)
  BY <1>1 DEF Reorg
<1>3. ~\E split \in {"ready", "short"}, deep, again \in BOOLEAN :
          FailedReorg(n, split, deep, again)
  BY <1>1 DEF FailedReorg
<1>4. ~Advance(n)
  BY <1>1 DEF Advance, NodeStates
<1>5. ~LaterBlock(n)
  <2>1. SUFFICES ASSUME LaterBlock(n) PROVE FALSE
    OBVIOUS
  <2>2. node[n].chain \in Hashes /\ node' = [node EXCEPT ![n] = CastVote(node[n], n)]
    BY <2>1 DEF LaterBlock, MustVote
  <2>3. m # n
    BY <1>1, <2>2
  <2>4. node'[m] = node[m]
    BY <1>1, <2>2, <2>3
  <2>5. QED
    BY <1>1, <2>4
<1>6. ~\E v \in votes : ReceiveVote(n, v)
  <2>1. SUFFICES ASSUME NEW v \in votes, ReceiveVote(n, v) PROVE FALSE
    OBVIOUS
  <2>2. node'[m].chain = node[m].chain
    BY <1>1, <2>1 DEF ReceiveVote, NodeStates
  <2>3. QED
    BY <1>1, <2>2
<1>7. ~\E w \in node[n].work : FinishVote(n, w)
  <2>1. SUFFICES ASSUME NEW w \in node[n].work, FinishVote(n, w) PROVE FALSE
    OBVIOUS
  <2>2. node'[m].chain = node[m].chain
    BY <1>1, <2>1 DEF FinishVote, NodeStates
  <2>3. QED
    BY <1>1, <2>2
<1>8. ~Restart(n)
  <2>1. SUFFICES ASSUME Restart(n) PROVE FALSE
    OBVIOUS
  <2>2. node'[m].chain = node[m].chain
    BY <1>1, <2>1 DEF Restart, NodeStates
  <2>3. QED
    BY <1>1, <2>2
<1>9. \E h \in Hashes, c \in Attached : BlockAdded(n, h, c)
  BY <1>2, <1>3, <1>4, <1>5, <1>6, <1>7, <1>8 DEF NodeAction
<1>10. m = n
  <2>1. SUFFICES ASSUME m # n PROVE FALSE
    OBVIOUS
  <2>2. node'[m] = node[m]
    BY <1>1, <1>9, <2>1 DEF BlockAdded
  <2>3. QED
    BY <1>1, <2>2
<1>11. QED
  BY <1>9, <1>10

(* add_new_block, the quorum cop's hook and the checkpoint store's hook    *)
(* together never leave a checkpoint of the same block with fewer          *)
(* signatures, whatever checkpoint comes attached to the block.            *)
THEOREM NeverFewer == Spec => NeverFewerSignatures
<1> DEFINE Count == \A n \in Nodes :
               LET c == node[n].checkpoint
                   d == node'[n].checkpoint
                   added == node[n].chain = "ready" /\ node'[n].chain \in Hashes
                              /\ reorgs' = reorgs
               IN added /\ c.hash = d.hash => Cardinality(c.sigs) <= Cardinality(d.sigs)
<1>1. VotingInv /\ [Next]_vars => [Count]_vars
  <2> SUFFICES ASSUME VotingInv, Next PROVE Count
    OBVIOUS
  <2>1. SUFFICES ASSUME NEW m \in Nodes, node[m].chain = "ready",
                        node'[m].chain \in Hashes, reorgs' = reorgs,
                        node[m].checkpoint.hash = node'[m].checkpoint.hash
                 PROVE  Cardinality(node[m].checkpoint.sigs)
                          <= Cardinality(node'[m].checkpoint.sigs)
    OBVIOUS
  <2>2. PICK n \in Nodes : NodeAction(n)
    BY DEF Next
  <2>3. m = n /\ \E h \in Hashes, c \in Attached : BlockAdded(n, h, c)
    BY <2>1, <2>2, OnlyBlocksAdd
  <2>4. QED
    BY <2>1, <2>3, BlockAddedKeepsCount
<1>2. QED
  BY <1>1, Invariance, PTL DEF Spec, NeverFewerSignatures

=============================================================================
