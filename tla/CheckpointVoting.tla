-------------------------- MODULE CheckpointVoting --------------------------
(***************************************************************************)
(* How the masternodes of one checkpoint quorum lock in the block of one   *)
(* checkpoint height H (a multiple of CHECKPOINT_INTERVAL):                *)
(* src/cryptonote_core/masternode_quorum_cop.cpp (voting, and turning      *)
(* votes into a checkpoint), masternode_voting.cpp (the vote pool),        *)
(* checkpoints/checkpoints.cpp (the store) and the parts of blockchain.cpp *)
(* that add and detach blocks.                                             *)
(*                                                                         *)
(* Every node keeps one record: its main chain as seen from height H,      *)
(* whether it still has to vote at H, its vote pool, the votes that other  *)
(* threads have put in the pool but not yet turned into a checkpoint, and  *)
(* the checkpoint its database holds for H.                                *)
(***************************************************************************)
EXTENDS Integers, FiniteSets

CONSTANTS
    Nodes,       \* daemons
    Validators,  \* the nodes of the checkpoint quorum of H
    Active,      \* the validators whose registration is active, so they vote
    Hashes,      \* the blocks of the competing chains at height H
    MinVotes,    \* CHECKPOINT_MIN_VOTES
    MaxRearmed,  \* bound on the nodes that vote anew: restart or deep reorg
    MaxReorgs,   \* bound on the chain switches
    MaxRestarts  \* bound on the restarts

ASSUME VotingAssumption ==
    /\ IsFiniteSet(Nodes)
    /\ Validators \subseteq Nodes
    /\ Active \subseteq Validators
    /\ Hashes \cap {"none", "short", "ready"} = {}
    /\ MinVotes \in Nat \ {0}
    /\ MaxRearmed \in Nat
    /\ MaxReorgs \in Nat
    /\ MaxRestarts \in Nat

VARIABLES
    node,     \* node[n]: the state of daemon n
    votes,    \* the votes ever cast: signed, relayed, re-relayed and copied
    rearmed,  \* nodes that have forgotten that they voted
    reorgs,   \* chain switches so far
    restarts  \* daemon restarts so far

vars == <<node, votes, rearmed, reorgs, restarts>>

-----------------------------------------------------------------------------
(* Data *)

(* The main chain ends below H - 1, ends at H - 1, or has a block at H. *)
Chains == {"short", "ready"} \cup Hashes

Vote(n, h) == [voter |-> n, hash |-> h]
Votes == [voter : Active, hash : Hashes]

NoCheckpoint == [hash |-> "none", sigs |-> {}]
Checkpoints == {NoCheckpoint} \cup [hash : Hashes, sigs : SUBSET Active]

(* What a daemon keeps about height H. *)
NodeStates == [chain      : Chains,
               due        : BOOLEAN,
               pool       : [Hashes -> SUBSET Active],
               work       : SUBSET [hash : Hashes, sigs : SUBSET Active],
               checkpoint : Checkpoints]

EmptyPool == [h \in Hashes |-> {}]

Fresh == [chain      |-> "short",
          due        |-> TRUE,          \* m_last_checkpointed_height <= H
          pool       |-> EmptyPool,     \* m_checkpoint_pool, by block hash
          work       |-> {},            \* handle_vote calls before the lock
          checkpoint |-> NoCheckpoint]  \* the database entry for H

Init ==
    /\ node = [n \in Nodes |-> Fresh]
    /\ votes = {}
    /\ rearmed = {}
    /\ reorgs = 0
    /\ restarts = 0

-----------------------------------------------------------------------------
(* quorum_cop *)

(* Mutant: one vote too few makes a checkpoint. *)
OneVoteShort(sigs) == Cardinality(sigs) >= MinVotes - 1

(* Mutant: a checkpoint needs one vote more than CHECKPOINT_MIN_VOTES. *)
MoreThanMinVotes(sigs) == Cardinality(sigs) > MinVotes

Enough(sigs) == Cardinality(sigs) >= MinVotes

(* Mutant: the pool's votes replace the ones of the stored checkpoint. *)
Replace(c, h, sigs) == [hash |-> h, sigs |-> sigs]

(* handle_checkpoint_vote under the blockchain lock: signatures for the    *)
(* stored block are added to it, another block replaces the stored one.    *)
Merge(c, h, sigs) ==
    IF c.hash = h THEN [c EXCEPT !.sigs = @ \cup sigs]
                  ELSE [hash |-> h, sigs |-> sigs]

HandleCheckpointVote(c, h, sigs) ==
    IF Enough(sigs) THEN Merge(c, h, sigs) ELSE c

(* process_quorums reaches height H: the node votes for the block of its   *)
(* own chain, once, and handles that vote like any other.                  *)
MustVote(s, n) == n \in Active /\ s.due /\ s.chain \in Hashes

CastVote(s, n) ==
    IF MustVote(s, n)
    THEN LET sigs == s.pool[s.chain] \cup {n}
         IN [s EXCEPT !.due = FALSE,
                      !.pool[s.chain] = sigs,
                      !.checkpoint = IF n \in s.pool[s.chain] THEN @
                                     ELSE HandleCheckpointVote(@, s.chain, sigs)]
    ELSE s

(* Mutant: every detach makes the node vote anew. *)
RearmAlways(s, deep) == TRUE

(* m_last_checkpointed_height moves back only when the chain is detached   *)
(* more than REORG_SAFETY_BUFFER_BLOCKS below it.                          *)
DueAfterDetach(s, deep) == s.due \/ deep

-----------------------------------------------------------------------------
(* The chain and its hooks *)

(* The checkpoints that verify_checkpoint accepts on a block of H: enough  *)
(* signatures of distinct validators, each of them really made.            *)
Attachable ==
    {c \in [hash : Hashes, sigs : SUBSET Active] :
        Enough(c.sigs) /\ \A n \in c.sigs : Vote(n, c.hash) \in votes}

Attached == {NoCheckpoint} \cup Attachable

(* The hook of the checkpoint store writes an attached checkpoint as it is. *)
StoreAttached(s, c) == IF c = NoCheckpoint THEN s ELSE [s EXCEPT !.checkpoint = c]

(* handle_block_to_main_chain: the quorum cop's hook runs before the one   *)
(* of the checkpoint store.                                                *)
WithBlock(s, n, h, c) == StoreAttached(CastVote([s EXCEPT !.chain = h], n), c)

(* A block is refused when it is not the block of a stored checkpoint. *)
CheckBlock(s, h) == s.checkpoint.hash \in {"none", h}

(* Mutant: the attached checkpoint is always taken. *)
PreferAttached(s, c) == c

(* add_new_block drops an attached checkpoint that has fewer signatures    *)
(* than the stored one.                                                    *)
Preferred(s, c) ==
    IF Cardinality(c.sigs) < Cardinality(s.checkpoint.sigs) THEN NoCheckpoint ELSE c

(* Mutant: the height of the cut is not compared with H. *)
AlwaysCut(s, split) == split

ChainAfterDetach(s, split) == IF split = "above" THEN s.chain ELSE split

(* The pool drops the votes above the new height. *)
PoolAfterDetach(s, split) == IF split = "short" THEN EmptyPool ELSE s.pool

(* The store deletes the checkpoint of H when the block of H goes. *)
CheckpointAfterDetach(s, split) == IF split = "above" THEN s.checkpoint ELSE NoCheckpoint

(* The detached hooks, for a chain cut above H, at H or below it. *)
Detached(s, split, deep) ==
    [s EXCEPT !.chain = ChainAfterDetach(s, split),
              !.due = DueAfterDetach(s, deep),
              !.pool = PoolAfterDetach(s, split),
              !.checkpoint = CheckpointAfterDetach(s, split)]

(* The votes in existence once n is in state s: handling its own vote puts *)
(* it in the pool that is relayed.                                         *)
VotesAfter(s, t, n) ==
    IF s.due /\ ~t.due THEN votes \cup {Vote(n, t.chain)} ELSE votes

-----------------------------------------------------------------------------
(* Actions *)

(* The chain grows up to height H - 1. *)
Advance(n) ==
    /\ node[n].chain = "short"
    /\ node' = [node EXCEPT ![n].chain = "ready"]
    /\ UNCHANGED <<votes, rearmed, reorgs, restarts>>

(* A block of height H arrives, possibly with a checkpoint. *)
BlockAdded(n, h, c) ==
    LET s == node[n]
        t == WithBlock(s, n, h, Preferred(s, c))
    IN /\ s.chain = "ready"
       /\ CheckBlock(s, h)
       /\ node' = [node EXCEPT ![n] = t]
       /\ votes' = VotesAfter(s, t, n)
       /\ UNCHANGED <<rearmed, reorgs, restarts>>

(* A block above H arrives while the node still has to vote at H. *)
LaterBlock(n) ==
    LET s == node[n]
        t == CastVote(s, n)
    IN /\ MustVote(s, n)
       /\ node' = [node EXCEPT ![n] = t]
       /\ votes' = VotesAfter(s, t, n)
       /\ UNCHANGED <<rearmed, reorgs, restarts>>

(* verify_vote_age: the vote is not above the height of the chain. *)
OfAge(s) == s.chain # "short"

(* add_pool_vote_if_unique: one vote per validator for each block. *)
Unknown(s, v) == v.voter \notin s.pool[v.hash]

(* handle_vote up to the blockchain lock: a vote that is not too new and   *)
(* not known is added to the pool, and the thread holds a copy of the      *)
(* votes for that block.                                                   *)
ReceiveVote(n, v) ==
    LET s == node[n]
        sigs == s.pool[v.hash] \cup {v.voter}
    IN /\ v \in votes
       /\ OfAge(s)
       /\ Unknown(s, v)
       /\ node' = [node EXCEPT ![n].pool[v.hash] = sigs,
                               ![n].work = IF Enough(sigs)
                                           THEN @ \cup {[hash |-> v.hash, sigs |-> sigs]}
                                           ELSE @]
       /\ UNCHANGED <<votes, rearmed, reorgs, restarts>>

(* A thread gets the blockchain lock and updates the checkpoint. *)
FinishVote(n, w) ==
    /\ w \in node[n].work
    /\ node' = [node EXCEPT ![n].work = @ \ {w},
                            ![n].checkpoint = Merge(@, w.hash, w.sigs)]
    /\ UNCHANGED <<votes, rearmed, reorgs, restarts>>

MayRearm(n) == Cardinality(rearmed \cup {n}) <= MaxRearmed

(* A switch cuts off blocks the node has. *)
Detachable(s, split) == s.chain \in Hashes \/ (s.chain = "ready" /\ split = "short")

RearmedAfter(n, deep) == IF deep THEN rearmed \cup {n} ELSE rearmed

(* switch_to_alternative_blockchain: the chain is detached at a height and *)
(* the blocks of the other chain are added, all under the blockchain lock. *)
Reorg(n, split, deep) ==
    LET s == node[n]
        t == Detached(s, split, deep)
        Becomes(u) == /\ node' = [node EXCEPT ![n] = u]
                      /\ votes' = VotesAfter(t, u, n)
    IN /\ reorgs < MaxReorgs
       /\ Detachable(s, split)
       /\ deep => MayRearm(n)
       /\ \/ split = "above" /\ Becomes(CastVote(t, n))
          \/ split # "above" /\ Becomes(t)
          \/ /\ split # "above"
             /\ \E h \in Hashes \ {s.chain}, c \in Attached :
                  Becomes(WithBlock(t, n, h, c))
       /\ rearmed' = RearmedAfter(n, deep)
       /\ reorgs' = reorgs + 1
       /\ UNCHANGED restarts

(* rollback_blockchain_switching, once it has detached the chain again,    *)
(* puts the old blocks and the checkpoint they had back.                   *)
RolledBack(s, t, n) ==
    IF s.chain \in Hashes THEN WithBlock(t, n, s.chain, s.checkpoint)
                          ELSE [t EXCEPT !.chain = s.chain]

(* A switch whose alternative chain is refused, before its block of H is   *)
(* added or after it: a vote for that block has been cast by then.         *)
FailedReorg(n, split, deep, again) ==
    LET s == node[n]
        t == Detached(s, split, deep)
        FailsAt(u) ==
            LET w == Detached(u, split, again)
                z == RolledBack(s, w, n)
            IN /\ node' = [node EXCEPT ![n] = z]
               /\ votes' = VotesAfter(t, u, n) \cup VotesAfter(w, z, n)
    IN /\ reorgs < MaxReorgs
       /\ Detachable(s, split)
       /\ split # "above"
       /\ deep \/ again => MayRearm(n)
       /\ \/ FailsAt(t)
          \/ \E h \in Hashes \ {s.chain}, c \in Attached :
               FailsAt(WithBlock(t, n, h, c))
       /\ rearmed' = RearmedAfter(n, deep \/ again)
       /\ reorgs' = reorgs + 1
       /\ UNCHANGED restarts

(* The daemon restarts: the chain and the checkpoint are on disk, the vote *)
(* pool and m_last_checkpointed_height are not.                            *)
Restart(n) ==
    /\ restarts < MaxRestarts
    /\ MayRearm(n)
    /\ node' = [node EXCEPT ![n].due = TRUE,
                            ![n].pool = EmptyPool,
                            ![n].work = {}]
    /\ rearmed' = rearmed \cup {n}
    /\ restarts' = restarts + 1
    /\ UNCHANGED <<votes, reorgs>>

NodeAction(n) ==
    \/ Advance(n)
    \/ \E h \in Hashes, c \in Attached : BlockAdded(n, h, c)
    \/ LaterBlock(n)
    \/ \E v \in votes : ReceiveVote(n, v)
    \/ \E w \in node[n].work : FinishVote(n, w)
    \/ \E split \in {"above", "ready", "short"}, deep \in BOOLEAN :
         Reorg(n, split, deep)
    \/ \E split \in {"ready", "short"}, deep, again \in BOOLEAN :
         FailedReorg(n, split, deep, again)
    \/ Restart(n)

Next == \E n \in Nodes : NodeAction(n)

Spec == Init /\ [][Next]_vars

(* Blocks keep arriving, threads that wait for the lock get it, and votes  *)
(* are relayed again every few minutes until every peer has taken them.    *)
Fairness ==
    \A n \in Nodes :
        /\ WF_vars(Advance(n))
        /\ WF_vars(\E h \in Hashes, c \in Attached : BlockAdded(n, h, c))
        /\ WF_vars(LaterBlock(n))
        /\ \A v \in Votes : WF_vars(ReceiveVote(n, v))
        /\ WF_vars(\E w \in node[n].work : FinishVote(n, w))

FairSpec == Spec /\ Fairness

-----------------------------------------------------------------------------
(* Properties *)

(* The shape of the state that quorum_cop, the vote pool and the           *)
(* checkpoint store keep.                                                  *)
TypeOK ==
    /\ node \in [Nodes -> NodeStates]
    /\ votes \subseteq Votes
    /\ rearmed \subseteq Nodes
    /\ reorgs \in 0..MaxReorgs
    /\ restarts \in 0..MaxRestarts

(* Any two sets of MinVotes validators share one that never voted anew.    *)
(* With 13 votes of 20 this holds as long as at most 5 restart or are      *)
(* reorganised deeply while H is being voted on.                           *)
QuorumsOverlap == 2 * MinVotes > Cardinality(Validators) + MaxRearmed

(* Masternodes never store checkpoints for two different blocks of one     *)
(* height, although process_quorums votes as soon as the block arrives and *)
(* chains may be switched before and after the vote.                       *)
CheckpointAgreement ==
    \A m, n \in Nodes :
        LET c == node[m].checkpoint
            d == node[n].checkpoint
        IN c # NoCheckpoint /\ d # NoCheckpoint => c.hash = d.hash

(* quorum_cop votes once per height: reorganisations within the safety     *)
(* buffer never make a validator sign a second block of the same height.   *)
OneVotePerHeight ==
    \A u, v \in votes :
        u.voter = v.voter /\ u.voter \notin rearmed => u = v

(* Whatever threads race to update it, the checkpoint a node stores has    *)
(* CHECKPOINT_MIN_VOTES signatures, each made for that very block: every   *)
(* peer that is sent it accepts it in verify_checkpoint.                   *)
CheckpointVerifies ==
    \A n \in Nodes :
        LET c == node[n].checkpoint
        IN c # NoCheckpoint =>
             /\ Cardinality(c.sigs) >= MinVotes
             /\ \A i \in c.sigs : Vote(i, c.hash) \in votes

(* "One thread could retrieve an outdated checkpoint whilst another has    *)
(* already updated it": as long as the chain stays, the threads that       *)
(* handle votes never take a signature out of a stored checkpoint.         *)
SignaturesKept ==
    [][\A n \in Nodes :
         LET c == node[n].checkpoint
             d == node'[n].checkpoint
         IN node'[n].chain = node[n].chain /\ c.hash = d.hash => c.sigs \subseteq d.sigs]_vars

(* "We could replace a checkpoint with lesser votes prematurely": adding   *)
(* the block of H, where the quorum cop's hook updates the checkpoint and  *)
(* the store's hook then overwrites it with the one attached to the block, *)
(* never leaves fewer signatures than there were.  A chain switch deletes  *)
(* the checkpoint with the blocks it cuts off.                             *)
NeverFewerSignatures ==
    [][\A n \in Nodes :
         LET c == node[n].checkpoint
             d == node'[n].checkpoint
             added == node[n].chain = "ready" /\ node'[n].chain \in Hashes
                        /\ reorgs' = reorgs
         IN added /\ c.hash = d.hash => Cardinality(c.sigs) <= Cardinality(d.sigs)]_vars

(* Once enough validators are active, every node ends up with a checkpoint *)
(* of height H and keeps it, through restarts and a fork of the chain.     *)
CheckpointForms ==
    \A n \in Nodes : <>[](node[n].checkpoint # NoCheckpoint)

=============================================================================
