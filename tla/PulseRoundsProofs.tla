------------------------- MODULE PulseRoundsProofs --------------------------
(***************************************************************************)
(* The safety properties of PulseRounds, for any round times, number of    *)
(* rounds, size of the quorum history, chain, clock and reorganisations.   *)
(*                                                                         *)
(* What makes them inductive: a block's hash is never used again, so a     *)
(* hash the node holds names one block at one height, or none any more     *)
(* (TimingInv); the tip is always the newest block, so the node comes back *)
(* to a block it ran rounds of only while it never left it (RanInv); and   *)
(* the rounds of one block are prepared in ascending order (RanInv, and    *)
(* LateInv for the quorums in the history).                                *)
(***************************************************************************)
EXTENDS PulseRounds, SequenceTheorems, TLAPS

ChainBlocks == [id : Nat, timestamp : Nat]

States == {"wait_for_next_block", "prepare_for_round", "wait_for_round", "in_round"}

Contexts ==
    [state : States, height : 0..MaxHeight, top : Nat, r0 : Nat, round : 0..MaxRound,
     queued : BOOLEAN, start : Nat, prepared : BOOLEAN,
     participant : {"producer", "validator", "none"}]

Reads == [step : {"height", "hash", "timestamp"}, height : 0..MaxHeight, top : Nat]

Quorums == [height : 0..MaxHeight, top : Nat, round : 0..MaxRound]

Slots == 0..HistorySize - 1

Shapes ==
    /\ now \in 0..MaxTime /\ made \in Nat /\ reorgs \in 0..MaxReorgs
    /\ chain \in Seq(ChainBlocks) /\ Height \in 1..MaxHeight
    /\ c \in Contexts
    /\ read \in Reads
    /\ history \in [slots : [Slots -> Quorums], index : Nat]
    /\ ran \subseteq Quorums
    /\ left \in Seq(Quorums) /\ Len(left) <= HistorySize

(* Hashes of blocks are all different. *)
ChainInv ==
    /\ \A i \in 1..Height : chain[i].id \in 1..made /\ chain[i].timestamp \in 0..now
    /\ \A i, j \in 1..Height : chain[i].id = chain[j].id => i = j

(* wait_for_next_block has read another height than the context's.  The    *)
(* hash it has read is the one of that height, if the block still exists.  *)
ReadInv ==
    read.step # "height" =>
        /\ c.state = "wait_for_next_block"
        /\ read.height \in 1..MaxHeight /\ read.height # c.height
        /\ read.step = "timestamp" =>
             /\ read.top \in 1..made
             /\ \A i \in 1..Height : chain[i].id = read.top => i = read.height

(* The flags of prepare_for_round in each state. *)
FlagsInv ==
    CASE c.state = "wait_for_next_block" -> ~c.prepared
      [] c.state = "prepare_for_round" -> c.queued = c.prepared /\ (c.queued \/ c.round = 0)
      [] OTHER -> c.prepared

(* The context is that of the block c.top names, if it still exists. *)
TimingInv ==
    /\ c.top \in 0..made
    /\ c.state # "wait_for_next_block" =>
         /\ c.height # 0
         /\ \A i \in 1..Height : chain[i].id = c.top =>
              i = c.height /\ c.r0 = Round0(c.height, chain[i].timestamp)
    /\ c.prepared => c.start = c.r0 + c.round * RoundTime

SlotsInv == \A i \in Slots : i < history.index <=> history.slots[i] # None

(* The rounds run of the tip are the context's: the tip is not read again. *)
(* Those of the context's block came before its present round.             *)
RanInv ==
    \A q \in ran :
        /\ q.top <= made
        /\ q.top = Tip.id => c.height = Height
        /\ read.step # "height" => Tip.id # q.top
        /\ read.step = "hash" /\ read.height <= Height => chain[read.height].id # q.top
        /\ read.step = "timestamp" => read.top # q.top
        /\ c.top = q.top =>
             CASE c.state = "wait_for_next_block" -> TRUE
               [] c.state = "prepare_for_round" -> c.queued /\ q.round <= c.round
               [] c.state = "wait_for_round" -> q.round < c.round
               [] OTHER -> q.round <= c.round

(* As long as the chain only grows, so does the height of the context.     *)
(* Every quorum left is stored once, in the next slot.                     *)
LateInv ==
    /\ c.height <= Height
    /\ read.step # "height" => c.height < read.height /\ read.height <= Height
    /\ \A q \in Stored :
         /\ q.height <= c.height
         /\ c.state # "wait_for_next_block" /\ q.height = c.height =>
              c.prepared /\ q.round < c.round
    /\ Len(left) <= history.index
    /\ \A i \in 1..Len(left) :
         left[i] # None /\ left[i] = history.slots[(history.index - i) % HistorySize]

RoundsInv ==
    /\ Shapes /\ ChainInv /\ ReadInv /\ FlagsInv /\ TimingInv /\ SlotsInv /\ RanInv
    /\ reorgs = 0 => LateInv

-----------------------------------------------------------------------------
(* Arithmetic *)

(* Slots of the ring, and what % gives below it. *)
LEMMA ModType ==
    ASSUME NEW a \in Nat, NEW m \in Nat \ {0}
    PROVE  a % m \in 0..m - 1 /\ (a < m => a % m = a)
  OBVIOUS

(* Two indices less than a full round of the ring apart have two slots. *)
LEMMA ModApart ==
    ASSUME NEW a \in Nat, NEW m \in Nat \ {0}, NEW i \in 1..m - 1, i <= a
    PROVE  (a - i) % m # a % m
<1> DEFINE p == a \div m
           q == (a - i) \div m
<1>1. p \in Int /\ q \in Int /\ a = m * p + (a % m) /\ a - i = m * q + ((a - i) % m)
  <2>1. ASSUME NEW x \in Int PROVE x \div m \in Int /\ x = m * (x \div m) + (x % m)
    OBVIOUS
  <2>2. QED
    BY <2>1
<1>2. ASSUME (a - i) % m = a % m PROVE FALSE
  <2>1. i = m * p - m * q
    BY <1>1, <1>2
  <2> HIDE DEF p, q
  <2>2. i = m * (p - q)
    BY <1>1, <2>1
  <2> DEFINE k == p - q
  <2>3. k \in Int /\ i = m * k
    BY <1>1, <2>2
  <2> HIDE DEF k
  <2>4. k <= 0 => m * k <= 0
    BY <2>3
  <2>5. k >= 1 => m * k >= m
    BY <2>3
  <2>6. QED
    BY <2>3, <2>4, <2>5
<1>3. QED
  BY <1>2

(* Round 0 starts at a time. *)
LEMMA Round0Type ==
    ASSUME NEW h \in Nat, NEW t \in Nat
    PROVE  Round0(h, t) \in Nat
<1>1. TargetTime * h \in Nat
  BY RoundsAssumption
<1>2. QED
  BY <1>1, RoundsAssumption DEF Round0, Clamp

(* So does every other one. *)
LEMMA StartType ==
    ASSUME NEW r0 \in Nat, NEW r \in Nat
    PROVE  r0 + r * RoundTime \in Nat
  BY RoundsAssumption

-----------------------------------------------------------------------------
(* What a step does to the chain *)

(* A block made now takes the place of those above height k. *)
NewBlock(k) ==
    /\ k \in 1..Height /\ k < MaxHeight
    /\ chain' \in Seq(ChainBlocks) /\ Len(chain') = k + 1
    /\ \A i \in 1..k : chain'[i] = chain[i]
    /\ chain'[k + 1].id = made + 1 /\ chain'[k + 1].timestamp \in 0..now
    /\ made' = made + 1

SameChain == chain' = chain /\ made' = made

(* A block is put on the tip. *)
LEMMA AppendNew ==
    ASSUME Shapes, NEW b, b.timestamp \in 0..now, Height < MaxHeight,
           chain' = Append(chain, Block(made + 1, b)), made' = made + 1
    PROVE  NewBlock(Height)
<1> DEFINE new == Block(made + 1, b)
<1>1. new \in ChainBlocks /\ new.id = made + 1 /\ new.timestamp = b.timestamp
  BY RoundsAssumption DEF Block, ChainBlocks, Shapes
<1> HIDE DEF new
<1>2. chain' = Append(chain, new)
  BY DEF new
<1>3. /\ chain' \in Seq(ChainBlocks) /\ Len(chain') = Height + 1
      /\ \A i \in 1..Height : chain'[i] = chain[i]
      /\ chain'[Height + 1] = new
  BY <1>1, <1>2, AppendProperties DEF Shapes, Height
<1>4. QED
  BY <1>1, <1>3 DEF NewBlock, Shapes

(* A block replaces those above keep. *)
LEMMA ReplaceNew ==
    ASSUME Shapes, NEW b, b.timestamp \in 0..now, NEW keep \in 1..Height - 1,
           chain' = Append(SubSeq(chain, 1, keep), Block(made + 1, b)), made' = made + 1
    PROVE  NewBlock(keep)
<1> DEFINE new == Block(made + 1, b)
           sub == SubSeq(chain, 1, keep)
<1>1. new \in ChainBlocks /\ new.id = made + 1 /\ new.timestamp = b.timestamp
  BY RoundsAssumption DEF Block, ChainBlocks, Shapes
<1>2. keep \in Nat /\ keep <= Len(chain) /\ Len(chain) \in 1..MaxHeight /\ MaxHeight \in Nat
      /\ 1 <= keep /\ keep < Len(chain)
  BY RoundsAssumption DEF Shapes, Height
<1>3. \A i \in 1..keep : chain[i] \in ChainBlocks
  BY <1>2, ElementOfSeq DEF Shapes
<1>4. /\ sub \in Seq(ChainBlocks) /\ Len(sub) = keep
      /\ \A i \in 1..keep : sub[i] = chain[i]
  BY <1>2, <1>3, SubSeqProperties
<1> HIDE DEF new, sub
<1>5. chain' = Append(sub, new)
  BY DEF new, sub
<1>6. /\ chain' \in Seq(ChainBlocks) /\ Len(chain') = keep + 1
      /\ \A i \in 1..keep : chain'[i] = chain[i]
      /\ chain'[keep + 1] = new
  BY <1>1, <1>2, <1>4, <1>5, AppendProperties
<1>7. QED
  BY <1>1, <1>2, <1>6 DEF NewBlock, Height

-----------------------------------------------------------------------------
(* Kinds of steps *)

(* The clock, other threads and other nodes. *)
EnvMoves ==
    /\ UNCHANGED <<c, read, history, ran, left>>
    /\ now' \in now..MaxTime
    /\ \/ SameChain /\ reorgs' = reorgs
       \/ NewBlock(Height) /\ reorgs' = reorgs
       \/ \E k \in 1..Height : NewBlock(k) /\ reorgs' = reorgs + 1 /\ reorgs < MaxReorgs

(* A round is left for the next block, which may be its own. *)
Leaves ==
    /\ c.state \in {"wait_for_round", "in_round"}
    /\ GotoWaitForNextBlock
    /\ SameChain \/ NewBlock(Height)
    /\ UNCHANGED <<now, reorgs, read, ran>>

(* A round is left for the next one. *)
Retries ==
    /\ c.state \in {"wait_for_round", "in_round"}
    /\ GotoPreparing
    /\ UNCHANGED <<env, read, ran>>

(* The ceremony starts. *)
Starts ==
    /\ c.state = "wait_for_round" /\ c.height = Height
    /\ c' = [c EXCEPT !.state = "in_round"]
    /\ ran' = ran \cup {Quorum}
    /\ UNCHANGED <<env, read, history, left>>

(* Every step is of one of these kinds. *)
LEMMA StepKinds ==
    ASSUME Shapes, Next
    PROVE  \/ EnvMoves \/ ReadHeight \/ ReadHash \/ ReadTimestamp
           \/ PrepareForRound \/ Leaves \/ Retries \/ Starts
<1>0. now \in 0..MaxTime /\ MaxTime \in Nat /\ Height \in Nat /\ MaxHeight \in Nat
      /\ now \in now..MaxTime
  BY RoundsAssumption DEF Shapes
<1>1. CASE Tick
  BY <1>0, <1>1 DEF Tick, EnvMoves, SameChain
<1>2. CASE AddBlock
  <2>1. PICK b \in Candidates : chain' = Append(chain, Block(made + 1, b))
    BY <1>2 DEF AddBlock
  <2>2. b.timestamp \in 0..now /\ Height < MaxHeight /\ made' = made + 1
    BY <1>2, <2>1 DEF AddBlock, Candidates, MayGrow
  <2>3. NewBlock(Height)
    BY <2>1, <2>2, AppendNew
  <2>4. QED
    BY <1>0, <1>2, <2>3 DEF AddBlock, EnvMoves
<1>3. CASE Reorg
  <2>1. PICK keep \in {Height - 1, Height - 2} \ {0, -1}, b \in Candidates :
           chain' = Append(SubSeq(chain, 1, keep), Block(made + 1, b))
    BY <1>3 DEF Reorg
  <2>2. keep \in 1..Height - 1
    BY <2>1, RoundsAssumption DEF Shapes
  <2>3. b.timestamp \in 0..now /\ made' = made + 1
    BY <1>3, <2>1 DEF Reorg, Candidates
  <2>4. NewBlock(keep) /\ keep \in 1..Height
    BY <1>0, <2>1, <2>2, <2>3, ReplaceNew
  <2>5. UNCHANGED <<now, c, read, history, ran, left>>
        /\ reorgs' = reorgs + 1 /\ reorgs < MaxReorgs
    BY <1>3 DEF Reorg
  <2>6. QED
    BY <1>0, <2>4, <2>5 DEF EnvMoves
<1>4. CASE ReadHeight \/ ReadHash \/ ReadTimestamp \/ PrepareForRound
  BY <1>4
<1>5. CASE WaitForRound
  BY <1>5 DEF WaitForRound, Leaves, Retries, Starts, SameChain, env
<1>6. CASE RoundFails
  BY <1>6 DEF RoundFails, Retries
<1>7. CASE TemplateTooLate
  BY <1>7 DEF TemplateTooLate, Leaves, SameChain, env
<1>8. CASE BlockFound
  <2>1. ASSUME Tip.id = c.top PROVE NewBlock(Height)
    <3>1. PICK b \in [kind : {"pulse"}, round : {c.round}, timestamp : c.start..now] :
             /\ MayGrow
             /\ chain' = Append(chain, Block(made + 1, b))
             /\ made' = made + 1
      BY <1>8, <2>1 DEF BlockFound
    <3>2. c.start \in Nat
      BY DEF Shapes, Contexts
    <3>3. b.timestamp \in 0..now
      BY <1>0, <3>1, <3>2
    <3>4. QED
      BY <3>1, <3>3, AppendNew DEF MayGrow
  <2>2. Tip.id # c.top => SameChain
    BY <1>8 DEF BlockFound, SameChain
  <2>3. /\ c.state = "in_round" /\ GotoWaitForNextBlock
        /\ UNCHANGED <<now, reorgs, read, ran>>
    BY <1>8 DEF BlockFound
  <2>4. QED
    BY <2>1, <2>2, <2>3 DEF Leaves
<1>9. QED
  BY <1>1, <1>2, <1>3, <1>4, <1>5, <1>6, <1>7, <1>8 DEF Next, NodeStep

-----------------------------------------------------------------------------
(* The pieces a step is made of *)

(* prepare_for_round = {} leaves the block's data alone. *)
LEMMA FreshFacts ==
    ASSUME NEW r \in Contexts
    PROVE  /\ Fresh(r) \in Contexts
           /\ Fresh(r).height = r.height /\ Fresh(r).top = r.top /\ Fresh(r).r0 = r.r0
           /\ Fresh(r).round = 0 /\ Fresh(r).queued = FALSE /\ Fresh(r).prepared = FALSE
           /\ Fresh(r).state = r.state
<1>1. 0 \in 0..MaxRound /\ 0 \in Nat
  BY RoundsAssumption
<1>2. Fresh(r) \in Contexts
  BY <1>1 DEF Fresh, Contexts
<1>3. QED
  BY <1>2 DEF Fresh, Contexts

(* Going back to wait_for_next_block. *)
LEMMA IdleFacts ==
    ASSUME NEW r \in Contexts
    PROVE  /\ Idle(r) \in Contexts
           /\ Idle(r).height = r.height /\ Idle(r).top = r.top /\ Idle(r).r0 = r.r0
           /\ Idle(r).round = 0 /\ Idle(r).queued = FALSE /\ Idle(r).prepared = FALSE
           /\ Idle(r).state = "wait_for_next_block"
<1> DEFINE f == Fresh(r)
<1>1. f \in Contexts /\ f.height = r.height /\ f.top = r.top /\ f.r0 = r.r0
      /\ f.round = 0 /\ f.queued = FALSE /\ f.prepared = FALSE
  BY FreshFacts
<1>2. Idle(r) = [f EXCEPT !.state = "wait_for_next_block"]
  BY DEF Idle
<1> HIDE DEF f
<1>3. QED
  BY <1>1, <1>2 DEF Contexts, States

(* The quorum of the context. *)
LEMMA QuorumFacts ==
    ASSUME Shapes
    PROVE  /\ Quorum \in Quorums
           /\ Quorum.height = c.height /\ Quorum.top = c.top /\ Quorum.round = c.round
           /\ c.height # 0 => Quorum # None
<1>1. /\ Quorum \in Quorums
      /\ Quorum.height = c.height /\ Quorum.top = c.top /\ Quorum.round = c.round
  BY DEF Shapes, Contexts, Quorum, Quorums
<1>2. None.height = 0
  BY DEF None
<1>3. QED
  BY <1>1, <1>2

(* The quorums left, newest first. *)
LEMMA LeftFacts ==
    ASSUME Shapes, c.prepared, ClearRoundData
    PROVE  /\ left' \in Seq(Quorums)
           /\ Len(left') = IF Len(left) < HistorySize THEN Len(left) + 1 ELSE HistorySize
           /\ left'[1] = Quorum
           /\ \A i \in 1..Len(left') : i # 1 => i - 1 \in 1..Len(left) /\ left'[i] = left[i - 1]
<1> DEFINE k == IF Len(left) < HistorySize THEN Len(left) + 1 ELSE HistorySize
           one == <<Quorum>>
           all == one \o left
<1>1. left' = SubSeq(all, 1, k)
  BY DEF ClearRoundData
<1>2. one \in Seq(Quorums) /\ Len(one) = 1 /\ one[1] = Quorum
  BY QuorumFacts
<1>3. left \in Seq(Quorums) /\ Len(left) \in Nat /\ Len(left) <= HistorySize
      /\ HistorySize \in Nat \ {0}
  BY LenProperties, RoundsAssumption DEF Shapes
<1> HIDE DEF one
<1>4. /\ all \in Seq(Quorums) /\ Len(all) = Len(left) + 1
      /\ \A i \in 1..Len(left) + 1 : all[i] = IF i <= 1 THEN one[i] ELSE left[i - 1]
  <2>1. /\ all \in Seq(Quorums) /\ Len(all) = Len(one) + Len(left)
        /\ \A i \in 1..Len(one) + Len(left) :
             all[i] = IF i <= Len(one) THEN one[i] ELSE left[i - Len(one)]
    <3>1. one \in Seq(Quorums) /\ left \in Seq(Quorums)
      BY <1>2, <1>3
    <3>2. QED
      BY <3>1, ConcatProperties
  <2>2. Len(one) + Len(left) = Len(left) + 1
    BY <1>2, <1>3
  <2>3. QED
    BY <1>2, <2>1, <2>2
<1> HIDE DEF all
<1>5. k \in 1..Len(left) + 1 /\ k \in Nat
  BY <1>3
<1> HIDE DEF k
<1>6. \A i \in 1..k : all[i] \in Quorums
  BY <1>3, <1>4, <1>5, ElementOfSeq
<1>7. /\ left' \in Seq(Quorums) /\ Len(left') = k
      /\ \A i \in 1..k : left'[i] = all[i]
  BY <1>1, <1>5, <1>6, SubSeqProperties
<1>8. left'[1] = Quorum
  BY <1>2, <1>3, <1>4, <1>5, <1>7
<1>9. ASSUME NEW i \in 1..k, i # 1 PROVE i - 1 \in 1..Len(left) /\ left'[i] = left[i - 1]
  BY <1>3, <1>4, <1>5, <1>7, <1>9
<1>10. QED
  BY <1>7, <1>8, <1>9 DEF k

(* The slot a quorum is stored in. *)
LEMMA SlotType ==
    ASSUME Shapes
    PROVE  /\ Slot \in Slots /\ history.index \in Nat
           /\ history.index < HistorySize => Slot = history.index
  BY ModType, RoundsAssumption DEF Shapes, Slot, Slots

(* What clear_round_data does to the history. *)
LEMMA HistoryFacts ==
    ASSUME Shapes, ClearRoundData
    PROVE  \/ history' = history
           \/ /\ c.prepared /\ ~AlreadyStored
              /\ history'.slots = [history.slots EXCEPT ![Slot] = Quorum]
              /\ history'.index = history.index + 1
              /\ history' \in [slots : [Slots -> Quorums], index : Nat]
<1>1. CASE ~c.prepared \/ AlreadyStored
  BY <1>1 DEF ClearRoundData
<1>2. CASE c.prepared /\ ~AlreadyStored
  <2> DEFINE new == [history.slots EXCEPT ![Slot] = Quorum]
  <2>1. history' = [slots |-> new, index |-> history.index + 1]
    BY <1>2 DEF ClearRoundData
  <2>2. new \in [Slots -> Quorums] /\ history.index \in Nat
    BY SlotType, QuorumFacts DEF Shapes
  <2> HIDE DEF new
  <2>3. /\ history'.slots = new /\ history'.index = history.index + 1
        /\ history' \in [slots : [Slots -> Quorums], index : Nat]
    BY <2>1, <2>2
  <2>4. QED
    BY <1>2, <2>3 DEF new
<1>3. QED
  BY <1>1, <1>2

(* Types after clear_round_data. *)
LEMMA ClearType ==
    ASSUME Shapes, ClearRoundData
    PROVE  /\ history' \in [slots : [Slots -> Quorums], index : Nat]
           /\ left' \in Seq(Quorums) /\ Len(left') <= HistorySize
<1>1. history' \in [slots : [Slots -> Quorums], index : Nat]
  BY HistoryFacts DEF Shapes
<1>2. CASE ~c.prepared
  BY <1>1, <1>2 DEF ClearRoundData, Shapes
<1>3. CASE c.prepared
  <2>1. /\ left' \in Seq(Quorums)
        /\ Len(left') = IF Len(left) < HistorySize THEN Len(left) + 1 ELSE HistorySize
    BY <1>3, LeftFacts
  <2>2. Len(left) \in Nat /\ HistorySize \in Nat
    BY LenProperties, RoundsAssumption DEF Shapes
  <2>3. QED
    BY <1>1, <2>1, <2>2
<1>4. QED
  BY <1>2, <1>3

(* The round that is prepared fits its type and is not an earlier one. *)
LEMMA PreparedFacts ==
    ASSUME Shapes, ~Exhausted
    PROVE  /\ PreparedRound \in 0..MaxRound
           /\ RoundAt(now) \in 0..MaxRound
           /\ PreparedRound \in {RoundAt(now), c.round, c.round + 1}
           /\ PreparedRound >= RoundAt(now)
           /\ PreparedRound = c.round => ~c.queued
           /\ PreparedRound >= c.round
           /\ c.queued => PreparedRound > c.round
<1>1. /\ now \in Nat /\ c.r0 \in Nat /\ c.round \in 0..MaxRound /\ c.queued \in BOOLEAN
      /\ MaxRound \in Nat /\ RoundTime \in Nat \ {0}
  BY RoundsAssumption DEF Shapes, Contexts
<1>2. RoundAt(now) \in Nat
  BY <1>1 DEF RoundAt
<1> DEFINE a == RoundAt(now)
           n == IF c.queued THEN c.round + 1 ELSE c.round
<1>3. a \in 0..MaxRound
  BY <1>1, <1>2 DEF Exhausted, TimedOut
<1>4. n \in 0..MaxRound
  BY <1>1 DEF Exhausted, Stalled
<1> HIDE DEF a
<1> DEFINE m == MaxRound + 1
<1>a. m \in Nat \ {0} /\ \A x \in 0..MaxRound : x \in Nat /\ x < m
  BY <1>1
<1> HIDE DEF m
<1>b. \A x \in 0..MaxRound : x % m = x
  BY <1>a, ModType
<1>5. a % (MaxRound + 1) = a
  BY <1>3, <1>b DEF m
<1>6. c.queued => (c.round + 1) % (MaxRound + 1) = c.round + 1
  BY <1>4, <1>b DEF m
<1>7. PreparedRound = IF a > n THEN a ELSE n
  BY <1>5, <1>6 DEF PreparedRound, a
<1>8. QED
  BY <1>1, <1>3, <1>4, <1>7 DEF a

-----------------------------------------------------------------------------
(* What the steps do to the context, field by field *)

GoesIdle ==
    /\ c' \in Contexts /\ c'.state = "wait_for_next_block"
    /\ c'.height = c.height /\ c'.top = c.top /\ c'.prepared = FALSE

(* A round is left for the next block. *)
LEMMA LeavesFacts ==
    ASSUME Shapes, Leaves
    PROVE  GoesIdle
<1>1. c' = Idle(c)
  BY DEF Leaves, GotoWaitForNextBlock
<1>2. c \in Contexts
  BY DEF Shapes
<1>3. QED
  BY <1>1, <1>2, IdleFacts DEF GoesIdle

(* A round is left for the next one. *)
LEMMA RetriesFacts ==
    ASSUME Shapes, Retries
    PROVE  /\ c' \in Contexts /\ c'.state = "prepare_for_round" /\ c'.queued = TRUE
           /\ c'.height = c.height /\ c'.top = c.top /\ c'.r0 = c.r0
           /\ c'.round = c.round /\ c'.start = c.start /\ c'.prepared = c.prepared
<1>1. c' = [c EXCEPT !.state = "prepare_for_round", !.queued = TRUE] /\ c \in Contexts
  BY DEF Retries, GotoPreparing, Shapes
<1>2. QED
  BY <1>1 DEF Contexts, States

(* The ceremony starts. *)
LEMMA StartsFacts ==
    ASSUME Shapes, Starts
    PROVE  /\ c' \in Contexts /\ c'.state = "in_round" /\ c'.queued = c.queued
           /\ c'.height = c.height /\ c'.top = c.top /\ c'.r0 = c.r0
           /\ c'.round = c.round /\ c'.start = c.start /\ c'.prepared = c.prepared
<1>1. c' = [c EXCEPT !.state = "in_round"] /\ c \in Contexts
  BY DEF Starts, Shapes
<1>2. QED
  BY <1>1 DEF Contexts, States

(* The block at the height that was read, if there is one. *)
LEMMA BlockRead ==
    ASSUME Shapes, ReadInv, read.step # "height", ~(read.height > Height)
    PROVE  /\ read.height \in 1..Height /\ read.height \in Nat
           /\ chain[read.height].id \in Nat /\ chain[read.height].timestamp \in Nat
<1>1. read.height \in 1..MaxHeight /\ Height \in 1..MaxHeight /\ MaxHeight \in Nat
  BY RoundsAssumption DEF ReadInv, Shapes
<1>2. read.height \in 1..Height /\ read.height \in Nat
  BY <1>1
<1>3. chain \in Seq(ChainBlocks) /\ read.height \in 1..Len(chain)
  BY <1>2 DEF Shapes, Height
<1>4. chain[read.height] \in ChainBlocks
  BY <1>3, ElementOfSeq
<1>5. QED
  BY <1>2, <1>4 DEF ChainBlocks

(* The context of another block. *)
NewContext ==
    /\ c' \in Contexts /\ c'.state = "prepare_for_round"
    /\ c'.height = read.height /\ c'.top = read.top
    /\ c'.r0 = Round0(read.height, chain[read.height].timestamp)
    /\ c'.round = 0 /\ c'.queued = FALSE /\ c'.prepared = FALSE

(* wait_for_next_block takes the block it has read, if it is still there. *)
LEMMA ReadTimestampFacts ==
    ASSUME Shapes, ReadInv, ReadTimestamp
    PROVE  \/ c' = c
           \/ read.height \in 1..Height /\ NewContext
<1>1. CASE read.height > Height
  BY <1>1 DEF ReadTimestamp
<1>2. CASE ~(read.height > Height)
  <2> DEFINE f == Fresh(c)
             start == Round0(read.height, chain[read.height].timestamp)
  <2>1. c' = [f EXCEPT !.state = "prepare_for_round", !.height = read.height,
                       !.top = read.top, !.r0 = start]
    BY <1>2 DEF ReadTimestamp, HeightRead, TimestampRead
  <2>2. /\ f \in Contexts /\ f.round = 0 /\ f.queued = FALSE /\ f.prepared = FALSE
    BY FreshFacts DEF Shapes
  <2>3. read.height \in 0..MaxHeight /\ read.top \in Nat
    BY DEF Shapes, Reads
  <2>4. /\ read.height \in 1..Height /\ read.height \in Nat
        /\ chain[read.height].timestamp \in Nat
    BY <1>2, BlockRead DEF ReadTimestamp
  <2>5. start \in Nat
    BY <2>4, Round0Type
  <2> HIDE DEF f, start
  <2>6. /\ c' \in Contexts /\ c'.state = "prepare_for_round"
        /\ c'.height = read.height /\ c'.top = read.top /\ c'.r0 = start
        /\ c'.round = 0 /\ c'.queued = FALSE /\ c'.prepared = FALSE
    BY <2>1, <2>2, <2>3, <2>5 DEF Contexts, States
  <2>7. QED
    BY <2>4, <2>6 DEF NewContext, start
<1>3. QED
  BY <1>1, <1>2

(* The next round of the context's block. *)
Prepares ==
    /\ c' \in Contexts /\ c'.state = "wait_for_round"
    /\ c'.height = c.height /\ c'.top = c.top /\ c'.r0 = c.r0
    /\ c'.round = PreparedRound /\ c'.prepared = TRUE
    /\ c'.start = c.r0 + PreparedRound * RoundTime
    /\ ~Exhausted

(* prepare_for_round. *)
LEMMA PrepareFacts ==
    ASSUME Shapes, PrepareForRound
    PROVE  GoesIdle \/ Prepares
<1>0. c \in Contexts
  BY DEF Shapes
<1>1. CASE Exhausted \/ Moved \/ ~QuorumAvailable
  <2>1. c' = Idle(c)
    BY <1>1 DEF PrepareForRound
  <2>2. QED
    BY <1>0, <2>1, IdleFacts DEF GoesIdle
<1>2. CASE ~(Exhausted \/ Moved \/ ~QuorumAvailable)
  <2> DEFINE r == PreparedRound
             t == c.r0 + r * RoundTime
  <2>1. PICK participant \in {"producer", "validator", "none"} :
           c' = [c EXCEPT !.state = "wait_for_round", !.round = r,
                          !.queued = FALSE, !.prepared = TRUE, !.start = t,
                          !.participant = participant]
    BY <1>2 DEF PrepareForRound
  <2>2. r \in 0..MaxRound
    BY <1>2, PreparedFacts
  <2>3. t \in Nat
    BY <1>0, <2>2, StartType, RoundsAssumption DEF Contexts
  <2> HIDE DEF r, t
  <2>4. /\ c' \in Contexts /\ c'.state = "wait_for_round"
        /\ c'.height = c.height /\ c'.top = c.top /\ c'.r0 = c.r0
        /\ c'.round = r /\ c'.prepared = TRUE /\ c'.start = t
    BY <1>0, <2>1, <2>2, <2>3 DEF Contexts, States
  <2>5. QED
    BY <1>2, <2>4 DEF Prepares, r, t
<1>3. QED
  BY <1>1, <1>2

-----------------------------------------------------------------------------
(* Types *)

(* The chain keeps its type. *)
LEMMA ChainType ==
    ASSUME Shapes, SameChain \/ \E k \in 1..Height : NewBlock(k)
    PROVE  chain' \in Seq(ChainBlocks) /\ Height' \in 1..MaxHeight /\ made' \in Nat
<1>1. CASE SameChain
  BY <1>1 DEF Shapes, SameChain, Height
<1>2. ASSUME NEW k \in 1..Height, NewBlock(k)
      PROVE  chain' \in Seq(ChainBlocks) /\ Height' \in 1..MaxHeight /\ made' \in Nat
  <2>1. /\ chain' \in Seq(ChainBlocks) /\ Len(chain') = k + 1 /\ k \in 1..Height /\ k < MaxHeight
        /\ made' = made + 1
    BY <1>2 DEF NewBlock
  <2>2. Height \in Nat /\ MaxHeight \in Nat /\ made \in Nat
    BY RoundsAssumption DEF Shapes
  <2>3. QED
    BY <2>1, <2>2 DEF Height
<1>3. QED
  BY <1>1, <1>2

(* Every step keeps the types. *)
LEMMA ShapesNext ==
    ASSUME Shapes, ReadInv, Next
    PROVE  Shapes'
<1>1. CASE EnvMoves
  <2>1. chain' \in Seq(ChainBlocks) /\ Height' \in 1..MaxHeight /\ made' \in Nat
    <3>1. Height \in 1..Height
      BY DEF Shapes
    <3>2. QED
      BY <1>1, <3>1, ChainType DEF EnvMoves
  <2>2. reorgs' \in 0..MaxReorgs /\ now' \in 0..MaxTime
    BY <1>1, RoundsAssumption DEF EnvMoves, Shapes
  <2>3. QED
    BY <1>1, <2>1, <2>2 DEF EnvMoves, Shapes
<1>2. CASE ReadHeight
  <2>1. read' \in Reads
    BY <1>2, RoundsAssumption DEF ReadHeight, Reads, Shapes
  <2>2. QED
    BY <1>2, <2>1 DEF ReadHeight, Shapes, env, Height
<1>3. CASE ReadHash
  <2>1. ASSUME ~(read.height > Height) PROVE chain[read.height].id \in Nat
    BY <1>3, <2>1, BlockRead DEF ReadHash
  <2>2. NotRead \in Reads
    BY RoundsAssumption DEF NotRead, Reads
  <2>3. read' \in Reads
    BY <1>3, <2>1, <2>2 DEF ReadHash, Reads, Shapes
  <2>4. QED
    BY <1>3, <2>3 DEF ReadHash, Shapes, env, Height
<1>4. CASE ReadTimestamp
  <2>1. read' \in Reads
    BY <1>4, RoundsAssumption DEF ReadTimestamp, NotRead, Reads
  <2>2. c' \in Contexts
    BY <1>4, ReadTimestampFacts DEF NewContext, Shapes
  <2>3. QED
    BY <1>4, <2>1, <2>2 DEF ReadTimestamp, Shapes, env, Height
<1>5. CASE PrepareForRound
  <2>1. c' \in Contexts
    BY <1>5, PrepareFacts DEF GoesIdle, Prepares
  <2>2. /\ history' \in [slots : [Slots -> Quorums], index : Nat]
        /\ left' \in Seq(Quorums) /\ Len(left') <= HistorySize
    BY <1>5, ClearType DEF PrepareForRound
  <2>3. QED
    BY <1>5, <2>1, <2>2 DEF PrepareForRound, Shapes, env, Height
<1>6. CASE Leaves
  <2>1. c' \in Contexts
    BY <1>6, LeavesFacts DEF GoesIdle
  <2>2. /\ history' \in [slots : [Slots -> Quorums], index : Nat]
        /\ left' \in Seq(Quorums) /\ Len(left') <= HistorySize
    BY <1>6, ClearType DEF Leaves, GotoWaitForNextBlock
  <2>3. chain' \in Seq(ChainBlocks) /\ Height' \in 1..MaxHeight /\ made' \in Nat
    <3>1. Height \in 1..Height
      BY DEF Shapes
    <3>2. QED
      BY <1>6, <3>1, ChainType DEF Leaves
  <2>4. QED
    BY <1>6, <2>1, <2>2, <2>3 DEF Leaves, Shapes
<1>7. CASE Retries
  <2>1. c' \in Contexts
    BY <1>7, RetriesFacts
  <2>2. QED
    BY <1>7, <2>1 DEF Retries, GotoPreparing, Shapes, env, Height
<1>8. CASE Starts
  <2>1. c' \in Contexts /\ Quorum \in Quorums
    BY <1>8, StartsFacts, QuorumFacts
  <2>2. QED
    BY <1>8, <2>1 DEF Starts, Shapes, env, Height
<1>9. QED
  BY <1>1, <1>2, <1>3, <1>4, <1>5, <1>6, <1>7, <1>8, StepKinds

-----------------------------------------------------------------------------
(* Blocks *)

(* The chain is the one before, or ends in a block made now. *)
LEMMA ChainMoves ==
    ASSUME Shapes, Next
    PROVE  /\ now' \in Nat /\ now' >= now
           /\ SameChain \/ \E k \in 1..Height : NewBlock(k)
<1>0. now \in Nat /\ MaxTime \in Nat /\ Height \in 1..Height
  BY RoundsAssumption DEF Shapes
<1>1. CASE EnvMoves
  BY <1>0, <1>1 DEF EnvMoves
<1>2. CASE Leaves
  BY <1>0, <1>2 DEF Leaves
<1>3. CASE ReadHeight \/ ReadHash \/ ReadTimestamp \/ PrepareForRound \/ Retries \/ Starts
  <2>1. UNCHANGED env
    BY <1>3 DEF ReadHeight, ReadHash, ReadTimestamp, PrepareForRound, Retries, Starts
  <2>2. QED
    BY <1>0, <2>1 DEF env, SameChain
<1>4. QED
  BY <1>1, <1>2, <1>3, StepKinds

(* A hash made before names a block that was there before, where it was. *)
LEMMA OldBlocks ==
    ASSUME Shapes, Next
    PROVE  /\ made' \in Nat /\ made' >= made
           /\ \A i \in 1..Height' : chain'[i].id <= made =>
                i \in 1..Height /\ chain'[i] = chain[i]
<1>0. made \in Nat /\ Height \in Nat
  BY DEF Shapes
<1>1. CASE SameChain
  BY <1>0, <1>1 DEF SameChain, Height
<1>2. ASSUME NEW k \in 1..Height, NewBlock(k)
      PROVE  /\ made' \in Nat /\ made' >= made
             /\ \A i \in 1..Height' : chain'[i].id <= made =>
                  i \in 1..Height /\ chain'[i] = chain[i]
  <2>1. /\ Height' = k + 1 /\ \A i \in 1..k : chain'[i] = chain[i]
        /\ chain'[k + 1].id = made + 1 /\ made' = made + 1
    BY <1>2 DEF NewBlock, Height
  <2>2. ASSUME NEW i \in 1..Height', chain'[i].id <= made
        PROVE  i \in 1..k
    BY <1>0, <2>1, <2>2
  <2>3. QED
    BY <1>0, <2>1, <2>2
<1>3. QED
  BY <1>1, <1>2, ChainMoves

(* The tip is the one before or a block made now. *)
LEMMA TipMoves ==
    ASSUME Shapes, Next
    PROVE  \/ Tip' = Tip /\ Height' = Height /\ made' = made
           \/ Tip'.id = made + 1 /\ made' = made + 1
  BY ChainMoves DEF SameChain, NewBlock, Tip, Height

(* Hashes stay different. *)
LEMMA ChainInvNext ==
    ASSUME Shapes, ChainInv, Next
    PROVE  ChainInv'
<1>0. made \in Nat /\ Height \in Nat /\ now \in Nat /\ now' \in Nat /\ now' >= now
  BY RoundsAssumption, ChainMoves DEF Shapes
<1>1. CASE SameChain
  <2>1. chain' = chain /\ made' = made /\ Height' = Height
    BY <1>1 DEF SameChain, Height
  <2>2. QED
    BY <1>0, <2>1 DEF ChainInv
<1>2. ASSUME NEW k \in 1..Height, NewBlock(k)
      PROVE  ChainInv'
  <2>1. /\ Height' = k + 1 /\ \A i \in 1..k : chain'[i] = chain[i]
        /\ chain'[k + 1].id = made + 1 /\ chain'[k + 1].timestamp \in 0..now
        /\ made' = made + 1
    BY <1>2 DEF NewBlock, Height
  <2>2. \A i \in 1..k : /\ chain'[i].id \in 1..made /\ chain'[i].timestamp \in 0..now
    BY <1>0, <2>1 DEF ChainInv
  <2>3. \A i, j \in 1..k : chain'[i].id = chain'[j].id => i = j
    BY <1>0, <2>1 DEF ChainInv
  <2>4. \A i \in 1..Height' : i \in 1..k \/ i = k + 1
    BY <1>0, <2>1
  <2>5. \A i \in 1..Height' : chain'[i].id \in 1..made' /\ chain'[i].timestamp \in 0..now'
    BY <1>0, <2>1, <2>2, <2>4
  <2>6. \A i \in 1..k : chain'[i].id # chain'[k + 1].id
    BY <1>0, <2>1, <2>2
  <2>7. \A i, j \in 1..Height' : chain'[i].id = chain'[j].id => i = j
    BY <2>3, <2>4, <2>6
  <2>8. QED
    BY <2>5, <2>7 DEF ChainInv
<1>3. QED
  BY <1>1, <1>2, ChainMoves

-----------------------------------------------------------------------------
(* The reads of wait_for_next_block, and the flags *)

(* Only wait_for_next_block reads. *)
LEMMA ReadInvNext ==
    ASSUME Shapes, ChainInv, ReadInv, Next
    PROVE  ReadInv'
<1>0. made \in Nat /\ made' \in Nat /\ made' >= made
  BY OldBlocks DEF Shapes
<1>1. CASE EnvMoves
  <2>1. c' = c /\ read' = read
    BY <1>1 DEF EnvMoves
  <2>2. ASSUME read.step = "timestamp"
        PROVE  /\ read.top \in 1..made'
               /\ \A i \in 1..Height' : chain'[i].id = read.top => i = read.height
    <3>1. /\ read.top \in 1..made
          /\ \A i \in 1..Height : chain[i].id = read.top => i = read.height
      BY <2>2 DEF ReadInv
    <3>2. ASSUME NEW i \in 1..Height', chain'[i].id = read.top
          PROVE  i = read.height
      <4>1. chain'[i].id <= made
        BY <1>0, <3>1, <3>2
      <4>2. i \in 1..Height /\ chain'[i] = chain[i]
        BY <4>1, OldBlocks
      <4>3. QED
        BY <3>1, <3>2, <4>2
    <3>3. QED
      BY <1>0, <3>1, <3>2
  <2>3. QED
    BY <2>1, <2>2 DEF ReadInv
<1>2. CASE ReadHeight
  <2>1. read' = [step |-> "hash", height |-> Height, top |-> 0] /\ c' = c
        /\ c.state = "wait_for_next_block" /\ c.height # Height /\ Height \in 1..MaxHeight
    BY <1>2 DEF ReadHeight, Shapes
  <2>2. QED
    BY <2>1 DEF ReadInv
<1>3. CASE ReadHash
  <2>1. CASE read.height > Height
    <3>1. read' = NotRead
      BY <1>3, <2>1 DEF ReadHash
    <3>2. QED
      BY <3>1 DEF ReadInv, NotRead
  <2>2. CASE ~(read.height > Height)
    <3>1. /\ read' = [read EXCEPT !.step = "timestamp", !.top = chain[read.height].id]
          /\ read \in Reads /\ read.step = "hash"
          /\ c' = c /\ chain' = chain /\ made' = made /\ Height' = Height
      BY <1>3, <2>2 DEF ReadHash, env, Height, Shapes
    <3>2. /\ read'.step = "timestamp" /\ read'.height = read.height
          /\ read'.top = chain[read.height].id
      BY <3>1 DEF Reads
    <3>3. read.height \in 1..Height
      BY <2>2, <3>1, BlockRead
    <3>4. /\ read'.top \in 1..made
          /\ \A i \in 1..Height : chain[i].id = read'.top => i = read.height
      BY <3>2, <3>3 DEF ChainInv
    <3>5. /\ c.state = "wait_for_next_block"
          /\ read.height \in 1..MaxHeight /\ read.height # c.height
      BY <3>1 DEF ReadInv
    <3>6. QED
      BY <3>1, <3>2, <3>4, <3>5 DEF ReadInv
  <2>3. QED
    BY <2>1, <2>2
<1>4. CASE ReadTimestamp
  <2>1. read' = NotRead
    BY <1>4 DEF ReadTimestamp
  <2>2. QED
    BY <2>1 DEF ReadInv, NotRead
<1>5. CASE PrepareForRound \/ Leaves \/ Retries \/ Starts
  <2>1. c.state # "wait_for_next_block" /\ read' = read
    BY <1>5 DEF PrepareForRound, Leaves, Retries, Starts
  <2>2. QED
    BY <2>1 DEF ReadInv
<1>6. QED
  BY <1>1, <1>2, <1>3, <1>4, <1>5, StepKinds

(* The flags follow the state. *)
LEMMA FlagsInvNext ==
    ASSUME Shapes, ReadInv, FlagsInv, Next
    PROVE  FlagsInv'
<1>1. CASE c' = c
  BY <1>1 DEF FlagsInv
<1>2. CASE EnvMoves \/ ReadHeight \/ ReadHash
  BY <1>1, <1>2 DEF EnvMoves, ReadHeight, ReadHash
<1>3. CASE ReadTimestamp
  BY <1>1, <1>3, ReadTimestampFacts DEF NewContext, FlagsInv
<1>4. CASE PrepareForRound
  BY <1>4, PrepareFacts DEF GoesIdle, Prepares, FlagsInv
<1>5. CASE Leaves
  BY <1>5, LeavesFacts DEF GoesIdle, FlagsInv
<1>6. CASE Retries
  <2>1. c.state \in {"wait_for_round", "in_round"}
    BY <1>6 DEF Retries
  <2>2. c.prepared /\ c.prepared \in BOOLEAN
    BY <2>1 DEF FlagsInv, Shapes, Contexts
  <2>3. c'.prepared = TRUE /\ c'.queued = TRUE /\ c'.state = "prepare_for_round"
    BY <1>6, <2>2, RetriesFacts
  <2>4. QED
    BY <2>3 DEF FlagsInv
<1>7. CASE Starts
  <2>1. c.prepared
    BY <1>7 DEF FlagsInv, Starts
  <2>2. c'.state = "in_round" /\ c'.prepared = c.prepared
    BY <1>7, StartsFacts
  <2>3. QED
    BY <2>1, <2>2 DEF FlagsInv
<1>8. QED
  BY <1>2, <1>3, <1>4, <1>5, <1>6, <1>7, StepKinds

-----------------------------------------------------------------------------
(* The context and the block it names *)

(* Facts about a context that a step leaves alone hold on as the chain moves. *)
LEMMA TimingKept ==
    ASSUME Shapes, TimingInv, Next,
           c'.top = c.top, c'.height = c.height, c'.r0 = c.r0,
           c'.round = c.round, c'.start = c.start, c'.prepared = c.prepared,
           c.state # "wait_for_next_block" \/ c'.state = "wait_for_next_block"
    PROVE  TimingInv'
<1>0. made \in Nat /\ made' \in Nat /\ made' >= made /\ c.top \in 0..made
  BY OldBlocks DEF Shapes, TimingInv
<1>1. ASSUME c'.state # "wait_for_next_block"
      PROVE  /\ c.height # 0
             /\ \A i \in 1..Height' : chain'[i].id = c.top =>
                  i = c.height /\ c.r0 = Round0(c.height, chain'[i].timestamp)
  <2>1. /\ c.height # 0
        /\ \A i \in 1..Height : chain[i].id = c.top =>
             i = c.height /\ c.r0 = Round0(c.height, chain[i].timestamp)
    BY <1>1 DEF TimingInv
  <2>2. ASSUME NEW i \in 1..Height', chain'[i].id = c.top
        PROVE  i \in 1..Height /\ chain'[i] = chain[i]
    <3>1. chain'[i].id <= made
      BY <1>0, <2>2
    <3>2. QED
      BY <3>1, OldBlocks
  <2>3. QED
    BY <2>1, <2>2
<1>2. c'.top \in 0..made'
  BY <1>0
<1>3. c'.prepared => c'.start = c'.r0 + c'.round * RoundTime
  BY DEF TimingInv
<1>4. QED
  BY <1>1, <1>2, <1>3 DEF TimingInv

(* The hash names the block whose timings the context has, or none. *)
LEMMA TimingInvNext ==
    ASSUME Shapes, ChainInv, ReadInv, TimingInv, Next
    PROVE  TimingInv'
<1>0. made \in Nat /\ made' \in Nat /\ made' >= made /\ c.top \in 0..made
  BY OldBlocks DEF Shapes, TimingInv
<1>1. CASE c' = c
  BY <1>1, TimingKept
<1>2. CASE EnvMoves \/ ReadHeight \/ ReadHash
  BY <1>1, <1>2 DEF EnvMoves, ReadHeight, ReadHash
<1>3. CASE ReadTimestamp
  <2>1. CASE read.height \in 1..Height /\ NewContext
    <3>1. /\ read.top \in 1..made
          /\ \A i \in 1..Height : chain[i].id = read.top => i = read.height
      BY <1>3 DEF ReadTimestamp, ReadInv
    <3>2. chain' = chain /\ Height' = Height /\ made' = made
      BY <1>3 DEF ReadTimestamp, env, Height
    <3>3. /\ c'.state = "prepare_for_round" /\ c'.height = read.height /\ c'.top = read.top
          /\ c'.r0 = Round0(read.height, chain[read.height].timestamp) /\ c'.prepared = FALSE
      BY <2>1 DEF NewContext
    <3>4. c'.top \in 0..made' /\ c'.height # 0
      BY <1>0, <2>1, <3>1, <3>2, <3>3
    <3>5. QED
      BY <3>1, <3>2, <3>3, <3>4 DEF TimingInv
  <2>2. QED
    BY <1>1, <1>3, <2>1, ReadTimestampFacts
<1>4. ASSUME GoesIdle PROVE TimingInv'
  BY <1>0, <1>4 DEF GoesIdle, TimingInv
<1>5. CASE PrepareForRound
  <2>1. CASE Prepares
    <3>1. /\ c.state = "prepare_for_round" /\ chain' = chain /\ Height' = Height /\ made' = made
      BY <1>5 DEF PrepareForRound, env, Height
    <3>2. /\ c.height # 0
          /\ \A i \in 1..Height : chain[i].id = c.top =>
               i = c.height /\ c.r0 = Round0(c.height, chain[i].timestamp)
      BY <3>1 DEF TimingInv
    <3>3. /\ c'.height = c.height /\ c'.top = c.top /\ c'.r0 = c.r0
          /\ c'.start = c'.r0 + c'.round * RoundTime
      BY <2>1 DEF Prepares
    <3>4. QED
      BY <1>0, <3>1, <3>2, <3>3 DEF TimingInv
  <2>2. QED
    BY <1>4, <1>5, <2>1, PrepareFacts
<1>6. CASE Leaves
  BY <1>4, <1>6, LeavesFacts
<1>7. CASE Retries
  <2>1. c.state # "wait_for_next_block"
    BY <1>7 DEF Retries
  <2>2. QED
    BY <1>7, <2>1, RetriesFacts, TimingKept
<1>8. CASE Starts
  <2>1. c.state # "wait_for_next_block"
    BY <1>8 DEF Starts
  <2>2. QED
    BY <1>8, <2>1, StartsFacts, TimingKept
<1>9. QED
  BY <1>2, <1>3, <1>5, <1>6, <1>7, <1>8, StepKinds

-----------------------------------------------------------------------------
(* The history *)

(* Only clear_round_data changes the history and the quorums left. *)
LEMMA HistoryMoves ==
    ASSUME Shapes, Next
    PROVE  \/ history' = history /\ left' = left
           \/ ClearRoundData /\ (PrepareForRound \/ Leaves)
  BY StepKinds DEF EnvMoves, ReadHeight, ReadHash, ReadTimestamp, PrepareForRound, Leaves,
                   Retries, Starts, GotoPreparing, GotoWaitForNextBlock

(* A prepared round is of a block. *)
LEMMA PreparedHeight ==
    ASSUME FlagsInv, TimingInv, c.prepared
    PROVE  c.height # 0 /\ c.state # "wait_for_next_block"
  BY DEF FlagsInv, TimingInv

(* The slots below the index are the ones in use. *)
LEMMA SlotsInvNext ==
    ASSUME Shapes, FlagsInv, TimingInv, SlotsInv, Next
    PROVE  SlotsInv'
<1>1. CASE history' = history
  BY <1>1 DEF SlotsInv
<1>2. CASE /\ c.prepared
           /\ history'.slots = [history.slots EXCEPT ![Slot] = Quorum]
           /\ history'.index = history.index + 1
  <2>1. Quorum # None
    BY <1>2, PreparedHeight, QuorumFacts
  <2>2. /\ Slot \in Slots /\ history.index \in Nat
        /\ history.index < HistorySize => Slot = history.index
    BY SlotType
  <2>3. history.slots \in [Slots -> Quorums]
    BY DEF Shapes
  <2>4. \A i \in Slots : history'.slots[i] = IF i = Slot THEN Quorum ELSE history.slots[i]
    BY <1>2, <2>3
  <2>5. \A i \in Slots : i \in Nat /\ i < HistorySize
    BY RoundsAssumption DEF Slots
  <2>6. ASSUME NEW i \in Slots PROVE i < history.index + 1 <=> history'.slots[i] # None
    <3>1. CASE i = Slot
      <4>1. i < history.index + 1
        BY <2>2, <2>5, <3>1, RoundsAssumption
      <4>2. QED
        BY <2>1, <2>4, <3>1, <4>1
    <3>2. CASE i # Slot
      <4>1. i < history.index + 1 <=> i < history.index
        BY <2>2, <2>5, <3>2, RoundsAssumption
      <4>2. QED
        BY <2>4, <3>2, <4>1 DEF SlotsInv
    <3>3. QED
      BY <3>1, <3>2
  <2>7. QED
    BY <1>2, <2>6 DEF SlotsInv
<1>3. QED
  BY <1>1, <1>2, HistoryMoves, HistoryFacts

-----------------------------------------------------------------------------
(* The rounds run *)

(* A block that came after a round is not the block of that round. *)
LEMMA RanBlocks ==
    ASSUME Shapes, ReadInv, RanInv, Next, c'.height = c.height, read' = read, NEW q \in ran
    PROVE  /\ q.top <= made'
           /\ q.top = Tip'.id => c'.height = Height'
           /\ read'.step # "height" => Tip'.id # q.top
           /\ read'.step = "hash" /\ read'.height <= Height' => chain'[read'.height].id # q.top
           /\ read'.step = "timestamp" => read'.top # q.top
<1>0. made \in Nat /\ made' \in Nat /\ made' >= made /\ q.top \in Nat /\ q.top <= made
  BY OldBlocks DEF Shapes, Quorums, RanInv
<1>1. q.top = Tip'.id => Tip' = Tip /\ Height' = Height
  BY <1>0, TipMoves
<1>2. ASSUME read.step = "hash", read.height <= Height', chain'[read.height].id = q.top
      PROVE  FALSE
  <2>1. read.height \in 1..MaxHeight /\ Height' \in Nat
    BY <1>2, ShapesNext DEF ReadInv, Shapes
  <2>2. read.height \in 1..Height' /\ read.height \in Nat
    BY <1>2, <2>1, RoundsAssumption
  <2>3. read.height \in 1..Height /\ chain'[read.height] = chain[read.height]
    BY <1>0, <1>2, <2>2, OldBlocks
  <2>4. read.height <= Height
    BY <2>2, <2>3 DEF Shapes
  <2>5. QED
    BY <1>2, <2>3, <2>4 DEF RanInv
<1>3. QED
  BY <1>0, <1>1, <1>2 DEF RanInv

(* How the rounds run of the context's block compare with its round. *)
Before(r, q) ==
    CASE r.state = "wait_for_next_block" -> TRUE
      [] r.state = "prepare_for_round" -> r.queued /\ q.round <= r.round
      [] r.state = "wait_for_round" -> q.round < r.round
      [] OTHER -> q.round <= r.round

(* No round is run again. *)
LEMMA RanInvNext ==
    ASSUME Shapes, ChainInv, ReadInv, FlagsInv, RanInv, TimingInv, Next
    PROVE  RanInv'
<1>0. /\ \A q \in ran : q.top \in Nat /\ q.top <= made /\ q.round \in Nat
      /\ made \in Nat /\ c.round \in Nat /\ c.top \in 0..made
  <2>1. \A q \in ran : q \in Quorums /\ q.top <= made
    BY DEF Shapes, RanInv
  <2>2. \A q \in Quorums : q.top \in Nat /\ q.round \in Nat
    BY RoundsAssumption DEF Quorums
  <2>3. made \in Nat /\ c.round \in Nat /\ c.top \in 0..made
    BY RoundsAssumption DEF Shapes, Contexts, TimingInv
  <2>4. QED
    BY <2>1, <2>2, <2>3
<1>a. ASSUME ran' = ran, c'.height = c.height, read' = read,
             \A q \in ran : c'.top = q.top => Before(c', q)
      PROVE  RanInv'
  <2>1. ASSUME NEW q \in ran
        PROVE  /\ q.top <= made'
               /\ q.top = Tip'.id => c'.height = Height'
               /\ read'.step # "height" => Tip'.id # q.top
               /\ read'.step = "hash" /\ read'.height <= Height'
                    => chain'[read'.height].id # q.top
               /\ read'.step = "timestamp" => read'.top # q.top
    BY <1>a, RanBlocks
  <2>2. QED
    BY <1>a, <2>1 DEF RanInv, Before
<1>b. \A q \in ran : c.top = q.top => Before(c, q)
  BY DEF RanInv, Before
<1>1. CASE EnvMoves
  BY <1>1, <1>a, <1>b DEF EnvMoves
<1>2. CASE ReadHeight
  <2>1. /\ read' = [step |-> "hash", height |-> Height, top |-> 0] /\ c' = c /\ ran' = ran
        /\ c.height # Height /\ chain' = chain /\ made' = made /\ Tip' = Tip /\ Height' = Height
    BY <1>2 DEF ReadHeight, env, Tip, Height
  <2>2. \A q \in ran : q.top # Tip.id
    BY <2>1 DEF RanInv
  <2>3. chain[Height] = Tip
    BY DEF Tip, Height
  <2>4. QED
    BY <2>1, <2>2, <2>3 DEF RanInv
<1>3. CASE ReadHash
  <2>1. /\ c' = c /\ ran' = ran /\ read.step = "hash" /\ read \in Reads
        /\ chain' = chain /\ made' = made /\ Tip' = Tip /\ Height' = Height
    BY <1>3 DEF ReadHash, env, Tip, Height, Shapes
  <2>2. CASE read.height > Height
    <3>1. read' = NotRead
      BY <1>3, <2>2 DEF ReadHash
    <3>2. QED
      BY <2>1, <3>1 DEF RanInv, NotRead
  <2>3. CASE ~(read.height > Height)
    <3>1. read' = [read EXCEPT !.step = "timestamp", !.top = chain[read.height].id]
      BY <1>3, <2>3 DEF ReadHash
    <3>2. read'.step = "timestamp" /\ read'.top = chain[read.height].id
      BY <2>1, <3>1 DEF Reads
    <3>3. read.height <= Height
      BY <2>1, <2>3, BlockRead DEF Shapes
    <3>4. QED
      BY <2>1, <3>2, <3>3 DEF RanInv
  <2>4. QED
    BY <2>2, <2>3
<1>4. CASE ReadTimestamp
  <2>1. /\ read' = NotRead /\ read.step = "timestamp" /\ ran' = ran
        /\ chain' = chain /\ made' = made /\ Tip' = Tip /\ Height' = Height
    BY <1>4 DEF ReadTimestamp, env, Tip, Height
  <2>2. \A q \in ran : q.top # Tip.id /\ read.top # q.top
    BY <2>1 DEF RanInv
  <2>3. c' = c \/ c'.top = read.top
    BY <1>4, ReadTimestampFacts DEF NewContext
  <2>4. QED
    BY <2>1, <2>2, <2>3 DEF RanInv, NotRead
<1>5. CASE PrepareForRound
  <2>1. ran' = ran /\ read' = read /\ c.state = "prepare_for_round"
    BY <1>5 DEF PrepareForRound
  <2>2. CASE GoesIdle
    BY <1>a, <2>1, <2>2 DEF GoesIdle, Before
  <2>3. CASE Prepares
    <3>1. /\ c'.height = c.height /\ c'.top = c.top /\ c'.state = "wait_for_round"
          /\ c'.round = PreparedRound /\ ~Exhausted
      BY <2>3 DEF Prepares
    <3>2. PreparedRound \in Nat /\ (c.queued => PreparedRound > c.round)
      BY <3>1, PreparedFacts, RoundsAssumption
    <3>3. ASSUME NEW q \in ran, c'.top = q.top PROVE Before(c', q)
      <4>1. c.queued /\ q.round <= c.round
        BY <1>b, <2>1, <3>1, <3>3 DEF Before
      <4>2. q.round < c'.round
        BY <1>0, <3>1, <3>2, <4>1
      <4>3. QED
        BY <3>1, <4>2 DEF Before
    <3>4. QED
      BY <1>a, <2>1, <3>1, <3>3
  <2>4. QED
    BY <1>5, <2>2, <2>3, PrepareFacts
<1>6. CASE Leaves
  <2>1. GoesIdle /\ ran' = ran /\ read' = read
    BY <1>6, LeavesFacts DEF Leaves
  <2>2. QED
    BY <1>a, <2>1 DEF GoesIdle, Before
<1>7. CASE Retries
  <2>1. c.state \in {"wait_for_round", "in_round"} /\ ran' = ran /\ read' = read
    BY <1>7 DEF Retries
  <2>2. /\ c'.height = c.height /\ c'.top = c.top /\ c'.round = c.round
        /\ c'.state = "prepare_for_round" /\ c'.queued = TRUE
    BY <1>7, RetriesFacts
  <2>3. ASSUME NEW q \in ran, c'.top = q.top PROVE Before(c', q)
    <3>1. q.round < c.round \/ q.round <= c.round
      BY <1>b, <2>1, <2>2, <2>3 DEF Before
    <3>2. q.round <= c.round
      BY <1>0, <3>1
    <3>3. QED
      BY <2>2, <3>2 DEF Before
  <2>4. QED
    BY <1>a, <2>1, <2>2, <2>3
<1>8. CASE Starts
  <2>1. /\ c.state = "wait_for_round" /\ c.height = Height /\ ran' = ran \cup {Quorum}
        /\ read' = read /\ chain' = chain /\ made' = made /\ Tip' = Tip /\ Height' = Height
    BY <1>8 DEF Starts, env, Tip, Height
  <2>2. /\ c'.height = c.height /\ c'.top = c.top /\ c'.round = c.round
        /\ c'.state = "in_round"
    BY <1>8, StartsFacts
  <2>3. read.step = "height"
    BY <2>1 DEF ReadInv
  <2>4. ASSUME NEW q \in ran, c.top = q.top PROVE q.round <= c.round
    <3>1. q.round < c.round
      BY <1>b, <2>1, <2>4 DEF Before
    <3>2. QED
      BY <1>0, <3>1
  <2>5. Quorum.top = c.top /\ Quorum.round = c.round /\ c.top <= made
    BY <1>0, QuorumFacts
  <2>6. ASSUME NEW q \in ran'
        PROVE  q.top <= made /\ (c.top = q.top => q.round <= c.round)
    BY <1>0, <2>1, <2>4, <2>5
  <2>7. QED
    BY <2>1, <2>2, <2>3, <2>6 DEF RanInv
<1>9. QED
  BY <1>1, <1>2, <1>3, <1>4, <1>5, <1>6, <1>7, <1>8, StepKinds

-----------------------------------------------------------------------------
(* The quorums left, while the chain only grows *)

(* What is stored is in a slot. *)
LEMMA StoredIs ==
    Stored = {q \in {history.slots[i] : i \in Slots} : q # None}
  BY DEF Stored, Slots

(* Stored quorums have heights and rounds. *)
LEMMA StoredType ==
    ASSUME Shapes, NEW q \in Stored
    PROVE  q.height \in Nat /\ q.round \in Nat
<1>1. PICK i \in Slots : q = history.slots[i]
  BY StoredIs
<1>2. q \in Quorums
  BY <1>1 DEF Shapes
<1>3. QED
  BY <1>2, RoundsAssumption DEF Quorums

(* clear_round_data stores nothing but the quorum it leaves. *)
LEMMA StoredMoves ==
    ASSUME Shapes, Next, NEW q \in Stored'
    PROVE  q \in Stored \/ (c.prepared /\ q = Quorum /\ (PrepareForRound \/ Leaves))
<1>1. PICK i \in Slots : q = history'.slots[i] /\ q # None
  <2>1. Stored' = {x \in {history'.slots[i] : i \in Slots} : x # None}
    BY DEF Stored, Slots, None
  <2>2. QED
    BY <2>1
<1>2. CASE history' = history
  BY <1>1, <1>2, StoredIs
<1>3. CASE /\ c.prepared /\ (PrepareForRound \/ Leaves)
           /\ history'.slots = [history.slots EXCEPT ![Slot] = Quorum]
  <2>1. q = Quorum \/ q = history.slots[i]
    BY <1>1, <1>3 DEF Shapes
  <2>2. QED
    BY <1>1, <1>3, <2>1, StoredIs
<1>4. QED
  BY <1>2, <1>3, HistoryMoves, HistoryFacts

(* The chain grows: the heights of the context and of the reads lag behind. *)
LEMMA LateHeights ==
    ASSUME Shapes, ReadInv, LateInv, reorgs' = 0, Next
    PROVE  /\ c'.height <= Height'
           /\ read'.step # "height" => c'.height < read'.height /\ read'.height <= Height'
           /\ c'.height >= c.height
           /\ c'.height = c.height \/ c'.prepared = FALSE
<1>0. /\ Height \in Nat /\ c.height \in Nat /\ read.height \in Nat /\ c.height <= Height
      /\ read.step # "height" => c.height < read.height /\ read.height <= Height
  BY RoundsAssumption DEF Shapes, Contexts, Reads, LateInv
<1>1. Height' \in Nat /\ Height' >= Height
  <2>1. CASE EnvMoves
    <3>1. SameChain \/ NewBlock(Height)
      BY <2>1 DEF EnvMoves, Shapes
    <3>2. QED
      BY <1>0, <3>1 DEF SameChain, NewBlock, Height
  <2>2. CASE Leaves
    BY <1>0, <2>2 DEF Leaves, SameChain, NewBlock, Height
  <2>3. CASE ReadHeight \/ ReadHash \/ ReadTimestamp \/ PrepareForRound \/ Retries \/ Starts
    <3>1. UNCHANGED env
      BY <2>3 DEF ReadHeight, ReadHash, ReadTimestamp, PrepareForRound, Retries, Starts
    <3>2. QED
      BY <1>0, <3>1 DEF env, Height
  <2>4. QED
    BY <2>1, <2>2, <2>3, StepKinds
<1>2. CASE EnvMoves
  BY <1>0, <1>1, <1>2 DEF EnvMoves
<1>3. CASE ReadHeight
  BY <1>0, <1>1, <1>3 DEF ReadHeight
<1>4. CASE ReadHash
  <2>1. read'.step # "height" => read'.height = read.height
    BY <1>4 DEF ReadHash, NotRead, Shapes, Reads
  <2>2. c' = c /\ read.step # "height"
    BY <1>4 DEF ReadHash
  <2>3. QED
    BY <1>0, <1>1, <2>1, <2>2
<1>5. CASE ReadTimestamp
  <2>1. read'.step = "height" /\ read.step # "height"
    BY <1>5 DEF ReadTimestamp, NotRead
  <2>2. c' = c \/ (c'.height = read.height /\ c'.prepared = FALSE)
    BY <1>5, ReadTimestampFacts DEF NewContext
  <2>3. QED
    BY <1>0, <1>1, <2>1, <2>2
<1>6. CASE PrepareForRound \/ Leaves \/ Retries \/ Starts
  <2>1. read.step = "height" /\ read' = read
    BY <1>6 DEF PrepareForRound, Leaves, Retries, Starts, ReadInv
  <2>2. c'.height = c.height
    BY <1>6, PrepareFacts, LeavesFacts, RetriesFacts, StartsFacts DEF GoesIdle, Prepares
  <2>3. QED
    BY <1>0, <1>1, <2>1, <2>2
<1>7. QED
  BY <1>2, <1>3, <1>4, <1>5, <1>6, StepKinds

(* The rounds of one height are stored in ascending order. *)
LEMMA LateStored ==
    ASSUME Shapes, ReadInv, FlagsInv, LateInv, reorgs' = 0, Next, NEW q \in Stored'
    PROVE  /\ q.height <= c'.height
           /\ c'.state # "wait_for_next_block" /\ q.height = c'.height =>
                c'.prepared /\ q.round < c'.round
<1>0. /\ c.height \in Nat /\ c.round \in Nat /\ c'.height \in Nat /\ c'.height >= c.height
      /\ c'.height = c.height \/ c'.prepared = FALSE
  <2>1. c.height \in Nat /\ c.round \in Nat
    BY RoundsAssumption DEF Shapes, Contexts
  <2>2. c'.height \in Nat
    BY ShapesNext, RoundsAssumption DEF Shapes, Contexts
  <2>3. QED
    BY <2>1, <2>2, LateHeights
<1>1. CASE q \in Stored
  <2>1. /\ q.height \in Nat /\ q.round \in Nat /\ q.height <= c.height
        /\ c.state # "wait_for_next_block" /\ q.height = c.height =>
             c.prepared /\ q.round < c.round
    BY <1>1, StoredType DEF LateInv
  <2>2. q.height <= c'.height
    BY <1>0, <2>1
  <2>3. CASE c' = c
    BY <2>1, <2>3
  <2>4. CASE EnvMoves \/ ReadHeight \/ ReadHash
    BY <2>3, <2>4 DEF EnvMoves, ReadHeight, ReadHash
  <2>5. CASE ReadTimestamp
    <3>1. read.step # "height"
      BY <2>5 DEF ReadTimestamp
    <3>2. c.height < read.height /\ read.height \in Nat
      BY <3>1, RoundsAssumption DEF LateInv, Shapes, Reads
    <3>3. CASE c'.height = read.height
      BY <1>0, <2>1, <2>2, <3>2, <3>3
    <3>4. QED
      BY <2>3, <2>5, <3>3, ReadTimestampFacts DEF NewContext
  <2>6. CASE PrepareForRound
    <3>1. CASE GoesIdle
      BY <2>2, <3>1 DEF GoesIdle
    <3>2. CASE Prepares
      <4>1. c'.height = c.height /\ c'.round = PreparedRound /\ c'.prepared = TRUE /\ ~Exhausted
        BY <3>2 DEF Prepares
      <4>2. PreparedRound \in Nat /\ PreparedRound >= c.round
        BY <4>1, PreparedFacts, RoundsAssumption
      <4>3. c.state # "wait_for_next_block"
        BY <2>6 DEF PrepareForRound
      <4>4. QED
        BY <1>0, <2>1, <2>2, <4>1, <4>2, <4>3
    <3>3. QED
      BY <2>6, <3>1, <3>2, PrepareFacts
  <2>7. CASE Leaves
    BY <2>2, <2>7, LeavesFacts DEF GoesIdle
  <2>8. CASE Retries \/ Starts
    <3>1. /\ c'.height = c.height /\ c'.round = c.round /\ c'.prepared = c.prepared
          /\ c.state # "wait_for_next_block"
      BY <2>8, RetriesFacts, StartsFacts DEF Retries, Starts
    <3>2. QED
      BY <2>1, <3>1
  <2>9. QED
    BY <2>4, <2>5, <2>6, <2>7, <2>8, StepKinds
<1>2. CASE c.prepared /\ q = Quorum /\ (PrepareForRound \/ Leaves)
  <2>1. q.height = c.height /\ q.round = c.round
    BY <1>2, QuorumFacts
  <2>2. CASE Leaves
    BY <1>0, <2>1, <2>2, LeavesFacts DEF GoesIdle
  <2>3. CASE PrepareForRound
    <3>1. c.queued
      BY <1>2, <2>3 DEF PrepareForRound, FlagsInv
    <3>2. CASE GoesIdle
      BY <1>0, <2>1, <3>2 DEF GoesIdle
    <3>3. CASE Prepares
      <4>1. c'.height = c.height /\ c'.round = PreparedRound /\ c'.prepared = TRUE /\ ~Exhausted
        BY <3>3 DEF Prepares
      <4>2. PreparedRound \in Nat /\ PreparedRound > c.round
        BY <3>1, <4>1, PreparedFacts, RoundsAssumption
      <4>3. QED
        BY <1>0, <2>1, <4>1, <4>2
    <3>4. QED
      BY <2>3, <3>2, <3>3, PrepareFacts
  <2>4. QED
    BY <1>2, <2>2, <2>3
<1>3. QED
  BY <1>1, <1>2, StoredMoves

(* The quorums left are in the slots before the index. *)
LEMMA LateLeft ==
    ASSUME Shapes, FlagsInv, TimingInv, LateInv, Next
    PROVE  /\ Len(left') <= history'.index
           /\ \A i \in 1..Len(left') :
                /\ left'[i] # None
                /\ left'[i] = history'.slots[(history'.index - i) % HistorySize]
<1>1. CASE history' = history /\ left' = left
  BY <1>1 DEF LateInv
<1>2. CASE c.prepared /\ ClearRoundData
  <2>1. c.height # 0 /\ c.state # "wait_for_next_block"
    BY <1>2, PreparedHeight
  <2>2. ~AlreadyStored
    <3>1. ASSUME NEW q \in Stored, q.height = c.height, q.round = c.round PROVE FALSE
      <4>1. q.round < c.round /\ q.round \in Nat
        BY <2>1, <3>1, StoredType DEF LateInv
      <4>2. QED
        BY <3>1, <4>1
    <3>2. QED
      BY <3>1 DEF AlreadyStored
  <2>3. /\ history' = [slots |-> [history.slots EXCEPT ![Slot] = Quorum],
                       index |-> history.index + 1]
        /\ Slot \in Slots /\ history.slots \in [Slots -> Quorums] /\ history.index \in Nat
    BY <1>2, <2>2, SlotType DEF ClearRoundData, Shapes
  <2>4. /\ history'.index = history.index + 1 /\ history'.slots[Slot] = Quorum
        /\ \A k \in Slots : k # Slot => history'.slots[k] = history.slots[k]
    BY <2>3
  <2>5. /\ left' \in Seq(Quorums)
        /\ Len(left') = IF Len(left) < HistorySize THEN Len(left) + 1 ELSE HistorySize
        /\ left'[1] = Quorum
        /\ \A i \in 1..Len(left') : i # 1 => i - 1 \in 1..Len(left) /\ left'[i] = left[i - 1]
    BY <1>2, LeftFacts
  <2>6. /\ Len(left) \in Nat /\ Len(left) <= HistorySize /\ HistorySize \in Nat \ {0}
        /\ Len(left) <= history.index
        /\ \A i \in 1..Len(left) :
             left[i] # None /\ left[i] = history.slots[(history.index - i) % HistorySize]
    BY LenProperties, RoundsAssumption DEF Shapes, LateInv
  <2>7. Len(left') \in Nat /\ Len(left') <= history'.index /\ Len(left') <= HistorySize
    BY <2>3, <2>4, <2>5, <2>6
  <2>8. ASSUME NEW i \in 1..Len(left')
        PROVE  /\ left'[i] # None
               /\ left'[i] = history'.slots[(history'.index - i) % HistorySize]
    <3>1. CASE i = 1
      <4>1. history'.index - i = history.index
        BY <2>3, <2>4, <3>1
      <4>2. (history'.index - i) % HistorySize = Slot
        BY <4>1 DEF Slot
      <4>3. Quorum # None
        BY <2>1, QuorumFacts
      <4>4. QED
        BY <2>4, <2>5, <3>1, <4>2, <4>3
    <3>2. CASE i # 1
      <4> DEFINE j == i - 1
                 n == history.index
      <4>1. j \in 1..Len(left) /\ left'[i] = left[j]
        BY <2>5, <3>2
      <4>2. history'.index - i = n - j /\ j \in 1..HistorySize - 1 /\ j <= n /\ n - j \in Nat
        <5>1. i \in Nat /\ i <= HistorySize /\ history.index \in Nat /\ HistorySize \in Nat
          BY <2>3, <2>6, <2>7
        <5>2. 1 <= j /\ j <= history.index
          BY <2>6, <4>1, <5>1
        <5>3. history'.index = history.index + 1
          BY <2>4
        <5>4. QED
          BY <5>1, <5>2, <5>3
      <4>3. left[j] # None /\ left[j] = history.slots[(n - j) % HistorySize]
        BY <2>6, <4>1
      <4> HIDE DEF j, n
      <4>4. n \in Nat
        BY <2>3 DEF n
      <4>5. (n - j) % HistorySize # n % HistorySize
        BY <2>6, <4>2, <4>4, ModApart
      <4>6. (n - j) % HistorySize \in Slots
        <5> DEFINE d == n - j
        <5>1. d \in Nat /\ HistorySize \in Nat \ {0}
          BY <2>6, <4>2
        <5> HIDE DEF d
        <5>2. d % HistorySize \in 0..HistorySize - 1
          BY <5>1, ModType
        <5>3. QED
          BY <5>2 DEF d, Slots
      <4>7. (n - j) % HistorySize # Slot
        BY <4>5 DEF Slot, n
      <4>8. history'.slots[(n - j) % HistorySize] = history.slots[(n - j) % HistorySize]
        BY <2>4, <4>6, <4>7
      <4>9. QED
        BY <4>1, <4>2, <4>3, <4>8
    <3>3. QED
      BY <3>1, <3>2
  <2>9. QED
    BY <2>7, <2>8
<1>3. CASE ~c.prepared /\ ClearRoundData
  BY <1>1, <1>3 DEF ClearRoundData
<1>4. QED
  BY <1>1, <1>2, <1>3, HistoryMoves

(* Without a reorganisation the quorums left are found again. *)
LEMMA LateInvNext ==
    ASSUME Shapes, ReadInv, FlagsInv, TimingInv, LateInv, reorgs' = 0, Next
    PROVE  LateInv'
  BY LateHeights, LateStored, LateLeft DEF LateInv

-----------------------------------------------------------------------------
(* The invariant *)

(* It holds when the node starts. *)
LEMMA RoundsInvInit == Init => RoundsInv
<1> SUFFICES ASSUME Init PROVE RoundsInv
  OBVIOUS
<1> DEFINE b == [id |-> 1, timestamp |-> 0]
           r == [state |-> "wait_for_next_block", height |-> 0, top |-> 0, r0 |-> 0,
                 round |-> 0, queued |-> FALSE, start |-> 0, prepared |-> FALSE,
                 participant |-> "none"]
<1>0. /\ MaxHeight \in Nat \ {0} /\ MaxRound \in Nat /\ MaxTime \in Nat /\ MaxReorgs \in Nat
      /\ HistorySize \in Nat \ {0}
  BY RoundsAssumption
<1>1. chain = <<b>> /\ c = r
  BY DEF Init
<1>2. b \in ChainBlocks
  BY DEF ChainBlocks
<1>3. chain \in Seq(ChainBlocks) /\ Height = 1 /\ chain[1] = b
  BY <1>1, <1>2 DEF Height
<1>4. c \in Contexts /\ c.state = "wait_for_next_block" /\ c.height = 0 /\ c.top = 0
      /\ c.prepared = FALSE
  BY <1>0, <1>1 DEF Contexts, States
<1>5. read = NotRead /\ NotRead \in Reads /\ NotRead.step = "height"
  BY <1>0 DEF Init, NotRead, Reads
<1>6. None \in Quorums
  BY <1>0 DEF None, Quorums
<1>7. /\ history.slots = [i \in Slots |-> None] /\ history.index = 0
      /\ history \in [slots : [Slots -> Quorums], index : Nat]
  BY <1>6 DEF Init, Slots
<1>8. now = 0 /\ made = 1 /\ reorgs = 0 /\ ran = {} /\ left = <<>>
  BY DEF Init
<1>9. left \in Seq(Quorums) /\ Len(left) = 0
  BY <1>8
<1>10. Shapes
  BY <1>0, <1>3, <1>4, <1>5, <1>7, <1>8, <1>9 DEF Shapes
<1>11. ChainInv
  BY <1>3, <1>8 DEF ChainInv
<1>12. ReadInv /\ FlagsInv /\ TimingInv /\ RanInv
  BY <1>4, <1>5, <1>8 DEF ReadInv, FlagsInv, TimingInv, RanInv
<1>13. SlotsInv
  BY <1>0, <1>7 DEF SlotsInv, Slots
<1>14. LateInv
  <2>1. Stored = {}
    BY <1>7, StoredIs
  <2>2. QED
    BY <1>3, <1>4, <1>5, <1>7, <1>9, <2>1 DEF LateInv
<1>15. QED
  BY <1>10, <1>11, <1>12, <1>13, <1>14 DEF RoundsInv

(* Every step keeps it. *)
LEMMA RoundsInvNext == RoundsInv /\ [Next]_vars => RoundsInv'
<1> SUFFICES ASSUME RoundsInv, [Next]_vars PROVE RoundsInv'
  OBVIOUS
<1>0. /\ Shapes /\ ChainInv /\ ReadInv /\ FlagsInv /\ TimingInv /\ SlotsInv /\ RanInv
      /\ reorgs = 0 => LateInv
  BY DEF RoundsInv
<1>1. CASE UNCHANGED vars
  <2>1. Shapes'
    BY <1>0, <1>1 DEF Shapes, vars, Height
  <2>2. ChainInv' /\ ReadInv' /\ FlagsInv' /\ TimingInv' /\ SlotsInv'
    BY <1>0, <1>1 DEF ChainInv, ReadInv, FlagsInv, TimingInv, SlotsInv, vars, Height
  <2>3. RanInv'
    BY <1>0, <1>1 DEF RanInv, vars, Height, Tip
  <2>4. reorgs' = 0 => LateInv'
    BY <1>0, <1>1 DEF LateInv, vars, Height, Stored
  <2>5. QED
    BY <2>1, <2>2, <2>3, <2>4 DEF RoundsInv
<1>2. CASE Next
  <2>1. Shapes' /\ ChainInv' /\ ReadInv' /\ FlagsInv'
    BY <1>0, <1>2, ShapesNext, ChainInvNext, ReadInvNext, FlagsInvNext
  <2>2. TimingInv' /\ SlotsInv' /\ RanInv'
    BY <1>0, <1>2, TimingInvNext, SlotsInvNext, RanInvNext
  <2>3. reorgs' = 0 => reorgs = 0
    BY <1>0, <1>2, StepKinds DEF EnvMoves, ReadHeight, ReadHash, ReadTimestamp,
         PrepareForRound, Leaves, Retries, Starts, env, Shapes
  <2>4. reorgs' = 0 => LateInv'
    BY <1>0, <1>2, <2>3, LateInvNext
  <2>5. QED
    BY <2>1, <2>2, <2>4 DEF RoundsInv
<1>3. QED
  BY <1>1, <1>2

(* The inductive invariant holds throughout, reorganisations included. *)
THEOREM RoundsInvariant == Spec => []RoundsInv
  BY RoundsInvInit, RoundsInvNext, PTL DEF Spec

-----------------------------------------------------------------------------
(* What follows *)

(* Every variable keeps its type: the round fits a uint8_t though it is     *)
(* counted up without a check, and the slots below the history's index, and *)
(* no others, hold a quorum.                                                *)
THEOREM RoundsTypeCorrect == Spec => []TypeOK
<1>1. RoundsInv => TypeOK
  <2> SUFFICES ASSUME RoundsInv PROVE TypeOK
    OBVIOUS
  <2>1. Shapes /\ ChainInv /\ TimingInv /\ SlotsInv
    BY DEF RoundsInv
  <2>2. /\ c.state \in {"wait_for_next_block", "prepare_for_round", "wait_for_round", "in_round"}
        /\ c.height \in 0..MaxHeight /\ c.top \in 0..made
        /\ c.round \in 0..MaxRound /\ c.queued \in BOOLEAN /\ c.prepared \in BOOLEAN
    BY <2>1 DEF Shapes, Contexts, States, TimingInv
  <2>3. \A i \in 0..HistorySize - 1 : i < history.index <=> history.slots[i] # None
    BY <2>1 DEF SlotsInv, Slots
  <2>4. /\ now \in 0..MaxTime /\ made \in Nat /\ reorgs \in 0..MaxReorgs
        /\ \A i \in 1..Height : chain[i].id \in 1..made /\ chain[i].timestamp \in 0..now
    BY <2>1 DEF Shapes, ChainInv
  <2>5. QED
    BY <2>2, <2>3, <2>4 DEF TypeOK
<1>2. QED
  BY <1>1, RoundsInvariant, PTL

(* The timings of a prepared round are those of the block its hash names,   *)
(* though wait_for_next_block reads height, hash and timestamp under three  *)
(* locks and the chain may grow or be reorganised between any two of them.  *)
THEOREM TimingsAgree == Spec => []TimingsOfTop
<1>1. RoundsInv => TimingsOfTop
  <2> SUFFICES ASSUME RoundsInv, c.prepared, NEW i \in 1..Height, chain[i].id = c.top
               PROVE  /\ i = c.height
                      /\ c.start = Round0(c.height, chain[i].timestamp) + c.round * RoundTime
    BY DEF TimingsOfTop
  <2>1. FlagsInv /\ TimingInv
    BY DEF RoundsInv
  <2>2. c.state # "wait_for_next_block"
    BY <2>1, PreparedHeight
  <2>3. QED
    BY <2>1, <2>2 DEF TimingInv
<1>2. QED
  BY <1>1, RoundsInvariant, PTL

(* Without a reorganisation, handle_message finds the quorum of a late      *)
(* message among those in the history, for as many of the quorums left last *)
(* as the history has slots.                                                *)
THEOREM LateMessagesFound == Spec => []LateMessagesRecognised
<1>1. RoundsInv => LateMessagesRecognised
  <2> SUFFICES ASSUME RoundsInv, reorgs = 0, NEW i \in 1..Len(left)
               PROVE  MessageFate("validator", left[i]) # "error"
    BY DEF LateMessagesRecognised
  <2>1. Shapes /\ LateInv
    BY DEF RoundsInv
  <2> DEFINE d == history.index - i
  <2>2. d \in Nat /\ HistorySize \in Nat \ {0}
    BY <2>1, LenProperties, RoundsAssumption DEF Shapes, LateInv
  <2>3. left[i] # None /\ left[i] = history.slots[d % HistorySize]
    BY <2>1 DEF LateInv
  <2> HIDE DEF d
  <2>4. d % HistorySize \in Slots
    BY <2>2, ModType DEF Slots
  <2>5. left[i] \in Stored
    BY <2>3, <2>4, StoredIs
  <2>6. \E past \in Stored :
           past.top = left[i].top /\ SignatureKey("validator", past) = left[i]
    BY <2>5 DEF SignatureKey
  <2>7. QED
    BY <2>6 DEF MessageFate
<1>2. QED
  BY <1>1, RoundsInvariant, PTL

(* A node enters the ceremony of one (block, round) at most once, whatever  *)
(* the order of failures, new blocks and reorganisations.                   *)
THEOREM NoRoundTwice == Spec => RoundsRunOnce
<1>1. RoundsInv /\ [Next]_vars
      => [c.state # "in_round" /\ c'.state = "in_round" => Quorum \notin ran]_vars
  <2> SUFFICES ASSUME RoundsInv, Next, c.state # "in_round", c'.state = "in_round"
               PROVE  Quorum \notin ran
    OBVIOUS
  <2>1. Shapes /\ ReadInv /\ RanInv
    BY DEF RoundsInv
  <2>2. CASE Starts
    <3>1. c.state = "wait_for_round" /\ c.round \in Nat
      BY <2>1, <2>2, RoundsAssumption DEF Starts, Shapes, Contexts
    <3>2. Quorum.top = c.top /\ Quorum.round = c.round
      BY <2>1, QuorumFacts
    <3>3. \A q \in ran : c.top = q.top => q.round < c.round
      BY <2>1, <3>1 DEF RanInv
    <3>4. QED
      BY <3>1, <3>2, <3>3
  <2>3. CASE EnvMoves \/ ReadHeight \/ ReadHash
    BY <2>3 DEF EnvMoves, ReadHeight, ReadHash
  <2>4. CASE ReadTimestamp
    BY <2>1, <2>4, ReadTimestampFacts DEF NewContext
  <2>5. CASE PrepareForRound
    BY <2>1, <2>5, PrepareFacts DEF GoesIdle, Prepares
  <2>6. CASE Leaves
    BY <2>1, <2>6, LeavesFacts DEF GoesIdle
  <2>7. CASE Retries
    BY <2>1, <2>7, RetriesFacts
  <2>8. QED
    BY <2>1, <2>2, <2>3, <2>4, <2>5, <2>6, <2>7, StepKinds
<1>2. QED
  BY <1>1, RoundsInvariant, PTL DEF Spec, RoundsRunOnce

(* A round is over no earlier than the clock's round is. *)
LEMMA RoundEnds ==
    ASSUME Shapes, NEW r \in Nat, r >= RoundAt(now)
    PROVE  now < c.r0 + r * RoundTime + RoundTime
<1>1. now \in Nat /\ c.r0 \in Nat /\ RoundTime \in Nat \ {0}
  BY RoundsAssumption DEF Shapes, Contexts
<1>2. CASE now <= c.r0
  <2>1. r * RoundTime \in Nat
    BY <1>1
  <2>2. QED
    BY <1>1, <1>2, <2>1
<1>3. CASE ~(now <= c.r0)
  <2> DEFINE d == now - c.r0
             p == d \div RoundTime
  <2>1. d \in Nat /\ r >= p
    BY <1>1, <1>3 DEF RoundAt
  <2> HIDE DEF d
  <2>2. p \in Nat /\ d < p * RoundTime + RoundTime
    <3>1. ASSUME NEW x \in Nat, NEW m \in Nat \ {0}
          PROVE  x \div m \in Nat /\ x < (x \div m) * m + m
      OBVIOUS
    <3>2. QED
      BY <1>1, <2>1, <3>1
  <2> HIDE DEF p
  <2>3. p * RoundTime <= r * RoundTime
    BY <1>1, <2>1, <2>2
  <2>4. p * RoundTime \in Nat /\ r * RoundTime \in Nat
    BY <1>1, <2>2
  <2>5. QED
    BY <1>1, <2>2, <2>3, <2>4 DEF d
<1>4. QED
  BY <1>2, <1>3

(* prepare_for_round takes up a round that is not over, and skips none that *)
(* could still be joined.                                                   *)
THEOREM NoRoundSkipped == Spec => PreparesCurrentRound
<1>1. RoundsInv /\ [Next]_vars
      => [c.state = "prepare_for_round" /\ c'.state = "wait_for_round"
          => /\ now < c'.start + RoundTime
             /\ c'.round \in {RoundAt(now), c.round + 1}]_vars
  <2> SUFFICES ASSUME RoundsInv, Next,
                      c.state = "prepare_for_round", c'.state = "wait_for_round"
               PROVE  /\ now < c'.start + RoundTime
                      /\ c'.round \in {RoundAt(now), c.round + 1}
    OBVIOUS
  <2>1. Shapes /\ ReadInv /\ FlagsInv
    BY DEF RoundsInv
  <2>2. PrepareForRound
    <3>1. CASE EnvMoves \/ ReadHeight \/ ReadHash
      BY <3>1 DEF EnvMoves, ReadHeight, ReadHash
    <3>2. CASE ReadTimestamp
      BY <2>1, <3>2, ReadTimestampFacts DEF NewContext
    <3>3. CASE Leaves \/ Retries \/ Starts
      BY <3>3 DEF Leaves, Retries, Starts
    <3>4. QED
      BY <2>1, <3>1, <3>2, <3>3, StepKinds
  <2>3. Prepares
    BY <2>1, <2>2, PrepareFacts DEF GoesIdle
  <2>4. /\ c'.round = PreparedRound /\ c'.start = c.r0 + PreparedRound * RoundTime
        /\ ~Exhausted
    BY <2>3 DEF Prepares
  <2>5. /\ PreparedRound \in Nat /\ PreparedRound >= RoundAt(now) /\ RoundAt(now) \in Nat
        /\ PreparedRound \in {RoundAt(now), c.round, c.round + 1}
        /\ PreparedRound = c.round => ~c.queued
    BY <2>1, <2>4, PreparedFacts, RoundsAssumption
  <2>6. now < c'.start + RoundTime
    BY <2>1, <2>4, <2>5, RoundEnds
  <2>7. ASSUME PreparedRound = c.round PROVE PreparedRound = RoundAt(now)
    <3>1. c.round = 0
      BY <2>1, <2>5, <2>7 DEF FlagsInv
    <3>2. QED
      BY <2>5, <2>7, <3>1
  <2>8. QED
    BY <2>4, <2>5, <2>6, <2>7
<1>2. QED
  BY <1>1, RoundsInvariant, PTL DEF Spec, PreparesCurrentRound

=============================================================================
