---------------------------- MODULE PulseRounds ----------------------------
(***************************************************************************)
(* When a masternode runs which Pulse round: the states of pulse::main     *)
(* around the ceremony (wait_for_next_block, prepare_for_round,            *)
(* wait_for_round), the quorum history, and the rules that say what blocks *)
(* the chain takes at what time.  The ceremony itself is PulseCeremony;    *)
(* here it is one state, "in_round", that ends by its last end_time.       *)
(*                                                                         *)
(* The blockchain belongs to other threads: each read of it takes the lock *)
(* on its own, so it may grow or be reorganised between any two reads.     *)
(***************************************************************************)
EXTENDS Integers, Sequences

CONSTANTS
    RoundTime,      \* PULSE_ROUND_TIME
    StageTime,      \* the sum of the durations of the six stages
    TargetTime,     \* TARGET_BLOCK_TIME
    Slack,          \* 30s: PULSE_MAX_TARGET_BLOCK_TIME - TARGET_BLOCK_TIME
    MaxRound,       \* 255
    HistorySize,    \* quorum_history.size()
    SmallHeights,   \* heights with too few masternodes for a Pulse quorum
    MaxHeight,      \* bound on the chain's height
    MaxReorgs,      \* bound on reorganisations
    MaxTime,        \* bound on the clock
    Quiet           \* time at the end without new blocks, so that rounds end

ASSUME RoundsAssumption ==
    /\ RoundTime \in Nat \ {0} /\ StageTime \in 1..RoundTime
    /\ TargetTime \in Nat /\ Slack \in 0..TargetTime
    /\ MaxRound \in Nat /\ HistorySize \in Nat \ {0}
    /\ SmallHeights \subseteq Nat
    /\ MaxHeight \in Nat \ {0} /\ MaxReorgs \in Nat
    /\ MaxTime \in Nat /\ Quiet \in Nat

VARIABLES
    now,      \* pulse::clock
    chain,    \* the main chain: chain[i] is the block of height i - 1
    made,     \* blocks made so far, which gives each its hash
    reorgs,   \* reorganisations so far
    c,        \* the round_context, without the ceremony's data
    read,     \* what wait_for_next_block has read of the chain so far
    history,  \* quorum_history, and quorum_history_index
    ran,      \* the rounds this node has taken part in
    left      \* the quorums it left last, newest first

env == <<now, chain, made, reorgs>>
vars == <<now, chain, made, reorgs, c, read, history, ran, left>>

-----------------------------------------------------------------------------
(* The chain *)

Height == Len(chain)
Tip == chain[Len(chain)]

Clamp(x, lo, hi) == IF x < lo THEN lo ELSE IF x > hi THEN hi ELSE x

(* get_round_timings: when round 0 of the block at this height starts. *)
Round0(height, prev_timestamp) ==
    Clamp(TargetTime * height,
          prev_timestamp + TargetTime - Slack, prev_timestamp + TargetTime + Slack)

MinerFallback(r0) == r0 + RoundTime * MaxRound

(* masternode_list::verify_block for a block on the tip. *)
VerifyBlock(b, height, prev_timestamp) ==
    LET r0 == Round0(height, prev_timestamp)
        pulse_quorum == height \notin SmallHeights /\ b.timestamp < MinerFallback(r0)
        begin == r0 + b.round * RoundTime
    IN  IF pulse_quorum
        THEN b.kind = "pulse" /\ begin <= b.timestamp /\ b.timestamp <= begin + RoundTime
        ELSE b.kind = "miner" /\ b.round = 0

Candidates ==
    [kind : {"pulse", "miner"}, round : 0..MaxRound, timestamp : 0..now]

Block(id, b) == [id |-> id, timestamp |-> b.timestamp]

MayGrow == Height < MaxHeight /\ now + Quiet <= MaxTime

(* A block made elsewhere extends the chain. *)
AddBlock ==
    /\ MayGrow
    /\ \E b \in Candidates :
         /\ VerifyBlock(b, Height, Tip.timestamp)
         /\ chain' = Append(chain, Block(made + 1, b))
    /\ made' = made + 1
    /\ UNCHANGED <<now, reorgs, c, read, history, ran, left>>

(* switch_to_alternative_blockchain: the top block, or the top two, give    *)
(* way to another: a Pulse block of a lower round weighs more than one of a *)
(* higher round, and more checkpoints win over a longer chain.  Further     *)
(* blocks of the alternative chain are AddBlock steps.                      *)
Reorg ==
    /\ reorgs < MaxReorgs /\ now + Quiet <= MaxTime
    /\ \E keep \in {Height - 1, Height - 2} \ {0, -1}, b \in Candidates :
         /\ VerifyBlock(b, keep, chain[keep].timestamp)
         /\ chain' = Append(SubSeq(chain, 1, keep), Block(made + 1, b))
    /\ made' = made + 1
    /\ reorgs' = reorgs + 1
    /\ UNCHANGED <<now, c, read, history, ran, left>>

Tick ==
    /\ now < MaxTime
    /\ now' = now + 1
    /\ UNCHANGED <<chain, made, reorgs, c, read, history, ran, left>>

-----------------------------------------------------------------------------
(* The round context *)

None == [height |-> 0, top |-> 0, round |-> 0]  \* no quorum has height 0

(* context.prepare_for_round = {} *)
Fresh(r) == [r EXCEPT !.round = 0, !.queued = FALSE, !.start = 0,
                      !.prepared = FALSE, !.participant = "none"]

Quorum == [height |-> c.height, top |-> c.top, round |-> c.round]

Stored == {history.slots[i] : i \in 0..HistorySize - 1} \ {None}

(* Mutant: a quorum of the height is enough to count as stored. *)
AlreadyStoredByHeight == \E q \in Stored : q.height = c.height

AlreadyStored == \E q \in Stored : q.height = c.height /\ q.round = c.round

(* Mutant: the index moves on before the slot is taken. *)
NextSlot == (history.index + 1) % HistorySize

Slot == history.index % HistorySize

(* clear_round_data, but for what becomes of prepare_for_round. *)
ClearRoundData ==
    IF ~c.prepared
    THEN UNCHANGED <<history, left>>
    ELSE /\ left' = SubSeq(<<Quorum>> \o left, 1,
                           IF Len(left) < HistorySize THEN Len(left) + 1 ELSE HistorySize)
         /\ history' =
              IF AlreadyStored THEN history
              ELSE [slots |-> [history.slots EXCEPT ![Slot] = Quorum],
                    index |-> history.index + 1]

Idle(r) == [Fresh(r) EXCEPT !.state = "wait_for_next_block"]

GotoWaitForNextBlock == ClearRoundData /\ c' = Idle(c)

GotoPreparing ==
    /\ c' = [c EXCEPT !.state = "prepare_for_round", !.queued = TRUE]
    /\ UNCHANGED <<history, left>>

-----------------------------------------------------------------------------
(* pulse::main *)

NotRead == [step |-> "height", height |-> 0, top |-> 0]

(* wait_for_next_block looks at the chain three times. *)
ReadHeight ==
    /\ c.state = "wait_for_next_block" /\ read.step = "height"
    /\ c.height # Height
    /\ read' = [step |-> "hash", height |-> Height, top |-> 0]
    /\ UNCHANGED <<env, c, history, ran, left>>

ReadHash ==
    /\ read.step = "hash"
    /\ read' = IF read.height > Height THEN NotRead
               ELSE [read EXCEPT !.step = "timestamp", !.top = chain[read.height].id]
    /\ UNCHANGED <<env, c, history, ran, left>>

(* Mutants: the timestamp is that of the tip; the height is read once more. *)
TimestampOfTip == Tip.timestamp

HeightNow == Height

HeightRead == read.height
TimestampRead == chain[read.height].timestamp

ReadTimestamp ==
    /\ read.step = "timestamp"
    /\ c' = IF read.height > Height THEN c
            ELSE [Fresh(c) EXCEPT !.state = "prepare_for_round", !.height = HeightRead,
                                  !.top = read.top,
                                  !.r0 = Round0(read.height, TimestampRead)]
    /\ read' = NotRead
    /\ UNCHANGED <<env, history, ran, left>>

RoundAt(time) == IF time <= c.r0 THEN 0 ELSE (time - c.r0) \div RoundTime

(* Mutants: round++ wraps round; the clock is not looked at; neither. *)
NeverStalled == FALSE
NeverTimedOut == FALSE
NeverExhausted == FALSE

Stalled == c.queued /\ c.round >= MaxRound
TimedOut == RoundAt(now) > MaxRound
Exhausted == Stalled \/ TimedOut
Moved == c.queued /\ c.height # Height

(* The round is a uint8_t. *)
PreparedRound ==
    LET round == IF c.queued THEN (c.round + 1) % (MaxRound + 1) ELSE c.round
        curr_round == RoundAt(now) % (MaxRound + 1)
    IN  IF curr_round > round THEN curr_round ELSE round

(* generate_pulse_quorum, with the masternodes of the present tip and the   *)
(* entropy of the blocks below c.top; a reorganisation drops old blocks.    *)
QuorumAvailable ==
    /\ Height \notin SmallHeights
    /\ \E i \in 1..Height : chain[i].id = c.top

PrepareForRound ==
    /\ c.state = "prepare_for_round"
    /\ ClearRoundData
    /\ IF Exhausted \/ Moved \/ ~QuorumAvailable
       THEN c' = Idle(c)
       ELSE \E participant \in {"producer", "validator", "none"} :
              c' = [c EXCEPT !.state = "wait_for_round", !.round = PreparedRound,
                             !.queued = FALSE, !.prepared = TRUE,
                             !.start = c.r0 + PreparedRound * RoundTime,
                             !.participant = participant]
    /\ UNCHANGED <<env, read, ran>>

WaitForRound ==
    /\ c.state = "wait_for_round"
    /\ \/ /\ c.height # Height
          /\ GotoWaitForNextBlock
          /\ UNCHANGED ran
       \/ /\ c.height = Height /\ now >= c.start
          /\ IF c.participant = "none"
             THEN GotoPreparing /\ UNCHANGED ran
             ELSE /\ c' = [c EXCEPT !.state = "in_round"]
                  /\ ran' = ran \cup {Quorum}
                  /\ UNCHANGED <<history, left>>
    /\ UNCHANGED <<env, read>>

(* A stage of the ceremony fails, or the chain refuses its block. *)
RoundFails ==
    /\ c.state = "in_round"
    /\ GotoPreparing
    /\ UNCHANGED <<env, read, ran>>

(* send_block_template finds that the template is for another height. *)
TemplateTooLate ==
    /\ c.state = "in_round" /\ c.participant = "producer"
    /\ c.height # Height
    /\ GotoWaitForNextBlock
    /\ UNCHANGED <<env, read, ran>>

(* By the end of the last stage the round is over. *)
RoundTimesOut == now >= c.start + StageTime /\ RoundFails

(* The block is made and handle_block_found takes it: onto the tip, or as   *)
(* an alternative block if the tip is no longer the one it builds on.       *)
BlockFound ==
    /\ c.state = "in_round" /\ c.participant = "validator"
    /\ IF Tip.id = c.top
       THEN \E b \in [kind : {"pulse"}, round : {c.round}, timestamp : c.start..now] :
              /\ MayGrow
              /\ VerifyBlock(b, Height, Tip.timestamp)
              /\ chain' = Append(chain, Block(made + 1, b))
              /\ made' = made + 1
       ELSE UNCHANGED <<chain, made>>
    /\ GotoWaitForNextBlock
    /\ UNCHANGED <<now, reorgs, read, ran>>

NodeStep ==
    \/ ReadHeight \/ ReadHash \/ ReadTimestamp
    \/ PrepareForRound \/ WaitForRound
    \/ RoundFails \/ TemplateTooLate \/ BlockFound

Init ==
    /\ now = 0
    /\ chain = <<[id |-> 1, timestamp |-> 0]>>   \* the Pulse genesis block
    /\ made = 1 /\ reorgs = 0
    /\ c = [state |-> "wait_for_next_block", height |-> 0, top |-> 0, r0 |-> 0, round |-> 0,
            queued |-> FALSE, start |-> 0, prepared |-> FALSE, participant |-> "none"]
    /\ read = NotRead
    /\ history = [slots |-> [i \in 0..HistorySize - 1 |-> None], index |-> 0]
    /\ ran = {} /\ left = <<>>

Next == Tick \/ AddBlock \/ Reorg \/ NodeStep

Spec == Init /\ [][Next]_vars

(* The clock runs, the timer calls main again and again, and a stage ends   *)
(* by its end_time.                                                         *)
Fairness ==
    /\ WF_vars(Tick)
    /\ WF_vars(ReadHeight) /\ WF_vars(ReadHash) /\ WF_vars(ReadTimestamp)
    /\ WF_vars(PrepareForRound) /\ WF_vars(WaitForRound) /\ WF_vars(RoundTimesOut)

FairSpec == Spec /\ Fairness

-----------------------------------------------------------------------------
(* Late messages *)

(* msg_signature_check: whose key is tried on a message of this kind.  A    *)
(* quorum stands for the keys of its members, its producer's among them.    *)
SignatureKey(kind, quorum) == IF kind = "block_template" THEN Quorum ELSE quorum

(* The start of handle_message, for a message made in the round of q. *)
MessageFate(kind, q) ==
    CASE c.state \in {"wait_for_next_block", "prepare_for_round"} -> "dropped"
      [] SignatureKey(kind, Quorum) = q -> "handled"
      [] OTHER -> IF \E past \in Stored : past.top = q.top /\ SignatureKey(kind, past) = q
                  THEN "ignored" ELSE "error"

-----------------------------------------------------------------------------
(* Properties *)

(* Each variable holds a value of its type: the round fits a uint8_t, and   *)
(* the history has a quorum in each of the slots used so far.               *)
TypeOK ==
    /\ now \in 0..MaxTime
    /\ \A i \in 1..Height : chain[i].id \in 1..made /\ chain[i].timestamp \in 0..now
    /\ made \in Nat /\ reorgs \in 0..MaxReorgs
    /\ c.state \in {"wait_for_next_block", "prepare_for_round", "wait_for_round", "in_round"}
    /\ c.height \in 0..MaxHeight /\ c.top \in 0..made
    /\ c.round \in 0..MaxRound /\ c.queued \in BOOLEAN /\ c.prepared \in BOOLEAN
    /\ \A i \in 0..HistorySize - 1 : i < history.index <=> history.slots[i] # None

(* The round a node works on is the one its context describes: it starts at *)
(* the time get_round_timings gives for the block that c.top names, though  *)
(* hash and timestamp are read apart and the chain grows between the reads. *)
TimingsOfTop ==
    c.prepared =>
      \A i \in 1..Height : chain[i].id = c.top =>
         /\ i = c.height
         /\ c.start = Round0(c.height, chain[i].timestamp) + c.round * RoundTime

(* A node takes part in a round of a block at most once, however rounds     *)
(* fail and the chain grows or is reorganised: it never sends two sets of   *)
(* handshakes, random values and signatures under one (top, height, round). *)
RoundsRunOnce ==
    [][c.state # "in_round" /\ c'.state = "in_round" => Quorum \notin ran]_vars

(* A prepared round is not over when it is prepared, and skips no round the *)
(* node could still join: it is the clock's, or follows the one that failed *)
(* before its time was up.                                                  *)
PreparesCurrentRound ==
    [][c.state = "prepare_for_round" /\ c'.state = "wait_for_round"
       => /\ now < c'.start + RoundTime
          /\ c'.round \in {RoundAt(now), c.round + 1}]_vars

(* Without a reorganisation, a validator's message from one of the quorums  *)
(* the node left last is recognised, and ignored, and not reported as of    *)
(* unknown origin.                                                          *)
LateMessagesRecognised ==
    reorgs = 0 => \A i \in 1..Len(left) : MessageFate("validator", left[i]) # "error"

(* The node follows the chain: once blocks stop coming, it is at the height *)
(* of the tip, even of a reorganised and shorter chain, though each read of *)
(* the chain may be overtaken by a block.  Without a reorganisation its     *)
(* context is that of the tip.                                              *)
FollowsChain == <>[](c.height = Height /\ (reorgs = 0 => c.top = Tip.id))

(* When the time of the last round is over, the node gives Pulse up and     *)
(* waits for a block, whatever the rounds did.                              *)
GivesUp ==
    now >= c.r0 + RoundTime * (MaxRound + 1) ~> c.state = "wait_for_next_block"

=============================================================================
