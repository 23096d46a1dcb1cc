--------------------------- MODULE PulseCeremony ---------------------------
(***************************************************************************)
(* One round of the Pulse block-production ceremony, as run by every       *)
(* member of one Pulse quorum: src/cryptonote_core/pulse.cpp.              *)
(*                                                                         *)
(* A quorum has one producer (worker 0) and NumValidators validators.  The *)
(* validators handshake, exchange the bitsets of the handshakes they saw,  *)
(* lock in the most common bitset, receive the producer's block template,  *)
(* commit to and reveal a random value each, and sign the final block.     *)
(*                                                                         *)
(* Each daemon keeps one round_context, here ctx[n].  pulse::main and      *)
(* pulse::handle_message both run on the tagged thread "pulse", so the     *)
(* loop in main is atomic with respect to incoming messages: `active` is   *)
(* the node whose loop is running.  Clocks are not modelled: whether the   *)
(* end_time of a stage has passed is a nondeterministic choice, which      *)
(* covers every skew and every message delay.                              *)
(***************************************************************************)
EXTENDS Integers, FiniteSets

CONSTANTS
    NumValidators,       \* PULSE_QUORUM_NUM_VALIDATORS
    RequiredSignatures,  \* PULSE_BLOCK_REQUIRED_SIGNATURES
    MaxRestarts,         \* bound on daemon restarts during the round
    MaxTimeouts,         \* bound on the stages that end by timing out
    CallsMayFail         \* FALSE: sends, templates and submissions succeed

ASSUME PulseAssumption ==
    /\ NumValidators \in Nat \ {0}
    /\ RequiredSignatures \in 1..NumValidators
    /\ MaxRestarts \in Nat
    /\ MaxTimeouts \in Nat
    /\ CallsMayFail \in BOOLEAN

Validators == 0..(NumValidators - 1)
Producer == NumValidators
Nodes == Validators \cup {Producer}
NoNode == -1

(* The message types, in the order of pulse::message_type. *)
Stages == {"handshake", "handshake_bitset", "block_template",
           "random_value_hash", "random_value", "signed_block"}

(* The part of round_state that belongs to one round, in enum order. *)
Rank == [wait_for_next_block                   |-> 1,
         prepare_for_round                     |-> 2,
         wait_for_round                        |-> 3,
         send_and_wait_for_handshakes          |-> 4,
         send_handshake_bitsets                |-> 5,
         wait_for_handshake_bitsets            |-> 6,
         send_block_template                   |-> 7,
         wait_for_block_template               |-> 8,
         send_and_wait_for_random_value_hashes |-> 9,
         send_and_wait_for_random_value        |-> 10,
         send_and_wait_for_signed_blocks       |-> 11]

RoundStates == DOMAIN Rank

(* This node has left the round: it waits for the next round or block. *)
Ended == {"prepare_for_round", "wait_for_next_block"}

(* The state in which messages of a type are consumed; earlier is "early". *)
StageState == [handshake         |-> "send_and_wait_for_handshakes",
               handshake_bitset  |-> "wait_for_handshake_bitsets",
               block_template    |-> "wait_for_block_template",
               random_value_hash |-> "send_and_wait_for_random_value_hashes",
               random_value      |-> "send_and_wait_for_random_value",
               signed_block      |-> "send_and_wait_for_signed_blocks"]

VARIABLES
    ctx,       \* ctx[n]: the round_context of node n
    net,       \* net[s]: the validly signed messages of stage s ever relayed
    blocks,    \* blocks given to core.handle_block_found, with signatures
    active,    \* the node whose main loop is running, or NoNode
    restarts,  \* daemon restarts so far
    timeouts   \* stages that timed out so far

vars == <<ctx, net, blocks, active, restarts, timeouts>>

-----------------------------------------------------------------------------
(* Data *)

Message(p, v) == [pos |-> p, val |-> v]
Positions(ms) == {m.pos : m \in ms}

(* A node draws a fresh random value each time it runs the round. *)
RandomValue(n, g) == [owner |-> n, gen |-> g]
Hash(v) == [blake2b |-> v]

Templates == [gen : Nat, bitset : SUBSET Validators]
RandomValues == [owner : Nodes, gen : Nat]
ValueMessages == [pos : Validators, val : RandomValues]
Blocks == [template : Templates, values : SUBSET ValueMessages]

(* A fresh round_context that has prepared for the round. *)
NewContext(g) ==
    [state |-> "wait_for_round",
     gen   |-> g,                        \* which run of the daemon this is
     queue |-> [s \in Stages |-> {}],    \* pulse_wait_stage.queue
     data  |-> [s \in Stages |-> {}],    \* wait.data, stage.bitset, msgs_received
     sent  |-> {},                       \* pulse_send_stage.sent
     best  |-> {},                       \* best_bitset
     final |-> {}]                       \* signed_block.final_block, if any

Init ==
    /\ ctx = [n \in Nodes |-> NewContext(0)]
    /\ net = [s \in Stages |-> {}]
    /\ blocks = {}
    /\ active = NoNode
    /\ restarts = 0
    /\ timeouts = 0

-----------------------------------------------------------------------------
(* handle_message *)

(* The checks of a message that is not early: the sender is locked in, it  *)
(* is the first of its kind from that position, and the content agrees     *)
(* with what this node already has.                                        *)
LockedIn(c, s, m) ==
    s \notin {"handshake", "handshake_bitset"} => m.pos \in c.best

(* Mutant: a signature is not checked against the final block. *)
AcceptsAnySignature(c, s, m) ==
    /\ LockedIn(c, s, m)
    /\ m.pos \notin Positions(c.data[s])
    /\ s = "block_template" => m.val.bitset = c.best
    /\ s = "random_value" =>
         \A h \in c.data["random_value_hash"] : h.pos = m.pos => h.val = Hash(m.val)

Accepts(c, s, m) ==
    /\ LockedIn(c, s, m)
    /\ m.pos \notin Positions(c.data[s])
    /\ s = "block_template" => m.val.bitset = c.best
    /\ s = "random_value" =>
         \A h \in c.data["random_value_hash"] : h.pos = m.pos => h.val = Hash(m.val)
    /\ s = "signed_block" => m.val \in c.final

Handle(c, s, ms) ==
    [c EXCEPT !.data[s] = @ \cup {m \in ms : Accepts(c, s, m)}]

(* Mutant: early hashes are queued with the random values. *)
EnqueueWrongStage(c, s, m) ==
    [c EXCEPT !.queue[IF s = "random_value_hash" THEN "random_value" ELSE s] = @ \cup {m}]

(* Mutant: early messages are dropped. *)
EnqueueDrops(c, s, m) == c

(* queue.buffer has one slot per position; the first early message wins. *)
Enqueue(c, s, m) ==
    [c EXCEPT !.queue[s] = IF m.pos \in Positions(@) THEN @ ELSE @ \cup {m}]

(* A stage first sends its own message, once, by handling it itself, and   *)
(* then handles the messages that were received early for it.              *)
Collect(c, s, own) ==
    LET c1 == IF s \in c.sent THEN c
              ELSE Handle([c EXCEPT !.sent = @ \cup {s}], s, own)
    IN  [Handle(c1, s, c1.queue[s]) EXCEPT !.queue[s] = {}]

(* relay_to_peers never sends a handshake or a bitset back to its author,  *)
(* and only bitsets are addressed to the producer.                         *)
Destinations(s, m) ==
    CASE s = "handshake"        -> Validators \ {m.pos}
      [] s = "handshake_bitset" -> Nodes \ {m.pos}
      [] OTHER                  -> Validators

(* A message of a stage this node has completed changes nothing it reads.  *)
HandleMessage(n, s, m) ==
    LET c == ctx[n] IN
    /\ active = NoNode
    /\ n \in Destinations(s, m)
    /\ c.state \notin Ended
    /\ Rank[c.state] <= Rank[StageState[s]]
    /\ ctx' = [ctx EXCEPT ![n] = IF Rank[c.state] < Rank[StageState[s]]
                                 THEN Enqueue(c, s, m)
                                 ELSE Handle(c, s, {m})]
    /\ UNCHANGED <<net, blocks, active, restarts, timeouts>>

-----------------------------------------------------------------------------
(* The stages run by pulse::main *)

(* Whether the clock is past the end_time of the stage being run. *)
TimedOut(timed_out) ==
    \/ ~ timed_out /\ UNCHANGED timeouts
    \/ timed_out /\ timeouts < MaxTimeouts /\ timeouts' = timeouts + 1

Failures == IF CallsMayFail THEN BOOLEAN ELSE {FALSE}

InStage(n, st) == active \in {NoNode, n} /\ ctx[n].state = st

(* Node n ends an iteration of main's loop in context c1.  What it accepted *)
(* in stage s, in context c, has been relayed.  The loop goes on while the  *)
(* state changes.                                                           *)
EndStep(n, s, c, c1) ==
    /\ ctx' = [ctx EXCEPT ![n] = c1]
    /\ net' = [net EXCEPT ![s] = @ \cup c.data[s]]
    /\ active' = IF c1.state \in Ended \cup {ctx[n].state} THEN NoNode ELSE n
    /\ UNCHANGED restarts

(* On leaving the round main's loop runs prepare_for_round or              *)
(* wait_for_next_block next, and both clear the round's data.              *)
Goto(c, st) ==
    IF st \in Ended THEN [NewContext(c.gen) EXCEPT !.state = st]
    ELSE [c EXCEPT !.state = st]

WaitForRound(n) ==
    /\ InStage(n, "wait_for_round")
    /\ ctx' = [ctx EXCEPT ![n] = Goto(@, IF n = Producer
                                         THEN "wait_for_handshake_bitsets"
                                         ELSE "send_and_wait_for_handshakes")]
    /\ active' = n
    /\ UNCHANGED <<net, blocks, restarts, timeouts>>

SendAndWaitForHandshakes(n) ==
    LET c == Collect(ctx[n], "handshake", {Message(n, "handshake")})
        all_handshakes == Cardinality(c.data["handshake"]) = NumValidators
    IN
    /\ InStage(n, "send_and_wait_for_handshakes")
    /\ \E timed_out \in BOOLEAN : TimedOut(timed_out) /\
         EndStep(n, "handshake", c,
                 IF all_handshakes \/ timed_out
                 THEN Goto(c, "send_handshake_bitsets") ELSE c)
    /\ UNCHANGED blocks

(* The own bitset is early for the next stage: it is queued, not relayed.  *)
SendHandshakeBitsets(n) ==
    LET c == ctx[n]
        own == Message(n, Positions(c.data["handshake"]))
    IN
    /\ InStage(n, "send_handshake_bitsets")
    /\ ctx' = [ctx EXCEPT ![n] = Goto(Enqueue(c, "handshake_bitset", own),
                                      "wait_for_handshake_bitsets")]
    /\ active' = n
    /\ UNCHANGED <<net, blocks, restarts, timeouts>>

(* A send that throws ends the round for the validator that sends. *)
SendFails(n) ==
    /\ CallsMayFail
    /\ \E st \in {"send_and_wait_for_handshakes", "send_handshake_bitsets"} : InStage(n, st)
    /\ "handshake" \in ctx[n].sent <=> ctx[n].state = "send_handshake_bitsets"
    /\ ctx' = [ctx EXCEPT ![n] = Goto(@, "prepare_for_round")]
    /\ active' = NoNode
    /\ UNCHANGED <<net, blocks, restarts, timeouts>>

Voters(ms, B) == {m \in ms : m.val = B}

(* The loop takes the first bitset, in position order, to reach the        *)
(* greatest number of votes: of those tied, the one complete first.        *)
MostCommon(ms, B) ==
    \A C \in {m.val : m \in ms} :
        \/ Cardinality(Voters(ms, C)) < Cardinality(Voters(ms, B))
        \/ /\ Cardinality(Voters(ms, C)) = Cardinality(Voters(ms, B))
           /\ \E p \in Positions(Voters(ms, C)) :
                 \A q \in Positions(Voters(ms, B)) : q <= p

(* Mutant: the validators in the bitset are counted, not the votes for it. *)
LockableByBits(n, ms) ==
    {B \in {m.val : m \in ms} :
        /\ MostCommon(ms, B)
        /\ Cardinality(B) >= RequiredSignatures
        /\ n # Producer => n \in B}

(* Mutant: the best bitset is locked in whatever its number of votes. *)
LockableAnyCount(n, ms) ==
    {B \in {m.val : m \in ms} : MostCommon(ms, B) /\ B # {} /\ (n # Producer => n \in B)}

(* The bitset node n may lock in: none, if the best has too few votes, is  *)
(* empty or leaves out n.                                                  *)
Lockable(n, ms) ==
    {B \in {m.val : m \in ms} :
        /\ MostCommon(ms, B)
        /\ Cardinality(Voters(ms, B)) >= RequiredSignatures
        /\ B # {}
        /\ n # Producer => n \in B}

WaitForHandshakeBitsets(n) ==
    LET c == Collect(ctx[n], "handshake_bitset", {})
        ms == c.data["handshake_bitset"]
        all_bitsets == Cardinality(ms) = NumValidators
        next == IF n = Producer THEN "send_block_template" ELSE "wait_for_block_template"
    IN
    /\ InStage(n, "wait_for_handshake_bitsets")
    /\ \E timed_out \in BOOLEAN : TimedOut(timed_out) /\
         \/ /\ ~ (timed_out \/ all_bitsets)
            /\ EndStep(n, "handshake_bitset", c, c)
         \/ /\ timed_out \/ all_bitsets
            /\ Lockable(n, ms) = {}
            /\ EndStep(n, "handshake_bitset", c, Goto(c, "prepare_for_round"))
         \/ /\ timed_out \/ all_bitsets
            /\ \E B \in Lockable(n, ms) :
                 EndStep(n, "handshake_bitset", c, [Goto(c, next) EXCEPT !.best = B])
    /\ UNCHANGED blocks

(* Each template is new: it carries a timestamp and the pool's transactions. *)
(* The producer is done, whether or not it could make and send a template.   *)
SendBlockTemplate(n) ==
    LET c == ctx[n]
        template == [gen |-> c.gen, bitset |-> c.best]
    IN
    /\ InStage(n, "send_block_template")
    /\ \E failed \in Failures, chain_moved \in Failures :
         /\ ctx' = [ctx EXCEPT ![n] =
                      Goto(c, IF chain_moved THEN "wait_for_next_block" ELSE "prepare_for_round")]
         /\ net' = [net EXCEPT !["block_template"] =
                      IF failed \/ chain_moved THEN @ ELSE @ \cup {Message(0, template)}]
    /\ active' = NoNode
    /\ UNCHANGED <<blocks, restarts, timeouts>>

WaitForBlockTemplate(n) ==
    LET c == Collect(ctx[n], "block_template", {})
        received == c.data["block_template"] # {}
    IN
    /\ InStage(n, "wait_for_block_template")
    /\ \E timed_out \in BOOLEAN : TimedOut(timed_out) /\
         EndStep(n, "block_template", c,
                 Goto(c, IF received THEN "send_and_wait_for_random_value_hashes"
                         ELSE IF timed_out THEN "prepare_for_round" ELSE c.state))
    /\ UNCHANGED blocks

(* Mutant: a stage may be incomplete when it times out. *)
EnforceLate(c, s, timed_out, all_received) ==
    c.data[s] # {} /\ Positions(c.data[s]) \subseteq c.best

(* enforce_validator_participation_and_timeouts *)
Enforce(c, s, timed_out, all_received) ==
    /\ ~ (timed_out /\ ~ all_received)
    /\ c.data[s] # {}
    /\ Positions(c.data[s]) \subseteq c.best

(* Mutant: a stage waits for the missing messages after its end_time. *)
AfterStageWaits(c, s, timed_out, all_received, next) ==
    IF ~ all_received THEN c.state
    ELSE IF Enforce(c, s, timed_out, all_received) THEN next
    ELSE "prepare_for_round"

(* The state after a stage all locked-in validators must complete. *)
AfterStage(c, s, timed_out, all_received, next) ==
    IF ~ (timed_out \/ all_received) THEN c.state
    ELSE IF Enforce(c, s, timed_out, all_received) THEN next
    ELSE "prepare_for_round"

SendAndWaitForRandomValueHashes(n) ==
    LET s == "random_value_hash"
        c == Collect(ctx[n], s, {Message(n, Hash(RandomValue(n, ctx[n].gen)))})
        all_hashes == Positions(c.data[s]) = c.best
    IN
    /\ InStage(n, "send_and_wait_for_random_value_hashes")
    /\ \E timed_out \in BOOLEAN : TimedOut(timed_out) /\
         EndStep(n, s, c, Goto(c, AfterStage(c, s, timed_out, all_hashes,
                                          "send_and_wait_for_random_value")))
    /\ UNCHANGED blocks

(* The final block: the template with the hash of every accepted value. *)
FinalBlocks(c) ==
    {[template |-> m.val, values |-> c.data["random_value"]] : m \in c.data["block_template"]}

SendAndWaitForRandomValue(n) ==
    LET s == "random_value"
        c == Collect(ctx[n], s, {Message(n, RandomValue(n, ctx[n].gen))})
        all_values == Positions(c.data[s]) = c.best
        next == "send_and_wait_for_signed_blocks"
    IN
    /\ InStage(n, "send_and_wait_for_random_value")
    /\ \E timed_out \in BOOLEAN : TimedOut(timed_out) /\
         LET st == AfterStage(c, s, timed_out, all_values, next) IN
         EndStep(n, s, c, [Goto(c, st) EXCEPT !.final = IF st = next THEN FinalBlocks(c) ELSE @])
    /\ UNCHANGED blocks

(* stage.bitset >= best_bitset, compared as the integers they are. *)
BitsetGeq(S, B) == S = B \/ \E i \in S \ B : \A j \in B \ S : j < i

(* Mutant: the loop index is used as the validator's index. *)
FirstIndicesUnmapped(S) == {0..(RequiredSignatures - 1)}

(* The loop that adds signatures takes the first RequiredSignatures of the *)
(* indices a signature was received from, whatever std::sample selected.   *)
FirstIndices(S) ==
    {X \in SUBSET S : /\ Cardinality(X) = RequiredSignatures
                      /\ \A i \in X, j \in S \ X : i < j}

SendAndWaitForSignedBlocks(n) ==
    LET s == "signed_block"
        c == Collect(ctx[n], s, {Message(n, b) : b \in ctx[n].final})
        indices == Positions(c.data[s])
        enough == BitsetGeq(indices, c.best)
        next == "wait_for_next_block"
    IN
    /\ InStage(n, "send_and_wait_for_signed_blocks")
    /\ \E timed_out \in BOOLEAN : TimedOut(timed_out) /\
         LET st == AfterStage(c, s, timed_out, enough, next) IN
         \/ /\ st # next
            /\ EndStep(n, s, c, Goto(c, st))
            /\ UNCHANGED blocks
         \/ /\ st = next
            /\ \E X \in FirstIndices(indices), b \in c.final :
                 blocks' = blocks \cup {[block |-> b, signatures |-> X]}
            /\ \E refused \in Failures :
                 EndStep(n, s, c, Goto(c, IF refused THEN "prepare_for_round" ELSE next))

(* A daemon restarts and finds itself in the same round: the context is    *)
(* not persisted.  Once the block is added the chain has moved on.         *)
Restart(n) ==
    /\ active = NoNode
    /\ restarts < MaxRestarts
    /\ ctx[n].state # "wait_for_next_block"
    /\ restarts' = restarts + 1
    /\ ctx' = [ctx EXCEPT ![n] = NewContext(restarts + 1)]
    /\ UNCHANGED <<net, blocks, active, timeouts>>

-----------------------------------------------------------------------------

Main(n) ==
    \/ WaitForRound(n)
    \/ IF n = Producer
       THEN SendBlockTemplate(n) \/ WaitForHandshakeBitsets(n)
       ELSE \/ SendAndWaitForHandshakes(n)
            \/ SendHandshakeBitsets(n)
            \/ WaitForHandshakeBitsets(n)
            \/ WaitForBlockTemplate(n)
            \/ SendAndWaitForRandomValueHashes(n)
            \/ SendAndWaitForRandomValue(n)
            \/ SendAndWaitForSignedBlocks(n)

Next ==
    \E n \in Nodes :
        \/ Main(n)
        \/ n # Producer /\ SendFails(n)
        \/ Restart(n)
        \/ \E s \in Stages : \E m \in net[s] : HandleMessage(n, s, m)

Spec == Init /\ [][Next]_vars

(* oxenmq runs pulse::main on a 500ms timer, and delivers queued messages. *)
Fairness ==
    \A n \in Nodes :
        /\ WF_vars(Main(n) /\ UNCHANGED timeouts)
        /\ \A s \in Stages : WF_vars(\E m \in net[s] : HandleMessage(n, s, m))

(* Time passes: main also runs after the end_time of a stage. *)
StagesTimeOut == \A n \in Nodes : WF_vars(Main(n))

FairSpec == Spec /\ Fairness

-----------------------------------------------------------------------------
(* Properties *)

StageMessages ==
    [handshake         : SUBSET [pos : Validators, val : {"handshake"}],
     handshake_bitset  : SUBSET [pos : Validators, val : SUBSET Validators],
     block_template    : SUBSET [pos : {0}, val : Templates],
     random_value_hash : SUBSET [pos : Validators, val : [blake2b : RandomValues]],
     random_value      : SUBSET ValueMessages,
     signed_block      : SUBSET [pos : Validators, val : Blocks]]

Contexts ==
    [state : RoundStates, gen : Nat, queue : StageMessages, data : StageMessages,
     sent : SUBSET Stages, best : SUBSET Validators, final : SUBSET Blocks]

(* The round_context of every node has the fields and types of the struct, *)
(* and queues, data and network hold only messages of the stage's type.    *)
TypeOK ==
    /\ ctx \in [Nodes -> Contexts]
    /\ net \in StageMessages
    /\ blocks \subseteq [block : Blocks, signatures : SUBSET Validators]
    /\ active \in Nodes \cup {NoNode}
    /\ restarts \in 0..MaxRestarts
    /\ timeouts \in 0..MaxTimeouts

(* Any two sets of RequiredSignatures validators share one that did not    *)
(* restart.  In production 7 of 11: up to two validators may restart.      *)
QuorumsOverlap == 2 * RequiredSignatures > NumValidators + MaxRestarts

(* The bitsets members are locked in to, and those templates were made for. *)
LockedBitsets ==
    ({ctx[n].best : n \in Nodes} \ {{}}) \cup {m.val.bitset : m \in net["block_template"]}

(* The members of a quorum that lock in a validator bitset in              *)
(* wait_for_handshake_bitsets all lock in the same one, although each sees *)
(* its own subset of the bitsets and times out on its own clock.           *)
Agreement == \A B \in LockedBitsets, C \in LockedBitsets : B = C

(* A locked-in bitset names at least as many validators as a block needs   *)
(* signatures: the assertion on indices_count before std::sample.          *)
EnoughSigners == \A B \in LockedBitsets : Cardinality(B) >= RequiredSignatures

(* Commit before reveal: a validator that reveals its random value holds   *)
(* the hash of every locked-in validator, and every value it accepts is    *)
(* one its author had committed to.                                        *)
CommitReveal ==
    \A n \in Validators :
        LET c == ctx[n] IN
        c.state \in {"send_and_wait_for_random_value", "send_and_wait_for_signed_blocks"} =>
            /\ Positions(c.data["random_value_hash"]) = c.best
            /\ \A m \in c.data["random_value"] :
                  Message(m.pos, Hash(m.val)) \in c.data["random_value_hash"]

(* At most one block leaves a round: the validators never hand core two    *)
(* different final blocks, even if some restart and sign again.            *)
UniqueBlock == \A b1, b2 \in blocks : b1.block = b2.block

(* verify_quorum_signatures for a Pulse block.  The signatures are a set   *)
(* here: handed over in ascending order, one per validator.                *)
VerifyQuorumSignatures(b) ==
    /\ Cardinality(b.signatures) = RequiredSignatures
    /\ \A i \in b.signatures :
          /\ i \in Validators
          /\ i \in b.block.template.bitset
          /\ Message(i, b.block) \in net["signed_block"]

(* A block handed to core passes the checks the whole network will apply   *)
(* to its signatures, and its random value is derived from the value of    *)
(* every validator the block says took part.                               *)
BlocksVerify ==
    \A b \in blocks :
        /\ VerifyQuorumSignatures(b)
        /\ Positions(b.block.values) = b.block.template.bitset

(* A validator gave the round up, or the producer left it with no template *)
(* sent: some call failed.                                                 *)
SomeoneGaveUp ==
    \/ \E v \in Validators : ctx[v].state = "prepare_for_round"
    \/ ctx[Producer].state \in Ended /\ net["block_template"] = {}

(* Unless some stage times out or some member gives the round up, it never *)
(* gets stuck with everyone waiting on everyone, whatever the order of the *)
(* messages, early ones included: every validator completes the block.     *)
CeremonyCompletes ==
    [](timeouts = 0 /\ ~ SomeoneGaveUp)
      => <>(\A v \in Validators : ctx[v].state = "wait_for_next_block" /\ blocks # {})

(* Whatever is lost, every member leaves the round: each stage ends by its *)
(* end_time, no state is left without a way out.                           *)
RoundEnds == StagesTimeOut => \A n \in Nodes : <>(ctx[n].state \in Ended)

(* "The round proceeds if more than 60% of the validators are participating": *)
(* a locked-in validator awaiting the template accepts the producer's, when   *)
(* it is for this round and for the bitset it locked in.                      *)
LockedRoundProceeds ==
    \A v \in Validators : \A m \in net["block_template"] :
        (/\ ctx[v].state = "wait_for_block_template"
         /\ ctx[v].data["block_template"] = {}
         /\ m.val.bitset = ctx[v].best)
        => Accepts(ctx[v], "block_template", m)

=============================================================================
