------------------------ MODULE PulseCeremonyProofs ------------------------
(***************************************************************************)
(* The safety properties of PulseCeremony, for any number of validators,   *)
(* required signatures, restarts and time-outs.                            *)
(***************************************************************************)
EXTENDS PulseCeremonySteps

(* The contexts before the round. *)
LEMMA TypeInit == Init => TypeOK
<1>1. ASSUME Init PROVE ctx \in [Nodes -> Contexts]
  BY <1>1, NewContextFacts DEF Init
<1>2. ASSUME Init PROVE net \in StageMessages
  BY <1>2, EmptyStages DEF Init, NoMessages
<1>3. QED
  BY <1>1, <1>2, PulseAssumption DEF Init, TypeOK

(* Every step of the round keeps the types. *)
LEMMA TypeNext == TypeOK /\ [Next]_vars => TypeOK'
<1> SUFFICES ASSUME TypeOK, [Next]_vars PROVE TypeOK'
  OBVIOUS
<1>1. CASE UNCHANGED vars
  BY <1>1 DEF vars, TypeOK
<1>2. CASE Next
  <2>0. PICK n \in Nodes : StepOf(n)
    BY <1>2, StepKinds
  <2>1. PICK c1 : StepTo(n, c1)
    BY <2>0 DEF StepOf
  <2>2. Others
    BY <2>1, Frame
  <2>3. ctx' = [ctx EXCEPT ![n] = c1] /\ c1 \in Contexts
    BY <2>1, Frame
  <2>4. restarts' \in 0..MaxRestarts
    <3>1. CASE restarts' = restarts
      BY <3>1 DEF TypeOK
    <3>2. CASE Reboots(n, c1)
      BY <3>2, PulseAssumption DEF Reboots, TypeOK
    <3>3. QED
      BY <2>1, <3>1, <3>2, SameRestarts
  <2>5. net' \in StageMessages
    <3>1. CASE net' = net
      BY <3>1 DEF TypeOK
    <3>2. CASE Leaves(n, c1) /\ net' # net
      <4> DEFINE template == [gen |-> ctx[n].gen, bitset |-> ctx[n].best]
      <4>1. net' = [net EXCEPT !["block_template"] = @ \cup {Message(0, template)}]
        BY <3>2 DEF Leaves
      <4>2. template \in Templates
        BY DEF TypeOK, Contexts, Templates
      <4>3. Message(0, template) \in [pos : {0}, val : Templates]
        BY <4>2 DEF Message
      <4> HIDE DEF template
      <4>4. QED
        BY <4>1, <4>3 DEF TypeOK, StageMessages
    <3>3. ASSUME NEW s \in Stages, NEW c, RunsStage(n, s, c, c1) PROVE net' \in StageMessages
      <4>1. c \in Contexts /\ net' = [net EXCEPT ![s] = @ \cup c.data[s]]
        BY <3>3 DEF RunsStage, StageStep
      <4>2. c.data \in StageMessages /\ net \in StageMessages
        BY <4>1 DEF Contexts, TypeOK
      <4>3. QED
        BY <4>1, <4>2 DEF StageMessages, Stages
    <3>4. QED
      BY <2>1, <3>1, <3>2, <3>3, SameNet
  <2>6. blocks' \subseteq [block : Blocks, signatures : SUBSET Validators]
    <3>1. CASE blocks' = blocks
      BY <3>1 DEF TypeOK
    <3>2. ASSUME NEW s \in Stages, NEW c, StageStep(n, s, OwnOf(n, s), c, c1), Submits(c)
          PROVE blocks' \subseteq [block : Blocks, signatures : SUBSET Validators]
      <4>1. c \in Contexts
        BY <3>2 DEF StageStep
      <4>2. Positions(c.data["signed_block"]) \subseteq Validators /\ c.final \subseteq Blocks
        BY <4>1 DEF Contexts, StageMessages, Positions
      <4>3. PICK X \in SUBSET Validators, b \in Blocks :
              blocks' = blocks \cup {[block |-> b, signatures |-> X]}
        BY <3>2, <4>2 DEF Submits, FirstIndices
      <4>4. QED
        BY <4>3 DEF TypeOK
    <3>3. QED
      BY <2>1, <3>1, <3>2, SameBlocks
  <2>7. ctx' \in [Nodes -> Contexts]
    BY <2>3 DEF TypeOK
  <2>8. QED
    BY <2>2, <2>4, <2>5, <2>6, <2>7 DEF TypeOK, Others
<1>3. QED
  BY <1>1, <1>2

(* Type correctness: the fields of every round_context keep the types of   *)
(* the struct, whatever messages arrive in whatever order.                 *)
THEOREM TypeCorrect == Spec => []TypeOK
  BY TypeInit, TypeNext, PTL DEF Spec

-----------------------------------------------------------------------------
(* Messages a node holds were relayed; nothing is held for a later stage.  *)

RelayedAt(n, c, nt) ==
    \A s \in Stages :
        /\ c.data[s] \subseteq nt[s]
        /\ \A m \in c.queue[s] : m \in nt[s] \/ (s = "handshake_bitset" /\ m.pos = n)

Relayed == \A n \in Nodes : RelayedAt(n, ctx[n], net)

NotYetAt(c) ==
    \A s \in Stages :
        Rank[c.state] < Rank[StageState[s]] => c.data[s] = {} /\ s \notin c.sent

NotYet == \A n \in Nodes : NotYetAt(ctx[n])

(* Relayed: bitsets held by a member were relayed. *)
LEMMA RelayedNext ==
    ASSUME TypeOK, Relayed, NEW n \in Nodes, NEW c1, StepTo(n, c1)
    PROVE  Relayed'
<1>0. /\ c1 \in Contexts /\ ctx' = [ctx EXCEPT ![n] = c1]
      /\ \A s \in Stages : net[s] \subseteq net'[s]
      /\ DOMAIN net = Stages
  BY Frame DEF TypeOK, StageMessages, Stages
<1>1. ctx \in [Nodes -> Contexts]
  BY DEF TypeOK
<1>2. ASSUME NEW p \in Nodes \ {n} PROVE RelayedAt(p, ctx[p], net')
  BY <1>0 DEF Relayed, RelayedAt
<1>3. RelayedAt(n, ctx[n], net')
  BY <1>0 DEF Relayed, RelayedAt
<1>4. RelayedAt(n, c1, net')
  <2>1. CASE MovesOn(n, c1)
    BY <2>1, <1>3 DEF MovesOn, RelayedAt
  <2>2. CASE SendsBitset(n, c1)
    <3>1. Message(n, Positions(ctx[n].data["handshake"])).pos = n
      BY DEF Message
    <3>2. c1.data = ctx[n].data
          /\ \A t \in Stages : \A m \in c1.queue[t] :
               m \in ctx[n].queue[t] \/ (t = "handshake_bitset" /\ m.pos = n)
      BY <2>2, <3>1 DEF SendsBitset
    <3>3. QED
      BY <1>3, <3>2 DEF RelayedAt
  <2>3. CASE Leaves(n, c1) \/ Reboots(n, c1)
    <3>1. c1.data = NoMessages /\ c1.queue = NoMessages
      BY <2>3 DEF Leaves, Reboots
    <3>2. QED
      BY <3>1, EmptyStages DEF RelayedAt
  <2>4. ASSUME NEW s \in Stages, NEW m, Receives(n, s, m, c1) PROVE RelayedAt(n, c1, net')
    <3>1. /\ \A t \in Stages : c1.data[t] \subseteq ctx[n].data[t] \cup net[t]
          /\ \A t \in Stages : c1.queue[t] \subseteq ctx[n].queue[t] \cup net[t]
      BY <2>4 DEF Receives
    <3>2. QED
      BY <1>0, <1>3, <3>1 DEF RelayedAt
  <2>5. ASSUME NEW s \in Stages, NEW c, RunsStage(n, s, c, c1) PROVE RelayedAt(n, c1, net')
    <3>1. StageStep(n, s, OwnOf(n, s), c, c1)
      BY <2>5 DEF RunsStage
    <3>2. /\ \A t \in Stages \ {s} : c.data[t] = ctx[n].data[t] /\ c.queue[t] = ctx[n].queue[t]
          /\ c.queue[s] = {}
          /\ net' = [net EXCEPT ![s] = @ \cup c.data[s]]
      BY <3>1 DEF StageStep
    <3>3. RelayedAt(n, c, net')
      BY <1>0, <1>3, <3>2 DEF RelayedAt
    <3>4. \/ c1.data = NoMessages /\ c1.queue = NoMessages
          \/ c1.data = c.data /\ c1.queue = c.queue
      BY <3>1 DEF StageStep
    <3>5. QED
      BY <3>3, <3>4, EmptyStages DEF RelayedAt
  <2>6. QED
    BY <2>1, <2>2, <2>3, <2>4, <2>5 DEF StepTo
<1>5. ASSUME NEW p \in Nodes PROVE RelayedAt(p, ctx'[p], net')
  BY <1>0, <1>1, <1>2, <1>4
<1>6. QED
  BY <1>5 DEF Relayed

(* NotYet: nothing was received or sent of a stage that is still to come. *)
LEMMA NotYetNext ==
    ASSUME TypeOK, NotYet, NEW n \in Nodes, NEW c1, StepTo(n, c1)
    PROVE  NotYet'
<1>0. c1 \in Contexts /\ ctx' = [ctx EXCEPT ![n] = c1]
  BY Frame
<1>1. ctx \in [Nodes -> Contexts] /\ NotYetAt(ctx[n])
  BY DEF TypeOK, NotYet
<1>2. \A s \in Stages : StageState[s] \in RoundStates
  BY DEF Stages, StageState, RoundStates, Rank
<1>3. \A st \in RoundStates : Rank[st] \in Nat
  BY DEF RoundStates, Rank
<1>4. NotYetAt(c1)
  <2>0. ctx[n].state \in RoundStates /\ c1.state \in RoundStates
    BY <1>0, <1>1 DEF Contexts
  <2>1. CASE MovesOn(n, c1)
    <3>1. Rank[ctx[n].state] <= Rank[c1.state]
      BY <2>1 DEF MovesOn, Rank
    <3>2. c1.data = ctx[n].data /\ c1.sent = ctx[n].sent
      BY <2>1 DEF MovesOn
    <3>3. QED
      BY <1>1, <1>2, <1>3, <2>0, <3>1, <3>2 DEF NotYetAt
  <2>2. CASE SendsBitset(n, c1)
    <3>1. Rank[ctx[n].state] <= Rank[c1.state]
      BY <2>2 DEF SendsBitset, Rank
    <3>2. c1.data = ctx[n].data /\ c1.sent = ctx[n].sent
      BY <2>2 DEF SendsBitset
    <3>3. QED
      BY <1>1, <1>2, <1>3, <2>0, <3>1, <3>2 DEF NotYetAt
  <2>3. CASE Leaves(n, c1) \/ Reboots(n, c1)
    <3>1. c1.data = NoMessages /\ c1.sent = {}
      BY <2>3 DEF Leaves, Reboots
    <3>2. QED
      BY <3>1, EmptyStages DEF NotYetAt
  <2>4. ASSUME NEW s \in Stages, NEW m, Receives(n, s, m, c1) PROVE NotYetAt(c1)
    <3>1. /\ c1.state = ctx[n].state /\ c1.sent = ctx[n].sent
          /\ \A t \in Stages : Rank[ctx[n].state] < Rank[StageState[t]] =>
                                 c1.data[t] = ctx[n].data[t]
      BY <1>2, <1>3, <2>0, <2>4 DEF Receives
    <3>2. QED
      BY <1>1, <3>1 DEF NotYetAt
  <2>5. ASSUME NEW s \in Stages, NEW c, RunsStage(n, s, c, c1) PROVE NotYetAt(c1)
    <3>1. StageStep(n, s, OwnOf(n, s), c, c1)
      BY <2>5 DEF RunsStage
    <3>2. /\ \A t \in Stages \ {s} : c.data[t] = ctx[n].data[t]
          /\ c.sent = ctx[n].sent \cup {s}
          /\ c.state = ctx[n].state /\ ctx[n].state = StageState[s]
      BY <3>1 DEF StageStep
    <3>3. \/ c1.data = NoMessages /\ c1.sent = {}
          \/ c1.data = c.data /\ c1.sent = c.sent /\ Rank[c1.state] >= Rank[c.state]
      BY <1>3, <2>0, <3>1 DEF StageStep
    <3>4. CASE c1.data = NoMessages /\ c1.sent = {}
      BY <3>4, EmptyStages DEF NotYetAt
    <3>5. CASE c1.data = c.data /\ c1.sent = c.sent /\ Rank[c1.state] >= Rank[c.state]
      BY <1>1, <1>2, <1>3, <2>0, <3>2, <3>5 DEF NotYetAt
    <3>6. QED
      BY <3>3, <3>4, <3>5
  <2>6. QED
    BY <2>1, <2>2, <2>3, <2>4, <2>5 DEF StepTo
<1>5. ASSUME NEW p \in Nodes PROVE NotYetAt(ctx'[p])
  BY <1>0, <1>1, <1>4 DEF NotYet
<1>6. QED
  BY <1>5 DEF NotYet

-----------------------------------------------------------------------------
(* The handshake bitsets.  A validator that has not restarted speaks for    *)
(* one bitset only, and only its own step makes it public.                  *)

hb == "handshake_bitset"

OwnBitsets(p, c, nt) == {m \in nt[hb] \cup c.queue[hb] : m.pos = p}

BeforeBitset == {"wait_for_round", "send_and_wait_for_handshakes", "send_handshake_bitsets"}

OneBitsetAt(p, c, nt) ==
    c.gen = 0 =>
        /\ c.state \in BeforeBitset => OwnBitsets(p, c, nt) = {}
        /\ \A m1, m2 \in OwnBitsets(p, c, nt) : m1 = m2

OneBitset == \A p \in Validators : OneBitsetAt(p, ctx[p], net)

(* A step relays its own bitset only, and takes in relayed ones. *)
LEMMA BitsetSources ==
    ASSUME TypeOK, Relayed, NEW n \in Nodes, NEW c1, StepTo(n, c1)
    PROVE  /\ net'[hb] \subseteq net[hb] \cup {m \in ctx[n].queue[hb] : m.pos = n}
           /\ ~ SendsBitset(n, c1) =>
                c1.queue[hb] \subseteq ctx[n].queue[hb] \cup {m \in net[hb] : m.pos # n}
<1>0. hb \in Stages /\ DOMAIN net = Stages /\ ctx[n] \in Contexts
  BY DEF hb, TypeOK, StageMessages, Stages
<1>1. /\ ctx[n].data[hb] \subseteq net[hb]
      /\ \A m \in ctx[n].queue[hb] : m \in net[hb] \/ m.pos = n
  BY <1>0 DEF Relayed, RelayedAt
<1>2. CASE MovesOn(n, c1)
  BY <1>2 DEF MovesOn
<1>3. CASE SendsBitset(n, c1)
  BY <1>3 DEF SendsBitset
<1>4. CASE Leaves(n, c1)
  <2>1. c1.queue[hb] = {}
    BY <1>0, <1>4, EmptyStages DEF Leaves
  <2>2. net' = net \/ \E t : net' = [net EXCEPT !["block_template"] = @ \cup {t}]
    BY <1>4 DEF Leaves
  <2>3. net'[hb] = net[hb]
    BY <1>0, <2>2 DEF hb
  <2>4. QED
    BY <2>1, <2>3
<1>5. CASE Reboots(n, c1)
  BY <1>0, <1>5, EmptyStages DEF Reboots
<1>6. ASSUME NEW s \in Stages, NEW m, Receives(n, s, m, c1)
      PROVE  /\ net' = net
             /\ c1.queue[hb] \subseteq ctx[n].queue[hb] \cup {x \in net[hb] : x.pos # n}
  <2>1. /\ net' = net /\ m \in net[s] /\ n \in Destinations(s, m)
        /\ s # hb => c1.queue[hb] = ctx[n].queue[hb]
        /\ s = hb => c1.queue[hb] \subseteq ctx[n].queue[hb] \cup {m}
    BY <1>0, <1>6 DEF Receives
  <2>2. s = hb => m.pos # n
    BY <2>1 DEF Destinations, hb
  <2>3. QED
    BY <2>1, <2>2
<1>7. ASSUME NEW s \in Stages, NEW c, RunsStage(n, s, c, c1)
      PROVE  /\ net'[hb] \subseteq net[hb] \cup {m \in ctx[n].queue[hb] : m.pos = n}
             /\ c1.queue[hb] \subseteq ctx[n].queue[hb]
  <2>1. StageStep(n, s, OwnOf(n, s), c, c1)
    BY <1>7 DEF RunsStage
  <2>2. OwnOf(n, hb) = {}
    BY DEF OwnOf, hb
  <2>3. /\ net' = [net EXCEPT ![s] = @ \cup c.data[s]]
        /\ s # hb => c.queue[hb] = ctx[n].queue[hb]
        /\ c.queue[s] = {}
        /\ s = hb => c.data[hb] \subseteq ctx[n].data[hb] \cup ctx[n].queue[hb]
        /\ c1.queue = NoMessages \/ c1.queue = c.queue
    BY <1>0, <2>1, <2>2 DEF StageStep
  <2>4. c1.queue[hb] \subseteq ctx[n].queue[hb]
    BY <1>0, <2>3, EmptyStages
  <2>5. QED
    BY <1>0, <1>1, <2>3, <2>4
<1>8. QED
  BY <1>2, <1>3, <1>4, <1>5, <1>6, <1>7 DEF StepTo

(* A node is early in the round only if it was so before, or restarted. *)
LEMMA StaysBefore ==
    ASSUME NEW n \in Nodes, NEW c1, StepTo(n, c1), ~ Reboots(n, c1)
    PROVE  /\ c1.gen = ctx[n].gen
           /\ c1.state \in BeforeBitset => ctx[n].state \in BeforeBitset
<1>1. CASE MovesOn(n, c1)
  BY <1>1 DEF MovesOn, BeforeBitset
<1>2. CASE SendsBitset(n, c1)
  BY <1>2 DEF SendsBitset, BeforeBitset
<1>3. CASE Leaves(n, c1)
  BY <1>3 DEF Leaves, BeforeBitset, Ended
<1>4. ASSUME NEW s \in Stages, NEW m, Receives(n, s, m, c1)
      PROVE  c1.gen = ctx[n].gen /\ c1.state = ctx[n].state
  BY <1>4 DEF Receives
<1>5. ASSUME NEW s \in Stages, NEW c, RunsStage(n, s, c, c1)
      PROVE  /\ c1.gen = ctx[n].gen
             /\ c1.state \in BeforeBitset => ctx[n].state \in BeforeBitset
  <2>1. StageStep(n, s, OwnOf(n, s), c, c1)
    BY <1>5 DEF RunsStage
  <2>2. /\ c1.gen = ctx[n].gen
        /\ c.state = ctx[n].state /\ ctx[n].state = StageState[s]
    BY <2>1 DEF StageStep
  <2>3. CASE c1.state \in Ended \cup {c.state}
    BY <2>2, <2>3 DEF Ended, BeforeBitset
  <2>4. CASE c1.state \notin Ended \cup {c.state}
    <3>1. Completes(n, s, c, c1)
      BY <1>5, <2>4 DEF RunsStage
    <3>2. s # "handshake" => c1.state \notin BeforeBitset
      BY <3>1 DEF Completes, BeforeBitset, Stages
    <3>3. s = "handshake" => ctx[n].state \in BeforeBitset
      BY <2>2 DEF StageState, BeforeBitset
    <3>4. QED
      BY <2>2, <3>2, <3>3
  <2>5. QED
    BY <2>3, <2>4
<1>6. QED
  BY <1>1, <1>2, <1>3, <1>4, <1>5 DEF StepTo

(* A validator that has not restarted sends one bitset. *)
LEMMA OneBitsetNext ==
    ASSUME TypeOK, Relayed, OneBitset, NEW n \in Nodes, NEW c1, StepTo(n, c1)
    PROVE  OneBitset'
<1>0. /\ ctx' = [ctx EXCEPT ![n] = c1] /\ DOMAIN ctx = Nodes
      /\ restarts \in Nat /\ Validators \subseteq Nodes
  BY Frame, NodeFacts, PulseAssumption DEF TypeOK
<1>1. net'[hb] \subseteq net[hb] \cup {m \in ctx[n].queue[hb] : m.pos = n}
  BY BitsetSources
<1>2. ASSUME NEW p \in Validators, p # n PROVE OneBitsetAt(p, ctx'[p], net')
  <2>1. ctx'[p] = ctx[p] /\ OneBitsetAt(p, ctx[p], net)
    BY <1>0, <1>2 DEF OneBitset
  <2>2. OwnBitsets(p, ctx[p], net') \subseteq OwnBitsets(p, ctx[p], net)
    BY <1>1, <1>2 DEF OwnBitsets
  <2>3. QED
    BY <2>1, <2>2 DEF OneBitsetAt
<1>3. ASSUME n \in Validators PROVE OneBitsetAt(n, c1, net')
  <2>0. OneBitsetAt(n, ctx[n], net)
    BY <1>3 DEF OneBitset
  <2>1. CASE Reboots(n, c1)
    BY <1>0, <2>1 DEF Reboots, OneBitsetAt
  <2>2. CASE SendsBitset(n, c1)
    <3> DEFINE own == Message(n, Positions(ctx[n].data["handshake"]))
    <3>1. /\ ctx[n].state \in BeforeBitset /\ c1.gen = ctx[n].gen /\ c1.state \notin BeforeBitset
          /\ c1.queue[hb] \subseteq ctx[n].queue[hb] \cup {own}
      BY <2>2 DEF SendsBitset, BeforeBitset, hb
    <3> HIDE DEF own
    <3>2. ASSUME ctx[n].gen = 0 PROVE OwnBitsets(n, c1, net') \subseteq {own}
      <4>1. OwnBitsets(n, ctx[n], net) = {}
        BY <2>0, <3>1, <3>2 DEF OneBitsetAt
      <4>2. QED
        BY <1>1, <3>1, <4>1 DEF OwnBitsets
    <3>3. QED
      BY <3>1, <3>2 DEF OneBitsetAt
  <2>3. CASE ~ Reboots(n, c1) /\ ~ SendsBitset(n, c1)
    <3>1. c1.queue[hb] \subseteq ctx[n].queue[hb] \cup {m \in net[hb] : m.pos # n}
      BY <2>3, BitsetSources
    <3>2. OwnBitsets(n, c1, net') \subseteq OwnBitsets(n, ctx[n], net)
      BY <1>1, <3>1 DEF OwnBitsets
    <3>3. /\ c1.gen = ctx[n].gen
          /\ c1.state \in BeforeBitset => ctx[n].state \in BeforeBitset
      BY <2>3, StaysBefore
    <3>4. QED
      BY <2>0, <3>2, <3>3 DEF OneBitsetAt
  <2>4. QED
    BY <2>1, <2>2, <2>3
<1>4. ASSUME NEW p \in Validators PROVE OneBitsetAt(p, ctx'[p], net')
  BY <1>0, <1>2, <1>3
<1>5. QED
  BY <1>4 DEF OneBitset

(* A validator has seen its own handshake by the time it reports a bitset,  *)
(* so every bitset names its author.                                        *)

SelfSeenAt(n, c) ==
    (\/ c.state = "send_handshake_bitsets"
     \/ c.state = "send_and_wait_for_handshakes" /\ "handshake" \in c.sent)
    => n \in Positions(c.data["handshake"])

SelfSeen == \A n \in Validators : SelfSeenAt(n, ctx[n])

(* A validator counts its own handshake. *)
LEMMA SelfSeenNext ==
    ASSUME TypeOK, NotYet, SelfSeen, NEW n \in Nodes, NEW c1, StepTo(n, c1)
    PROVE  SelfSeen'
<1>0. /\ ctx' = [ctx EXCEPT ![n] = c1] /\ DOMAIN ctx = Nodes
      /\ Validators \subseteq Nodes /\ "handshake" \in Stages
  BY Frame, NodeFacts DEF TypeOK, Stages
<1>1. ASSUME n \in Validators PROVE SelfSeenAt(n, c1)
  <2>0. SelfSeenAt(n, ctx[n]) /\ NotYetAt(ctx[n])
    BY <1>1 DEF SelfSeen, NotYet
  <2>1. CASE MovesOn(n, c1)
    <3>1. "handshake" \notin ctx[n].sent
      BY <1>0, <2>0, <2>1 DEF NotYetAt, MovesOn, Rank, StageState
    <3>2. c1.sent = ctx[n].sent /\ c1.state # "send_handshake_bitsets"
      BY <2>1 DEF MovesOn
    <3>3. QED
      BY <3>1, <3>2 DEF SelfSeenAt
  <2>2. CASE SendsBitset(n, c1)
    BY <2>2 DEF SendsBitset, SelfSeenAt
  <2>3. CASE Leaves(n, c1)
    BY <2>3 DEF Leaves, SelfSeenAt, Ended
  <2>4. CASE Reboots(n, c1)
    BY <2>4 DEF Reboots, SelfSeenAt
  <2>5. ASSUME NEW s \in Stages, NEW m, Receives(n, s, m, c1) PROVE SelfSeenAt(n, c1)
    <3>1. /\ c1.state = ctx[n].state /\ c1.sent = ctx[n].sent
          /\ ctx[n].data["handshake"] \subseteq c1.data["handshake"]
      BY <1>0, <2>5 DEF Receives
    <3>2. QED
      BY <2>0, <3>1 DEF SelfSeenAt, Positions
  <2>6. ASSUME NEW s \in Stages, NEW c, RunsStage(n, s, c, c1) PROVE SelfSeenAt(n, c1)
    <3>1. StageStep(n, s, OwnOf(n, s), c, c1)
      BY <2>6 DEF RunsStage
    <3>2. c.state = ctx[n].state /\ ctx[n].state = StageState[s]
      BY <3>1 DEF StageStep
    <3>3. CASE s # "handshake"
      <4>1. c1.state \notin Ended \cup {c.state} => Completes(n, s, c, c1)
        BY <2>6 DEF RunsStage
      <4>2. c1.state \notin {"send_handshake_bitsets", "send_and_wait_for_handshakes"}
        BY <3>2, <3>3, <4>1 DEF Completes, Stages, StageState, Ended
      <4>3. QED
        BY <4>2 DEF SelfSeenAt
    <3>4. CASE s = "handshake"
      <4> DEFINE own == Message(n, "handshake")
      <4>1. OwnOf(n, s) = {own} /\ own.pos = n
        BY <3>4 DEF OwnOf, Message
      <4>2. Accepts(ctx[n], s, own) \/ n \in Positions(ctx[n].data["handshake"])
        BY <3>4, <4>1 DEF Accepts, LockedIn
      <4> HIDE DEF own
      <4>3. s \notin ctx[n].sent => n \in Positions(ctx[n].data["handshake"]) \/ own \in c.data["handshake"]
        BY <3>1, <3>4, <4>1, <4>2 DEF StageStep
      <4>4. ctx[n].data["handshake"] \subseteq c.data["handshake"]
        BY <3>1, <3>4 DEF StageStep
      <4>5. s \in ctx[n].sent => n \in Positions(ctx[n].data["handshake"])
        BY <2>0, <3>2, <3>4 DEF SelfSeenAt, StageState
      <4>6. n \in Positions(c.data["handshake"])
        BY <4>1, <4>3, <4>4, <4>5 DEF Positions
      <4>7. c1.state \notin Ended => c1.data = c.data
        BY <3>1 DEF StageStep
      <4>8. QED
        BY <4>6, <4>7 DEF SelfSeenAt, Ended
    <3>5. QED
      BY <3>3, <3>4
  <2>7. QED
    BY <2>1, <2>2, <2>3, <2>4, <2>5, <2>6 DEF StepTo
<1>2. ASSUME NEW p \in Validators PROVE SelfSeenAt(p, ctx'[p])
  BY <1>0, <1>1 DEF SelfSeen
<1>3. QED
  BY <1>2 DEF SelfSeen

NamesAuthor ==
    /\ \A m \in net[hb] : m.pos \in m.val
    /\ \A n \in Nodes : \A m \in ctx[n].queue[hb] : m.pos \in m.val

(* Every bitset relayed names its author. *)
LEMMA NamesAuthorNext ==
    ASSUME TypeOK, Relayed, SelfSeen, NamesAuthor, NEW n \in Nodes, NEW c1, StepTo(n, c1)
    PROVE  NamesAuthor'
<1>0. ctx' = [ctx EXCEPT ![n] = c1] /\ DOMAIN ctx = Nodes
  BY Frame DEF TypeOK
<1>1. \A m \in net'[hb] : m.pos \in m.val
  BY BitsetSources DEF NamesAuthor
<1>2. ASSUME NEW m \in c1.queue[hb] PROVE m.pos \in m.val
  <2>1. CASE SendsBitset(n, c1)
    <3> DEFINE own == Message(n, Positions(ctx[n].data["handshake"]))
    <3>1. /\ n \in Validators /\ ctx[n].state = "send_handshake_bitsets"
          /\ c1.queue[hb] \subseteq ctx[n].queue[hb] \cup {own}
      BY <2>1 DEF SendsBitset, hb
    <3>2. n \in Positions(ctx[n].data["handshake"])
      BY <3>1 DEF SelfSeen, SelfSeenAt
    <3>3. own.pos \in own.val
      BY <3>2 DEF Message
    <3> HIDE DEF own
    <3>4. QED
      BY <3>1, <3>3 DEF NamesAuthor
  <2>2. CASE ~ SendsBitset(n, c1)
    BY <2>2, BitsetSources DEF NamesAuthor
  <2>3. QED
    BY <2>1, <2>2
<1>3. ASSUME NEW p \in Nodes PROVE \A m \in ctx'[p].queue[hb] : m.pos \in m.val
  BY <1>0, <1>2 DEF NamesAuthor
<1>4. QED
  BY <1>1, <1>3 DEF NamesAuthor

-----------------------------------------------------------------------------
(* A bitset is locked in only with the votes of RequiredSignatures members. *)

Votes(B, nt) == {p \in Validators : Message(p, B) \in nt[hb]}

Locks(c) == c.best # {} \/ c.state = "send_block_template"

Backed(B, nt) == Cardinality(Votes(B, nt)) >= RequiredSignatures

LockedVotes ==
    /\ \A n \in Nodes : Locks(ctx[n]) => Backed(ctx[n].best, net)
    /\ \A m \in net["block_template"] : Backed(m.val.bitset, net)

(* The sets of validators that are counted are finite. *)
LEMMA FiniteValidators ==
    /\ IsFiniteSet(Validators) /\ Cardinality(Validators) = NumValidators
    /\ \A S \in SUBSET Validators : /\ IsFiniteSet(S) /\ Cardinality(S) \in Nat
                                    /\ Cardinality(S) <= NumValidators
<1>1. IsFiniteSet(Validators) /\ Cardinality(Validators) = NumValidators
  BY FS_Interval, PulseAssumption DEF Validators
<1>2. ASSUME NEW S \in SUBSET Validators
      PROVE IsFiniteSet(S) /\ Cardinality(S) \in Nat /\ Cardinality(S) <= NumValidators
  BY <1>1, FS_Subset, FS_CardinalityType
<1>3. QED
  BY <1>1, <1>2

(* Votes for a bitset are never unsent. *)
LEMMA BackedMonotone ==
    ASSUME NEW B, NEW nt, NEW nt1, nt[hb] \subseteq nt1[hb], Backed(B, nt)
    PROVE  Backed(B, nt1)
<1>1. Votes(B, nt) \in SUBSET Votes(B, nt1) /\ Votes(B, nt1) \in SUBSET Validators
  BY DEF Votes
<1>2. Votes(B, nt) \in SUBSET Validators
  BY DEF Votes
<1>3. Cardinality(Votes(B, nt)) <= Cardinality(Votes(B, nt1))
  BY <1>1, FiniteValidators, FS_Subset
<1>4. QED
  BY <1>1, <1>2, <1>3, FiniteValidators, PulseAssumption DEF Backed

(* The messages that vote for a bitset come from as many validators. *)
LEMMA LockableBacked ==
    ASSUME NEW n, NEW ms \in SUBSET [pos : Validators, val : SUBSET Validators],
           NEW B \in Lockable(n, ms), NEW nt, ms \subseteq nt[hb]
    PROVE  Backed(B, nt)
<1> DEFINE V == Voters(ms, B)
           f == [m \in V |-> m.pos]
<1>1. V \subseteq ms /\ \A m \in V : m.val = B /\ m.pos \in Validators /\ m = Message(m.pos, B)
  BY DEF Voters, Message
<1>2. f \in [V -> Votes(B, nt)]
  BY <1>1 DEF Votes
<1>3. ASSUME NEW a \in V, NEW b \in V, f[a] = f[b] PROVE a = b
  BY <1>1, <1>3
<1>4. f \in Injection(V, Votes(B, nt))
  BY <1>2, <1>3 DEF Injection, IsInjective
<1>5. Votes(B, nt) \in SUBSET Validators
  BY DEF Votes
<1> HIDE DEF V, f
<1>6. IsFiniteSet(V) /\ Cardinality(V) <= Cardinality(Votes(B, nt))
  BY <1>4, <1>5, FiniteValidators, FS_Injection
<1>7. Cardinality(V) >= RequiredSignatures
  BY DEF Lockable, V
<1>8. QED
  BY <1>5, <1>6, <1>7, FS_CardinalityType, FiniteValidators, PulseAssumption DEF Backed

(* A bitset is locked in with the votes of enough validators. *)
LEMMA LockedVotesNext ==
    ASSUME TypeOK, Relayed, LockedVotes, NEW n \in Nodes, NEW c1, StepTo(n, c1)
    PROVE  LockedVotes'
<1>0. /\ ctx' = [ctx EXCEPT ![n] = c1] /\ DOMAIN ctx = Nodes
      /\ hb \in Stages /\ DOMAIN net = Stages /\ net[hb] \subseteq net'[hb]
      /\ "block_template" \in Stages
  BY Frame DEF TypeOK, hb, Stages, StageMessages
<1>1. \A B : Backed(B, net) => Backed(B, net')
  BY <1>0, BackedMonotone
<1>2. ASSUME NEW m \in net'["block_template"] PROVE Backed(m.val.bitset, net')
  <2>1. CASE m \in net["block_template"]
    BY <1>1, <2>1 DEF LockedVotes
  <2>2. CASE m \notin net["block_template"]
    <3>1. CASE Leaves(n, c1)
      <4> DEFINE template == [gen |-> ctx[n].gen, bitset |-> ctx[n].best]
      <4>1. /\ ctx[n].state = "send_block_template"
            /\ net' = [net EXCEPT !["block_template"] = @ \cup {Message(0, template)}]
        BY <2>2, <3>1 DEF Leaves
      <4>2. m = Message(0, template)
        BY <1>0, <2>2, <4>1
      <4>3. m.val.bitset = ctx[n].best
        BY <4>2 DEF Message
      <4>4. Backed(ctx[n].best, net)
        BY <4>1 DEF LockedVotes, Locks
      <4>5. QED
        BY <1>1, <4>3, <4>4
    <3>2. ASSUME NEW s \in Stages, NEW c, RunsStage(n, s, c, c1) PROVE FALSE
      \* the templates a validator holds had been relayed already
      <4>1. StageStep(n, s, OwnOf(n, s), c, c1)
        BY <3>2 DEF RunsStage
      <4>2. OwnOf(n, "block_template") = {}
        BY DEF OwnOf
      <4>3. /\ net' = [net EXCEPT ![s] = @ \cup c.data[s]]
            /\ s = "block_template" =>
                 c.data[s] \subseteq ctx[n].data[s] \cup ctx[n].queue[s]
        BY <4>1, <4>2 DEF StageStep
      <4>4. /\ ctx[n].data["block_template"] \subseteq net["block_template"]
            /\ ctx[n].queue["block_template"] \subseteq net["block_template"]
        BY <1>0 DEF Relayed, RelayedAt
      <4>5. QED
        BY <1>0, <1>2, <2>2, <4>3, <4>4
    <3>3. QED
      BY <1>0, <2>2, <3>1, <3>2, SameNet
  <2>3. QED
    BY <2>1, <2>2
<1>3. ASSUME Locks(c1) PROVE Backed(c1.best, net')
  <2>0. Locks(ctx[n]) => Backed(ctx[n].best, net')
    BY <1>1 DEF LockedVotes
  <2>1. CASE MovesOn(n, c1)
    BY <1>3, <2>0, <2>1 DEF MovesOn, Locks
  <2>2. CASE SendsBitset(n, c1)
    BY <1>3, <2>0, <2>2 DEF SendsBitset, Locks
  <2>3. CASE Leaves(n, c1) \/ Reboots(n, c1)
    BY <1>3, <2>3 DEF Leaves, Reboots, Locks, Ended
  <2>4. ASSUME NEW s \in Stages, NEW m, Receives(n, s, m, c1) PROVE Backed(c1.best, net')
    <3>1. c1.best = ctx[n].best /\ c1.state = ctx[n].state
      BY <2>4 DEF Receives
    <3>2. QED
      BY <1>3, <2>0, <3>1 DEF Locks
  <2>5. ASSUME NEW s \in Stages, NEW c, RunsStage(n, s, c, c1) PROVE Backed(c1.best, net')
    <3>1. StageStep(n, s, OwnOf(n, s), c, c1)
      BY <2>5 DEF RunsStage
    <3>2. /\ c.best = ctx[n].best /\ c.state = ctx[n].state /\ ctx[n].state = StageState[s]
          /\ c \in Contexts
          /\ net' = [net EXCEPT ![s] = @ \cup c.data[s]]
          /\ c1.state \in Ended => c1.best = {}
      BY <3>1 DEF StageStep
    <3>3. CASE c1.state \in Ended
      BY <1>3, <3>2, <3>3 DEF Locks, Ended
    <3>4. CASE c1.state = c.state /\ c1.state \notin Ended
      <4>1. c1 = c \/ Rank[c1.state] > Rank[c.state]
        BY <3>1, <3>4 DEF StageStep
      <4>2. Rank[c.state] \in Nat
        BY <3>2, StageRanks
      <4>3. c1 = c
        BY <3>4, <4>1, <4>2
      <4>4. c.state # "send_block_template"
        BY <3>2 DEF StageState, Stages
      <4>5. QED
        BY <1>3, <2>0, <3>2, <4>3, <4>4 DEF Locks
    <3>5. CASE c1.state \notin Ended \cup {c.state}
      <4>1. Completes(n, s, c, c1)
        BY <2>5, <3>5 DEF RunsStage
      <4>2. CASE s # hb
        <5>1. c1.best = c.best
          BY <3>1, <3>5, <4>2 DEF StageStep, hb
        <5>2. c1.state # "send_block_template"
          BY <4>1, <4>2 DEF Completes, Stages, hb
        <5>3. QED
          BY <1>3, <2>0, <3>2, <5>1, <5>2 DEF Locks
      <4>3. CASE s = hb
        <5>1. c1.best \in Lockable(n, c.data[hb])
          BY <4>1, <4>3 DEF Completes, hb
        <5>2. c.data[hb] \in SUBSET [pos : Validators, val : SUBSET Validators]
          BY <3>2 DEF Contexts, StageMessages, hb
        <5>3. c.data[hb] \subseteq net'[hb]
          BY <1>0, <3>2, <4>3
        <5>4. QED
          BY <5>1, <5>2, <5>3, LockableBacked
      <4>4. QED
        BY <4>2, <4>3
    <3>6. QED
      BY <3>3, <3>4, <3>5
  <2>6. QED
    BY <2>1, <2>2, <2>3, <2>4, <2>5 DEF StepTo
<1>4. ASSUME NEW p \in Nodes, Locks(ctx'[p]) PROVE Backed(ctx'[p].best, net')
  BY <1>0, <1>1, <1>3, <1>4 DEF LockedVotes
<1>5. QED
  BY <1>2, <1>4 DEF LockedVotes

(* The nodes that have restarted are counted. *)

Restarted(cs) == {n \in Nodes : cs[n].gen # 0}

RestartsCounted == IsFiniteSet(Restarted(ctx)) /\ Cardinality(Restarted(ctx)) <= restarts

(* Validators that have restarted are counted. *)
LEMMA RestartsCountedNext ==
    ASSUME TypeOK, RestartsCounted, NEW n \in Nodes, NEW c1, StepTo(n, c1)
    PROVE  RestartsCounted'
<1>0. /\ ctx' = [ctx EXCEPT ![n] = c1] /\ DOMAIN ctx = Nodes /\ restarts \in Nat
  BY Frame, PulseAssumption DEF TypeOK
<1>1. CASE Reboots(n, c1)
  <2>1. Restarted(ctx') \subseteq Restarted(ctx) \cup {n} /\ restarts' = restarts + 1
    BY <1>0, <1>1 DEF Restarted, Reboots
  <2>2. /\ IsFiniteSet(Restarted(ctx) \cup {n})
        /\ Cardinality(Restarted(ctx) \cup {n}) <= restarts + 1
        /\ Cardinality(Restarted(ctx) \cup {n}) \in Nat
    <3> DEFINE S == Restarted(ctx)
    <3>1. IsFiniteSet(S) /\ Cardinality(S) <= restarts
      BY DEF RestartsCounted
    <3> HIDE DEF S
    <3>2. Cardinality(S) \in Nat
      BY <3>1, FS_CardinalityType
    <3>3. /\ IsFiniteSet(S \cup {n})
          /\ Cardinality(S \cup {n}) = IF n \in S THEN Cardinality(S) ELSE Cardinality(S) + 1
      BY <3>1, FS_AddElement
    <3>4. QED
      BY <1>0, <3>1, <3>2, <3>3 DEF S
  <2>3. /\ IsFiniteSet(Restarted(ctx')) /\ Cardinality(Restarted(ctx')) \in Nat
        /\ Cardinality(Restarted(ctx')) <= Cardinality(Restarted(ctx) \cup {n})
    BY <2>1, <2>2, FS_Subset, FS_CardinalityType
  <2>4. QED
    BY <1>0, <2>1, <2>2, <2>3 DEF RestartsCounted
<1>2. CASE ~ Reboots(n, c1)
  <2>1. c1.gen = ctx[n].gen /\ restarts' = restarts
    BY <1>2, StaysBefore, SameRestarts
  <2>2. Restarted(ctx') = Restarted(ctx)
    BY <1>0, <2>1 DEF Restarted
  <2>3. QED
    BY <2>1, <2>2 DEF RestartsCounted
<1>3. QED
  BY <1>1, <1>2

-----------------------------------------------------------------------------
(* The inductive invariant of the bitset phase and what follows from it.   *)

BitsetInv ==
    /\ TypeOK /\ Relayed /\ NotYet /\ OneBitset /\ SelfSeen
    /\ NamesAuthor /\ LockedVotes /\ RestartsCounted

(* The invariant before the round. *)
LEMMA BitsetInvInit == Init => BitsetInv
<1> SUFFICES ASSUME Init PROVE BitsetInv
  OBVIOUS
<1>0. TypeOK
  BY TypeInit
<1>1. /\ \A s \in Stages : net[s] = {}
      /\ restarts = 0
      /\ \A n \in Nodes : /\ ctx[n].state = "wait_for_round" /\ ctx[n].gen = 0
                          /\ ctx[n].queue = NoMessages /\ ctx[n].data = NoMessages
                          /\ ctx[n].sent = {} /\ ctx[n].best = {}
  BY NewContextFacts DEF Init
<1>2. \A n \in Nodes, s \in Stages : ctx[n].queue[s] = {} /\ ctx[n].data[s] = {}
  BY <1>1, EmptyStages
<1>3. Relayed /\ NotYet
  BY <1>1, <1>2 DEF Relayed, RelayedAt, NotYet, NotYetAt
<1>4. hb \in Stages /\ "block_template" \in Stages /\ Validators \subseteq Nodes
  BY NodeFacts DEF hb, Stages
<1>5. OneBitset /\ NamesAuthor
  BY <1>1, <1>2, <1>4 DEF OneBitset, OneBitsetAt, OwnBitsets, NamesAuthor
<1>6. SelfSeen
  BY <1>1, <1>4 DEF SelfSeen, SelfSeenAt
<1>7. LockedVotes
  BY <1>1, <1>4 DEF LockedVotes, Locks
<1>8. RestartsCounted
  <2>1. Restarted(ctx) = {}
    BY <1>1 DEF Restarted
  <2>2. QED
    BY <1>1, <2>1, FS_EmptySet DEF RestartsCounted
<1>9. QED
  BY <1>0, <1>3, <1>5, <1>6, <1>7, <1>8 DEF BitsetInv

(* Every step keeps the invariant. *)
LEMMA BitsetInvNext == BitsetInv /\ [Next]_vars => BitsetInv'
<1> SUFFICES ASSUME BitsetInv, [Next]_vars PROVE BitsetInv'
  OBVIOUS
<1>1. CASE UNCHANGED vars
  <2>1. ctx' = ctx /\ net' = net /\ restarts' = restarts
    BY <1>1 DEF vars
  <2>2. TypeOK'
    BY TypeNext DEF BitsetInv
  <2>3. Relayed' /\ NotYet' /\ OneBitset' /\ SelfSeen' /\ NamesAuthor'
    BY <2>1 DEF BitsetInv, Relayed, NotYet, OneBitset, SelfSeen, NamesAuthor
  <2>4. LockedVotes' /\ RestartsCounted'
    BY <2>1 DEF BitsetInv, LockedVotes, RestartsCounted
  <2>5. QED
    BY <2>2, <2>3, <2>4 DEF BitsetInv
<1>2. CASE Next
  <2>0. TypeOK /\ Relayed /\ NotYet /\ OneBitset /\ SelfSeen
        /\ NamesAuthor /\ LockedVotes /\ RestartsCounted
    BY DEF BitsetInv
  <2>a. PICK n \in Nodes : StepOf(n)
    BY <1>2, <2>0, StepKinds
  <2>1. PICK c1 : StepTo(n, c1)
    BY <2>a DEF StepOf
  <2>2. TypeOK' /\ Relayed' /\ NotYet'
    BY <2>0, <2>1, TypeNext, RelayedNext, NotYetNext
  <2>3. OneBitset' /\ SelfSeen' /\ NamesAuthor'
    BY <2>0, <2>1, OneBitsetNext, SelfSeenNext, NamesAuthorNext
  <2>4. LockedVotes' /\ RestartsCounted'
    BY <2>0, <2>1, LockedVotesNext, RestartsCountedNext
  <2>5. QED
    BY <2>2, <2>3, <2>4 DEF BitsetInv
<1>3. QED
  BY <1>1, <1>2

(* A locked-in bitset has its votes. *)
LEMMA LockedBacked ==
    ASSUME LockedVotes, NEW B \in LockedBitsets
    PROVE  Backed(B, net)
  BY DEF LockedVotes, LockedBitsets, Locks

(* Two sets of RequiredSignatures validators share one that never restarted. *)
LEMMA Overlap ==
    ASSUME QuorumsOverlap, TypeOK, RestartsCounted,
           NEW S \in SUBSET Validators, Cardinality(S) >= RequiredSignatures,
           NEW T \in SUBSET Validators, Cardinality(T) >= RequiredSignatures
    PROVE  \E p \in S \cap T : ctx[p].gen = 0
<1> SUFFICES ASSUME \A p \in S \cap T : ctx[p].gen # 0 PROVE FALSE
  OBVIOUS
<1> DEFINE R == Restarted(ctx)
           X == S \cap T
           Y == S \cup T
<1>1. X \subseteq R
  BY NodeFacts DEF Restarted
<1>2. IsFiniteSet(R) /\ Cardinality(R) <= restarts /\ restarts <= MaxRestarts
      /\ restarts \in Nat /\ MaxRestarts \in Nat
  BY PulseAssumption DEF RestartsCounted, TypeOK
<1>3. X \in SUBSET Validators /\ Y \in SUBSET Validators
  OBVIOUS
<1>4. /\ IsFiniteSet(S) /\ Cardinality(S) \in Nat
      /\ IsFiniteSet(T) /\ Cardinality(T) \in Nat
      /\ Cardinality(X) \in Nat
      /\ Cardinality(Y) \in Nat /\ Cardinality(Y) <= NumValidators
  BY <1>3, FiniteValidators
<1>5. Cardinality(Y) = Cardinality(S) + Cardinality(T) - Cardinality(X)
  BY <1>4, FS_Union
<1> HIDE DEF R, X, Y
<1>6. Cardinality(X) <= Cardinality(R) /\ Cardinality(R) \in Nat
  BY <1>1, <1>2, FS_Subset, FS_CardinalityType
<1>7. QED
  BY <1>2, <1>4, <1>5, <1>6, PulseAssumption DEF QuorumsOverlap

(* Two locked-in bitsets share a voter that sent one bitset. *)
LEMMA BitsetInvAgreement == QuorumsOverlap /\ BitsetInv => Agreement
<1> SUFFICES ASSUME QuorumsOverlap, BitsetInv, NEW B \in LockedBitsets, NEW C \in LockedBitsets
             PROVE  B = C
  BY DEF Agreement
<1>1. Backed(B, net) /\ Backed(C, net)
  BY LockedBacked DEF BitsetInv
<1>2. Votes(B, net) \in SUBSET Validators /\ Votes(C, net) \in SUBSET Validators
  BY DEF Votes
<1>3. PICK p \in Votes(B, net) \cap Votes(C, net) : ctx[p].gen = 0
  BY <1>1, <1>2, Overlap DEF BitsetInv, Backed
<1>4. /\ p \in Validators
      /\ Message(p, B) \in net[hb] /\ Message(p, C) \in net[hb]
  BY <1>3 DEF Votes
<1>5. Message(p, B).pos = p /\ Message(p, C).pos = p
  BY DEF Message
<1>6. Message(p, B) = Message(p, C)
  BY <1>3, <1>4, <1>5 DEF BitsetInv, OneBitset, OneBitsetAt, OwnBitsets
<1>7. QED
  BY <1>6 DEF Message

(* All voters for a bitset are in it. *)
LEMMA BitsetInvEnough == BitsetInv => EnoughSigners
<1> SUFFICES ASSUME BitsetInv, NEW B \in LockedBitsets
             PROVE  Cardinality(B) >= RequiredSignatures
  BY DEF EnoughSigners
<1>1. Backed(B, net)
  BY LockedBacked DEF BitsetInv
<1>2. B \in SUBSET Validators
  BY DEF BitsetInv, TypeOK, LockedBitsets, Contexts, StageMessages, Templates
<1>3. Votes(B, net) \in SUBSET B
  <2>1. ASSUME NEW p \in Votes(B, net) PROVE p \in B
    <3>1. Message(p, B) \in net[hb]
      BY DEF Votes
    <3>2. Message(p, B).pos \in Message(p, B).val
      BY <3>1 DEF BitsetInv, NamesAuthor
    <3>3. QED
      BY <3>2 DEF Message
  <2>2. QED
    BY <2>1
<1>4. /\ IsFiniteSet(B) /\ Cardinality(B) \in Nat
      /\ Cardinality(Votes(B, net)) \in Nat
      /\ Cardinality(Votes(B, net)) <= Cardinality(B)
  BY <1>2, <1>3, FiniteValidators, FS_Subset, FS_CardinalityType
<1>5. QED
  BY <1>1, <1>4, PulseAssumption DEF Backed

(* All members of a quorum that lock in a validator bitset lock in the same *)
(* one, whatever each saw and whenever it timed out, as long as two sets of *)
(* RequiredSignatures share a validator that did not restart in the round.  *)
THEOREM BitsetAgreement ==
    ASSUME QuorumsOverlap
    PROVE  Spec => []Agreement
<1>1. Spec => []BitsetInv
  BY BitsetInvInit, BitsetInvNext, PTL DEF Spec
<1>2. BitsetInv => Agreement
  BY BitsetInvAgreement
<1>3. QED
  BY <1>1, <1>2, PTL

(* A bitset locked in, or a template made for, names at least as many       *)
(* validators as the block needs signatures, restarts or not.               *)
THEOREM LockedInEnough == Spec => []EnoughSigners
<1>1. Spec => []BitsetInv
  BY BitsetInvInit, BitsetInvNext, PTL DEF Spec
<1>2. QED
  BY <1>1, BitsetInvEnough, PTL

=============================================================================
