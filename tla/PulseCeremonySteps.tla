------------------------- MODULE PulseCeremonySteps -------------------------
(***************************************************************************)
(* Lemmas about the operators and the actions of PulseCeremony, for the    *)
(* proofs in PulseCeremonyProofs.  They reduce every step of the ceremony  *)
(* to one of six kinds, each described by what it does to the fields of    *)
(* one node's round_context and to the messages relayed.                   *)
(***************************************************************************)
EXTENDS PulseCeremony, FiniteSetTheorems, TLAPS

NoMessages == [s \in Stages |-> {}]

(* Stages before any message. *)
LEMMA EmptyStages ==
    NoMessages \in StageMessages /\ \A s \in Stages : NoMessages[s] = {}
  BY DEF NoMessages, Stages, StageMessages

(* The states of the stages and their order. *)
LEMMA StageRanks ==
    /\ \A s \in Stages : StageState[s] \in RoundStates
    /\ \A st \in RoundStates : Rank[st] \in Nat
<1>1. \A s \in Stages : StageState[s] \in RoundStates
  BY DEF Stages, StageState, RoundStates, Rank
<1>2. \A st \in RoundStates : Rank[st] \in Nat
  BY DEF RoundStates, Rank
<1>3. QED
  BY <1>1, <1>2

(* The context of a new round. *)
LEMMA NewContextFacts ==
    ASSUME NEW g \in Nat
    PROVE  /\ NewContext(g) \in Contexts
           /\ NewContext(g).state = "wait_for_round"
           /\ NewContext(g).gen = g
           /\ NewContext(g).queue = NoMessages
           /\ NewContext(g).data = NoMessages
           /\ NewContext(g).sent = {}
           /\ NewContext(g).best = {}
           /\ NewContext(g).final = {}
  BY EmptyStages DEF NewContext, NoMessages, Contexts, RoundStates, Rank

(* What a handled message does to a context. *)
LEMMA HandleFacts ==
    ASSUME NEW c \in Contexts, NEW s \in Stages,
           NEW st \in StageMessages, NEW ms, ms \subseteq st[s]
    PROVE  /\ Handle(c, s, ms) \in Contexts
           /\ Handle(c, s, ms).state = c.state
           /\ Handle(c, s, ms).gen = c.gen
           /\ Handle(c, s, ms).queue = c.queue
           /\ Handle(c, s, ms).sent = c.sent
           /\ Handle(c, s, ms).best = c.best
           /\ Handle(c, s, ms).final = c.final
           /\ \A t \in Stages \ {s} : Handle(c, s, ms).data[t] = c.data[t]
           /\ Handle(c, s, ms).data[s] = c.data[s] \cup {m \in ms : Accepts(c, s, m)}
  BY DEF Handle, Contexts, StageMessages, Stages

(* What an early message does to a context. *)
Enqueued(c, s, m, e) ==
    /\ e \in Contexts
    /\ e.state = c.state
    /\ e.gen = c.gen
    /\ e.data = c.data
    /\ e.sent = c.sent
    /\ e.best = c.best
    /\ e.final = c.final
    /\ \A t \in Stages \ {s} : e.queue[t] = c.queue[t]
    /\ m.pos \in Positions(c.queue[s]) => e.queue[s] = c.queue[s]
    /\ m.pos \notin Positions(c.queue[s]) => e.queue[s] = c.queue[s] \cup {m}

(* Queueing a message changes nothing but the queue of its stage. *)
LEMMA EnqueueFacts ==
    ASSUME NEW c \in Contexts, NEW s \in Stages,
           NEW st \in StageMessages, NEW m \in st[s]
    PROVE  Enqueued(c, s, m, Enqueue(c, s, m))
<1> DEFINE q == IF m.pos \in Positions(c.queue[s]) THEN c.queue[s] ELSE c.queue[s] \cup {m}
<1>1. Enqueue(c, s, m) = [c EXCEPT !.queue[s] = q]
  BY DEF Enqueue
<1>2. q \subseteq c.queue[s] \cup st[s]
  OBVIOUS
<1>3. /\ m.pos \in Positions(c.queue[s]) => q = c.queue[s]
      /\ m.pos \notin Positions(c.queue[s]) => q = c.queue[s] \cup {m}
  OBVIOUS
<1> HIDE DEF q
<1>4. [c.queue EXCEPT ![s] = q] \in StageMessages
  BY <1>2 DEF Contexts, StageMessages, Stages
<1>5. c.queue[s] = c.queue[s] /\ DOMAIN c.queue = Stages
  BY DEF Contexts, StageMessages, Stages
<1>6. QED
  BY <1>1, <1>3, <1>4, <1>5 DEF Contexts, Enqueued

(* What a change of state does to a context. *)
LEMMA GotoFacts ==
    ASSUME NEW c \in Contexts, NEW st \in RoundStates
    PROVE  /\ Goto(c, st) \in Contexts
           /\ Goto(c, st).state = st
           /\ Goto(c, st).gen = c.gen
           /\ st \notin Ended => /\ Goto(c, st).queue = c.queue
                                 /\ Goto(c, st).data = c.data
                                 /\ Goto(c, st).sent = c.sent
                                 /\ Goto(c, st).best = c.best
                                 /\ Goto(c, st).final = c.final
           /\ st \in Ended => /\ Goto(c, st).queue = NoMessages
                              /\ Goto(c, st).data = NoMessages
                              /\ Goto(c, st).sent = {}
                              /\ Goto(c, st).best = {}
                              /\ Goto(c, st).final = {}
<1>0. c.gen \in Nat
  BY DEF Contexts
<1>1. CASE st \in Ended
  <2>1. Goto(c, st) = [NewContext(c.gen) EXCEPT !.state = st]
    BY <1>1 DEF Goto
  <2>2. QED
    BY <2>1, <1>1, <1>0, NewContextFacts DEF Contexts
<1>2. CASE st \notin Ended
  BY <1>2 DEF Goto, Contexts
<1>3. QED
  BY <1>1, <1>2

(* What taking in a stage's messages does to a context. *)
LEMMA CollectFacts ==
    ASSUME NEW c \in Contexts, NEW s \in Stages,
           NEW st \in StageMessages, NEW own, own \subseteq st[s]
    PROVE  /\ Collect(c, s, own) \in Contexts
           /\ Collect(c, s, own).state = c.state
           /\ Collect(c, s, own).gen = c.gen
           /\ Collect(c, s, own).sent = c.sent \cup {s}
           /\ Collect(c, s, own).best = c.best
           /\ Collect(c, s, own).final = c.final
           /\ \A t \in Stages \ {s} : Collect(c, s, own).data[t] = c.data[t]
           /\ \A t \in Stages \ {s} : Collect(c, s, own).queue[t] = c.queue[t]
           /\ Collect(c, s, own).queue[s] = {}
           /\ c.data[s] \subseteq Collect(c, s, own).data[s]
           /\ Collect(c, s, own).data[s] \subseteq
                c.data[s] \cup c.queue[s] \cup (IF s \in c.sent THEN {} ELSE own)
           /\ \A m \in Collect(c, s, own).data[s] \ c.data[s] : Accepts(c, s, m)
           /\ s \notin c.sent =>
                \A m \in own : Accepts(c, s, m) => m \in Collect(c, s, own).data[s]
<1> DEFINE c0 == [c EXCEPT !.sent = @ \cup {s}]
           c1 == IF s \in c.sent THEN c ELSE Handle(c0, s, own)
           c2 == Handle(c1, s, c1.queue[s])
<1>0. /\ c0 \in Contexts
      /\ c0.state = c.state /\ c0.gen = c.gen /\ c0.best = c.best /\ c0.final = c.final
      /\ c0.queue = c.queue /\ c0.data = c.data /\ c0.sent = c.sent \cup {s}
  BY DEF Contexts
<1>1. /\ c1 \in Contexts
      /\ c1.state = c.state /\ c1.gen = c.gen /\ c1.best = c.best /\ c1.final = c.final
      /\ c1.queue = c.queue /\ c1.sent = c.sent \cup {s}
      /\ \A t \in Stages \ {s} : c1.data[t] = c.data[t]
      /\ c.data[s] \subseteq c1.data[s]
      /\ c1.data[s] \subseteq c.data[s] \cup (IF s \in c.sent THEN {} ELSE own)
      /\ \A m \in c1.data[s] \ c.data[s] : Accepts(c, s, m)
      /\ s \notin c.sent => \A m \in own : Accepts(c, s, m) => m \in c1.data[s]
  <2>1. CASE s \in c.sent
    BY <2>1
  <2>2. CASE s \notin c.sent
    <3>1. c1 = Handle(c0, s, own)
      BY <2>2
    <3>2. \A m : Accepts(c0, s, m) <=> Accepts(c, s, m)
      <4> HIDE DEF c0
      <4>1. QED
        BY <1>0 DEF Accepts, LockedIn
    <3> HIDE DEF c0, c1
    <3>3. QED
      BY <3>1, <3>2, <1>0, <2>2, HandleFacts
  <2>3. QED
    BY <2>1, <2>2
<1>2. c1.queue \in StageMessages /\ c1.queue[s] \subseteq c1.queue[s]
  BY <1>1 DEF Contexts
<1>3. Collect(c, s, own) = [c2 EXCEPT !.queue[s] = {}]
  BY DEF Collect
<1> HIDE DEF c0, c1
<1>4. /\ c2 \in Contexts
      /\ c2.state = c.state /\ c2.gen = c.gen /\ c2.best = c.best /\ c2.final = c.final
      /\ c2.queue = c.queue /\ c2.sent = c.sent \cup {s}
      /\ \A t \in Stages \ {s} : c2.data[t] = c.data[t]
      /\ c2.data[s] = c1.data[s] \cup {m \in c.queue[s] : Accepts(c1, s, m)}
  BY <1>1, <1>2, HandleFacts
<1>4a. \A m : Accepts(c1, s, m) => Accepts(c, s, m)
  BY <1>1 DEF Accepts, LockedIn, Positions, Stages
<1> HIDE DEF c2
<1>5. [c2.queue EXCEPT ![s] = {}] \in StageMessages /\ DOMAIN c2.queue = Stages
  BY <1>4 DEF Contexts, StageMessages, Stages
<1> DEFINE r == Collect(c, s, own)
<1>6. /\ r \in Contexts
      /\ r.state = c2.state /\ r.gen = c2.gen /\ r.best = c2.best /\ r.final = c2.final
      /\ r.data = c2.data /\ r.sent = c2.sent
      /\ r.queue = [c2.queue EXCEPT ![s] = {}]
  BY <1>3, <1>4, <1>5 DEF Contexts
<1> HIDE DEF r
<1>7. /\ r.queue[s] = {}
      /\ \A t \in Stages \ {s} : r.queue[t] = c.queue[t]
  BY <1>4, <1>5, <1>6
<1>8. /\ c.data[s] \subseteq r.data[s]
      /\ r.data[s] \subseteq c.data[s] \cup c.queue[s] \cup (IF s \in c.sent THEN {} ELSE own)
      /\ \A t \in Stages \ {s} : r.data[t] = c.data[t]
      /\ \A m \in r.data[s] \ c.data[s] : Accepts(c, s, m)
      /\ s \notin c.sent => \A m \in own : Accepts(c, s, m) => m \in r.data[s]
  BY <1>1, <1>4, <1>4a, <1>6
<1>9. QED
  BY <1>4, <1>6, <1>7, <1>8 DEF r

-----------------------------------------------------------------------------
(* Type correctness *)

(* Validators and producer are different nodes. *)
LEMMA NodeFacts ==
    /\ Validators \subseteq Nodes /\ Producer \in Nodes /\ Producer \notin Validators
    /\ Validators \subseteq Nat /\ NoNode \notin Nodes /\ 0 \in Validators
  BY PulseAssumption DEF Validators, Nodes, Producer, NoNode

(* The type of a stage's own message. *)
LEMMA OwnType ==
    ASSUME NEW n \in Validators, NEW g \in Nat
    PROVE  /\ [s \in Stages |-> IF s = "handshake" THEN {Message(n, "handshake")} ELSE {}]
                \in StageMessages
           /\ \A B \in SUBSET Validators :
                [s \in Stages |-> IF s = "handshake_bitset" THEN {Message(n, B)} ELSE {}]
                \in StageMessages
           /\ [s \in Stages |-> IF s = "random_value_hash"
                                 THEN {Message(n, Hash(RandomValue(n, g)))} ELSE {}]
                \in StageMessages
           /\ [s \in Stages |-> IF s = "random_value"
                                 THEN {Message(n, RandomValue(n, g))} ELSE {}]
                \in StageMessages
           /\ \A F \in SUBSET Blocks :
                [s \in Stages |-> IF s = "signed_block"
                                  THEN {Message(n, b) : b \in F} ELSE {}]
                \in StageMessages
<1>1. RandomValue(n, g) \in RandomValues
  BY NodeFacts DEF RandomValue, RandomValues
<1> DEFINE v == RandomValue(n, g)
<1> HIDE DEF v
<1>2. v \in RandomValues
  BY <1>1 DEF v
<1>3. [s \in Stages |-> IF s = "handshake" THEN {Message(n, "handshake")} ELSE {}]
                \in StageMessages
  BY DEF StageMessages, Stages, Message
<1>4. ASSUME NEW B \in SUBSET Validators
      PROVE  [s \in Stages |-> IF s = "handshake_bitset" THEN {Message(n, B)} ELSE {}]
                \in StageMessages
  BY DEF StageMessages, Stages, Message
<1>5. [s \in Stages |-> IF s = "random_value_hash" THEN {Message(n, Hash(v))} ELSE {}]
                \in StageMessages
  BY <1>2 DEF StageMessages, Stages, Message, Hash
<1>6. [s \in Stages |-> IF s = "random_value" THEN {Message(n, v)} ELSE {}]
                \in StageMessages
  BY <1>2 DEF StageMessages, Stages, Message, ValueMessages
<1>7. ASSUME NEW F \in SUBSET Blocks
      PROVE  [s \in Stages |-> IF s = "signed_block" THEN {Message(n, b) : b \in F} ELSE {}]
                \in StageMessages
  BY DEF StageMessages, Stages, Message
<1>8. QED
  BY <1>3, <1>4, <1>5, <1>6, <1>7 DEF v

(* The types after a stage's function has run. *)
LEMMA EndStepType ==
    ASSUME TypeOK, NEW n \in Nodes, NEW s \in Stages,
           NEW c \in Contexts, NEW c1 \in Contexts, EndStep(n, s, c, c1)
    PROVE  /\ ctx' \in [Nodes -> Contexts]
           /\ net' \in StageMessages
           /\ active' \in Nodes \cup {NoNode}
           /\ restarts' \in 0..MaxRestarts
<1>1. [net EXCEPT ![s] = @ \cup c.data[s]] \in StageMessages
  BY DEF TypeOK, Contexts, StageMessages, Stages
<1>2. QED
  BY <1>1 DEF EndStep, TypeOK

(* Time-outs stay within their bound. *)
LEMMA TimedOutType ==
    ASSUME TypeOK, NEW t \in BOOLEAN, TimedOut(t)
    PROVE  timeouts' \in 0..MaxTimeouts
  BY PulseAssumption DEF TypeOK, TimedOut

(* A stage is left for the next one only if it is complete. *)
LEMMA AfterStageFacts ==
    ASSUME NEW c, NEW s, NEW t \in BOOLEAN, NEW a \in BOOLEAN, NEW next
    PROVE  /\ AfterStage(c, s, t, a, next) \in {c.state, next, "prepare_for_round"}
           /\ AfterStage(c, s, t, a, next) \notin {c.state, "prepare_for_round"} =>
                /\ AfterStage(c, s, t, a, next) = next
                /\ a
                /\ Positions(c.data[s]) \subseteq c.best
  BY DEF AfterStage, Enforce

(* What the six stages that wait for messages have in common.  Node n, in  *)
(* stage s, sends `own` if it has not, and collects what it was sent early *)
(* (context c), relays it, and moves to context c1: it waits, goes on to a *)
(* later state, or leaves the round.                                       *)
StageStep(n, s, own, c, c1) ==
    /\ ctx[n].state = StageState[s]
    /\ c \in Contexts /\ c1 \in Contexts
    /\ c.state = ctx[n].state /\ c.gen = ctx[n].gen
    /\ c.best = ctx[n].best /\ c.final = ctx[n].final
    /\ c.sent = ctx[n].sent \cup {s}
    /\ \A t \in Stages \ {s} : c.data[t] = ctx[n].data[t] /\ c.queue[t] = ctx[n].queue[t]
    /\ c.queue[s] = {}
    /\ ctx[n].data[s] \subseteq c.data[s]
    /\ c.data[s] \subseteq ctx[n].data[s] \cup ctx[n].queue[s]
                            \cup (IF s \in ctx[n].sent THEN {} ELSE own)
    /\ \A m \in c.data[s] \ ctx[n].data[s] : Accepts(ctx[n], s, m)
    /\ s \notin ctx[n].sent => \A m \in own : Accepts(ctx[n], s, m) => m \in c.data[s]
    /\ ctx' = [ctx EXCEPT ![n] = c1]
    /\ net' = [net EXCEPT ![s] = @ \cup c.data[s]]
    /\ restarts' = restarts
    /\ active' \in Nodes \cup {NoNode}
    /\ c1.gen = c.gen
    /\ c1.state \in Ended =>
         /\ c1.queue = NoMessages /\ c1.data = NoMessages
         /\ c1.sent = {} /\ c1.best = {} /\ c1.final = {}
    /\ c1.state \notin Ended =>
         /\ c1.queue = c.queue /\ c1.data = c.data /\ c1.sent = c.sent
         /\ c1 = c \/ Rank[c1.state] > Rank[c.state]
         /\ s # "handshake_bitset" => c1.best = c.best
         /\ s # "random_value" => c1.final = c.final

(* A stage's function, reduced to what it does to one context. *)
LEMMA StageStepFromCollect ==
    ASSUME TypeOK, NEW n \in Nodes, NEW s \in Stages, ctx[n].state = StageState[s],
           NEW st \in StageMessages, NEW own, own \subseteq st[s],
           NEW c1 \in Contexts, EndStep(n, s, Collect(ctx[n], s, own), c1),
           c1.gen = ctx[n].gen,
           c1.state \in Ended =>
             /\ c1.queue = NoMessages /\ c1.data = NoMessages
             /\ c1.sent = {} /\ c1.best = {} /\ c1.final = {},
           c1.state \notin Ended =>
             LET c == Collect(ctx[n], s, own) IN
             /\ c1.queue = c.queue /\ c1.data = c.data /\ c1.sent = c.sent
             /\ c1 = c \/ Rank[c1.state] > Rank[c.state]
             /\ s # "handshake_bitset" => c1.best = c.best
             /\ s # "random_value" => c1.final = c.final
    PROVE  StageStep(n, s, own, Collect(ctx[n], s, own), c1)
<1> DEFINE c == Collect(ctx[n], s, own)
<1>1. ctx[n] \in Contexts
  BY DEF TypeOK
<1>2. active' \in Nodes \cup {NoNode}
  BY DEF EndStep, TypeOK
<1>3. /\ c \in Contexts
      /\ c.state = ctx[n].state /\ c.gen = ctx[n].gen
      /\ c.best = ctx[n].best /\ c.final = ctx[n].final
      /\ c.sent = ctx[n].sent \cup {s}
      /\ \A t \in Stages \ {s} : c.data[t] = ctx[n].data[t] /\ c.queue[t] = ctx[n].queue[t]
      /\ c.queue[s] = {}
      /\ ctx[n].data[s] \subseteq c.data[s]
      /\ c.data[s] \subseteq ctx[n].data[s] \cup ctx[n].queue[s]
                              \cup (IF s \in ctx[n].sent THEN {} ELSE own)
      /\ \A m \in c.data[s] \ ctx[n].data[s] : Accepts(ctx[n], s, m)
      /\ s \notin ctx[n].sent => \A m \in own : Accepts(ctx[n], s, m) => m \in c.data[s]
  <2> DEFINE x == ctx[n]
  <2> HIDE DEF x
  <2>1. x \in Contexts
    BY <1>1 DEF x
  <2>2. QED
    BY <2>1, CollectFacts DEF x
<1> HIDE DEF c
<1>4. QED
  BY <1>2, <1>3 DEF StageStep, EndStep, c

(* Taking in messages keeps state, restarts and locked-in bitset. *)
LEMMA CollectKeeps ==
    ASSUME TypeOK, NEW n \in Nodes, NEW s \in Stages,
           NEW st \in StageMessages, NEW own, own \subseteq st[s]
    PROVE  LET c == Collect(ctx[n], s, own) IN
           c \in Contexts /\ c.gen = ctx[n].gen /\ c.state = ctx[n].state
           /\ c.best = ctx[n].best
<1> DEFINE x == ctx[n]
<1>1. x \in Contexts
  BY DEF TypeOK
<1> HIDE DEF x
<1>2. QED
  BY <1>1, CollectFacts DEF x

(* A stage that stays, moves to a later state or ends the round. *)
LEMMA GotoStep ==
    ASSUME TypeOK, NEW n \in Nodes, NEW s \in Stages, ctx[n].state = StageState[s],
           NEW st \in StageMessages, NEW own, own \subseteq st[s],
           NEW next \in RoundStates,
           next \in Ended \/ next = ctx[n].state \/ Rank[next] > Rank[ctx[n].state],
           EndStep(n, s, Collect(ctx[n], s, own), Goto(Collect(ctx[n], s, own), next))
    PROVE  StageStep(n, s, own, Collect(ctx[n], s, own),
                     Goto(Collect(ctx[n], s, own), next))
<1> DEFINE c == Collect(ctx[n], s, own)
           c1 == Goto(c, next)
<1>1. c \in Contexts /\ c.gen = ctx[n].gen /\ c.state = ctx[n].state
  BY CollectKeeps
<1> HIDE DEF c
<1>2. c1 \in Contexts /\ c1.state = next /\ c1.gen = c.gen
  BY <1>1, GotoFacts
<1>3. next \in Ended =>
             /\ c1.queue = NoMessages /\ c1.data = NoMessages
             /\ c1.sent = {} /\ c1.best = {} /\ c1.final = {}
  BY <1>1, GotoFacts
<1>4. next \notin Ended =>
             /\ c1.queue = c.queue /\ c1.data = c.data /\ c1.sent = c.sent
             /\ c1.best = c.best /\ c1.final = c.final
  BY <1>1, GotoFacts
<1>5. next \notin Ended => (c1 = c \/ Rank[c1.state] > Rank[c.state])
  BY <1>1, <1>2 DEF Goto, Contexts
<1> HIDE DEF c1
<1>6. EndStep(n, s, Collect(ctx[n], s, own), c1)
  BY DEF c, c1
<1>7. StageStep(n, s, own, Collect(ctx[n], s, own), c1)
  BY <1>1, <1>2, <1>3, <1>4, <1>5, <1>6, StageStepFromCollect DEF c
<1>8. QED
  BY <1>7 DEF c, c1

(* The stage of handshakes. *)
LEMMA HandshakeStep ==
    ASSUME TypeOK, NEW n \in Validators, SendAndWaitForHandshakes(n)
    PROVE  \E c, c1 :
             /\ StageStep(n, "handshake", {Message(n, "handshake")}, c, c1)
             /\ c1.state \in {"send_handshake_bitsets", c.state}
<1> DEFINE own == {Message(n, "handshake")}
           c == Collect(ctx[n], "handshake", own)
           st == [s \in Stages |-> IF s = "handshake" THEN own ELSE {}]
<1>1. PICK t \in BOOLEAN :
        EndStep(n, "handshake", c,
                IF Cardinality(c.data["handshake"]) = NumValidators \/ t
                THEN Goto(c, "send_handshake_bitsets") ELSE c)
  BY DEF SendAndWaitForHandshakes
<1>2. n \in Nodes /\ ctx[n] \in Contexts
  BY NodeFacts DEF TypeOK
<1>3. ctx[n].state = StageState["handshake"] /\ "handshake" \in Stages
  BY DEF SendAndWaitForHandshakes, InStage, StageState, Stages
<1>4. st \in StageMessages /\ own \subseteq st["handshake"]
  BY OwnType, <1>3
<1> HIDE DEF own, st
<1>5. c \in Contexts /\ c.state = ctx[n].state
  BY <1>2, <1>3, <1>4, CollectKeeps
<1> HIDE DEF c
<1>6. /\ "send_handshake_bitsets" \in RoundStates /\ ctx[n].state \in RoundStates
      /\ Rank["send_handshake_bitsets"] > Rank[ctx[n].state]
      /\ ctx[n].state \notin Ended
  BY <1>3 DEF RoundStates, Rank, StageState, Ended
<1>7. c = Goto(c, ctx[n].state)
  BY <1>5, <1>6 DEF Goto, Contexts
<1>8. PICK next \in {"send_handshake_bitsets", ctx[n].state} :
        EndStep(n, "handshake", c, Goto(c, next))
  BY <1>1, <1>7
<1>9. StageStep(n, "handshake", own, c, Goto(c, next))
  BY <1>2, <1>3, <1>4, <1>6, <1>8, GotoStep DEF c
<1>10. Goto(c, next).state \in {"send_handshake_bitsets", c.state}
  BY <1>5, <1>6, <1>8, GotoFacts
<1>11. QED
  BY <1>9, <1>10 DEF own

(* The stage of block templates. *)
LEMMA TemplateStep ==
    ASSUME TypeOK, NEW n \in Validators, WaitForBlockTemplate(n)
    PROVE  \E c, c1 :
             /\ StageStep(n, "block_template", {}, c, c1)
             /\ c1.state \in Ended \cup {c.state, "send_and_wait_for_random_value_hashes"}
<1> DEFINE c == Collect(ctx[n], "block_template", {})
           next(t) == IF c.data["block_template"] # {} THEN "send_and_wait_for_random_value_hashes"
                      ELSE IF t THEN "prepare_for_round" ELSE c.state
           st == NoMessages
<1>1. PICK t \in BOOLEAN : EndStep(n, "block_template", c, Goto(c, next(t)))
  BY DEF WaitForBlockTemplate
<1>2. n \in Nodes /\ ctx[n] \in Contexts
  BY NodeFacts DEF TypeOK
<1>3. ctx[n].state = StageState["block_template"] /\ "block_template" \in Stages
  BY DEF WaitForBlockTemplate, InStage, StageState, Stages
<1>4. st \in StageMessages /\ {} \subseteq st["block_template"]
  BY EmptyStages
<1> HIDE DEF st
<1>5. c \in Contexts /\ c.state = ctx[n].state
  BY <1>2, <1>3, <1>4, CollectKeeps
<1> HIDE DEF c
<1>6. /\ next(t) \in RoundStates
      /\ next(t) \in Ended \/ next(t) = ctx[n].state \/ Rank[next(t)] > Rank[ctx[n].state]
      /\ next(t) \in Ended \cup {c.state, "send_and_wait_for_random_value_hashes"}
  BY <1>3, <1>5 DEF RoundStates, Rank, StageState, Ended
<1> HIDE DEF next
<1>7. StageStep(n, "block_template", {}, c, Goto(c, next(t)))
  BY <1>1, <1>2, <1>3, <1>4, <1>6, GotoStep DEF c
<1>8. Goto(c, next(t)).state = next(t)
  BY <1>5, <1>6, GotoFacts
<1>9. QED
  BY <1>6, <1>7, <1>8

(* The stage of random value hashes. *)
LEMMA HashStep ==
    ASSUME TypeOK, NEW n \in Validators, SendAndWaitForRandomValueHashes(n)
    PROVE  \E c, c1 :
             /\ StageStep(n, "random_value_hash",
                          {Message(n, Hash(RandomValue(n, ctx[n].gen)))}, c, c1)
             /\ c1.state \notin Ended \cup {c.state} =>
                  /\ c1.state = "send_and_wait_for_random_value"
                  /\ Positions(c.data["random_value_hash"]) = c.best
<1> DEFINE s == "random_value_hash"
           own == {Message(n, Hash(RandomValue(n, ctx[n].gen)))}
           c == Collect(ctx[n], s, own)
           all == Positions(c.data[s]) = c.best
           next(t) == AfterStage(c, s, t, all, "send_and_wait_for_random_value")
           st == [x \in Stages |-> IF x = s THEN own ELSE {}]
<1>1. PICK t \in BOOLEAN : EndStep(n, s, c, Goto(c, next(t)))
  BY DEF SendAndWaitForRandomValueHashes
<1>2. n \in Nodes /\ ctx[n] \in Contexts /\ ctx[n].gen \in Nat
  BY NodeFacts DEF TypeOK, Contexts
<1>3. ctx[n].state = StageState[s] /\ s \in Stages
  BY DEF SendAndWaitForRandomValueHashes, InStage, StageState, Stages
<1>4. st \in StageMessages /\ own \subseteq st[s]
  BY <1>2, <1>3, OwnType
<1> HIDE DEF st, own
<1>5. c \in Contexts /\ c.state = ctx[n].state
  BY <1>2, <1>3, <1>4, CollectKeeps
<1> HIDE DEF c
<1>6. next(t) \in {c.state, "send_and_wait_for_random_value", "prepare_for_round"}
      /\ (next(t) \notin {c.state, "prepare_for_round"} =>
            next(t) = "send_and_wait_for_random_value" /\ all)
  <2> HIDE DEF all
  <2>1. all \in BOOLEAN
    BY DEF all
  <2>2. QED
    BY <2>1, AfterStageFacts
<1> HIDE DEF next
<1>7. /\ next(t) \in RoundStates
      /\ next(t) \in Ended \/ next(t) = ctx[n].state \/ Rank[next(t)] > Rank[ctx[n].state]
  BY <1>3, <1>5, <1>6 DEF RoundStates, Rank, StageState, Ended
<1>8. StageStep(n, s, own, c, Goto(c, next(t)))
  BY <1>1, <1>2, <1>3, <1>4, <1>7, GotoStep DEF c
<1>9. Goto(c, next(t)).state = next(t)
  BY <1>5, <1>7, GotoFacts
<1>10. QED
  BY <1>6, <1>8, <1>9 DEF own, Ended

(* The stage of random values. *)
LEMMA ValueStep ==
    ASSUME TypeOK, NEW n \in Validators, SendAndWaitForRandomValue(n)
    PROVE  \E c, c1 :
             /\ StageStep(n, "random_value", {Message(n, RandomValue(n, ctx[n].gen))}, c, c1)
             /\ c1.state \notin Ended \cup {c.state} =>
                  /\ c1.state = "send_and_wait_for_signed_blocks"
                  /\ Positions(c.data["random_value"]) = c.best
                  /\ c1.final = FinalBlocks(c)
<1> DEFINE s == "random_value"
           own == {Message(n, RandomValue(n, ctx[n].gen))}
           c == Collect(ctx[n], s, own)
           all == Positions(c.data[s]) = c.best
           signed == "send_and_wait_for_signed_blocks"
           next(t) == AfterStage(c, s, t, all, signed)
           c1(t) == [Goto(c, next(t)) EXCEPT !.final = IF next(t) = signed THEN FinalBlocks(c) ELSE @]
           st == [x \in Stages |-> IF x = s THEN own ELSE {}]
<1>1. PICK t \in BOOLEAN : EndStep(n, s, c, c1(t))
  BY DEF SendAndWaitForRandomValue
<1>2. n \in Nodes /\ ctx[n] \in Contexts /\ ctx[n].gen \in Nat
  BY NodeFacts DEF TypeOK, Contexts
<1>3. ctx[n].state = StageState[s] /\ s \in Stages
  BY DEF SendAndWaitForRandomValue, InStage, StageState, Stages
<1>4. st \in StageMessages /\ own \subseteq st[s]
  BY <1>2, <1>3, OwnType
<1> HIDE DEF st, own
<1>5. c \in Contexts /\ c.state = ctx[n].state /\ c.gen = ctx[n].gen
  BY <1>2, <1>3, <1>4, CollectKeeps
<1> HIDE DEF c
<1>6. next(t) \in {c.state, signed, "prepare_for_round"}
      /\ (next(t) \notin {c.state, "prepare_for_round"} => next(t) = signed /\ all)
  <2> HIDE DEF all
  <2>1. all \in BOOLEAN
    BY DEF all
  <2>2. QED
    BY <2>1, AfterStageFacts
<1> HIDE DEF next
<1>7. /\ next(t) \in RoundStates /\ c.state # signed /\ c.state \notin Ended
      /\ next(t) \in Ended \/ next(t) = ctx[n].state \/ Rank[next(t)] > Rank[ctx[n].state]
  BY <1>3, <1>5, <1>6 DEF RoundStates, Rank, StageState, Ended
<1>8. FinalBlocks(c) \in SUBSET Blocks
  BY <1>5 DEF FinalBlocks, Contexts, StageMessages, Blocks
<1> DEFINE g == Goto(c, next(t))
           d == c1(t)
<1>9. /\ g \in Contexts /\ g.state = next(t) /\ g.gen = c.gen
      /\ next(t) \notin Ended =>
             /\ g.queue = c.queue /\ g.data = c.data /\ g.sent = c.sent /\ g.best = c.best
      /\ next(t) \in Ended =>
             /\ g.queue = NoMessages /\ g.data = NoMessages
             /\ g.sent = {} /\ g.best = {} /\ g.final = {}
  BY <1>5, <1>7, GotoFacts
<1>9a. next(t) = c.state => g = c
  BY <1>5, <1>7 DEF Goto, Contexts
<1>10. d = [g EXCEPT !.final = IF next(t) = signed THEN FinalBlocks(c) ELSE @]
  OBVIOUS
<1> HIDE DEF g, c1
<1>11. /\ d \in Contexts /\ d.state = next(t) /\ d.gen = c.gen
       /\ d.queue = g.queue /\ d.data = g.data /\ d.sent = g.sent /\ d.best = g.best
       /\ next(t) = signed => d.final = FinalBlocks(c)
       /\ next(t) # signed => d = g
  <2>1. CASE next(t) = signed
    BY <2>1, <1>8, <1>9, <1>10 DEF Contexts
  <2>2. CASE next(t) # signed
    BY <2>2, <1>8, <1>9, <1>10 DEF Contexts
  <2>3. QED
    BY <2>1, <2>2
<1>12. EndStep(n, s, Collect(ctx[n], s, own), d)
  BY <1>1 DEF c
<1> HIDE DEF d
<1>13. next(t) \in Ended => next(t) # signed
  BY DEF Ended
<1>14. StageStep(n, s, own, Collect(ctx[n], s, own), d)
  BY <1>2, <1>3, <1>4, <1>5, <1>7, <1>9, <1>9a, <1>11, <1>12, <1>13, StageStepFromCollect DEF c
<1>15. QED
  BY <1>6, <1>7, <1>11, <1>14 DEF own, c, Ended

(* The stage of handshake bitsets. *)
LEMMA BitsetStep ==
    ASSUME TypeOK, NEW n \in Nodes, WaitForHandshakeBitsets(n)
    PROVE  \E c, c1 :
             /\ StageStep(n, "handshake_bitset", {}, c, c1)
             /\ c1.state \notin Ended \cup {c.state} =>
                  /\ c1.state \in {"send_block_template", "wait_for_block_template"}
                  /\ c1.best \in Lockable(n, c.data["handshake_bitset"])
<1> DEFINE s == "handshake_bitset"
           c == Collect(ctx[n], s, {})
           next == IF n = Producer THEN "send_block_template" ELSE "wait_for_block_template"
           st == NoMessages
           Lock(B) == [Goto(c, next) EXCEPT !.best = B]
<1>1. \/ EndStep(n, s, c, c)
      \/ EndStep(n, s, c, Goto(c, "prepare_for_round"))
      \/ \E B \in Lockable(n, c.data[s]) : EndStep(n, s, c, Lock(B))
  BY DEF WaitForHandshakeBitsets
<1>2. ctx[n] \in Contexts
  BY DEF TypeOK
<1>3. ctx[n].state = StageState[s] /\ s \in Stages
  BY DEF WaitForHandshakeBitsets, InStage, StageState, Stages
<1>4. st \in StageMessages /\ {} \subseteq st[s]
  BY EmptyStages
<1> HIDE DEF st
<1>5. c \in Contexts /\ c.state = ctx[n].state /\ c.gen = ctx[n].gen
  BY <1>2, <1>3, <1>4, CollectKeeps
<1> HIDE DEF c
<1>6. /\ c.state \in RoundStates /\ c.state \notin Ended
      /\ "prepare_for_round" \in RoundStates \cap Ended
      /\ next \in RoundStates \ Ended
      /\ next \in {"send_block_template", "wait_for_block_template"}
      /\ Rank[next] > Rank[ctx[n].state]
  BY <1>3, <1>5 DEF RoundStates, Rank, StageState, Ended
<1> HIDE DEF next
<1>7. CASE EndStep(n, s, c, c)
  <2>1. c = Goto(c, c.state)
    BY <1>5, <1>6 DEF Goto, Contexts
  <2>2. StageStep(n, s, {}, c, Goto(c, c.state))
    BY <1>3, <1>4, <1>5, <1>6, <1>7, <2>1, GotoStep DEF c
  <2>3. QED
    BY <2>1, <2>2
<1>8. CASE EndStep(n, s, c, Goto(c, "prepare_for_round"))
  <2>1. StageStep(n, s, {}, c, Goto(c, "prepare_for_round"))
    BY <1>3, <1>4, <1>5, <1>6, <1>8, GotoStep DEF c
  <2>2. Goto(c, "prepare_for_round").state \in Ended
    BY <1>5, <1>6, GotoFacts
  <2>3. QED
    BY <2>1, <2>2
<1>9. ASSUME NEW B \in Lockable(n, c.data[s]), EndStep(n, s, c, Lock(B))
      PROVE  /\ StageStep(n, s, {}, c, Lock(B))
             /\ Lock(B).state = next /\ Lock(B).best = B
  <2> DEFINE g == Goto(c, next)
             d == Lock(B)
  <2>1. /\ g \in Contexts /\ g.state = next /\ g.gen = c.gen /\ g.queue = c.queue
        /\ g.data = c.data /\ g.sent = c.sent /\ g.final = c.final
    BY <1>5, <1>6, GotoFacts
  <2>2. B \in SUBSET Validators
    BY <1>5 DEF Lockable, Contexts, StageMessages
  <2>3. d = [g EXCEPT !.best = B]
    OBVIOUS
  <2> HIDE DEF g
  <2>4. /\ d \in Contexts /\ d.state = next /\ d.gen = c.gen /\ d.queue = c.queue
        /\ d.data = c.data /\ d.sent = c.sent /\ d.final = c.final /\ d.best = B
    BY <2>1, <2>2, <2>3 DEF Contexts
  <2>5. EndStep(n, s, Collect(ctx[n], s, {}), d)
    BY <1>9 DEF c
  <2> HIDE DEF d, Lock
  <2>6. StageStep(n, s, {}, Collect(ctx[n], s, {}), d)
    BY <1>3, <1>4, <1>5, <1>6, <2>4, <2>5, StageStepFromCollect DEF c
  <2>7. QED
    BY <2>4, <2>6 DEF c, d
<1>10. CASE \E B \in Lockable(n, c.data[s]) : EndStep(n, s, c, Lock(B))
  <2>1. PICK B \in Lockable(n, c.data[s]) : EndStep(n, s, c, Lock(B))
    BY <1>10
  <2>2. /\ StageStep(n, s, {}, c, Lock(B))
        /\ Lock(B).state = next /\ Lock(B).best = B
    BY <1>9, <2>1
  <2> HIDE DEF Lock
  <2>3. QED
    BY <1>6, <2>2
<1>11. QED
  BY <1>1, <1>7, <1>8, <1>10

(* The stage of signed blocks. *)
LEMMA SignedStep ==
    ASSUME TypeOK, NEW n \in Validators, SendAndWaitForSignedBlocks(n)
    PROVE  \E c, c1 :
             /\ StageStep(n, "signed_block", {Message(n, b) : b \in ctx[n].final}, c, c1)
             /\ c1.state \in Ended \cup {c.state}
             /\ \/ blocks' = blocks
                \/ \E X \in FirstIndices(Positions(c.data["signed_block"])),
                      b \in c.final :
                     /\ Positions(c.data["signed_block"]) \subseteq c.best
                     /\ blocks' = blocks \cup {[block |-> b, signatures |-> X]}
<1> DEFINE s == "signed_block"
           own == {Message(n, b) : b \in ctx[n].final}
           c == Collect(ctx[n], s, own)
           indices == Positions(c.data[s])
           enough == BitsetGeq(indices, c.best)
           next == "wait_for_next_block"
           st == [x \in Stages |-> IF x = s THEN own ELSE {}]
           after(t) == AfterStage(c, s, t, enough, next)
           Submit == \E X \in FirstIndices(indices), b \in c.final :
                       blocks' = blocks \cup {[block |-> b, signatures |-> X]}
<1>1. PICK t \in BOOLEAN :
        \/ after(t) # next /\ EndStep(n, s, c, Goto(c, after(t))) /\ UNCHANGED blocks
        \/ /\ after(t) = next /\ Submit
           /\ \E refused \in Failures :
                EndStep(n, s, c, Goto(c, IF refused THEN "prepare_for_round" ELSE next))
  BY DEF SendAndWaitForSignedBlocks
<1>2. n \in Nodes /\ ctx[n] \in Contexts /\ ctx[n].final \in SUBSET Blocks
  BY NodeFacts DEF TypeOK, Contexts
<1>3. ctx[n].state = StageState[s] /\ s \in Stages
  BY DEF SendAndWaitForSignedBlocks, InStage, StageState, Stages
<1>4. st \in StageMessages /\ own \subseteq st[s]
  <2>1. st \in StageMessages
    <3>1. n \in Validators /\ 0 \in Nat
      OBVIOUS
    <3>2. QED
      BY <1>2, <3>1, OwnType
  <2>2. QED
    BY <1>3, <2>1
<1> HIDE DEF st, own
<1>5. c \in Contexts /\ c.state = ctx[n].state
  BY <1>2, <1>3, <1>4, CollectKeeps
<1> HIDE DEF c
<1>6. after(t) \in {c.state, next, "prepare_for_round"}
      /\ (after(t) = next => Positions(c.data[s]) \subseteq c.best)
  <2>1. c.state # next
    BY <1>3, <1>5 DEF StageState
  <2>2. next # "prepare_for_round"
    OBVIOUS
  <2>3. enough \in BOOLEAN
    BY DEF BitsetGeq
  <2> HIDE DEF enough
  <2>4. QED
    BY <2>1, <2>2, <2>3, AfterStageFacts
<1>7. c.state \in RoundStates \ Ended /\ {next, "prepare_for_round"} \subseteq RoundStates \cap Ended
  BY <1>3, <1>5 DEF RoundStates, Rank, StageState, Ended
<1>8. \E x \in {c.state, next, "prepare_for_round"} : EndStep(n, s, c, Goto(c, x))
  BY <1>1, <1>6
<1>9. PICK x \in {c.state, next, "prepare_for_round"} : EndStep(n, s, c, Goto(c, x))
  BY <1>8
<1>10. StageStep(n, s, own, c, Goto(c, x))
  BY <1>2, <1>3, <1>4, <1>5, <1>7, <1>9, GotoStep DEF c
<1>11. Goto(c, x).state = x
  BY <1>5, <1>7, GotoFacts
<1>12. \/ blocks' = blocks
       \/ Submit /\ Positions(c.data[s]) \subseteq c.best
  BY <1>1, <1>6
<1>13. Goto(c, x).state \in Ended \cup {c.state}
  BY <1>7, <1>9, <1>11
<1> WITNESS c, Goto(c, x)
<1>14. QED
  BY <1>10, <1>12, <1>13 DEF own

-----------------------------------------------------------------------------
(* Every step is one of six kinds, described field by field. *)

Others == /\ active' \in Nodes \cup {NoNode} /\ timeouts' \in 0..MaxTimeouts

MovesOn(n, c1) ==
    /\ c1 \in Contexts
    /\ ctx' = [ctx EXCEPT ![n] = c1]
    /\ ctx[n].state = "wait_for_round"
    /\ c1.state = IF n = Producer THEN "wait_for_handshake_bitsets"
                  ELSE "send_and_wait_for_handshakes"
    /\ c1.gen = ctx[n].gen /\ c1.queue = ctx[n].queue /\ c1.data = ctx[n].data
    /\ c1.sent = ctx[n].sent /\ c1.best = ctx[n].best /\ c1.final = ctx[n].final
    /\ net' = net /\ blocks' = blocks /\ restarts' = restarts /\ Others

SendsBitset(n, c1) ==
    LET own == Message(n, Positions(ctx[n].data["handshake"])) IN
    /\ n \in Validators
    /\ c1 \in Contexts
    /\ ctx' = [ctx EXCEPT ![n] = c1]
    /\ ctx[n].state = "send_handshake_bitsets"
    /\ c1.state = "wait_for_handshake_bitsets"
    /\ c1.gen = ctx[n].gen /\ c1.data = ctx[n].data
    /\ c1.sent = ctx[n].sent /\ c1.best = ctx[n].best /\ c1.final = ctx[n].final
    /\ \A t \in Stages \ {"handshake_bitset"} : c1.queue[t] = ctx[n].queue[t]
    /\ c1.queue["handshake_bitset"] \subseteq ctx[n].queue["handshake_bitset"] \cup {own}
    /\ net' = net /\ blocks' = blocks /\ restarts' = restarts /\ Others

Leaves(n, c1) ==
    LET template == [gen |-> ctx[n].gen, bitset |-> ctx[n].best] IN
    /\ c1 \in Contexts
    /\ ctx' = [ctx EXCEPT ![n] = c1]
    /\ c1.state \in Ended /\ c1.gen = ctx[n].gen
    /\ c1.queue = NoMessages /\ c1.data = NoMessages
    /\ c1.sent = {} /\ c1.best = {} /\ c1.final = {}
    /\ \/ net' = net
       \/ /\ ctx[n].state = "send_block_template"
          /\ net' = [net EXCEPT !["block_template"] = @ \cup {Message(0, template)}]
    /\ blocks' = blocks /\ restarts' = restarts /\ Others

Reboots(n, c1) ==
    /\ c1 \in Contexts
    /\ ctx' = [ctx EXCEPT ![n] = c1]
    /\ c1.state = "wait_for_round" /\ c1.gen = restarts + 1
    /\ c1.queue = NoMessages /\ c1.data = NoMessages
    /\ c1.sent = {} /\ c1.best = {} /\ c1.final = {}
    /\ restarts' = restarts + 1 /\ restarts < MaxRestarts
    /\ net' = net /\ blocks' = blocks /\ Others

Receives(n, s, m, c1) ==
    /\ c1 \in Contexts
    /\ ctx' = [ctx EXCEPT ![n] = c1]
    /\ m \in net[s]
    /\ n \in Destinations(s, m)
    /\ c1.state = ctx[n].state /\ c1.gen = ctx[n].gen
    /\ c1.sent = ctx[n].sent /\ c1.best = ctx[n].best /\ c1.final = ctx[n].final
    /\ \A t \in Stages \ {s} : /\ c1.queue[t] = ctx[n].queue[t]
                               /\ c1.data[t] = ctx[n].data[t]
    /\ \/ /\ Rank[ctx[n].state] < Rank[StageState[s]]
          /\ c1.data[s] = ctx[n].data[s]
          /\ \/ c1.queue[s] = ctx[n].queue[s]
             \/ /\ c1.queue[s] = ctx[n].queue[s] \cup {m}
                /\ m.pos \notin Positions(ctx[n].queue[s])
       \/ /\ ctx[n].state = StageState[s]
          /\ c1.queue[s] = ctx[n].queue[s]
          /\ \/ c1.data[s] = ctx[n].data[s]
             \/ /\ c1.data[s] = ctx[n].data[s] \cup {m}
                /\ Accepts(ctx[n], s, m)
    /\ net' = net /\ blocks' = blocks /\ restarts' = restarts /\ Others

(* The other steps: node n moves to context c1. *)
LEMMA WaitForRoundStep ==
    ASSUME TypeOK, NEW n \in Nodes, WaitForRound(n)
    PROVE  \E c1 : MovesOn(n, c1)
<1>0. net' = net /\ blocks' = blocks /\ restarts' = restarts /\ Others
  BY DEF WaitForRound, TypeOK, Others
<1> DEFINE st == IF n = Producer THEN "wait_for_handshake_bitsets"
                 ELSE "send_and_wait_for_handshakes"
<1>1. ctx' = [ctx EXCEPT ![n] = Goto(ctx[n], st)] /\ ctx[n].state = "wait_for_round"
  BY DEF WaitForRound, InStage
<1>2. st \in RoundStates \ Ended
  BY DEF RoundStates, Rank, Ended
<1> DEFINE x == ctx[n]
<1>3. x \in Contexts
  BY DEF TypeOK
<1> HIDE DEF x, st
<1>4. /\ Goto(x, st) \in Contexts
      /\ Goto(x, st).state = st
      /\ Goto(x, st).gen = x.gen /\ Goto(x, st).queue = x.queue /\ Goto(x, st).data = x.data
      /\ Goto(x, st).sent = x.sent /\ Goto(x, st).best = x.best /\ Goto(x, st).final = x.final
  BY <1>2, <1>3, GotoFacts
<1> WITNESS Goto(x, st)
<1>5. QED
  BY <1>0, <1>1, <1>4 DEF x, st, MovesOn

(* Sending the handshake bitset. *)
LEMMA SendBitsetStep ==
    ASSUME TypeOK, NEW n \in Validators, SendHandshakeBitsets(n)
    PROVE  \E c1 : SendsBitset(n, c1)
<1>0. net' = net /\ blocks' = blocks /\ restarts' = restarts /\ Others
  BY NodeFacts DEF SendHandshakeBitsets, TypeOK, Others
<1> DEFINE st == "wait_for_handshake_bitsets"
           own == Message(n, Positions(ctx[n].data["handshake"]))
           ss == [s \in Stages |-> IF s = "handshake_bitset" THEN {own} ELSE {}]
           x == ctx[n]
           e == Enqueue(x, "handshake_bitset", own)
<1>1. ctx' = [ctx EXCEPT ![n] = Goto(e, st)] /\ ctx[n].state = "send_handshake_bitsets"
  BY DEF SendHandshakeBitsets, InStage
<1>2. st \in RoundStates \ Ended /\ "handshake_bitset" \in Stages
  BY DEF RoundStates, Rank, Ended, Stages
<1>3. x \in Contexts
  BY NodeFacts DEF TypeOK
<1>4. Positions(x.data["handshake"]) \in SUBSET Validators
  BY <1>3 DEF Contexts, StageMessages, Positions
<1>5. ss \in StageMessages /\ own \in ss["handshake_bitset"]
  <2>1. 0 \in Nat /\ "handshake_bitset" \in Stages
    BY DEF Stages
  <2>2. QED
    BY <1>4, <2>1, OwnType
<1> HIDE DEF x, st, own, ss
<1>6. /\ e \in Contexts /\ e.gen = x.gen /\ e.data = x.data /\ e.sent = x.sent
      /\ e.best = x.best /\ e.final = x.final
      /\ \A t \in Stages \ {"handshake_bitset"} : e.queue[t] = x.queue[t]
      /\ e.queue["handshake_bitset"] \subseteq x.queue["handshake_bitset"] \cup {own}
  BY <1>2, <1>3, <1>5, EnqueueFacts DEF Enqueued
<1> HIDE DEF e
<1>7. /\ Goto(e, st) \in Contexts /\ Goto(e, st).state = st
      /\ Goto(e, st).gen = e.gen /\ Goto(e, st).queue = e.queue /\ Goto(e, st).data = e.data
      /\ Goto(e, st).sent = e.sent /\ Goto(e, st).best = e.best /\ Goto(e, st).final = e.final
  BY <1>2, <1>6, GotoFacts
<1> WITNESS Goto(e, st)
<1>8. QED
  BY <1>0, <1>1, <1>6, <1>7 DEF x, st, own, SendsBitset

(* SendFails and SendBlockTemplate leave the round. *)
LEMMA LeaveStep ==
    ASSUME TypeOK, NEW n \in Nodes, NEW st \in Ended,
           ctx' = [ctx EXCEPT ![n] = Goto(ctx[n], st)]
    PROVE  \E c1 :
             /\ c1 \in Contexts
             /\ ctx' = [ctx EXCEPT ![n] = c1]
             /\ c1.state \in Ended /\ c1.gen = ctx[n].gen
             /\ c1.queue = NoMessages /\ c1.data = NoMessages
             /\ c1.sent = {} /\ c1.best = {} /\ c1.final = {}
<1> DEFINE x == ctx[n]
<1>1. x \in Contexts /\ st \in RoundStates
  BY DEF TypeOK, Ended, RoundStates, Rank
<1> HIDE DEF x
<1>2. /\ Goto(x, st) \in Contexts /\ Goto(x, st).state = st /\ Goto(x, st).gen = x.gen
      /\ Goto(x, st).queue = NoMessages /\ Goto(x, st).data = NoMessages
      /\ Goto(x, st).sent = {} /\ Goto(x, st).best = {} /\ Goto(x, st).final = {}
  BY <1>1, GotoFacts
<1> WITNESS Goto(x, st)
<1>3. QED
  BY <1>2 DEF x

(* A restart of the daemon. *)
LEMMA RestartStep ==
    ASSUME TypeOK, NEW n \in Nodes, Restart(n)
    PROVE  \E c1 :
             /\ c1 \in Contexts
             /\ ctx' = [ctx EXCEPT ![n] = c1]
             /\ c1.state = "wait_for_round" /\ c1.gen = restarts + 1
             /\ c1.queue = NoMessages /\ c1.data = NoMessages
             /\ c1.sent = {} /\ c1.best = {} /\ c1.final = {}
             /\ restarts' = restarts + 1 /\ restarts < MaxRestarts
<1>1. restarts + 1 \in Nat
  BY PulseAssumption DEF TypeOK
<1>2. QED
  BY <1>1, NewContextFacts DEF Restart

(* handle_message. *)
LEMMA HandleMessageStep ==
    ASSUME TypeOK, NEW n \in Nodes, NEW s \in Stages, NEW m \in net[s], HandleMessage(n, s, m)
    PROVE  \E c1 : Receives(n, s, m, c1)
<1>0. net' = net /\ blocks' = blocks /\ restarts' = restarts /\ Others
  BY DEF HandleMessage, TypeOK, Others
<1> DEFINE x == ctx[n]
<1>1. x \in Contexts /\ net \in StageMessages /\ x.state \in RoundStates
  BY DEF TypeOK, Contexts
<1>2. /\ ctx' = [ctx EXCEPT ![n] = IF Rank[x.state] < Rank[StageState[s]]
                                   THEN Enqueue(x, s, m) ELSE Handle(x, s, {m})]
      /\ n \in Destinations(s, m)
      /\ Rank[x.state] <= Rank[StageState[s]]
  BY DEF HandleMessage
<1> HIDE DEF x
<1>3. CASE Rank[x.state] < Rank[StageState[s]]
  <2>1. ctx' = [ctx EXCEPT ![n] = Enqueue(x, s, m)]
    BY <1>2, <1>3
  <2>2. /\ Enqueue(x, s, m) \in Contexts
        /\ Enqueue(x, s, m).state = x.state /\ Enqueue(x, s, m).gen = x.gen
        /\ Enqueue(x, s, m).sent = x.sent /\ Enqueue(x, s, m).best = x.best
        /\ Enqueue(x, s, m).final = x.final /\ Enqueue(x, s, m).data = x.data
        /\ \A t \in Stages \ {s} : Enqueue(x, s, m).queue[t] = x.queue[t]
        /\ \/ Enqueue(x, s, m).queue[s] = x.queue[s]
           \/ /\ Enqueue(x, s, m).queue[s] = x.queue[s] \cup {m}
              /\ m.pos \notin Positions(x.queue[s])
    <3>1. Enqueued(x, s, m, Enqueue(x, s, m))
      BY <1>1, EnqueueFacts
    <3>2. QED
      BY <3>1 DEF Enqueued
  <2> WITNESS Enqueue(x, s, m)
  <2>3. QED
    BY <1>0, <1>2, <1>3, <2>1, <2>2 DEF x, Receives
<1>4. CASE ~ (Rank[x.state] < Rank[StageState[s]])
  <2>1. ctx' = [ctx EXCEPT ![n] = Handle(x, s, {m})]
    BY <1>2, <1>4
  <2>2. {m} \subseteq net[s]
    OBVIOUS
  <2>3. /\ Handle(x, s, {m}) \in Contexts
        /\ Handle(x, s, {m}).state = x.state /\ Handle(x, s, {m}).gen = x.gen
        /\ Handle(x, s, {m}).sent = x.sent /\ Handle(x, s, {m}).best = x.best
        /\ Handle(x, s, {m}).final = x.final /\ Handle(x, s, {m}).queue = x.queue
        /\ \A t \in Stages \ {s} : Handle(x, s, {m}).data[t] = x.data[t]
        /\ Handle(x, s, {m}).data[s] = x.data[s] \cup {k \in {m} : Accepts(x, s, k)}
    BY <1>1, <2>2, HandleFacts, SMTT(30)
  <2>4. \/ Handle(x, s, {m}).data[s] = x.data[s]
        \/ Handle(x, s, {m}).data[s] = x.data[s] \cup {m} /\ Accepts(x, s, m)
    BY <2>3
  <2>5. x.state = StageState[s]
    <3>1. Rank[x.state] = Rank[StageState[s]]
      BY <1>1, <1>2, <1>4 DEF RoundStates, Rank, StageState, Stages
    <3>2. QED
      BY <1>1, <3>1 DEF RoundStates, Rank, StageState, Stages
  <2> WITNESS Handle(x, s, {m})
  <2>6. QED
    BY <1>0, <1>2, <2>1, <2>3, <2>4, <2>5 DEF x, Receives
<1>5. QED
  BY <1>3, <1>4

-----------------------------------------------------------------------------
(* What each stage adds: its own message, and what completing it ensures. *)

OwnOf(n, s) ==
    CASE s = "handshake"         -> {Message(n, "handshake")}
      [] s = "random_value_hash" -> {Message(n, Hash(RandomValue(n, ctx[n].gen)))}
      [] s = "random_value"      -> {Message(n, RandomValue(n, ctx[n].gen))}
      [] s = "signed_block"      -> {Message(n, b) : b \in ctx[n].final}
      [] OTHER                   -> {}

(* What each stage ensures when it goes on to the next state. *)
Completes(n, s, c, c1) ==
    /\ s = "handshake" => c1.state = "send_handshake_bitsets"
    /\ s = "block_template" => c1.state = "send_and_wait_for_random_value_hashes"
    /\ s = "handshake_bitset" =>
         /\ c1.state \in {"send_block_template", "wait_for_block_template"}
         /\ c1.best \in Lockable(n, c.data["handshake_bitset"])
    /\ s = "random_value_hash" =>
         /\ c1.state = "send_and_wait_for_random_value"
         /\ Positions(c.data["random_value_hash"]) = c.best
    /\ s = "random_value" =>
         /\ c1.state = "send_and_wait_for_signed_blocks"
         /\ Positions(c.data["random_value"]) = c.best
         /\ c1.final = FinalBlocks(c)
    /\ s # "signed_block"

Submits(c) ==
    \E X \in FirstIndices(Positions(c.data["signed_block"])), b \in c.final :
        /\ Positions(c.data["signed_block"]) \subseteq c.best
        /\ blocks' = blocks \cup {[block |-> b, signatures |-> X]}

RunsStage(n, s, c, c1) ==
    /\ StageStep(n, s, OwnOf(n, s), c, c1)
    /\ n = Producer => s = "handshake_bitset"
    /\ c1.state \notin Ended \cup {c.state} => Completes(n, s, c, c1)
    /\ blocks' = blocks \/ (s = "signed_block" /\ Submits(c))
    /\ Others

StepTo(n, c1) ==
    \/ MovesOn(n, c1)
    \/ SendsBitset(n, c1)
    \/ Leaves(n, c1)
    \/ Reboots(n, c1)
    \/ \E s \in Stages : \E m : Receives(n, s, m, c1)
    \/ \E s \in Stages : \E c : RunsStage(n, s, c, c1)

StepOf(n) == \E c1 : StepTo(n, c1)

(* Every action is one of these kinds of step. *)
LEMMA StepKinds ==
    ASSUME TypeOK, Next
    PROVE  \E n \in Nodes : StepOf(n)
<1>0. /\ active \in Nodes \cup {NoNode} /\ timeouts \in 0..MaxTimeouts
  BY DEF TypeOK
<1>1. PICK n \in Nodes :
        \/ Main(n)
        \/ n # Producer /\ SendFails(n)
        \/ Restart(n)
        \/ \E s \in Stages : \E m \in net[s] : HandleMessage(n, s, m)
  BY DEF Next
<1>2. n # Producer => n \in Validators
  BY DEF Nodes
<1>3. CASE WaitForRound(n)
  BY <1>3, WaitForRoundStep DEF StepOf, StepTo
<1>4. CASE n \in Validators /\ SendHandshakeBitsets(n)
  BY <1>4, SendBitsetStep DEF StepOf, StepTo
<1>5. CASE SendFails(n)
  <2>1. net' = net /\ blocks' = blocks /\ restarts' = restarts /\ Others
    BY <1>0, <1>5 DEF SendFails, Others
  <2>2. "prepare_for_round" \in Ended
        /\ ctx' = [ctx EXCEPT ![n] = Goto(ctx[n], "prepare_for_round")]
    BY <1>5 DEF SendFails, Ended
  <2>3. \E c1 : Leaves(n, c1)
    BY <2>1, <2>2, LeaveStep DEF Leaves
  <2>4. QED
    BY <2>3 DEF StepOf, StepTo
<1>6. CASE SendBlockTemplate(n)
  <2>1. blocks' = blocks /\ restarts' = restarts /\ Others
        /\ ctx[n].state = "send_block_template"
    BY <1>0, <1>6 DEF SendBlockTemplate, Others, InStage
  <2> DEFINE template == [gen |-> ctx[n].gen, bitset |-> ctx[n].best]
  <2>2. PICK failed \in Failures, moved \in Failures :
          /\ ctx' = [ctx EXCEPT ![n] =
                      Goto(ctx[n], IF moved THEN "wait_for_next_block" ELSE "prepare_for_round")]
          /\ net' = [net EXCEPT !["block_template"] =
                      IF failed \/ moved THEN @ ELSE @ \cup {Message(0, template)}]
    BY <1>6 DEF SendBlockTemplate
  <2>3. \/ net' = net
        \/ net' = [net EXCEPT !["block_template"] = @ \cup {Message(0, template)}]
    <3>1. net = [net EXCEPT !["block_template"] = @]
      BY DEF TypeOK, StageMessages
    <3>2. QED
      BY <2>2, <3>1
  <2>4. \E st \in Ended : ctx' = [ctx EXCEPT ![n] = Goto(ctx[n], st)]
    BY <2>2 DEF Ended
  <2>5. \E c1 : Leaves(n, c1)
    BY <2>1, <2>3, <2>4, LeaveStep DEF Leaves
  <2>6. QED
    BY <2>5 DEF StepOf, StepTo
<1>7. CASE Restart(n)
  <2>1. net' = net /\ blocks' = blocks /\ Others
    BY <1>0, <1>7 DEF Restart, Others
  <2>2. \E c1 : Reboots(n, c1)
    BY <1>7, <2>1, RestartStep DEF Reboots
  <2>3. QED
    BY <2>2 DEF StepOf, StepTo
<1>8. CASE \E s \in Stages : \E m \in net[s] : HandleMessage(n, s, m)
  <2>0. PICK s \in Stages : \E m \in net[s] : HandleMessage(n, s, m)
    BY <1>8
  <2>1. PICK m \in net[s] : HandleMessage(n, s, m)
    BY <2>0
  <2>2. \E c1 : Receives(n, s, m, c1)
    BY <2>1, HandleMessageStep
  <2>3. QED
    BY <2>2 DEF StepOf, StepTo
<1>9. ASSUME NEW s \in Stages, NEW c, NEW c1, RunsStage(n, s, c, c1)
      PROVE  StepOf(n)
  BY <1>9 DEF StepOf, StepTo
<1>10. CASE n \in Validators /\ SendAndWaitForHandshakes(n)
  <2>1. blocks' = blocks /\ timeouts' \in 0..MaxTimeouts
    BY <1>10, TimedOutType DEF SendAndWaitForHandshakes
  <2>2. PICK c, c1 : /\ StageStep(n, "handshake", {Message(n, "handshake")}, c, c1)
                     /\ c1.state \in {"send_handshake_bitsets", c.state}
    BY <1>10, HandshakeStep
  <2>3. OwnOf(n, "handshake") = {Message(n, "handshake")} /\ n # Producer /\ "handshake" \in Stages
    BY <1>10, NodeFacts DEF OwnOf, Stages
  <2>4. Others
    BY <2>1, <2>2 DEF StageStep, Others
  <2>5. RunsStage(n, "handshake", c, c1)
    BY <2>1, <2>2, <2>3, <2>4 DEF RunsStage, Completes
  <2>6. QED
    BY <1>9, <2>3, <2>5
<1>11. CASE WaitForHandshakeBitsets(n)
  <2>1. blocks' = blocks /\ timeouts' \in 0..MaxTimeouts
    BY <1>11, TimedOutType DEF WaitForHandshakeBitsets
  <2>2. PICK c, c1 :
             /\ StageStep(n, "handshake_bitset", {}, c, c1)
             /\ c1.state \notin Ended \cup {c.state} =>
                  /\ c1.state \in {"send_block_template", "wait_for_block_template"}
                  /\ c1.best \in Lockable(n, c.data["handshake_bitset"])
    BY <1>11, BitsetStep
  <2>3. OwnOf(n, "handshake_bitset") = {} /\ "handshake_bitset" \in Stages
    BY DEF OwnOf, Stages
  <2>4. Others
    BY <2>1, <2>2 DEF StageStep, Others
  <2>5. RunsStage(n, "handshake_bitset", c, c1)
    BY <2>1, <2>2, <2>3, <2>4 DEF RunsStage, Completes
  <2>6. QED
    BY <1>9, <2>3, <2>5
<1>12. CASE n \in Validators /\ WaitForBlockTemplate(n)
  <2>1. blocks' = blocks /\ timeouts' \in 0..MaxTimeouts
    BY <1>12, TimedOutType DEF WaitForBlockTemplate
  <2>2. PICK c, c1 :
          /\ StageStep(n, "block_template", {}, c, c1)
          /\ c1.state \in Ended \cup {c.state, "send_and_wait_for_random_value_hashes"}
    BY <1>12, TemplateStep
  <2>3. OwnOf(n, "block_template") = {} /\ n # Producer /\ "block_template" \in Stages
    BY <1>12, NodeFacts DEF OwnOf, Stages
  <2>4. Others
    BY <2>1, <2>2 DEF StageStep, Others
  <2>5. RunsStage(n, "block_template", c, c1)
    BY <2>1, <2>2, <2>3, <2>4 DEF RunsStage, Completes
  <2>6. QED
    BY <1>9, <2>3, <2>5
<1>13. CASE n \in Validators /\ SendAndWaitForRandomValueHashes(n)
  <2>1. blocks' = blocks /\ timeouts' \in 0..MaxTimeouts
    BY <1>13, TimedOutType DEF SendAndWaitForRandomValueHashes
  <2> DEFINE own == {Message(n, Hash(RandomValue(n, ctx[n].gen)))}
  <2>2. PICK c, c1 :
             /\ StageStep(n, "random_value_hash", own, c, c1)
             /\ c1.state \notin Ended \cup {c.state} =>
                  /\ c1.state = "send_and_wait_for_random_value"
                  /\ Positions(c.data["random_value_hash"]) = c.best
    BY <1>13, HashStep
  <2>3. OwnOf(n, "random_value_hash") = own /\ n # Producer /\ "random_value_hash" \in Stages
    BY <1>13, NodeFacts DEF OwnOf, Stages
  <2>4. Others
    BY <2>1, <2>2 DEF StageStep, Others
  <2> HIDE DEF own
  <2>5. RunsStage(n, "random_value_hash", c, c1)
    BY <2>1, <2>2, <2>3, <2>4 DEF RunsStage, Completes
  <2>6. QED
    BY <1>9, <2>3, <2>5
<1>14. CASE n \in Validators /\ SendAndWaitForRandomValue(n)
  <2>1. blocks' = blocks /\ timeouts' \in 0..MaxTimeouts
    BY <1>14, TimedOutType DEF SendAndWaitForRandomValue
  <2> DEFINE own == {Message(n, RandomValue(n, ctx[n].gen))}
  <2>2. PICK c, c1 :
             /\ StageStep(n, "random_value", own, c, c1)
             /\ c1.state \notin Ended \cup {c.state} =>
                  /\ c1.state = "send_and_wait_for_signed_blocks"
                  /\ Positions(c.data["random_value"]) = c.best
                  /\ c1.final = FinalBlocks(c)
    BY <1>14, ValueStep
  <2>3. OwnOf(n, "random_value") = own /\ n # Producer /\ "random_value" \in Stages
    BY <1>14, NodeFacts DEF OwnOf, Stages
  <2>4. Others
    BY <2>1, <2>2 DEF StageStep, Others
  <2> HIDE DEF own
  <2>5. RunsStage(n, "random_value", c, c1)
    BY <2>1, <2>2, <2>3, <2>4 DEF RunsStage, Completes
  <2>6. QED
    BY <1>9, <2>3, <2>5
<1>15. CASE n \in Validators /\ SendAndWaitForSignedBlocks(n)
  <2>1. timeouts' \in 0..MaxTimeouts
    BY <1>15, TimedOutType DEF SendAndWaitForSignedBlocks
  <2> DEFINE own == {Message(n, b) : b \in ctx[n].final}
  <2>2. PICK c, c1 :
             /\ StageStep(n, "signed_block", own, c, c1)
             /\ c1.state \in Ended \cup {c.state}
             /\ blocks' = blocks \/ Submits(c)
    BY <1>15, SignedStep DEF Submits
  <2>3. OwnOf(n, "signed_block") = own /\ n # Producer /\ "signed_block" \in Stages
    BY <1>15, NodeFacts DEF OwnOf, Stages
  <2>4. Others
    BY <2>1, <2>2 DEF StageStep, Others
  <2> HIDE DEF own
  <2>5. RunsStage(n, "signed_block", c, c1)
    BY <2>1, <2>2, <2>3, <2>4 DEF RunsStage
  <2>6. QED
    BY <1>9, <2>3, <2>5
<1>16. QED
  BY <1>1, <1>2, <1>3, <1>4, <1>5, <1>6, <1>7, <1>8, <1>10, <1>11, <1>12, <1>13, <1>14, <1>15
     DEF Main

(* What every step does: one node changes, and messages stay relayed. *)
LEMMA Frame ==
    ASSUME TypeOK, NEW n \in Nodes, NEW c1, StepTo(n, c1)
    PROVE  /\ c1 \in Contexts /\ ctx' = [ctx EXCEPT ![n] = c1]
           /\ Others
           /\ \A s \in Stages : net[s] \subseteq net'[s]
<1>0. DOMAIN net = Stages
  BY DEF TypeOK, StageMessages, Stages
<1>1. CASE MovesOn(n, c1)
  BY <1>1 DEF MovesOn
<1>2. CASE SendsBitset(n, c1)
  BY <1>2 DEF SendsBitset
<1>3. CASE Leaves(n, c1)
  <2>1. c1 \in Contexts /\ ctx' = [ctx EXCEPT ![n] = c1] /\ Others
    BY <1>3 DEF Leaves
  <2>2. net' = net \/ \E t : net' = [net EXCEPT !["block_template"] = @ \cup {t}]
    BY <1>3 DEF Leaves
  <2>3. QED
    BY <1>0, <2>1, <2>2
<1>4. CASE Reboots(n, c1)
  BY <1>4 DEF Reboots
<1>5. ASSUME NEW s, NEW m, Receives(n, s, m, c1)
      PROVE  /\ c1 \in Contexts /\ ctx' = [ctx EXCEPT ![n] = c1]
             /\ Others /\ net' = net
  BY <1>5 DEF Receives
<1>6. ASSUME NEW s \in Stages, NEW c, RunsStage(n, s, c, c1)
      PROVE  /\ c1 \in Contexts /\ ctx' = [ctx EXCEPT ![n] = c1]
             /\ Others /\ net' = [net EXCEPT ![s] = @ \cup c.data[s]]
  <2>1. Others
    BY <1>6 DEF RunsStage
  <2>2. StageStep(n, s, OwnOf(n, s), c, c1)
    BY <1>6 DEF RunsStage
  <2>3. QED
    BY <2>1, <2>2 DEF StageStep
<1>7. CASE \E s \in Stages : \E m : Receives(n, s, m, c1)
  BY <1>5, <1>7
<1>8. CASE \E s \in Stages : \E c : RunsStage(n, s, c, c1)
  BY <1>0, <1>6, <1>8
<1>9. QED
  BY <1>1, <1>2, <1>3, <1>4, <1>7, <1>8 DEF StepTo

(* Only a restart is counted as one. *)
LEMMA SameRestarts ==
    ASSUME NEW n, NEW c1, StepTo(n, c1), ~ Reboots(n, c1)
    PROVE  restarts' = restarts
<1>1. ASSUME MovesOn(n, c1) \/ SendsBitset(n, c1) \/ Leaves(n, c1)
      PROVE  restarts' = restarts
  BY <1>1 DEF MovesOn, SendsBitset, Leaves
<1>2. ASSUME NEW s, NEW m, Receives(n, s, m, c1) PROVE restarts' = restarts
  BY <1>2 DEF Receives
<1>3. ASSUME NEW s, NEW c, RunsStage(n, s, c, c1) PROVE restarts' = restarts
  BY <1>3 DEF RunsStage, StageStep
<1>4. QED
  BY <1>1, <1>2, <1>3 DEF StepTo

(* Steps that relay nothing. *)
LEMMA SameNet ==
    ASSUME NEW n, NEW c1, StepTo(n, c1), ~ Leaves(n, c1),
           ~ \E s \in Stages : \E c : RunsStage(n, s, c, c1)
    PROVE  net' = net
<1>1. ASSUME MovesOn(n, c1) \/ SendsBitset(n, c1) \/ Reboots(n, c1) PROVE net' = net
  BY <1>1 DEF MovesOn, SendsBitset, Reboots
<1>2. ASSUME NEW s, NEW m, Receives(n, s, m, c1) PROVE net' = net
  BY <1>2 DEF Receives
<1>3. QED
  BY <1>1, <1>2 DEF StepTo

(* Only the stage of signed blocks makes a block. *)
LEMMA SameBlocks ==
    ASSUME NEW n, NEW c1, StepTo(n, c1)
    PROVE  \/ blocks' = blocks
           \/ \E s \in Stages : \E c : /\ StageStep(n, s, OwnOf(n, s), c, c1)
                                       /\ s = "signed_block" /\ Submits(c)
<1>1. ASSUME MovesOn(n, c1) \/ SendsBitset(n, c1) \/ Leaves(n, c1) \/ Reboots(n, c1)
      PROVE  blocks' = blocks
  BY <1>1 DEF MovesOn, SendsBitset, Leaves, Reboots
<1>2. ASSUME NEW s, NEW m, Receives(n, s, m, c1) PROVE blocks' = blocks
  BY <1>2 DEF Receives
<1>3. ASSUME NEW s \in Stages, NEW c, RunsStage(n, s, c, c1)
      PROVE  \/ blocks' = blocks
             \/ StageStep(n, s, OwnOf(n, s), c, c1) /\ s = "signed_block" /\ Submits(c)
  BY <1>3 DEF RunsStage
<1>4. QED
  BY <1>1, <1>2, <1>3 DEF StepTo

=============================================================================
