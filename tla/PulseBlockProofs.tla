-------------------------- MODULE PulseBlockProofs --------------------------
(***************************************************************************)
(* From the locked-in bitset to the block: PulseCeremony's random values   *)
(* are revealed only after they were committed to, the block handed to     *)
(* core verifies, and at most one block leaves a round, for any number of  *)
(* validators, required signatures, restarts and time-outs.                *)
(*                                                                         *)
(* A context at these stages is the result of one chain of steps, and what *)
(* each stage leaves behind is fixed from then on: the template is for the *)
(* locked-in bitset (TemplateAt), every locked-in validator committed      *)
(* before any value is taken (RevealAt), the final block is made of the    *)
(* template and all values (FinalAt), and a signature is of the final      *)
(* block (SignedAt).  A validator that did not restart signs once          *)
(* (OneSignature), and two blocks have such a signer in common.            *)
(***************************************************************************)
EXTENDS PulseCeremonyProofs

bt == "block_template"
rvh == "random_value_hash"
rv == "random_value"
sb == "signed_block"

Hashing == "send_and_wait_for_random_value_hashes"
Revealing == "send_and_wait_for_random_value"
Signing == "send_and_wait_for_signed_blocks"

(* At most one template is queued or taken, and it is for the locked-in    *)
(* bitset.                                                                 *)
TemplateAt(c) ==
    /\ \A m1, m2 \in c.queue[bt] : m1 = m2
    /\ \A m1, m2 \in c.data[bt] : m1 = m2
    /\ \A m \in c.data[bt] : m.val.bitset = c.best

(* CommitReveal, of one context. *)
RevealAt(c) ==
    c.state \in {Revealing, Signing} =>
        /\ Positions(c.data[rvh]) = c.best
        /\ \A m \in c.data[rv] : Message(m.pos, Hash(m.val)) \in c.data[rvh]

(* The final block exists once all values are there. *)
FinalAt(c) ==
    /\ c.final # {} => c.state = Signing /\ Positions(c.data[rv]) = c.best
    /\ c.final \subseteq FinalBlocks(c)

SignedAt(c) == \A m \in c.data[sb] : m.val \in c.final

BlockAt(c) == TemplateAt(c) /\ RevealAt(c) /\ FinalAt(c) /\ SignedAt(c)

BlockContexts == \A n \in Nodes : BlockAt(ctx[n])

(* The signatures validator p ever relayed. *)
OwnSignatures(p, nt) == {m \in nt[sb] : m.pos = p}

OneSignatureAt(p, c, nt) ==
    c.gen = 0 =>
        /\ c.state \notin Ended \cup {Signing} => OwnSignatures(p, nt) = {}
        /\ c.state = Signing => \A m \in OwnSignatures(p, nt) : m.val \in c.final
        /\ \A m1, m2 \in OwnSignatures(p, nt) : m1 = m2

OneSignature == \A p \in Validators : OneSignatureAt(p, ctx[p], net)

BlockInv == BitsetInv /\ BlockContexts /\ OneSignature /\ BlocksVerify

-----------------------------------------------------------------------------
(* What a step does to a context x of node n: it clears it, or takes in     *)
(* acceptable messages of the stage it is in, and completes stages.         *)

Clears(c1) ==
    /\ c1.queue = NoMessages /\ c1.data = NoMessages
    /\ c1.best = {} /\ c1.final = {}

TakesIn(x, c1) ==
    \A s \in Stages :
        /\ x.data[s] \subseteq c1.data[s]
        /\ \A m \in c1.data[s] \ x.data[s] : x.state = StageState[s] /\ Accepts(x, s, m)

OneTemplate(x, c1) ==
    /\ \A m1, m2 \in c1.data[bt] \ x.data[bt] : m1 = m2 \/ {m1, m2} \subseteq x.queue[bt]
    /\ \A m \in c1.queue[bt] \ x.queue[bt] :
         m.pos \notin Positions(x.queue[bt]) /\ c1.queue[bt] = x.queue[bt] \cup {m}

Advances(x, c1) ==
    /\ Rank[x.state] <= Rank[c1.state]
    /\ x.state \in Ended => c1.state \in Ended
    /\ c1.best # x.best => x.state = StageState[hb]
    /\ c1.state = Revealing =>
         \/ x.state = Revealing
         \/ x.state = Hashing /\ Positions(c1.data[rvh]) = c1.best
    /\ \/ c1.final = x.final /\ (c1.state = Signing => x.state = Signing)
       \/ /\ x.state = Revealing /\ c1.state = Signing
          /\ Positions(c1.data[rv]) = c1.best
          /\ c1.final = FinalBlocks(c1)

Grows(x, c1) == TakesIn(x, c1) /\ OneTemplate(x, c1) /\ Advances(x, c1)

(* The stages by the names used here. *)
LEMMA BlockStages ==
    /\ bt \in Stages /\ rvh \in Stages /\ rv \in Stages /\ sb \in Stages /\ hb \in Stages
    /\ StageState[bt] = "wait_for_block_template"
    /\ StageState[rvh] = Hashing /\ StageState[rv] = Revealing /\ StageState[sb] = Signing
    /\ StageState[hb] = "wait_for_handshake_bitsets"
    /\ StageState["handshake"] = "send_and_wait_for_handshakes"
  BY DEF Stages, StageState, bt, rvh, rv, sb, hb, Hashing, Revealing, Signing

(* A context whose data, best bitset and final block stay, and whose queue  *)
(* of templates stays, grows if its state moves before the late stages.     *)
LEMMA SameGrows ==
    ASSUME NEW x \in Contexts, NEW c1 \in Contexts,
           c1.data = x.data, c1.queue[bt] = x.queue[bt],
           c1.best = x.best, c1.final = x.final,
           Rank[x.state] <= Rank[c1.state], x.state \in Ended => c1.state \in Ended,
           c1.state = x.state \/ c1.state \notin {Revealing, Signing}
    PROVE  Grows(x, c1)
<1>1. TakesIn(x, c1) /\ OneTemplate(x, c1)
  BY DEF TakesIn, OneTemplate
<1>2. Advances(x, c1)
  BY DEF Advances, Revealing, Signing
<1>3. QED
  BY <1>1, <1>2 DEF Grows

(* A received message. *)
LEMMA ReceivesGrows ==
    ASSUME TypeOK, NEW n \in Nodes, NEW s \in Stages, NEW m, NEW c1, Receives(n, s, m, c1)
    PROVE  Grows(ctx[n], c1)
<1> DEFINE x == ctx[n]
<1>0. /\ x \in Contexts /\ c1 \in Contexts
      /\ c1.state = x.state /\ c1.best = x.best /\ c1.final = x.final
      /\ \A t \in Stages \ {s} : c1.queue[t] = x.queue[t] /\ c1.data[t] = x.data[t]
      /\ \/ /\ c1.data[s] = x.data[s]
            /\ \/ c1.queue[s] = x.queue[s]
               \/ c1.queue[s] = x.queue[s] \cup {m} /\ m.pos \notin Positions(x.queue[s])
         \/ /\ x.state = StageState[s]
            /\ c1.queue[s] = x.queue[s]
            /\ \/ c1.data[s] = x.data[s]
               \/ c1.data[s] = x.data[s] \cup {m} /\ Accepts(x, s, m)
  BY DEF Receives, TypeOK
<1> HIDE DEF x
<1>1. x.state \in RoundStates /\ Rank[x.state] \in Nat
  BY <1>0, StageRanks DEF Contexts
<1>2. TakesIn(x, c1)
  BY <1>0 DEF TakesIn
<1>3. OneTemplate(x, c1)
  BY <1>0, BlockStages DEF OneTemplate
<1>4. Advances(x, c1)
  BY <1>0, <1>1 DEF Advances
<1>5. QED
  BY <1>2, <1>3, <1>4 DEF Grows, x

(* A stage that is run. *)
LEMMA StageGrows ==
    ASSUME TypeOK, NEW n \in Nodes, NEW s \in Stages, NEW c, NEW c1, RunsStage(n, s, c, c1)
    PROVE  (Clears(c1) /\ c1.state \in Ended) \/ Grows(ctx[n], c1)
<1> DEFINE x == ctx[n]
<1>0. StageStep(n, s, OwnOf(n, s), c, c1)
  BY DEF RunsStage
<1>1. CASE c1.state \in Ended
  BY <1>0, <1>1 DEF StageStep, Clears
<1>2. CASE c1.state \notin Ended
  <2>1. /\ x \in Contexts /\ c \in Contexts /\ c1 \in Contexts
        /\ x.state = StageState[s] /\ c.state = x.state
        /\ c.best = x.best /\ c.final = x.final
        /\ \A t \in Stages \ {s} : c.data[t] = x.data[t] /\ c.queue[t] = x.queue[t]
        /\ c.queue[s] = {}
        /\ x.data[s] \subseteq c.data[s]
        /\ c.data[s] \subseteq x.data[s] \cup x.queue[s]
                                \cup (IF s \in x.sent THEN {} ELSE OwnOf(n, s))
        /\ \A m \in c.data[s] \ x.data[s] : Accepts(x, s, m)
        /\ c1.queue = c.queue /\ c1.data = c.data
        /\ c1 = c \/ Rank[c1.state] > Rank[c.state]
        /\ s # "handshake_bitset" => c1.best = c.best
        /\ s # "random_value" => c1.final = c.final
    BY <1>0, <1>2 DEF StageStep, TypeOK
  <2>2. c1.state # c.state => Completes(n, s, c, c1)
    BY <1>2 DEF RunsStage
  <2> HIDE DEF x
  <2>3. TakesIn(x, c1)
    BY <2>1 DEF TakesIn
  <2>4. OneTemplate(x, c1)
    <3>1. OwnOf(n, bt) = {}
      BY DEF OwnOf, bt
    <3>2. c1.queue[bt] \subseteq x.queue[bt]
      BY <2>1, BlockStages
    <3>3. c1.data[bt] \ x.data[bt] \subseteq x.queue[bt]
      BY <2>1, <3>1, BlockStages
    <3>4. QED
      BY <3>2, <3>3 DEF OneTemplate
  <2>5. Advances(x, c1)
    <3>0. /\ c.state \in RoundStates /\ c1.state \in RoundStates
          /\ Rank[c.state] \in Nat /\ Rank[c1.state] \in Nat
      BY <2>1, StageRanks DEF Contexts
    <3>1. x.state \notin Ended
      BY <2>1 DEF StageState, Stages, Ended
    <3>2. CASE c1.state = c.state
      <4>1. c1 = c
        BY <2>1, <3>0, <3>2
      <4>2. QED
        BY <2>1, <3>0, <3>1, <4>1 DEF Advances
    <3>3. CASE c1.state # c.state
      <4>1. Completes(n, s, c, c1)
        BY <2>2, <3>3
      <4>2. Rank[x.state] <= Rank[c1.state]
        BY <2>1, <3>0, <3>3
      <4>3. c1.best # x.best => x.state = StageState[hb]
        BY <2>1 DEF hb
      <4>4. c1.state = Revealing => x.state = Hashing /\ Positions(c1.data[rvh]) = c1.best
        <5>1. c1.state = Revealing => s = rvh
          BY <4>1 DEF Completes, Stages, Revealing, rvh
        <5>2. s = rvh => Positions(c.data[rvh]) = c.best
          BY <4>1 DEF Completes, rvh
        <5>3. QED
          BY <2>1, <5>1, <5>2, BlockStages DEF rvh
      <4>5. CASE s = rv
        <5>1. c1.state = Signing /\ Positions(c.data[rv]) = c.best /\ c1.final = FinalBlocks(c)
          BY <4>1, <4>5 DEF Completes, Signing, rv
        <5>2. FinalBlocks(c) = FinalBlocks(c1)
          BY <2>1 DEF FinalBlocks
        <5>3. x.state = Revealing /\ c1.best = c.best
          BY <2>1, <4>5, BlockStages DEF rv
        <5>4. QED
          BY <2>1, <3>1, <4>2, <4>3, <4>4, <5>1, <5>2, <5>3 DEF Advances
      <4>6. CASE s # rv
        <5>1. c1.final = x.final
          BY <2>1, <4>6 DEF rv
        <5>2. c1.state # Signing
          BY <4>1, <4>6 DEF Completes, Stages, Signing, rv
        <5>3. QED
          BY <3>1, <4>2, <4>3, <4>4, <5>1, <5>2 DEF Advances
      <4>7. QED
        BY <4>5, <4>6
    <3>4. QED
      BY <3>2, <3>3
  <2>6. QED
    BY <2>3, <2>4, <2>5 DEF Grows, x
<1>3. QED
  BY <1>1, <1>2

(* Every step clears the context of its node or lets it grow. *)
LEMMA StepGrows ==
    ASSUME TypeOK, NEW n \in Nodes, NEW c1, StepTo(n, c1)
    PROVE  \/ Clears(c1) /\ (c1.state \in Ended \/ Reboots(n, c1))
           \/ ~ Reboots(n, c1) /\ Grows(ctx[n], c1)
<1>0. ctx[n] \in Contexts /\ c1 \in Contexts
  BY Frame DEF TypeOK
<1>1. CASE MovesOn(n, c1)
  <2>1. /\ Rank[ctx[n].state] <= Rank[c1.state] /\ ctx[n].state \notin Ended
        /\ c1.state \notin {Revealing, Signing}
    BY <1>1 DEF MovesOn, Rank, Ended, Revealing, Signing
  <2>2. c1.data = ctx[n].data /\ c1.queue = ctx[n].queue
        /\ c1.best = ctx[n].best /\ c1.final = ctx[n].final
    BY <1>1 DEF MovesOn
  <2>3. ~ Reboots(n, c1)
    BY <1>1 DEF MovesOn, Reboots
  <2>4. QED
    BY <1>0, <2>1, <2>2, <2>3, SameGrows
<1>2. CASE SendsBitset(n, c1)
  <2>1. /\ Rank[ctx[n].state] <= Rank[c1.state] /\ ctx[n].state \notin Ended
        /\ c1.state \notin {Revealing, Signing}
    BY <1>2 DEF SendsBitset, Rank, Ended, Revealing, Signing
  <2>2. c1.data = ctx[n].data /\ c1.queue[bt] = ctx[n].queue[bt]
        /\ c1.best = ctx[n].best /\ c1.final = ctx[n].final
    BY <1>2, BlockStages DEF SendsBitset, bt
  <2>3. ~ Reboots(n, c1)
    BY <1>2 DEF SendsBitset, Reboots
  <2>4. QED
    BY <1>0, <2>1, <2>2, <2>3, SameGrows
<1>3. CASE Leaves(n, c1) \/ Reboots(n, c1)
  BY <1>3 DEF Leaves, Reboots, Clears
<1>4. ASSUME NEW s \in Stages, NEW m, Receives(n, s, m, c1), ~ Reboots(n, c1)
      PROVE  Grows(ctx[n], c1)
  BY <1>4, ReceivesGrows
<1>5. ASSUME NEW s \in Stages, NEW c, RunsStage(n, s, c, c1)
      PROVE  (Clears(c1) /\ c1.state \in Ended) \/ Grows(ctx[n], c1)
  BY <1>5, StageGrows
<1>6. QED
  BY <1>1, <1>2, <1>3, <1>4, <1>5 DEF StepTo

-----------------------------------------------------------------------------
(* Contexts that grow keep what the stages established *)

(* Templates all have position 0, and accepted messages a new position. *)
LEMMA TemplateGrows ==
    ASSUME NEW x \in Contexts, NEW c1 \in Contexts, NotYetAt(x), TemplateAt(x), Grows(x, c1)
    PROVE  TemplateAt(c1)
<1>1. \A m \in c1.queue[bt] \cup c1.data[bt] \cup x.queue[bt] \cup x.data[bt] : m.pos = 0
  BY DEF Contexts, StageMessages, bt
<1>2. /\ x.data[bt] \subseteq c1.data[bt]
      /\ \A m \in c1.data[bt] \ x.data[bt] :
           x.state = StageState[bt] /\ m.pos \notin Positions(x.data[bt])
           /\ m.val.bitset = x.best
  BY BlockStages DEF Grows, TakesIn, Accepts, bt
<1>3. ASSUME NEW m1 \in c1.queue[bt], NEW m2 \in c1.queue[bt] PROVE m1 = m2
  <2>1. ASSUME NEW m \in c1.queue[bt] \ x.queue[bt] PROVE c1.queue[bt] = {m}
    <3>1. m.pos \notin Positions(x.queue[bt]) /\ c1.queue[bt] = x.queue[bt] \cup {m}
      BY DEF Grows, OneTemplate
    <3>2. x.queue[bt] = {}
      BY <1>1, <3>1 DEF Positions
    <3>3. QED
      BY <3>1, <3>2
  <2>2. QED
    BY <1>3, <2>1 DEF TemplateAt
<1>4. ASSUME NEW m \in c1.data[bt] \ x.data[bt] PROVE x.data[bt] = {}
  BY <1>1, <1>2 DEF Positions
<1>5. ASSUME NEW m1 \in c1.data[bt], NEW m2 \in c1.data[bt] PROVE m1 = m2
  <2>1. CASE m1 \in x.data[bt] /\ m2 \in x.data[bt]
    BY <2>1 DEF TemplateAt
  <2>2. CASE m1 \notin x.data[bt] \/ m2 \notin x.data[bt]
    <3>1. x.data[bt] = {}
      BY <1>4, <1>5, <2>2
    <3>2. m1 = m2 \/ {m1, m2} \subseteq x.queue[bt]
      BY <1>5, <3>1 DEF Grows, OneTemplate
    <3>3. QED
      BY <3>2 DEF TemplateAt
  <2>3. QED
    BY <2>1, <2>2
<1>6. ASSUME NEW m \in c1.data[bt] PROVE m.val.bitset = c1.best
  <2>1. x.state = StageState[hb] => x.data[bt] = {} /\ x.state # StageState[bt]
    BY BlockStages DEF NotYetAt, Rank
  <2>2. c1.best = x.best
    BY <1>2, <1>6, <2>1 DEF Grows, Advances
  <2>3. QED
    BY <1>2, <1>6, <2>2 DEF TemplateAt
<1>7. QED
  BY <1>3, <1>5, <1>6 DEF TemplateAt

(* A revealed value is taken only if the commitment of its author, which   *)
(* is there, is its hash.                                                  *)
LEMMA RevealGrows ==
    ASSUME NEW x \in Contexts, NEW c1 \in Contexts, NotYetAt(x), RevealAt(x), Grows(x, c1)
    PROVE  RevealAt(c1)
<1>0. /\ Hashing # Revealing /\ Hashing # Signing /\ Revealing # Signing
      /\ StageState[hb] \notin {Hashing, Revealing, Signing}
  BY BlockStages DEF Hashing, Revealing, Signing
<1>1. CASE x.state \in {Revealing, Signing}
  <2>1. c1.best = x.best
    BY <1>0, <1>1 DEF Grows, Advances
  <2>2. c1.data[rvh] = x.data[rvh]
    BY <1>0, <1>1, BlockStages DEF Grows, TakesIn
  <2>3. Positions(x.data[rvh]) = x.best
    BY <1>1 DEF RevealAt
  <2>4. ASSUME NEW m \in c1.data[rv] \ x.data[rv]
        PROVE  Message(m.pos, Hash(m.val)) \in x.data[rvh]
    <3>1. Accepts(x, rv, m)
      BY BlockStages DEF Grows, TakesIn
    <3>2. m.pos \in x.best
      BY <3>1 DEF Accepts, LockedIn, rv
    <3>3. PICK h \in x.data[rvh] : h.pos = m.pos
      BY <2>3, <3>2 DEF Positions
    <3>4. h.val = Hash(m.val)
      BY <3>1, <3>3 DEF Accepts, rv, rvh
    <3>5. h = Message(h.pos, h.val)
      BY <3>3 DEF Message, Contexts, StageMessages, rvh
    <3>6. QED
      BY <3>3, <3>4, <3>5
  <2>5. QED
    BY <1>1, <2>1, <2>2, <2>3, <2>4 DEF RevealAt
<1>2. CASE x.state \notin {Revealing, Signing} /\ c1.state \in {Revealing, Signing}
  <2>1. x.state = Hashing /\ Positions(c1.data[rvh]) = c1.best
    BY <1>0, <1>2 DEF Grows, Advances
  <2>2. x.data[rv] = {}
    BY <2>1, BlockStages DEF NotYetAt, Rank, Hashing, Revealing
  <2>3. c1.data[rv] = {}
    BY <1>0, <2>1, <2>2, BlockStages DEF Grows, TakesIn
  <2>4. QED
    BY <2>1, <2>3 DEF RevealAt
<1>3. QED
  BY <1>1, <1>2 DEF RevealAt

(* The final block stays what it was made of. *)
LEMMA FinalGrows ==
    ASSUME NEW x \in Contexts, NEW c1 \in Contexts, FinalAt(x), Grows(x, c1)
    PROVE  FinalAt(c1)
<1>1. CASE c1.final = x.final /\ x.final # {}
  <2>1. x.state = Signing /\ Positions(x.data[rv]) = x.best
    BY <1>1 DEF FinalAt
  <2>2. c1.state = Signing
    <3>1. Rank[Signing] <= Rank[c1.state] /\ c1.state \in RoundStates
      BY <2>1 DEF Grows, Advances, Contexts
    <3>2. QED
      BY <3>1 DEF Rank, RoundStates, Signing
  <2>3. c1.best = x.best /\ c1.data[rv] = x.data[rv] /\ c1.data[bt] = x.data[bt]
    <3>1. Signing \notin {StageState[hb], StageState[rv], StageState[bt]}
      BY BlockStages DEF Signing, Revealing
    <3>2. QED
      BY <2>1, <3>1, BlockStages DEF Grows, TakesIn, Advances
  <2>4. FinalBlocks(c1) = FinalBlocks(x)
    BY <2>3 DEF FinalBlocks, rv, bt
  <2>5. QED
    BY <1>1, <2>1, <2>2, <2>3, <2>4 DEF FinalAt
<1>2. CASE c1.final = x.final /\ x.final = {}
  BY <1>2 DEF FinalAt
<1>3. CASE c1.final # x.final
  BY <1>3 DEF FinalAt, Grows, Advances
<1>4. QED
  BY <1>1, <1>2, <1>3

(* Signatures are of the final block. *)
LEMMA SignedGrows ==
    ASSUME NEW x \in Contexts, NEW c1 \in Contexts, NotYetAt(x), FinalAt(x), SignedAt(x),
           Grows(x, c1)
    PROVE  SignedAt(c1)
<1>1. x.state = Signing => c1.final = x.final
  BY DEF Grows, Advances, Signing, Revealing
<1>2. ASSUME NEW m \in c1.data[sb] PROVE m.val \in c1.final
  <2>1. CASE m \in x.data[sb]
    BY <1>1, <2>1 DEF SignedAt, FinalAt
  <2>2. CASE m \notin x.data[sb]
    <3>1. x.state = Signing /\ Accepts(x, sb, m)
      BY <1>2, <2>2, BlockStages DEF Grows, TakesIn
    <3>2. QED
      BY <1>1, <3>1 DEF Accepts, sb
  <2>3. QED
    BY <2>1, <2>2
<1>3. QED
  BY <1>2 DEF SignedAt

(* Every step keeps the contexts of the late stages as they should be. *)
LEMMA BlockContextsNext ==
    ASSUME TypeOK, NotYet, BlockContexts, NEW n \in Nodes, NEW c1, StepTo(n, c1)
    PROVE  BlockContexts'
<1>0. /\ c1 \in Contexts /\ ctx' = [ctx EXCEPT ![n] = c1]
      /\ ctx \in [Nodes -> Contexts] /\ ctx[n] \in Contexts
  BY Frame DEF TypeOK
<1>1. NotYetAt(ctx[n]) /\ BlockAt(ctx[n])
  BY DEF NotYet, BlockContexts
<1>2. ASSUME Clears(c1) PROVE BlockAt(c1)
  <2>1. /\ c1.final = {} /\ c1.best = {}
        /\ \A s \in {bt, rvh, rv, sb} : c1.data[s] = {} /\ c1.queue[s] = {}
    BY <1>2, EmptyStages, BlockStages DEF Clears
  <2>2. QED
    BY <2>1 DEF BlockAt, TemplateAt, RevealAt, FinalAt, SignedAt, Positions
<1>3. ASSUME Grows(ctx[n], c1) PROVE BlockAt(c1)
  BY <1>0, <1>1, <1>3, TemplateGrows, RevealGrows, FinalGrows, SignedGrows DEF BlockAt
<1>4. BlockAt(c1)
  BY <1>2, <1>3, StepGrows
<1>5. ASSUME NEW p \in Nodes PROVE BlockAt(ctx'[p])
  BY <1>0, <1>4 DEF BlockContexts
<1>6. QED
  BY <1>5 DEF BlockContexts

-----------------------------------------------------------------------------
(* Signatures *)

(* A context has at most one final block. *)
LEMMA OneFinal ==
    ASSUME NEW c, TemplateAt(c), FinalAt(c), NEW f \in c.final, NEW g \in c.final
    PROVE  f = g
<1>1. f \in FinalBlocks(c) /\ g \in FinalBlocks(c)
  BY DEF FinalAt
<1>2. PICK m \in c.data[bt] : f = [template |-> m.val, values |-> c.data["random_value"]]
  BY <1>1 DEF FinalBlocks, bt
<1>3. PICK k \in c.data[bt] : g = [template |-> k.val, values |-> c.data["random_value"]]
  BY <1>1 DEF FinalBlocks, bt
<1>4. m = k
  BY <1>2, <1>3 DEF TemplateAt
<1>5. QED
  BY <1>2, <1>3, <1>4

(* The final block is for the locked-in bitset and made of all its values. *)
LEMMA FinalIs ==
    ASSUME NEW c, TemplateAt(c), FinalAt(c), NEW f \in c.final
    PROVE  f.template.bitset = c.best /\ Positions(f.values) = c.best
<1>1. f \in FinalBlocks(c) /\ Positions(c.data[rv]) = c.best
  BY DEF FinalAt
<1>2. PICK m \in c.data[bt] : f = [template |-> m.val, values |-> c.data[rv]]
  BY <1>1 DEF FinalBlocks, bt, rv
<1>3. f.template = m.val /\ f.values = c.data[rv]
  BY <1>2
<1>4. QED
  BY <1>1, <1>2, <1>3 DEF TemplateAt

(* Only validator n's own step, in the last stage, relays a signature by n, *)
(* and it is of n's final block.                                            *)
LEMMA SignatureSources ==
    ASSUME TypeOK, Relayed, NEW n \in Nodes, NEW c1, StepTo(n, c1)
    PROVE  \/ net'[sb] = net[sb]
           \/ /\ ctx[n].state = Signing
              /\ net'[sb] \subseteq net[sb] \cup {Message(n, b) : b \in ctx[n].final}
<1>0. DOMAIN net = Stages /\ sb \in Stages
  BY BlockStages DEF TypeOK, StageMessages, Stages
<1>1. CASE Leaves(n, c1)
  <2>1. net' = net \/ \E t : net' = [net EXCEPT !["block_template"] = @ \cup {t}]
    BY <1>1 DEF Leaves
  <2>2. QED
    BY <1>0, <2>1 DEF sb
<1>2. ASSUME NEW s \in Stages, NEW c, RunsStage(n, s, c, c1)
      PROVE  \/ net'[sb] = net[sb]
             \/ /\ ctx[n].state = Signing
                /\ net'[sb] \subseteq net[sb] \cup {Message(n, b) : b \in ctx[n].final}
  <2>1. StageStep(n, s, OwnOf(n, s), c, c1)
    BY <1>2 DEF RunsStage
  <2>2. net' = [net EXCEPT ![s] = @ \cup c.data[s]] /\ ctx[n].state = StageState[s]
    BY <2>1 DEF StageStep
  <2>3. CASE s # sb
    BY <1>0, <2>2, <2>3
  <2>4. CASE s = sb
    <3>1. OwnOf(n, sb) = {Message(n, b) : b \in ctx[n].final}
      BY DEF OwnOf, sb
    <3>2. c.data[sb] \subseteq ctx[n].data[sb] \cup ctx[n].queue[sb]
                               \cup {Message(n, b) : b \in ctx[n].final}
      BY <2>1, <2>4, <3>1 DEF StageStep
    <3>3. ctx[n].data[sb] \subseteq net[sb] /\ ctx[n].queue[sb] \subseteq net[sb]
      BY <1>0 DEF Relayed, RelayedAt, sb
    <3>4. QED
      BY <1>0, <2>2, <2>4, <3>2, <3>3, BlockStages
  <2>5. QED
    BY <2>3, <2>4
<1>3. CASE net' = net
  BY <1>3
<1>4. QED
  BY <1>1, <1>2, <1>3, SameNet

(* A validator that has not restarted signs one block. *)
LEMMA OneSignatureNext ==
    ASSUME TypeOK, Relayed, BlockContexts, OneSignature, NEW n \in Nodes, NEW c1, StepTo(n, c1)
    PROVE  OneSignature'
<1>0. /\ ctx' = [ctx EXCEPT ![n] = c1] /\ DOMAIN ctx = Nodes /\ c1 \in Contexts
      /\ restarts \in Nat /\ Validators \subseteq Nodes
  BY Frame, NodeFacts, PulseAssumption DEF TypeOK
<1>1. ASSUME NEW p \in Validators, p # n PROVE OneSignatureAt(p, ctx'[p], net')
  <2>1. ctx'[p] = ctx[p] /\ OneSignatureAt(p, ctx[p], net)
    BY <1>0, <1>1 DEF OneSignature
  <2>2. \A b : Message(n, b).pos = n
    BY DEF Message
  <2>3. OwnSignatures(p, net') \subseteq OwnSignatures(p, net)
    BY <1>1, <2>2, SignatureSources DEF OwnSignatures
  <2>4. QED
    BY <2>1, <2>3 DEF OneSignatureAt
<1>2. ASSUME n \in Validators, c1.gen = 0 PROVE OneSignatureAt(n, c1, net')
  <2>0. OneSignatureAt(n, ctx[n], net) /\ TemplateAt(ctx[n]) /\ FinalAt(ctx[n])
    BY <1>2 DEF OneSignature, BlockContexts, BlockAt
  <2>1. ~ Reboots(n, c1)
    BY <1>0, <1>2 DEF Reboots
  <2>2. ctx[n].gen = 0
    BY <1>2, <2>1, StaysBefore
  <2>3. CASE net'[sb] # net[sb]
    <3>1. /\ ctx[n].state = Signing
          /\ net'[sb] \subseteq net[sb] \cup {Message(n, b) : b \in ctx[n].final}
      BY <2>3, SignatureSources
    <3>2. ASSUME NEW m \in OwnSignatures(n, net')
          PROVE  m.val \in ctx[n].final /\ m = Message(n, m.val)
      <4>1. CASE m \in net[sb]
        <5>1. m.val \in ctx[n].final
          BY <2>0, <2>2, <3>1, <4>1 DEF OneSignatureAt, OwnSignatures
        <5>2. m \in [pos : Validators, val : Blocks] /\ m.pos = n
          BY <4>1 DEF OwnSignatures, TypeOK, StageMessages, sb
        <5>3. QED
          BY <5>1, <5>2 DEF Message
      <4>2. CASE m \notin net[sb]
        BY <3>1, <4>2 DEF OwnSignatures, Message
      <4>3. QED
        BY <4>1, <4>2
    <3>3. \A m1, m2 \in OwnSignatures(n, net') : m1 = m2
      BY <2>0, <3>2, OneFinal
    <3>4. c1.state \in Ended \/ (c1.state = Signing /\ c1.final = ctx[n].final)
      <4>1. CASE Grows(ctx[n], c1)
        <5>1. Rank[Signing] <= Rank[c1.state] /\ c1.state \in RoundStates
          BY <1>0, <3>1, <4>1 DEF Grows, Advances, Contexts
        <5>2. c1.state = Signing
          BY <5>1 DEF Rank, RoundStates, Signing
        <5>3. QED
          BY <3>1, <4>1, <5>2 DEF Grows, Advances, Signing, Revealing
      <4>2. QED
        BY <2>1, <4>1, StepGrows
    <3>5. QED
      BY <3>2, <3>3, <3>4 DEF OneSignatureAt, Ended, Signing
  <2>4. CASE net'[sb] = net[sb]
    <3>1. OwnSignatures(n, net') = OwnSignatures(n, net)
      BY <2>4 DEF OwnSignatures
    <3>2. CASE c1.state \in Ended
      BY <2>0, <2>2, <3>1, <3>2 DEF OneSignatureAt, Ended, Signing
    <3>3. CASE Grows(ctx[n], c1) /\ c1.state \notin Ended
      <4>1. ctx[n].state \notin Ended
        BY <3>3 DEF Grows, Advances
      <4>2. CASE ctx[n].state = Signing
        <5>1. Rank[Signing] <= Rank[c1.state] /\ c1.state \in RoundStates
          BY <1>0, <3>3, <4>2 DEF Grows, Advances, Contexts
        <5>2. c1.state = Signing
          BY <5>1 DEF Rank, RoundStates, Signing
        <5>3. c1.final = ctx[n].final
          BY <3>3, <4>2 DEF Grows, Advances, Signing, Revealing
        <5>4. QED
          BY <2>0, <2>2, <3>1, <4>2, <5>2, <5>3 DEF OneSignatureAt
      <4>3. CASE ctx[n].state # Signing
        <5>1. OwnSignatures(n, net') = {}
          BY <2>0, <2>2, <3>1, <4>1, <4>3 DEF OneSignatureAt
        <5>2. QED
          BY <5>1 DEF OneSignatureAt
      <4>4. QED
        BY <4>2, <4>3
    <3>4. QED
      BY <2>1, <3>2, <3>3, StepGrows
  <2>5. QED
    BY <2>3, <2>4
<1>3. ASSUME n \in Validators PROVE OneSignatureAt(n, c1, net')
  BY <1>2, <1>3 DEF OneSignatureAt
<1>4. ASSUME NEW p \in Validators PROVE OneSignatureAt(p, ctx'[p], net')
  BY <1>0, <1>1, <1>3
<1>5. QED
  BY <1>4 DEF OneSignature

-----------------------------------------------------------------------------
(* Blocks *)

(* A block that is submitted carries the first RequiredSignatures of the   *)
(* signatures received, all of its final block, by locked-in validators.   *)
LEMMA SubmittedVerifies ==
    ASSUME TypeOK, BlockContexts, NEW n \in Nodes, NEW c, NEW c1,
           StageStep(n, sb, OwnOf(n, sb), c, c1),
           NEW X \in FirstIndices(Positions(c.data[sb])), NEW b \in c.final,
           Positions(c.data[sb]) \subseteq c.best
    PROVE  /\ Cardinality(X) = RequiredSignatures
           /\ \A i \in X : /\ i \in Validators /\ i \in b.template.bitset
                           /\ Message(i, b) \in net'[sb]
           /\ Positions(b.values) = b.template.bitset
<1> DEFINE x == ctx[n]
<1>1. /\ c \in Contexts /\ c.best = x.best /\ c.final = x.final
      /\ \A m \in c.data[sb] \ x.data[sb] : Accepts(x, sb, m)
      /\ net' = [net EXCEPT ![sb] = @ \cup c.data[sb]]
  BY DEF StageStep
<1>2. TemplateAt(x) /\ FinalAt(x) /\ SignedAt(x)
  BY DEF BlockContexts, BlockAt
<1>3. b.template.bitset = x.best /\ Positions(b.values) = x.best
  BY <1>1, <1>2, FinalIs
<1>4. DOMAIN net = Stages
  BY DEF TypeOK, StageMessages, Stages
<1>5. ASSUME NEW i \in X
      PROVE  i \in Validators /\ i \in b.template.bitset /\ Message(i, b) \in net'[sb]
  <2>1. i \in Positions(c.data[sb])
    BY DEF FirstIndices
  <2>2. PICK m \in c.data[sb] : m.pos = i
    BY <2>1 DEF Positions
  <2>3. m.val \in x.final
    <3>1. Accepts(x, sb, m) => m.val \in x.final
      BY DEF Accepts, sb
    <3>2. QED
      BY <1>1, <1>2, <3>1 DEF SignedAt
  <2>4. m.val = b
    BY <1>1, <1>2, <2>3, OneFinal
  <2>5. m \in [pos : Validators, val : Blocks]
    BY <1>1 DEF Contexts, StageMessages, sb
  <2>6. m = Message(i, b) /\ i \in Validators
    BY <2>2, <2>4, <2>5 DEF Message
  <2>7. m \in net'[sb]
    BY <1>1, <1>4, BlockStages
  <2>8. QED
    BY <1>1, <1>3, <2>1, <2>6, <2>7
<1>6. Cardinality(X) = RequiredSignatures
  BY DEF FirstIndices
<1>7. QED
  BY <1>3, <1>5, <1>6

(* Blocks verify when they are made and ever after. *)
LEMMA BlocksVerifyNext ==
    ASSUME TypeOK, BlockContexts, BlocksVerify, NEW n \in Nodes, NEW c1, StepTo(n, c1)
    PROVE  BlocksVerify'
<1>0. net[sb] \subseteq net'[sb]
  BY Frame, BlockStages
<1>1. ASSUME NEW a \in blocks
      PROVE  /\ VerifyQuorumSignatures(a)'
             /\ Positions(a.block.values) = a.block.template.bitset
  BY <1>0 DEF BlocksVerify, VerifyQuorumSignatures, sb
<1>2. CASE blocks' = blocks
  BY <1>1, <1>2 DEF BlocksVerify
<1>3. ASSUME NEW c, StageStep(n, sb, OwnOf(n, sb), c, c1), Submits(c)
      PROVE  BlocksVerify'
  <2>1. PICK X \in FirstIndices(Positions(c.data[sb])), b \in c.final :
           /\ Positions(c.data[sb]) \subseteq c.best
           /\ blocks' = blocks \cup {[block |-> b, signatures |-> X]}
    BY <1>3 DEF Submits, sb
  <2> DEFINE a == [block |-> b, signatures |-> X]
  <2>2. /\ Cardinality(X) = RequiredSignatures
        /\ \A i \in X : /\ i \in Validators /\ i \in b.template.bitset
                        /\ Message(i, b) \in net'[sb]
        /\ Positions(b.values) = b.template.bitset
    BY <1>3, <2>1, SubmittedVerifies
  <2>3. a.block = b /\ a.signatures = X
    OBVIOUS
  <2> HIDE DEF a
  <2>4. VerifyQuorumSignatures(a)' /\ Positions(a.block.values) = a.block.template.bitset
    BY <2>2, <2>3 DEF VerifyQuorumSignatures, sb
  <2>5. QED
    BY <1>1, <2>1, <2>4 DEF BlocksVerify, a
<1>4. QED
  BY <1>2, <1>3, SameBlocks DEF sb

-----------------------------------------------------------------------------
(* The inductive invariant of the whole ceremony and what follows from it. *)

(* The invariant before the round. *)
LEMMA BlockInvInit == Init => BlockInv
<1> SUFFICES ASSUME Init PROVE BlockInv
  OBVIOUS
<1>1. BitsetInv
  BY BitsetInvInit
<1>2. /\ net[sb] = {} /\ blocks = {}
      /\ \A n \in Nodes : /\ ctx[n].queue = NoMessages /\ ctx[n].data = NoMessages
                          /\ ctx[n].best = {} /\ ctx[n].final = {}
  BY NewContextFacts, BlockStages DEF Init
<1>3. \A n \in Nodes : \A s \in {bt, rvh, rv, sb} : ctx[n].queue[s] = {} /\ ctx[n].data[s] = {}
  BY <1>2, EmptyStages, BlockStages
<1>4. BlockContexts
  BY <1>2, <1>3 DEF BlockContexts, BlockAt, TemplateAt, RevealAt, FinalAt, SignedAt, Positions
<1>5. OneSignature /\ BlocksVerify
  BY <1>2 DEF OneSignature, OneSignatureAt, OwnSignatures, BlocksVerify
<1>6. QED
  BY <1>1, <1>4, <1>5 DEF BlockInv

(* Every step keeps the invariant. *)
LEMMA BlockInvNext == BlockInv /\ [Next]_vars => BlockInv'
<1> SUFFICES ASSUME BlockInv, [Next]_vars PROVE BlockInv'
  OBVIOUS
<1>1. BitsetInv'
  BY BitsetInvNext DEF BlockInv
<1>2. CASE UNCHANGED vars
  <2>1. ctx' = ctx /\ net' = net /\ blocks' = blocks
    BY <1>2 DEF vars
  <2>2. BlockContexts' /\ OneSignature'
    BY <2>1 DEF BlockInv, BlockContexts, OneSignature
  <2>3. BlocksVerify'
    BY <2>1 DEF BlockInv, BlocksVerify, VerifyQuorumSignatures
  <2>4. QED
    BY <1>1, <2>2, <2>3 DEF BlockInv
<1>3. CASE Next
  <2>0. TypeOK /\ Relayed /\ NotYet /\ BlockContexts /\ OneSignature /\ BlocksVerify
    BY DEF BlockInv, BitsetInv
  <2>1. PICK n \in Nodes : StepOf(n)
    BY <1>3, <2>0, StepKinds
  <2>2. PICK c1 : StepTo(n, c1)
    BY <2>1 DEF StepOf
  <2>3. BlockContexts' /\ OneSignature' /\ BlocksVerify'
    BY <2>0, <2>2, BlockContextsNext, OneSignatureNext, BlocksVerifyNext
  <2>4. QED
    BY <1>1, <2>3 DEF BlockInv
<1>4. QED
  BY <1>2, <1>3

(* Two blocks share a signer that did not restart, and it signed one block. *)
LEMMA BlockInvUnique == QuorumsOverlap /\ BlockInv => UniqueBlock
<1> SUFFICES ASSUME QuorumsOverlap, BlockInv, NEW a \in blocks, NEW b \in blocks
             PROVE  a.block = b.block
  BY DEF UniqueBlock
<1>1. VerifyQuorumSignatures(a) /\ VerifyQuorumSignatures(b)
  BY DEF BlockInv, BlocksVerify
<1>2. /\ a.signatures \in SUBSET Validators /\ b.signatures \in SUBSET Validators
      /\ Cardinality(a.signatures) >= RequiredSignatures
      /\ Cardinality(b.signatures) >= RequiredSignatures
  BY <1>1, PulseAssumption DEF VerifyQuorumSignatures
<1>3. PICK p \in a.signatures \cap b.signatures : ctx[p].gen = 0
  BY <1>2, Overlap DEF BlockInv, BitsetInv
<1>4. /\ p \in Validators
      /\ Message(p, a.block) \in net[sb] /\ Message(p, b.block) \in net[sb]
  BY <1>1, <1>3 DEF VerifyQuorumSignatures, sb
<1>5. Message(p, a.block).pos = p /\ Message(p, b.block).pos = p
  BY DEF Message
<1>6. Message(p, a.block) = Message(p, b.block)
  BY <1>3, <1>4, <1>5 DEF BlockInv, OneSignature, OneSignatureAt, OwnSignatures
<1>7. QED
  BY <1>6 DEF Message

(* Commit before reveal: whatever the order of the messages, early ones    *)
(* included, a validator that reveals its random value holds the hash of   *)
(* every locked-in validator, and takes only values committed to.          *)
THEOREM RevealsCommitted == Spec => []CommitReveal
<1>1. Spec => []BlockInv
  BY BlockInvInit, BlockInvNext, PTL DEF Spec
<1>2. BlockInv => CommitReveal
  BY NodeFacts DEF BlockInv, BlockContexts, BlockAt, RevealAt, CommitReveal,
                   Revealing, Signing, rv, rvh
<1>3. QED
  BY <1>1, <1>2, PTL

(* Every block handed to core has RequiredSignatures valid signatures by   *)
(* validators in its bitset, and the random value of every one of them,    *)
(* for any number of validators, time-outs and restarts.                   *)
THEOREM SubmittedBlocksVerify == Spec => []BlocksVerify
<1>1. Spec => []BlockInv
  BY BlockInvInit, BlockInvNext, PTL DEF Spec
<1>2. BlockInv => BlocksVerify
  BY DEF BlockInv
<1>3. QED
  BY <1>1, <1>2, PTL

(* At most one block leaves a round, although validators that restart run  *)
(* it again and sign again, as long as two sets of RequiredSignatures      *)
(* share a validator that did not restart in the round.                    *)
THEOREM OneBlockPerRound ==
    ASSUME QuorumsOverlap
    PROVE  Spec => []UniqueBlock
<1>1. Spec => []BlockInv
  BY BlockInvInit, BlockInvNext, PTL DEF Spec
<1>2. BlockInv => UniqueBlock
  BY BlockInvUnique
<1>3. QED
  BY <1>1, <1>2, PTL

=============================================================================
