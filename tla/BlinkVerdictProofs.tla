------------------------- MODULE BlinkVerdictProofs -------------------------
(***************************************************************************)
(* The verdicts of one member of the blink subquorums and what it does     *)
(* about them, for every set of nodes, subquorums, transactions, threads   *)
(* and orders in which signatures come.                                    *)
(*                                                                         *)
(* A member that has not restarted signs a blink once: storing it is what  *)
(* starts the one thread that verifies it (OneSignature).  So the members  *)
(* that approve and those that reject are different ones, and no blink is  *)
(* approved() and rejected(), of whatever part of the signatures a member  *)
(* has (NotBoth).  Then the thread that makes a blink approved is always   *)
(* the one that finds it undecided before, and records and publishes it    *)
(* (RecordInv); and the transaction is in the pool then, since no approved *)
(* rival can have taken its place (RelayableInv).                          *)
(***************************************************************************)
EXTENDS BlinkProofs

Signs(n, ok, b) == <<b, Signature(n, ok)>> \in signed

(* The thread that is going to sign. *)
Verifies(th) == th.phase \in {"check", "add"}

(* Nobody signs both ways. *)
OneSignature ==
    /\ \A b \in Blinks : \A n \in Nodes : ~(Signs(n, TRUE, b) /\ Signs(n, FALSE, b))
    /\ \A b \in Blinks : \A ok \in BOOLEAN : Signs(Self, ok, b) =>
          b \in known /\ \A th \in work : th.blink = b => ~Verifies(th)
    /\ \A th \in work : Verifies(th) => th.blink \in known
    /\ \A x, y \in work : Verifies(x) /\ Verifies(y) /\ x.blink = y.blink => x = y

(* An approved blink is recorded, or about to be. *)
RecordInv ==
    \A b \in Blinks : Approved(b, sigs[b]) =>
       b.tx \in TxsOf(recorded) \/ \E th \in work : th.blink = b /\ th.phase = "record"

(* The transaction of one Self has approved is relayable, or about to be. *)
RelayableInv ==
    \A b \in Blinks : Approved(b, sigs[b]) /\ Signs(Self, TRUE, b) =>
       \/ b.tx \in relayable
       \/ \E th \in work : th.blink = b /\ th.phase \in {"record", "publish"}

(* The inductive invariant, for any subquorums. *)
VerdictInv ==
    /\ MemberInv /\ TypeOK /\ PoolsAgree
    /\ restarts = 0 => OneSignature /\ RecordInv

(* And for subquorums that are neighbours. *)
ApproverInv ==
    /\ VerdictInv /\ QuorumInv
    /\ restarts = 0 /\ dropped = {} => RelayableInv

-----------------------------------------------------------------------------
(* Types *)

(* What the quorum as a whole changes. *)
LEMMA QuorumTypes ==
    ASSUME TypeOK, PoolsAgree, MemberInv, [Next]_vars
    PROVE  /\ pool' \in [Nodes -> SUBSET Txs] /\ PoolsAgree'
           /\ signed' \subseteq Blinks \X Signatures /\ dropped' \subseteq Nodes
           /\ signed \subseteq signed' /\ dropped \subseteq dropped'
<1>0. /\ pool \in [Nodes -> SUBSET Txs]
      /\ signed \subseteq Blinks \X Signatures /\ dropped \subseteq Nodes
  BY DEF TypeOK
<1>1. CASE UNCHANGED Promise!vars
  <2>1. pool' = pool /\ signed' = signed /\ dropped' = dropped
    BY <1>1 DEF Promise!vars
  <2>2. PoolsAgree'
    BY <2>1 DEF PoolsAgree
  <2>3. QED
    BY <1>0, <2>1, <2>2
<1>2. CASE Promise!Next
  <2>1. ASSUME NEW n \in Nodes, NEW ok \in BOOLEAN
        PROVE  Promise!Signature(n, ok) \in Signatures
    BY DEF Promise!Signature, Signatures
  <2>2. \/ signed' = signed
        \/ \E d \in Blinks, x \in Signatures : signed' = signed \cup {<<d, x>>}
    BY <1>2, <2>1 DEF Promise!Next, Promise!Approve, Promise!Reject, Promise!Accept,
           Promise!GiveUp, Promise!AddTx, Promise!DropTx, Promise!Vote
  <2>3. signed' \subseteq Blinks \X Signatures
    BY <1>0, <2>2
  <2>4. dropped' \subseteq Nodes
    BY <1>0, <1>2 DEF Promise!Next, Promise!Approve, Promise!Reject, Promise!Accept,
           Promise!GiveUp, Promise!AddTx, Promise!DropTx, Promise!Vote
  <2>5. QED
    BY <1>0, <1>2, <2>3, <2>4, PoolsStep, SignedGrow
<1>3. QED
  BY <1>1, <1>2, NextRefines

(* remove_blink_conflicts and add_tx keep the flags of what stays. *)
LEMMA ReplaceFlags ==
    ASSUME pool \in [Nodes -> SUBSET Txs], NEW t, NEW kept, Replace(t, kept)
    PROVE  relayable' \subseteq pool'[Self] /\ relayable \cap pool'[Self] \subseteq relayable'
<1>1. Self \in Nodes
  BY MemberAssumption
<1> DEFINE now == (pool[Self] \ ConflictsIn(pool[Self], t)) \cup kept
<1>2. pool' = [pool EXCEPT ![Self] = now] /\ relayable' = (relayable \cap now) \cup kept
  BY DEF Replace
<1>3. kept \subseteq now
  OBVIOUS
<1> HIDE DEF now
<1>4. pool'[Self] = now
  BY <1>1, <1>2
<1>5. QED
  BY <1>2, <1>3, <1>4

(* Only what is in the pool is relayable, and it stays so while it is. *)
LEMMA FlagsStep ==
    ASSUME TypeOK, MemberInv, [Next]_vars
    PROVE  relayable' \subseteq pool'[Self] /\ relayable \cap pool'[Self] \subseteq relayable'
<1>0. /\ pool \in [Nodes -> SUBSET Txs] /\ relayable \subseteq pool[Self] /\ Self \in Nodes
  BY MemberAssumption DEF TypeOK
<1>1. CASE UNCHANGED <<pool, relayable>>
  BY <1>0, <1>1
<1>2. CASE UNCHANGED vars
  BY <1>1, <1>2 DEF vars, others
<1>3. CASE HandleBlink \/ HandleSignatures
  BY <1>1, <1>3 DEF HandleBlink, HandleSignatures, NotStarted, SubmitKnown, SubmitNew,
         RelayBlink, ReceiveSignatures, others
<1>4. ASSUME NEW th \in work, ThreadStep(th)
      PROVE  relayable' \subseteq pool'[Self] /\ relayable \cap pool'[Self] \subseteq relayable'
  <2>1. CASE StoreBlink(th) \/ CheckBlink(th) \/ AddSignatures(th) \/ RecordBlink(th)
    BY <1>1, <2>1 DEF StoreBlink, CheckBlink, AddSignatures, RecordBlink, others, poolState
  <2>2. CASE AddUnapproved(th)
    <3>1. UNCHANGED relayable
      BY <2>2 DEF AddUnapproved
    <3>2. UNCHANGED pool \/ pool' = [pool EXCEPT ![Self] = @ \cup {th.blink.tx}]
      BY <2>2 DEF AddUnapproved
    <3>3. QED
      BY <1>0, <1>1, <3>1, <3>2
  <2>3. CASE AddApproved(th)
    <3>1. \/ Replace(th.blink.tx, {th.blink.tx}) \/ Replace(th.blink.tx, {})
          \/ UNCHANGED <<pool, relayable>>
      BY <2>3 DEF AddApproved, poolState
    <3>2. QED
      BY <1>0, <1>1, <3>1, ReplaceFlags
  <2>4. CASE PublishBlink(th)
    BY <1>0, <2>4 DEF PublishBlink, SetRelayable, others
  <2>5. QED
    BY <1>4, <2>1, <2>2, <2>3, <2>4 DEF ThreadStep
<1>5. ASSUME NEW b \in Blinks, ReceiveApproved(b)
      PROVE  relayable' \subseteq pool'[Self] /\ relayable \cap pool'[Self] \subseteq relayable'
  <2>1. Replace(b.tx, {b.tx}) \/ Replace(b.tx, {}) \/ UNCHANGED <<pool, relayable>>
    BY <1>5 DEF ReceiveApproved
  <2>2. QED
    BY <1>0, <1>1, <2>1, ReplaceFlags
<1>6. ASSUME NEW t \in Txs, ReceiveTx(t) \/ FillPool(t)
      PROVE  relayable' \subseteq pool'[Self] /\ relayable \cap pool'[Self] \subseteq relayable'
  <2>1. CASE ReceiveTx(t)
    BY <1>0, <2>1 DEF ReceiveTx
  <2>2. CASE FillPool(t)
    BY <1>0, <2>2 DEF FillPool
  <2>3. QED
    BY <1>6, <2>1, <2>2
<1>7. CASE Restart
  BY <1>1, <1>7 DEF Restart, others
<1>8. ASSUME NEW n \in Nodes \ {Self}, OtherStep(n)
      PROVE  relayable' \subseteq pool'[Self] /\ relayable \cap pool'[Self] \subseteq relayable'
  <2>1. pool'[Self] = pool[Self] /\ UNCHANGED relayable
    BY <1>0, <1>8 DEF OtherStep, OtherVotes, OtherAccepts, OtherDrops, Promise!Approve,
           Promise!Reject, Promise!GiveWay, Promise!AddTx, Promise!DropTx
  <2>2. QED
    BY <1>0, <2>1
<1>9. QED
  BY <1>2, <1>3, <1>4, <1>5, <1>6, <1>7, <1>8 DEF Next, Environment

(* The rest of Self's state. *)
LEMMA MemberTypes ==
    ASSUME TypeOK, MemberInv, [Next]_vars
    PROVE  /\ known' \subseteq Blinks /\ tags' \subseteq Blinks /\ recorded' \subseteq Blinks
           /\ asks' \subseteq Asks /\ replies' \subseteq Blinks \X {"good", "bad", "nostart"}
           /\ restarts' \in 0..MaxRestarts
<1> DEFINE Fine == /\ known' \subseteq Blinks /\ tags' \subseteq Blinks
                   /\ recorded' \subseteq Blinks /\ asks' \subseteq Asks
                   /\ replies' \subseteq Blinks \X {"good", "bad", "nostart"}
                   /\ restarts' \in 0..MaxRestarts
<1>0. /\ known \subseteq Blinks /\ tags \subseteq Blinks /\ recorded \subseteq Blinks
      /\ asks \subseteq Asks /\ replies \subseteq Blinks \X {"good", "bad", "nostart"}
      /\ restarts \in 0..MaxRestarts
  BY DEF TypeOK
<1>1. CASE UNCHANGED <<known, tags, recorded, asks, replies, restarts>>
  BY <1>0, <1>1
<1>2. CASE UNCHANGED vars
  BY <1>1, <1>2 DEF vars, quorumState
<1>3. ASSUME NEW b \in Blinks,
             NotStarted(b) \/ SubmitKnown(b) \/ SubmitNew(b) \/ RelayBlink(b)
      PROVE  Fine
  <2>1. known' \subseteq Blinks /\ tags' \subseteq Blinks /\ UNCHANGED <<recorded, restarts>>
    BY <1>0, <1>3 DEF NotStarted, SubmitKnown, SubmitNew, RelayBlink, Stored, quorumState
  <2>2. asks' \subseteq asks
    BY <1>3 DEF NotStarted, SubmitKnown, SubmitNew, RelayBlink
  <2>3. \E result \in {"good", "bad", "nostart"} :
           replies' \in {replies, replies \cup {<<b, result>>}}
    BY <1>3 DEF NotStarted, SubmitKnown, SubmitNew, RelayBlink
  <2>4. replies' \subseteq Blinks \X {"good", "bad", "nostart"}
    BY <1>0, <2>3
  <2>5. QED
    BY <1>0, <2>1, <2>2, <2>4
<1>4. CASE HandleSignatures
  BY <1>1, <1>4 DEF HandleSignatures, ReceiveSignatures
<1>5. ASSUME NEW th \in work, ThreadStep(th)
      PROVE  Fine
  <2>0. th.blink \in Blinks
    BY DEF MemberInv, GoodThread, Threads
  <2>1. CASE StoreBlink(th)
    BY <1>0, <2>0, <2>1 DEF StoreBlink, Stored
  <2>2. CASE CheckBlink(th) \/ AddUnapproved(th)
    BY <1>1, <2>2 DEF CheckBlink, AddUnapproved, poolState, quorumState
  <2>3. CASE AddApproved(th)
    BY <1>0, <2>0, <2>3 DEF AddApproved, poolState, quorumState
  <2>4. CASE AddSignatures(th)
    <3>1. replies' \in {replies, replies \cup {<<th.blink, "bad">>}}
      BY <2>4 DEF AddSignatures, Replies
    <3>2. replies' \subseteq Blinks \X {"good", "bad", "nostart"}
      BY <1>0, <2>0, <3>1
    <3>3. UNCHANGED <<known, tags, recorded, asks, restarts>>
      BY <2>4 DEF AddSignatures
    <3>4. QED
      BY <1>0, <3>2, <3>3
  <2>5. CASE RecordBlink(th)
    BY <1>0, <2>0, <2>5 DEF RecordBlink, quorumState
  <2>6. CASE PublishBlink(th)
    BY <1>0, <2>0, <2>6 DEF PublishBlink, Replies, quorumState
  <2>7. QED
    BY <1>5, <2>1, <2>2, <2>3, <2>4, <2>5, <2>6 DEF ThreadStep
<1>6. CASE Environment
  <2>1. ASSUME NEW b \in Blinks, ReceiveApproved(b)
        PROVE  Fine
    BY <1>0, <2>1 DEF ReceiveApproved, quorumState
  <2>2. ASSUME NEW t \in Txs, ReceiveTx(t) \/ FillPool(t)
        PROVE  Fine
    BY <1>1, <2>2 DEF ReceiveTx, FillPool, quorumState
  <2>3. CASE Restart
    BY <1>0, <2>3, MemberAssumption DEF Restart
  <2>4. ASSUME NEW n \in Nodes \ {Self}, OtherStep(n)
        PROVE  Fine
    BY <1>1, <2>4 DEF OtherStep, quorumState
  <2>5. QED
    BY <1>6, <2>1, <2>2, <2>3, <2>4 DEF Environment
<1>7. QED
  BY <1>2, <1>3, <1>4, <1>5, <1>6 DEF Next, HandleBlink

(* Every step keeps the types. *)
LEMMA TypeStep ==
    ASSUME TypeOK, PoolsAgree, MemberInv, [Next]_vars
    PROVE  TypeOK' /\ PoolsAgree'
<1>1. MemberInv'
  BY MemberStep
<1>2. /\ sigs' \in [Blinks -> SUBSET Signatures] /\ pending' \in [Blinks -> SUBSET Signatures]
      /\ work' \subseteq Threads
  BY <1>1 DEF MemberInv, GoodThread
<1>3. relayable' \subseteq pool'[Self]
  BY FlagsStep
<1>4. QED
  BY <1>2, <1>3, QuorumTypes, MemberTypes DEF TypeOK

-----------------------------------------------------------------------------
(* One signature of each member *)

(* A step that signs nothing and starts no verification. *)
LEMMA SignatureKept ==
    ASSUME OneSignature, known \subseteq known', signed' = signed,
           \A x \in work' : x \in work \/ ~Verifies(x)
    PROVE  OneSignature'
<1>1. \A b \in Blinks : \A n \in Nodes : \A ok \in BOOLEAN : Signs(n, ok, b)' = Signs(n, ok, b)
  BY DEF Signs
<1>2. \A b \in Blinks : \A ok \in BOOLEAN : Signs(Self, ok, b)' = Signs(Self, ok, b)
  BY DEF Signs
<1>3. \A x : Verifies(x)' = Verifies(x)
  BY DEF Verifies
<1>4. QED
  BY <1>1, <1>2, <1>3 DEF OneSignature

(* Storing a blink starts the one thread that verifies it. *)
LEMMA SignatureStore ==
    ASSUME OneSignature, NEW b \in Blinks, b \notin known, known' = known \cup {b},
           signed' = signed, NEW next, next.blink = b,
           \A x \in work' : x \in work \/ x = next
    PROVE  OneSignature'
<1>1. \A d \in Blinks : \A n \in Nodes : \A ok \in BOOLEAN : Signs(n, ok, d)' = Signs(n, ok, d)
  BY DEF Signs
<1>2. \A d \in Blinks : \A ok \in BOOLEAN : Signs(Self, ok, d)' = Signs(Self, ok, d)
  BY DEF Signs
<1>3. \A x : Verifies(x)' = Verifies(x)
  BY DEF Verifies
<1>4. \A x \in work : Verifies(x) => x.blink # b
  BY DEF OneSignature
<1>5. \A ok \in BOOLEAN : ~Signs(Self, ok, b)
  BY DEF OneSignature
<1>6. ASSUME NEW d \in Blinks, NEW ok \in BOOLEAN, Signs(Self, ok, d)
      PROVE  d \in known' /\ \A th \in work' : th.blink = d => ~Verifies(th)
  BY <1>5, <1>6 DEF OneSignature
<1>7. \A x \in work' : Verifies(x) => x.blink \in known'
  BY DEF OneSignature
<1>8. \A x, y \in work' : Verifies(x) /\ Verifies(y) /\ x.blink = y.blink => x = y
  BY <1>4 DEF OneSignature
<1>9. QED
  BY <1>1, <1>2, <1>3, <1>6, <1>7, <1>8 DEF OneSignature

(* It goes on to add_tx. *)
LEMMA SignatureAdd ==
    ASSUME OneSignature, NEW th \in work, Verifies(th), NEW next, next.blink = th.blink,
           work' = (work \ {th}) \cup {next}, known' = known, signed' = signed
    PROVE  OneSignature'
<1>1. \A d \in Blinks : \A n \in Nodes : \A ok \in BOOLEAN : Signs(n, ok, d)' = Signs(n, ok, d)
  BY DEF Signs
<1>2. \A d \in Blinks : \A ok \in BOOLEAN : Signs(Self, ok, d)' = Signs(Self, ok, d)
  BY DEF Signs
<1>3. \A x : Verifies(x)' = Verifies(x)
  BY DEF Verifies
<1>4. \A x \in work \ {th} : Verifies(x) => x.blink # th.blink
  BY DEF OneSignature
<1>5. \A d \in Blinks : \A ok \in BOOLEAN : Signs(Self, ok, d) => th.blink # d
  BY DEF OneSignature
<1>6. QED
  BY <1>1, <1>2, <1>3, <1>4, <1>5 DEF OneSignature

(* It signs, and nothing has been signed for the blink before. *)
LEMMA SignatureSign ==
    ASSUME OneSignature, NEW th \in work, Verifies(th), th.blink \in Blinks,
           NEW ok \in BOOLEAN, Sign(th, ok), known' = known
    PROVE  OneSignature'
<1> DEFINE b == th.blink
           next == Thread(b, "sigs", th.tag, th.sigs \cup {Signature(Self, ok)})
<1>0. Self \in Nodes
  BY MemberAssumption
<1>1. signed' = signed \cup {<<b, Signature(Self, ok)>>} /\ work' = (work \ {th}) \cup {next}
  BY DEF Sign, Goes
<1>2. ~Verifies(next)
  BY PhaseOf DEF Verifies
<1> HIDE DEF next
<1>3. \A x : Verifies(x)' = Verifies(x)
  BY DEF Verifies
<1>4. \A d \in Blinks : \A n \in Nodes : \A v \in BOOLEAN :
         Signs(n, v, d)' <=> Signs(n, v, d) \/ (d = b /\ n = Self /\ v = ok)
  BY <1>1 DEF Signs, Signature
<1>5. \A v \in BOOLEAN : ~Signs(Self, v, b)
  BY DEF OneSignature
<1>6. \A d \in Blinks : \A n \in Nodes : ~(Signs(n, TRUE, d)' /\ Signs(n, FALSE, d)')
  BY <1>4, <1>5 DEF OneSignature
<1>7. b \in known /\ \A x \in work' : x.blink = b => ~Verifies(x)
  BY <1>1, <1>2 DEF OneSignature
<1>8. ASSUME NEW d \in Blinks, NEW v \in BOOLEAN, Signs(Self, v, d)'
      PROVE  d \in known' /\ \A x \in work' : x.blink = d => ~Verifies(x)
  BY <1>0, <1>1, <1>2, <1>4, <1>7, <1>8 DEF OneSignature
<1>9. \A x, y \in work' : Verifies(x) /\ Verifies(y) /\ x.blink = y.blink => x = y
  BY <1>1, <1>2 DEF OneSignature
<1>10. \A x \in work' : Verifies(x) => x.blink \in known'
  BY <1>1, <1>2 DEF OneSignature
<1>11. QED
  BY <1>3, <1>6, <1>8, <1>9, <1>10 DEF OneSignature

(* Another member votes, once. *)
LEMMA SignatureOther ==
    ASSUME OneSignature, NEW n \in Nodes \ {Self}, NEW b \in Blinks, ~HasVoted(n, b),
           NEW ok \in BOOLEAN, Promise!Vote(n, b, ok), UNCHANGED <<known, work>>
    PROVE  OneSignature'
<1>0. known' = known /\ work' = work
  OBVIOUS
<1>1. signed' = signed \cup {<<b, Signature(n, ok)>>}
  BY SameOperators DEF Promise!Vote
<1>2. \A v \in BOOLEAN : ~Signs(n, v, b)
  <2>1. ASSUME NEW v \in BOOLEAN, Signs(n, v, b) PROVE FALSE
    <3>1. Signature(n, v) \in Promise!SignedFor(b)
      BY <2>1 DEF Signs, Promise!SignedFor, Promise!Signatures, Signature
    <3>2. Signature(n, v).by = n
      BY DEF Signature
    <3>3. QED
      BY <3>1, <3>2 DEF HasVoted
  <2>2. QED
    BY <2>1
<1>3. \A d \in Blinks : \A m \in Nodes : \A v \in BOOLEAN :
         Signs(m, v, d)' <=> Signs(m, v, d) \/ (d = b /\ m = n /\ v = ok)
  BY <1>1 DEF Signs, Signature
<1>4. \A d \in Blinks : \A m \in Nodes : ~(Signs(m, TRUE, d)' /\ Signs(m, FALSE, d)')
  BY <1>2, <1>3 DEF OneSignature
<1>5. \A d \in Blinks : \A v \in BOOLEAN : Signs(Self, v, d)' => Signs(Self, v, d)
  BY <1>3, MemberAssumption
<1>6. \A x : Verifies(x)' = Verifies(x)
  BY DEF Verifies
<1>7. QED
  BY <1>0, <1>4, <1>5, <1>6 DEF OneSignature

(* Every step but a restart keeps the signatures single. *)
LEMMA SignatureStep ==
    ASSUME TypeOK, MemberInv, OneSignature, [Next]_vars, restarts' = 0
    PROVE  OneSignature'
<1>0. /\ restarts \in Nat
      /\ \A th \in work : th.blink \in Blinks
  BY MemberAssumption DEF TypeOK, MemberInv, GoodThread, Threads
<1>1. ASSUME UNCHANGED <<known, signed, work>> PROVE OneSignature'
  BY <1>1, SignatureKept
<1>2. CASE UNCHANGED vars
  BY <1>1, <1>2 DEF vars, others, quorumState
<1>3. ASSUME NEW b \in Blinks,
             NotStarted(b) \/ SubmitKnown(b) \/ SubmitNew(b) \/ RelayBlink(b)
      PROVE  OneSignature'
  <2>1. CASE NotStarted(b) \/ SubmitKnown(b)
    BY <1>1, <2>1 DEF NotStarted, SubmitKnown, others, quorumState
  <2>2. CASE SubmitNew(b)
    <3>1. known' = known /\ signed' = signed /\ work' = work \cup {Thread(b, "store", TRUE, {})}
      BY <2>2 DEF SubmitNew, Starts, others, quorumState
    <3>2. ~Verifies(Thread(b, "store", TRUE, {}))
      BY DEF Verifies, Thread
    <3>3. known \subseteq known' /\ \A x \in work' : x \in work \/ ~Verifies(x)
      BY <3>1, <3>2
    <3>4. QED
      BY <3>1, <3>3, SignatureKept
  <2>3. CASE RelayBlink(b)
    <3> DEFINE next == Thread(b, "check", FALSE, pending[b])
    <3>1. /\ b \notin known /\ known' = known \cup {b} /\ signed' = signed
          /\ work' = work \cup {next}
      BY <2>3 DEF RelayBlink, Stored, Starts, others
    <3>2. next.blink = b
      BY DEF Thread
    <3> HIDE DEF next
    <3>3. \A x \in work' : x \in work \/ x = next
      BY <3>1
    <3>4. QED
      BY <3>1, <3>2, <3>3, SignatureStore
  <2>4. QED
    BY <1>3, <2>1, <2>2, <2>3
<1>4. ASSUME NEW b \in Blinks, NEW S, ReceiveSignatures(b, S)
      PROVE  OneSignature'
  <2>1. known' = known /\ signed' = signed
    BY <1>4 DEF ReceiveSignatures, others
  <2>2. \A x \in work' : x \in work \/ x = Thread(b, "sigs", b \in tags, S)
    BY <1>4 DEF ReceiveSignatures, Starts
  <2>3. ~Verifies(Thread(b, "sigs", b \in tags, S))
    BY PhaseOf DEF Verifies
  <2>4. QED
    BY <2>1, <2>2, <2>3, SignatureKept
<1>5. ASSUME NEW th \in work, ThreadStep(th)
      PROVE  OneSignature'
  <2> DEFINE b == th.blink
  <2>0. b \in Blinks
    BY <1>0
  <2>1. CASE StoreBlink(th)
    <3>1. CASE Ends(th) /\ UNCHANGED known
      BY <2>1, <3>1, SignatureKept DEF StoreBlink, Ends, others
    <3>2. CASE /\ b \notin known /\ Stored(b, TRUE)
               /\ Goes(th, Thread(b, "check", TRUE, pending[b]))
      <4> DEFINE next == Thread(b, "check", TRUE, pending[b])
      <4>1. /\ b \notin known /\ known' = known \cup {b} /\ signed' = signed
            /\ work' = (work \ {th}) \cup {next}
        BY <2>1, <3>2 DEF StoreBlink, Stored, Goes, others
      <4>2. next.blink = b
        BY DEF Thread
      <4> HIDE DEF next, b
      <4>3. \A x \in work' : x \in work \/ x = next
        BY <4>1
      <4>4. QED
        BY <2>0, <4>1, <4>2, <4>3, SignatureStore
    <3>3. QED
      BY <2>1, <3>1, <3>2 DEF StoreBlink
  <2>2. CASE CheckBlink(th)
    <3>1. Verifies(th) /\ known' = known
      BY <2>2 DEF CheckBlink, Verifies, quorumState
    <3>2. CASE Sign(th, FALSE)
      BY <2>0, <3>1, <3>2, SignatureSign
    <3>3. CASE Goes(th, Thread(b, "add", th.tag, th.sigs)) /\ UNCHANGED signed
      <4> DEFINE next == Thread(b, "add", th.tag, th.sigs)
      <4>1. next.blink = th.blink
        BY PhaseOf
      <4>2. work' = (work \ {th}) \cup {next}
        BY <3>3 DEF Goes
      <4> HIDE DEF next
      <4>3. QED
        BY <3>1, <3>3, <4>1, <4>2, SignatureAdd
    <3>4. QED
      BY <2>2, <3>2, <3>3 DEF CheckBlink
  <2>3. CASE AddUnapproved(th) \/ AddApproved(th)
    <3>1. Verifies(th) /\ known' = known /\ \E ok \in BOOLEAN : Sign(th, ok)
      BY <2>3 DEF AddUnapproved, AddApproved, Verifies, quorumState
    <3>2. QED
      BY <2>0, <3>1, SignatureSign
  <2>4. CASE AddSignatures(th) \/ RecordBlink(th) \/ PublishBlink(th)
    <3>1. known' = known /\ signed' = signed
      BY <2>4 DEF AddSignatures, RecordBlink, PublishBlink, others, quorumState
    <3>2. \/ Ends(th)
          \/ \E phase \in {"record", "publish"} : \E S : Goes(th, Thread(b, phase, th.tag, S))
      BY <2>4 DEF AddSignatures, RecordBlink, PublishBlink
    <3>3. \A x \in work' : x \in work \/ ~Verifies(x)
      BY <3>2, PhaseOf DEF Ends, Goes, Verifies
    <3>4. QED
      BY <3>1, <3>3, SignatureKept
  <2>5. QED
    BY <1>5, <2>1, <2>2, <2>3, <2>4 DEF ThreadStep
<1>6. ASSUME NEW d \in Blinks, ReceiveApproved(d) PROVE OneSignature'
  BY <1>1, <1>6 DEF ReceiveApproved, quorumState
<1>7. ASSUME NEW t \in Txs, ReceiveTx(t) \/ FillPool(t) PROVE OneSignature'
  BY <1>1, <1>7 DEF ReceiveTx, FillPool, quorumState
<1>8. ~Restart
  BY <1>0 DEF Restart
<1>9. ASSUME NEW n \in Nodes \ {Self}, OtherStep(n) PROVE OneSignature'
  <2>1. UNCHANGED <<known, work>>
    BY <1>9 DEF OtherStep, quorumState
  <2>2. CASE signed' = signed
    BY <1>1, <2>1, <2>2
  <2>3. ASSUME NEW d \in Blinks, OtherVotes(n, d) PROVE OneSignature'
    BY <2>1, <2>3, SignatureOther DEF OtherVotes, Promise!Approve, Promise!Reject
  <2>4. QED
    BY <1>9, <2>2, <2>3 DEF OtherStep, OtherAccepts, OtherDrops, Promise!AddTx, Promise!DropTx
<1>10. QED
  BY <1>2, <1>3, <1>4, <1>5, <1>6, <1>7, <1>8, <1>9
     DEF Next, HandleBlink, HandleSignatures, Environment

-----------------------------------------------------------------------------
(* Verdicts *)

(* approved() wants MinVotes approvals of each subquorum, rejected() more   *)
(* rejections of one than leave room for them.                              *)
LEMMA NotBoth ==
    ASSUME OneSignature, NEW b \in Blinks,
           NEW S, \A s \in S : <<b, s>> \in signed, Approved(b, S),
           NEW T, \A s \in T : <<b, s>> \in signed, Rejected(b, T)
    PROVE  FALSE
<1>1. PICK h \in QuorumHeights(b) :
        Cardinality(SignersOf(T, FALSE) \cap Quorum[h])
          + (Size - Cardinality(Quorum[h])) > Size - MinVotes
  BY DEF Rejected
<1> DEFINE Q == Quorum[h]
           V == SignersOf(S, TRUE) \cap Q
           W == SignersOf(T, FALSE) \cap Q
<1>2. Cardinality(V) >= MinVotes
  BY DEF Approved
<1>3. IsFiniteSet(Q)
  <2>1. Q \subseteq Nodes /\ IsFiniteSet(Nodes)
    BY BlinkAssumption
  <2>2. QED
    BY <2>1, FS_Subset
<1>4. V \cap W = {}
  BY DEF OneSignature, SignersOf, Signs
<1>5. V \in SUBSET Q /\ W \in SUBSET Q /\ V \cup W \in SUBSET Q
  OBVIOUS
<1>6. Cardinality(W) + (Size - Cardinality(Q)) > Size - MinVotes
  BY <1>1
<1> HIDE DEF Q, V, W
<1>7. IsFiniteSet(V) /\ IsFiniteSet(W) /\ Cardinality(V \cup W) <= Cardinality(Q)
  BY <1>3, <1>5, FS_Subset
<1>8. Cardinality(V) \in Nat /\ Cardinality(W) \in Nat /\ Cardinality(Q) \in Nat
  BY <1>3, <1>7, FS_CardinalityType
<1>9. Cardinality(V \cup W) = Cardinality(V) + Cardinality(W)
  <2>1. Cardinality(V \cup W) = Cardinality(V) + Cardinality(W) - Cardinality(V \cap W)
    BY <1>7, FS_Union
  <2>2. Cardinality(V \cap W) = 0
    BY <1>4, FS_EmptySet
  <2>3. QED
    BY <1>8, <2>1, <2>2
<1>10. QED
  BY <1>2, <1>6, <1>7, <1>8, <1>9, BlinkAssumption

-----------------------------------------------------------------------------
(* Recording and publishing *)

(* Threads go on one at a time. *)
LEMMA ThreadsStay ==
    ASSUME [Next]_vars, restarts \in Nat, restarts' = 0
    PROVE  \/ \E th \in work : ThreadStep(th) /\ work \ {th} \subseteq work'
           \/ /\ work \subseteq work' /\ sigs' = sigs
              /\ \A b : Signs(Self, TRUE, b)' => Signs(Self, TRUE, b)
              /\ recorded \subseteq recorded'
<1> DEFINE Stay == /\ work \subseteq work' /\ sigs' = sigs
                   /\ \A b : Signs(Self, TRUE, b)' => Signs(Self, TRUE, b)
                   /\ recorded \subseteq recorded'
<1>0. signed' = signed => \A b : Signs(Self, TRUE, b)' => Signs(Self, TRUE, b)
  BY DEF Signs
<1>1. CASE UNCHANGED vars
  BY <1>0, <1>1 DEF vars, others, quorumState
<1>2. CASE HandleBlink \/ HandleSignatures
  <2>1. work \subseteq work' /\ sigs' = sigs /\ signed' = signed /\ recorded' = recorded
    BY <1>2 DEF HandleBlink, HandleSignatures, NotStarted, SubmitKnown, SubmitNew, RelayBlink,
           ReceiveSignatures, Starts, others, quorumState
  <2>2. QED
    BY <1>0, <2>1
<1>3. ASSUME NEW th \in work, ThreadStep(th) PROVE work \ {th} \subseteq work'
  BY <1>3 DEF ThreadStep, StoreBlink, CheckBlink, AddUnapproved, AddApproved, AddSignatures,
         RecordBlink, PublishBlink, Sign, Goes, Ends
<1>4. ASSUME NEW b \in Blinks, ReceiveApproved(b) PROVE Stay
  BY <1>0, <1>4 DEF ReceiveApproved, quorumState
<1>5. ASSUME NEW t \in Txs, ReceiveTx(t) \/ FillPool(t) PROVE Stay
  BY <1>0, <1>5 DEF ReceiveTx, FillPool, quorumState
<1>6. ~Restart
  BY DEF Restart
<1>7. ASSUME NEW n \in Nodes \ {Self}, OtherStep(n) PROVE Stay
  <2>1. work' = work /\ sigs' = sigs /\ recorded' = recorded
    BY <1>7 DEF OtherStep, quorumState
  <2>2. \/ signed' = signed
        \/ \E b \in Blinks, ok \in BOOLEAN : signed' = signed \cup {<<b, Signature(n, ok)>>}
    BY <1>7, SameOperators DEF OtherStep, OtherVotes, OtherAccepts, OtherDrops,
           Promise!Approve, Promise!Reject, Promise!AddTx, Promise!DropTx, Promise!Vote
  <2>3. \A ok \in BOOLEAN : Signature(n, ok) # Signature(Self, TRUE)
    BY DEF Signature
  <2>4. \A b : Signs(Self, TRUE, b)' => Signs(Self, TRUE, b)
    <3>1. CASE signed' = signed
      BY <1>0, <3>1
    <3>2. ASSUME NEW d \in Blinks, NEW ok \in BOOLEAN,
                 signed' = signed \cup {<<d, Signature(n, ok)>>}
          PROVE  \A b : Signs(Self, TRUE, b)' => Signs(Self, TRUE, b)
      <4> DEFINE mine == Signature(Self, TRUE)
                 other == Signature(n, ok)
      <4>1. mine # other
        BY <2>3
      <4> HIDE DEF mine, other
      <4>2. \A b : <<b, mine>> \in signed' => <<b, mine>> \in signed
        BY <3>2, <4>1 DEF other
      <4>3. QED
        BY <4>2 DEF Signs, mine
    <3>3. QED
      BY <2>2, <3>1, <3>2
  <2>5. QED
    BY <2>1, <2>4
<1>8. QED
  BY <1>1, <1>2, <1>3, <1>4, <1>5, <1>6, <1>7 DEF Next, Environment

(* Signatures that make a blink approved find it undecided. *)
LEMMA TurnsApproved ==
    ASSUME MemberInv, OneSignature, NEW th \in work, AddSignatures(th), NEW b \in Blinks,
           Approved(b, sigs'[b]), ~Approved(b, sigs[b])
    PROVE  \E x \in work' : x.blink = b /\ x.phase = "record"
<1>0. GoodThread(th) /\ sigs \in [Blinks -> SUBSET Signatures] /\ th.blink \in Blinks
  BY DEF MemberInv, GoodThread, Threads
<1>1. PICK new \in Additions(sigs[th.blink], th.sigs) :
        /\ sigs' = [sigs EXCEPT ![th.blink] = sigs[th.blink] \cup new]
        /\ \/ /\ Turned(th.blink, sigs[th.blink], new)
              /\ Approved(th.blink, sigs[th.blink] \cup new)
              /\ Goes(th, Thread(th.blink, "record", th.tag, new))
           \/ ~(/\ Turned(th.blink, sigs[th.blink], new)
                /\ Approved(th.blink, sigs[th.blink] \cup new))
  BY DEF AddSignatures, Decided
<1>2. b = th.blink
  BY <1>0, <1>1
<1>3. sigs'[b] = sigs[b] \cup new /\ new \subseteq th.sigs
  BY <1>0, <1>1, <1>2 DEF Additions
<1>4. new # {}
  BY <1>3
<1>5. ~Rejected(b, sigs[b])
  <2>1. \A s \in sigs[b] : <<b, s>> \in signed
    BY DEF MemberInv
  <2>2. \A s \in sigs'[b] : <<b, s>> \in signed
    BY <1>0, <1>2, <1>3, <2>1 DEF GoodThread
  <2>3. QED
    BY <2>1, <2>2, NotBoth
<1>6. Turned(b, sigs[b], new)
  BY <1>4, <1>5 DEF Turned, Decided
<1>7. Goes(th, Thread(b, "record", th.tag, new))
  BY <1>1, <1>2, <1>3, <1>6
<1>8. QED
  BY <1>7, PhaseOf DEF Goes

(* m_blinks does not lose a transaction. *)
LEMMA RecordedGrow ==
    ASSUME NEW th \in work, ThreadStep(th)
    PROVE  TxsOf(recorded) \subseteq TxsOf(recorded')
<1>1. CASE AddApproved(th)
  <2>1. recorded' = recorded \/ recorded' = {r \in recorded : r.tx # th.blink.tx} \cup {th.blink}
    BY <1>1 DEF AddApproved, poolState
  <2>2. QED
    BY <2>1 DEF TxsOf
<1>2. CASE ~AddApproved(th)
  <2>1. recorded \subseteq recorded'
    BY <1>2 DEF ThreadStep, StoreBlink, CheckBlink, AddUnapproved, AddSignatures,
           RecordBlink, PublishBlink, poolState
  <2>2. QED
    BY <2>1 DEF TxsOf
<1>3. QED
  BY <1>1, <1>2

(* A thread's step and the approved blinks it leaves to record. *)
LEMMA RecordThread ==
    ASSUME MemberInv, OneSignature, RecordInv, NEW th \in work, ThreadStep(th),
           work \ {th} \subseteq work'
    PROVE  RecordInv'
<1> SUFFICES ASSUME NEW b \in Blinks, Approved(b, sigs'[b])
             PROVE  \/ b.tx \in TxsOf(recorded')
                    \/ \E x \in work' : x.blink = b /\ x.phase = "record"
  BY DEF RecordInv
<1>1. TxsOf(recorded) \subseteq TxsOf(recorded')
  BY RecordedGrow
<1>2. CASE ~Approved(b, sigs[b])
  <2>1. AddSignatures(th)
    BY <1>2 DEF ThreadStep, StoreBlink, CheckBlink, AddUnapproved, AddApproved,
           RecordBlink, PublishBlink, quorumState
  <2>2. QED
    BY <1>2, <2>1, TurnsApproved
<1>3. CASE Approved(b, sigs[b])
  <2>1. CASE b.tx \in TxsOf(recorded)
    BY <1>1, <2>1
  <2>2. ASSUME NEW x \in work, x.blink = b, x.phase = "record"
        PROVE  \/ b.tx \in TxsOf(recorded')
               \/ \E y \in work' : y.blink = b /\ y.phase = "record"
    <3>1. CASE x # th
      BY <2>2, <3>1
    <3>2. CASE x = th
      <4>1. RecordBlink(th)
        BY <2>2, <3>2 DEF ThreadStep, StoreBlink, CheckBlink, AddUnapproved, AddApproved,
               AddSignatures, PublishBlink
      <4>2. b.tx \in TxsOf(recorded')
        BY <2>2, <3>2, <4>1 DEF RecordBlink, TxsOf
      <4>3. QED
        BY <4>2
    <3>3. QED
      BY <3>1, <3>2
  <2>3. QED
    BY <1>3, <2>1, <2>2 DEF RecordInv
<1>4. QED
  BY <1>2, <1>3

(* Approved blinks stay recorded. *)
LEMMA RecordStep ==
    ASSUME TypeOK, MemberInv, OneSignature, RecordInv, [Next]_vars, restarts' = 0
    PROVE  RecordInv'
<1>0. restarts \in Nat
  BY MemberAssumption DEF TypeOK
<1>1. CASE work \subseteq work' /\ sigs' = sigs /\ recorded \subseteq recorded'
  <2>1. TxsOf(recorded) \subseteq TxsOf(recorded')
    BY <1>1 DEF TxsOf
  <2>2. QED
    BY <1>1, <2>1 DEF RecordInv
<1>2. QED
  BY <1>0, <1>1, ThreadsStay, RecordThread

(* With no pool overflowing, two majorities have a voter in common. *)
LEMMA NoneDropped == FewDropped({})
<1> SUFFICES ASSUME NEW b \in Blinks, NEW h \in QuorumHeights(b)
             PROVE  Cardinality({} \cap Quorum[h]) < 2 * MinVotes - Cardinality(Quorum[h])
  BY DEF FewDropped
<1>1. Cardinality({} \cap Quorum[h]) = 0
  <2>1. {} \cap Quorum[h] = {}
    OBVIOUS
  <2>2. QED
    BY <2>1, FS_EmptySet
<1>2. Cardinality(Quorum[h]) \in MinVotes..Size /\ 2 * MinVotes > Size
      /\ MinVotes \in Nat /\ Size \in Nat
  BY BlinkAssumption
<1>3. QED
  BY <1>1, <1>2

(* A blink with its approvals has no approved rival: those who voted for it *)
(* hold it.                                                                 *)
LEMMA ApprovedHeld ==
    ASSUME Neighbours, QuorumInv, MemberInv, dropped = {}, NEW b \in Blinks,
           Approved(b, sigs[b])
    PROVE  /\ Passed(b) /\ ~Blocked(b)
           /\ Signs(Self, TRUE, b) => b.tx \in pool[Self]
<1>1. \A s \in sigs[b] : <<b, s>> \in signed
  BY DEF MemberInv
<1>2. Passed(b)
  BY <1>1, ApprovedPassed, PassedIs
<1>3. FewDropped(dropped)
  BY NoneDropped
<1>4. ~Blocked(b)
  BY <1>2, <1>3, NoRivals DEF QuorumInv
<1>5. ASSUME Signs(Self, TRUE, b) PROVE b.tx \in pool[Self]
  <2>1. Self \in Voters(b) \ dropped
    BY <1>5, MemberAssumption DEF Signs, Voters
  <2>2. QED
    BY <1>4, <2>1 DEF QuorumInv, VotersKeep
<1>6. QED
  BY <1>2, <1>4, <1>5

(* What is relayable stays so while it is approved. *)
LEMMA RelayableStays ==
    ASSUME Neighbours, QuorumInv, TypeOK, MemberInv, [Next]_vars, dropped' = {},
           NEW b \in Blinks, Approved(b, sigs[b]), b.tx \in relayable
    PROVE  b.tx \in relayable'
<1>0. dropped = {} /\ Self \in Nodes /\ b.tx \in pool[Self] /\ pool \in [Nodes -> SUBSET Txs]
  BY QuorumTypes, MemberAssumption DEF TypeOK, QuorumInv
<1>1. ~Blocked(b)
  BY <1>0, ApprovedHeld
<1>2. b.tx \in pool'[Self]
  <2>1. CASE UNCHANGED Promise!vars
    BY <1>0, <2>1 DEF Promise!vars
  <2>2. CASE Promise!Next
    <3>1. SUFFICES ASSUME b.tx \notin pool'[Self] PROVE FALSE
      OBVIOUS
    <3>2. PICK d \in Blinks : Passed(d) /\ d.tx # b.tx /\ Conflict(d.tx, b.tx)
      BY <1>0, <2>2, <3>1, PoolLosses
    <3>3. QED
      BY <1>1, <3>2 DEF Blocked, Rival, Conflict
  <2>3. QED
    BY <2>1, <2>2, NextRefines
<1>3. QED
  BY <1>2, FlagsStep

(* Self approves a blink that is not approved yet, or makes it relayable. *)
LEMMA SelfApproves ==
    ASSUME NEW th \in work, ThreadStep(th), NEW b, ~Signs(Self, TRUE, b), Signs(Self, TRUE, b)'
    PROVE  /\ sigs' = sigs /\ b = th.blink
           /\ ~Approved(b, sigs[b]) \/ b.tx \in relayable'
<1>1. CASE Sign(th, TRUE) /\ (AddUnapproved(th) \/ AddApproved(th))
  <2>1. b = th.blink
    BY <1>1 DEF Sign, Signs
  <2>2. sigs' = sigs
    BY <1>1 DEF AddUnapproved, AddApproved, quorumState
  <2>3. CASE AddUnapproved(th)
    BY <2>1, <2>2, <2>3 DEF AddUnapproved
  <2>4. CASE AddApproved(th)
    <3>1. ~Sign(th, FALSE)
      BY <1>1 DEF Sign, Signs, Signature
    <3>2. Replace(b.tx, {b.tx})
      BY <2>1, <2>4, <3>1 DEF AddApproved
    <3>3. QED
      BY <2>1, <2>2, <3>2 DEF Replace
  <2>5. QED
    BY <1>1, <2>3, <2>4
<1>2. CASE Sign(th, FALSE)
  BY <1>2 DEF Sign, Signs, Signature
<1>3. CASE signed' = signed
  BY <1>3 DEF Signs
<1>4. QED
  BY <1>1, <1>2, <1>3 DEF ThreadStep, StoreBlink, CheckBlink, AddUnapproved, AddApproved,
         AddSignatures, RecordBlink, PublishBlink, others

(* A thread's step and the approved blinks it leaves to publish. *)
LEMMA RelayableThread ==
    ASSUME Neighbours, QuorumInv, TypeOK, MemberInv, OneSignature, RelayableInv,
           NEW th \in work, ThreadStep(th), work \ {th} \subseteq work', dropped' = {}
    PROVE  RelayableInv'
<1> SUFFICES ASSUME NEW b \in Blinks, Approved(b, sigs'[b]), Signs(Self, TRUE, b)'
             PROVE  \/ b.tx \in relayable'
                    \/ \E x \in work' : x.blink = b /\ x.phase \in {"record", "publish"}
  BY DEF RelayableInv
<1>0. [Next]_vars /\ dropped = {}
  <2>1. [Next]_vars
    BY DEF Next
  <2>2. QED
    BY <2>1, QuorumTypes DEF QuorumInv
<1>1. CASE ~Signs(Self, TRUE, b)
  BY <1>1, SelfApproves
<1>2. CASE ~Approved(b, sigs[b])
  <2>1. AddSignatures(th)
    BY <1>2 DEF ThreadStep, StoreBlink, CheckBlink, AddUnapproved, AddApproved,
           RecordBlink, PublishBlink, quorumState
  <2>2. QED
    BY <1>2, <2>1, TurnsApproved
<1>3. CASE Signs(Self, TRUE, b) /\ Approved(b, sigs[b])
  <2>1. CASE b.tx \in relayable
    BY <1>0, <1>3, <2>1, RelayableStays
  <2>2. ASSUME NEW x \in work, x.blink = b, x.phase \in {"record", "publish"}
        PROVE  \/ b.tx \in relayable'
               \/ \E y \in work' : y.blink = b /\ y.phase \in {"record", "publish"}
    <3>1. CASE x # th
      BY <2>2, <3>1
    <3>2. CASE x = th
      <4>1. RecordBlink(th) \/ PublishBlink(th)
        BY <2>2, <3>2 DEF ThreadStep, StoreBlink, CheckBlink, AddUnapproved, AddApproved,
               AddSignatures
      <4>2. CASE RecordBlink(th)
        <5>1. Thread(th.blink, "publish", th.tag, th.sigs) \in work'
          BY <4>2 DEF RecordBlink, Goes
        <5> DEFINE y == Thread(th.blink, "publish", th.tag, th.sigs)
        <5>2. y.blink = b /\ y.phase = "publish"
          BY <2>2, <3>2, PhaseOf
        <5> HIDE DEF y
        <5>3. y \in work'
          BY <5>1 DEF y
        <5>4. QED
          BY <5>2, <5>3
      <4>3. CASE PublishBlink(th)
        <5>1. b.tx \in pool[Self]
          BY <1>0, <1>3, ApprovedHeld
        <5>2. QED
          BY <2>2, <3>2, <4>3, <5>1 DEF PublishBlink, SetRelayable
      <4>4. QED
        BY <4>1, <4>2, <4>3
    <3>3. QED
      BY <3>1, <3>2
  <2>3. QED
    BY <1>3, <2>1, <2>2 DEF RelayableInv
<1>4. QED
  BY <1>1, <1>2, <1>3

(* Approved blinks of Self's stay relayable. *)
LEMMA RelayableStep ==
    ASSUME Neighbours, QuorumInv, TypeOK, MemberInv, OneSignature, RelayableInv,
           [Next]_vars, restarts' = 0, dropped' = {}
    PROVE  RelayableInv'
<1>0. restarts \in Nat
  BY MemberAssumption DEF TypeOK
<1>1. CASE /\ work \subseteq work' /\ sigs' = sigs
           /\ \A b : Signs(Self, TRUE, b)' => Signs(Self, TRUE, b)
  <2> SUFFICES ASSUME NEW b \in Blinks, Approved(b, sigs'[b]), Signs(Self, TRUE, b)'
               PROVE  \/ b.tx \in relayable'
                      \/ \E x \in work' : x.blink = b /\ x.phase \in {"record", "publish"}
    BY DEF RelayableInv
  <2>1. Approved(b, sigs[b]) /\ Signs(Self, TRUE, b)
    BY <1>1
  <2>2. CASE b.tx \in relayable
    BY <2>1, <2>2, RelayableStays
  <2>3. CASE \E x \in work : x.blink = b /\ x.phase \in {"record", "publish"}
    BY <1>1, <2>3
  <2>4. QED
    BY <2>1, <2>2, <2>3 DEF RelayableInv
<1>2. QED
  BY <1>0, <1>1, ThreadsStay, RelayableThread

-----------------------------------------------------------------------------
(* The invariant *)

(* Nothing is approved by no signatures. *)
LEMMA NotApproved ==
    ASSUME NEW b \in Blinks
    PROVE  ~Approved(b, {})
<1>1. QuorumHeight(b, 0) \in QuorumHeights(b)
  BY DEF QuorumHeights
<1>2. Cardinality(SignersOf({}, TRUE) \cap Quorum[QuorumHeight(b, 0)]) = 0
  <2>1. SignersOf({}, TRUE) \cap Quorum[QuorumHeight(b, 0)] = {}
    BY DEF SignersOf
  <2>2. QED
    BY <2>1, FS_EmptySet
<1>3. MinVotes \in Nat /\ MinVotes > 0
  BY BlinkAssumption
<1>4. SUFFICES ASSUME Approved(b, {}) PROVE FALSE
  OBVIOUS
<1> DEFINE c == Cardinality(SignersOf({}, TRUE) \cap Quorum[QuorumHeight(b, 0)])
<1>5. c >= MinVotes
  BY <1>1, <1>4 DEF Approved
<1>6. c = 0
  BY <1>2
<1> HIDE DEF c
<1>7. QED
  BY <1>3, <1>5, <1>6

(* The daemon starts with it. *)
LEMMA VerdictInit == Init => VerdictInv /\ ApproverInv
<1> SUFFICES ASSUME Init PROVE VerdictInv /\ ApproverInv
  OBVIOUS
<1>1. /\ pool = [n \in Nodes |-> {}] /\ signed = {} /\ dropped = {} /\ known = {}
      /\ sigs = [b \in Blinks |-> {}] /\ pending = [b \in Blinks |-> {}] /\ tags = {}
      /\ relayable = {} /\ recorded = {} /\ work = {} /\ asks = Asks /\ replies = {}
      /\ restarts = 0
  BY DEF Init, Promise!Init
<1>2. TypeOK
  BY <1>1, MemberAssumption DEF TypeOK
<1>3. PoolsAgree
  BY <1>1 DEF PoolsAgree
<1>4. OneSignature
  BY <1>1 DEF OneSignature, Signs
<1>5. RecordInv /\ RelayableInv
  BY <1>1, NotApproved DEF RecordInv, RelayableInv
<1>6. QED
  BY <1>2, <1>3, <1>4, <1>5, MemberStart, QuorumStart DEF VerdictInv, ApproverInv, Init

(* Restarts are counted. *)
LEMMA RestartsGrow ==
    ASSUME TypeOK, [Next]_vars
    PROVE  restarts' = 0 => restarts = 0
<1>1. restarts \in Nat
  BY MemberAssumption DEF TypeOK
<1>2. CASE UNCHANGED vars
  BY <1>2 DEF vars
<1>3. CASE HandleBlink \/ HandleSignatures
  BY <1>3 DEF HandleBlink, NotStarted, SubmitKnown, SubmitNew, RelayBlink,
         HandleSignatures, ReceiveSignatures
<1>4. CASE \E th \in work : ThreadStep(th)
  BY <1>4 DEF ThreadStep, StoreBlink, CheckBlink, AddUnapproved, AddApproved,
         AddSignatures, RecordBlink, PublishBlink
<1>5. CASE Environment
  <2>1. restarts' = restarts \/ restarts' = restarts + 1
    BY <1>5 DEF Environment, ReceiveApproved, ReceiveTx, FillPool, Restart, OtherStep
  <2>2. QED
    BY <1>1, <2>1
<1>6. QED
  BY <1>2, <1>3, <1>4, <1>5 DEF Next

(* Every step keeps it. *)
LEMMA VerdictStep == VerdictInv /\ [Next]_vars => VerdictInv'
<1> SUFFICES ASSUME VerdictInv, [Next]_vars PROVE VerdictInv'
  OBVIOUS
<1>1. MemberInv' /\ TypeOK' /\ PoolsAgree'
  BY MemberStep, TypeStep DEF VerdictInv
<1>2. restarts' = 0 => restarts = 0
  BY RestartsGrow DEF VerdictInv
<1>3. restarts' = 0 => OneSignature' /\ RecordInv'
  BY <1>2, SignatureStep, RecordStep DEF VerdictInv
<1>4. QED
  BY <1>1, <1>3 DEF VerdictInv

(* The inductive invariant of one member. *)
THEOREM VerdictInvariant == Spec => []VerdictInv
<1>1. Init => VerdictInv
  BY VerdictInit
<1>2. QED
  BY <1>1, VerdictStep, PTL DEF Spec

-----------------------------------------------------------------------------
(* What follows *)

(* The quorum state, the pool, its relay flags and the threads keep their   *)
(* types: do_not_relay is cleared only of transactions in the pool.         *)
THEOREM BlinkTypeCorrect == Spec => []TypeOK
<1>1. VerdictInv => TypeOK
  BY DEF VerdictInv
<1>2. QED
  BY <1>1, VerdictInvariant, PTL

(* approved() and rejected() never contradict one another, whatever part of *)
(* the signatures a member has and in whatever order they came.             *)
THEOREM VerdictsAgree == Spec => []OneVerdict
<1>1. VerdictInv => OneVerdict
  <2> SUFFICES ASSUME VerdictInv, restarts = 0, NEW b \in Blinks
               PROVE  /\ Approved(b, sigs[b]) => ~Rejected(b, Promise!SignedFor(b))
                      /\ Rejected(b, sigs[b]) => ~Approved(b, Promise!SignedFor(b))
    BY DEF OneVerdict
  <2>1. OneSignature /\ \A s \in sigs[b] : <<b, s>> \in signed
    BY DEF VerdictInv, MemberInv
  <2>2. \A s \in Promise!SignedFor(b) : <<b, s>> \in signed
    BY DEF Promise!SignedFor
  <2>3. QED
    BY <2>1, <2>2, NotBoth
<1>2. QED
  BY <1>1, VerdictInvariant, PTL

(* A member that has approved a blink relays its transaction once the blink *)
(* has its approvals, whichever of its threads, or of the handlers of       *)
(* signatures that race them, adds the signature that decides.              *)
THEOREM ApprovedIsRelayed == ASSUME Neighbours PROVE Spec => []ApproverRelays
<1>1. Init => ApproverInv
  BY VerdictInit
<1>2. ApproverInv /\ [Next]_vars => ApproverInv'
  <2> SUFFICES ASSUME ApproverInv, [Next]_vars PROVE ApproverInv'
    OBVIOUS
  <2>1. VerdictInv'
    BY VerdictStep DEF ApproverInv
  <2>2. QuorumInv'
    BY NextRefines, QuorumStep DEF ApproverInv, VerdictInv
  <2>3. ASSUME restarts' = 0, dropped' = {} PROVE RelayableInv'
    <3>1. dropped = {}
      BY <2>3, QuorumTypes DEF ApproverInv, VerdictInv
    <3>2. restarts = 0
      BY <2>3, RestartsGrow DEF ApproverInv, VerdictInv
    <3>3. QED
      BY <2>3, <3>1, <3>2, RelayableStep DEF ApproverInv, VerdictInv
  <2>4. QED
    BY <2>1, <2>2, <2>3 DEF ApproverInv
<1>3. ApproverInv => ApproverRelays
  <2> SUFFICES ASSUME ApproverInv, dropped = {}, restarts = 0, NEW b \in known,
                      Approved(b, sigs[b]), ~Busy(b), Signature(Self, TRUE) \in sigs[b]
               PROVE  b.tx \in TxsOf(recorded) /\ b.tx \in relayable
    BY DEF ApproverRelays
  <2>1. b \in Blinks
    BY DEF ApproverInv, VerdictInv, TypeOK
  <2>2. Signs(Self, TRUE, b)
    BY <2>1 DEF ApproverInv, VerdictInv, MemberInv, Signs
  <2>3. RecordInv /\ RelayableInv
    BY DEF ApproverInv, VerdictInv
  <2>4. QED
    BY <2>1, <2>2, <2>3 DEF RecordInv, RelayableInv, Busy
<1>4. QED
  BY <1>1, <1>2, <1>3, PTL DEF Spec

=============================================================================
