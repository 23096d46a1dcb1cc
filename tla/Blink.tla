------------------------------- MODULE Blink --------------------------------
(***************************************************************************)
(* One member of the blink subquorums in full: handle_blink,               *)
(* handle_blink_signature and process_blink_signatures of                  *)
(* src/cryptonote_protocol/quorumnet.cpp, the blink side of                *)
(* src/cryptonote_core/tx_pool.cpp, and the peer-to-peer path of approved  *)
(* blinks (cryptonote_core.cpp, cryptonote_protocol_handler.inl).          *)
(*                                                                         *)
(* The member, Self, runs its handlers on several threads.  A thread that  *)
(* is between two locks is a record of work; its phase says what it does   *)
(* next.  The other members vote in single steps, the ones BlinkQuorum     *)
(* allows.  A message is not a variable: what a member has signed and      *)
(* relayed can reach any other, at any later moment, repeatedly or never.  *)
(***************************************************************************)
EXTENDS BlinkTx

CONSTANTS
    Self,         \* the member modelled in full
    Asks,         \* blinks that their sender submits to Self
    MaxThreads,   \* bound on the threads of Self between two locks
    MaxRestarts,  \* bound on the restarts of Self
    MaxDropped    \* bound on the nodes whose full pool drops a transaction

ASSUME MemberAssumption ==
    /\ Self \in Nodes
    /\ Asks \subseteq Blinks
    /\ MaxThreads \in Nat /\ MaxRestarts \in Nat /\ MaxDropped \in Nat

VARIABLES
    pool,       \* pool[n]: the transactions of n's mempool
    signed,     \* the signatures made: <<blink, signature>>
    dropped,    \* nodes whose full pool has dropped a transaction
    known,      \* blinks Self has stored (qnet.blinks, btxptr set)
    sigs,       \* sigs[b]: the signatures in the slots of the blink_tx
    pending,    \* pending[b]: signatures that came before the blink
    tags,       \* blinks with a stashed reply tag
    relayable,  \* the transactions of Self's pool without do_not_relay
    recorded,   \* m_blinks: the approved blinks Self knows
    work,       \* the threads of Self between two locks
    asks,       \* submissions Self has not received yet
    replies,    \* the replies to them: <<blink, result>>
    restarts    \* restarts of Self so far

others == <<pool, signed, dropped>>
quorumState == <<known, sigs, pending, tags>>
poolState == <<pool, relayable, recorded>>
vars == <<others, quorumState, relayable, recorded, work, asks, replies,
          restarts>>

(* The quorum as a whole, and what it promises. *)
Promise == INSTANCE BlinkQuorum

-----------------------------------------------------------------------------
(* Data *)

Phases == {"store", "check", "add", "sigs", "record", "publish"}

Thread(b, phase, tag, S) ==
    [blink |-> b, phase |-> phase, tag |-> tag, sigs |-> S]
Threads == [blink : Blinks, phase : Phases, tag : BOOLEAN,
            sigs : SUBSET Signatures]

TxsOf(B) == {b.tx : b \in B}

(* m_transactions_lock, held by a thread inside add_new_blink. *)
PoolFree == \A th \in work : th.phase # "add"

(* The signatures that can arrive in a message: all but the ones a thread  *)
(* of Self has not relayed yet.                                            *)
Relayed(b) ==
    Promise!SignedFor(b)
       \ ({Signature(Self, ok) : ok \in BOOLEAN}
             \cap UNION {th.sigs : th \in {x \in work : x.blink = b}})

Init ==
    /\ Promise!Init
    /\ known = {}
    /\ sigs = [b \in Blinks |-> {}]
    /\ pending = [b \in Blinks |-> {}]
    /\ tags = {}
    /\ relayable = {}
    /\ recorded = {}
    /\ work = {}
    /\ asks = Asks
    /\ replies = {}
    /\ restarts = 0

Starts(th) ==
    /\ Cardinality(work) < MaxThreads
    /\ work' = work \cup {th}

Goes(th, next) == work' = (work \ {th}) \cup {next}

Ends(th) == work' = work \ {th}

(* The reply of process_blink_signatures, to the tag it was given. *)
Replies(th, result) ==
    replies' = IF th.tag THEN replies \cup {<<th.blink, result>>} ELSE replies

-----------------------------------------------------------------------------
(* handle_blink *)

(* A submission with a reply tag.  The checks before the blink is stored   *)
(* (hard fork, height within two of the chain, quorum checksum, membership,*)
(* parsing, a reachable peer) may fail: bl.nostart.                        *)
NotStarted(b) ==
    /\ b \in asks
    /\ asks' = asks \ {b}
    /\ replies' = replies \cup {<<b, "nostart">>}
    /\ UNCHANGED <<others, quorumState, relayable, recorded, work, restarts>>

(* The blink is known already: reply, or leave the tag for later. *)
SubmitKnown(b) ==
    /\ b \in asks
    /\ b \in known
    /\ asks' = asks \ {b}
    /\ \/ /\ Approved(b, sigs[b])
          /\ replies' = replies \cup {<<b, "good">>}
          /\ UNCHANGED tags
       \/ /\ ~Approved(b, sigs[b]) /\ Rejected(b, sigs[b])
          /\ replies' = replies \cup {<<b, "bad">>}
          /\ UNCHANGED tags
       \/ /\ ~Decided(b, sigs[b])
          /\ tags' = tags \cup {b}
          /\ UNCHANGED replies
    /\ UNCHANGED <<others, known, sigs, pending, relayable, recorded, work,
                   restarts>>

SubmitNew(b) ==
    /\ b \in asks
    /\ b \notin known
    /\ Self \in Members(b)
    /\ asks' = asks \ {b}
    /\ Starts(Thread(b, "store", TRUE, {}))
    /\ UNCHANGED <<others, quorumState, relayable, recorded, replies, restarts>>

(* Under the unique lock of qnet: the blink is stored, and the signatures  *)
(* that came before it go with the thread that verifies it.                *)
Stored(b, tag) ==
    /\ known' = known \cup {b}
    /\ pending' = [pending EXCEPT ![b] = {}]
    /\ tags' = IF tag THEN tags \cup {b} ELSE tags

(* A submission that was new at first may have been stored since. *)
StoreBlink(th) ==
    LET b == th.blink IN
    /\ th.phase = "store"
    /\ \/ /\ b \in known
          /\ Ends(th)
          /\ UNCHANGED <<known, pending, tags>>
       \/ /\ b \notin known
          /\ Stored(b, TRUE)
          /\ Goes(th, Thread(b, "check", TRUE, pending[b]))
    /\ UNCHANGED <<others, sigs, relayable, recorded, asks, replies, restarts>>

(* The blink as another member relays it, without a tag: nothing is lost   *)
(* when it has been stored since the first look, so the two looks are one. *)
RelayBlink(b) ==
    /\ Self \in Members(b)
    /\ b \notin known
    /\ Stored(b, FALSE)
    /\ Starts(Thread(b, "check", FALSE, pending[b]))
    /\ UNCHANGED <<others, sigs, relayable, recorded, asks, replies, restarts>>

(* generate_signature, and on to process_blink_signatures. *)
Sign(th, ok) ==
    /\ signed' = signed \cup {<<th.blink, Signature(Self, ok)>>}
    /\ Goes(th, Thread(th.blink, "sigs", th.tag,
                       th.sigs \cup {Signature(Self, ok)}))

(* Mutant: a blink that is approved meanwhile is not worth a signature. *)
CheckBlinkQuits(th) ==
    /\ th.phase = "check"
    /\ PoolFree
    /\ \/ /\ th.blink.tx \in TxsOf(recorded)
          /\ Ends(th)
       \/ /\ th.blink.tx \notin TxsOf(recorded)
          /\ Goes(th, Thread(th.blink, "add", th.tag, th.sigs))
    /\ UNCHANGED <<others, relayable, recorded, quorumState, asks, replies,
                   restarts>>

(* The version of the transaction may not be allowed.  If it is,           *)
(* add_new_blink takes the pool's lock and looks for an approved blink.    *)
CheckBlink(th) ==
    /\ th.phase = "check"
    /\ PoolFree
    /\ \/ Sign(th, FALSE)
       \/ /\ th.blink.tx \notin TxsOf(recorded)
          /\ Goes(th, Thread(th.blink, "add", th.tag, th.sigs))
          /\ UNCHANGED signed
    /\ UNCHANGED <<poolState, dropped, quorumState, asks, replies, restarts>>

(* Mutant: add_tx without the double-spend check. *)
AcceptsAny(t) == TRUE

(* add_tx: no conflict is tolerated, the transaction itself included. *)
Accepts(t) == ConflictsIn(pool[Self], t) = {}

(* The other checks of add_tx may fail as well. *)
AddUnapproved(th) ==
    LET t == th.blink.tx IN
    /\ th.phase = "add"
    /\ ~Approved(th.blink, sigs[th.blink])
    /\ \/ /\ Accepts(t)
          /\ pool' = [pool EXCEPT ![Self] = @ \cup {t}]
          /\ Sign(th, TRUE)
       \/ /\ Sign(th, FALSE)
          /\ UNCHANGED pool
    /\ UNCHANGED <<dropped, quorumState, relayable, recorded, asks, replies,
                   restarts>>

(* remove_blink_conflicts: an approved blink is never given up. *)
Evictable(t) == ConflictsIn(pool[Self], t) \cap TxsOf(recorded) = {}

(* add_tx of a transaction with its approvals: what conflicts with it is   *)
(* removed first, also when one of the checks that follow fails.  A        *)
(* transaction the pool has passes them.                                   *)
Replace(t, kept) ==
    /\ Evictable(t)
    /\ t \in kept \cup ({t} \ pool[Self])
    /\ LET now == (pool[Self] \ ConflictsIn(pool[Self], t)) \cup kept
       IN /\ pool' = [pool EXCEPT ![Self] = now]
          /\ relayable' = (relayable \cap now) \cup kept

AddApproved(th) ==
    LET b == th.blink IN
    /\ th.phase = "add"
    /\ Approved(b, sigs[b])
    /\ \/ /\ Replace(b.tx, {b.tx})
          /\ recorded' = {r \in recorded : r.tx # b.tx} \cup {b}
          /\ Sign(th, TRUE)
       \/ /\ Replace(b.tx, {})
          /\ Sign(th, FALSE)
          /\ UNCHANGED recorded
       \/ /\ ~Evictable(b.tx)
          /\ Sign(th, FALSE)
          /\ UNCHANGED poolState
    /\ UNCHANGED <<dropped, quorumState, asks, replies, restarts>>

-----------------------------------------------------------------------------
(* handle_blink_signature and process_blink_signatures *)

(* The first look of process_blink_signatures: slots that are free. *)
Unfilled(b, S) == {s \in S : s.by \notin {r.by : r \in sigs[b]}}

(* Signatures from another member: kept until the blink arrives, or        *)
(* processed with the reply tag read here.                                 *)
ReceiveSignatures(b, S) ==
    /\ Self \in Members(b)
    /\ \/ /\ b \in known
          /\ S \subseteq Unfilled(b, S)
          /\ Starts(Thread(b, "sigs", b \in tags, S))
          /\ UNCHANGED pending
       \/ /\ b \notin known
          /\ pending' = [pending EXCEPT ![b] = @ \cup S]
          /\ UNCHANGED work
    /\ UNCHANGED <<others, known, sigs, tags, relayable, recorded, asks,
                   replies, restarts>>

(* Mutant: the verdict so far is asked for after the additions. *)
TurnedLate(b, old, new) == new # {} /\ ~Decided(b, old \cup new)

(* Signatures were added to a blink that was neither approved nor rejected. *)
Turned(b, old, new) == new # {} /\ ~Decided(b, old)

(* Under the unique lock of the blink_tx: the signatures that are new, and *)
(* whether they decide it.                                                 *)
AddSignatures(th) ==
    LET b == th.blink
        old == sigs[b]
    IN
    /\ th.phase = "sigs"
    /\ \E new \in Additions(old, th.sigs) :
          LET now == old \cup new
              turned == Turned(b, old, new)
          IN
          /\ sigs' = [sigs EXCEPT ![b] = now]
          /\ \/ /\ turned /\ Approved(b, now)
                /\ Goes(th, Thread(b, "record", th.tag, new))
                /\ UNCHANGED replies
             \/ /\ turned /\ ~Approved(b, now) /\ Rejected(b, now)
                /\ Ends(th)
                /\ Replies(th, "bad")
             \/ /\ ~(turned /\ Decided(b, now))
                /\ Ends(th)
                /\ UNCHANGED replies
    /\ UNCHANGED <<others, known, pending, tags, relayable, recorded, asks,
                   restarts>>

(* add_existing_blink. *)
RecordBlink(th) ==
    /\ th.phase = "record"
    /\ recorded' = IF th.blink.tx \in TxsOf(recorded) THEN recorded
                   ELSE recorded \cup {th.blink}
    /\ Goes(th, Thread(th.blink, "publish", th.tag, th.sigs))
    /\ UNCHANGED <<others, quorumState, relayable, asks, replies, restarts>>

(* Mutant: set_relayable does not look for the transaction. *)
SetRelayableBlindly(t) == relayable' = relayable \cup {t}

(* set_relayable: only what the pool has. *)
SetRelayable(t) == relayable' = relayable \cup ({t} \cap pool[Self])

(* set_relayable, the relay of the transaction and of the signatures, and  *)
(* the reply.                                                              *)
PublishBlink(th) ==
    /\ th.phase = "publish"
    /\ PoolFree
    /\ SetRelayable(th.blink.tx)
    /\ Replies(th, "good")
    /\ Ends(th)
    /\ UNCHANGED <<others, quorumState, recorded, asks, restarts>>

-----------------------------------------------------------------------------
(* Peer to peer, pool limits and restarts *)

(* Mutant: parse_incoming_blinks takes any valid signature. *)
AnySignature(b) == Relayed(b) # {}

(* parse_incoming_blinks keeps blinks with enough valid signatures. *)
Verified(b) == Approved(b, Relayed(b))

(* handle_notify_new_transactions: a transaction that a peer relays with   *)
(* the signatures of its approved blink.                                   *)
ReceiveApproved(b) ==
    /\ PoolFree
    /\ Verified(b)
    /\ b.tx \notin TxsOf(recorded)
    /\ recorded' = recorded \cup {b}
    /\ \/ /\ b.tx \notin pool[Self]
          /\ Replace(b.tx, {b.tx}) \/ Replace(b.tx, {})
       \/ /\ b.tx \in pool[Self] \/ ~Evictable(b.tx)
          /\ UNCHANGED <<pool, relayable>>
    /\ UNCHANGED <<signed, dropped, quorumState, work, asks, replies, restarts>>

(* A transaction without blink signatures, or whose signatures Self has:   *)
(* from its sender, or from a peer that relays it.                         *)
ReceiveTx(t) ==
    /\ PoolFree
    /\ t \in Plain \cup TxsOf(recorded)
    /\ Accepts(t)
    /\ pool' = [pool EXCEPT ![Self] = @ \cup {t}]
    /\ relayable' = relayable \cup {t}
    /\ UNCHANGED <<signed, dropped, quorumState, recorded, work, asks, replies,
                   restarts>>

MayDrop(n) == n \in dropped \/ Cardinality(dropped) < MaxDropped

(* Another transaction enters the pool, which is full: prune drops one,    *)
(* but never an approved blink.                                            *)
FillPool(t) ==
    /\ PoolFree
    /\ MayDrop(Self)
    /\ t \in pool[Self] \ TxsOf(recorded)
    /\ dropped' = dropped \cup {Self}
    /\ pool' = [pool EXCEPT ![Self] = @ \ {t}]
    /\ relayable' = relayable \ {t}
    /\ UNCHANGED <<signed, quorumState, recorded, work, asks, replies, restarts>>

(* The pool is in the database; the quorum state and m_blinks are not. *)
Restart ==
    /\ restarts < MaxRestarts
    /\ restarts' = restarts + 1
    /\ known' = {}
    /\ sigs' = [b \in Blinks |-> {}]
    /\ pending' = [b \in Blinks |-> {}]
    /\ tags' = {}
    /\ recorded' = {}
    /\ work' = {}
    /\ UNCHANGED <<others, relayable, asks, replies>>

-----------------------------------------------------------------------------
(* The other members *)

HasVoted(n, b) == n \in {s.by : s \in Promise!SignedFor(b)}

OtherVotes(n, b) ==
    /\ ~HasVoted(n, b)
    /\ Promise!Approve(n, b) \/ Promise!Reject(n, b)

OtherAccepts(n, b) ==
    /\ Approved(b, Relayed(b))
    /\ b.tx \notin pool[n]
    /\ Promise!GiveWay(n, b, {b.tx})
    /\ UNCHANGED <<signed, dropped>>

OtherDrops(n, t) ==
    /\ MayDrop(n)
    /\ t \in pool[n]
    /\ Promise!DropTx(n, t)

OtherStep(n) ==
    /\ \/ \E b \in Blinks : OtherVotes(n, b) \/ OtherAccepts(n, b)
       \/ \E t \in Plain : Promise!AddTx(n, t)
       \/ \E t \in Txs : OtherDrops(n, t)
    /\ UNCHANGED <<quorumState, relayable, recorded, work, asks, replies,
                   restarts>>

-----------------------------------------------------------------------------

HandleBlink ==
    \E b \in Blinks : \/ NotStarted(b)
                      \/ SubmitKnown(b)
                      \/ SubmitNew(b)
                      \/ RelayBlink(b)

HandleSignatures ==
    \E b \in Blinks : \E S \in SUBSET Relayed(b) \ {{}} :
       ReceiveSignatures(b, S)

ThreadStep(th) == \/ StoreBlink(th)
                  \/ CheckBlink(th)
                  \/ AddUnapproved(th)
                  \/ AddApproved(th)
                  \/ AddSignatures(th)
                  \/ RecordBlink(th)
                  \/ PublishBlink(th)

Environment ==
    \/ \E b \in Blinks : ReceiveApproved(b)
    \/ \E t \in Txs : ReceiveTx(t) \/ FillPool(t)
    \/ Restart
    \/ \E n \in Nodes \ {Self} : OtherStep(n)

Next ==
    \/ HandleBlink
    \/ HandleSignatures
    \/ \E th \in work : ThreadStep(th)
    \/ Environment

Spec == Init /\ [][Next]_vars

(* The worker threads run: one that can go on does. *)
FairSpec ==
    /\ Spec
    /\ \A b \in Blinks : \A phase \in Phases :
          WF_vars(\E th \in work : th.blink = b /\ th.phase = phase /\ ThreadStep(th))

-----------------------------------------------------------------------------
(* Properties *)

(* The quorum state, the pool and the threads of Self keep their types. *)
TypeOK ==
    /\ pool \in [Nodes -> SUBSET Txs]
    /\ signed \subseteq Blinks \X Signatures
    /\ dropped \subseteq Nodes
    /\ known \subseteq Blinks
    /\ sigs \in [Blinks -> SUBSET Signatures]
    /\ pending \in [Blinks -> SUBSET Signatures]
    /\ tags \subseteq Blinks
    /\ relayable \subseteq pool[Self]
    /\ recorded \subseteq Blinks
    /\ work \subseteq Threads
    /\ asks \subseteq Asks
    /\ replies \subseteq Blinks \X {"good", "bad", "nostart"}
    /\ restarts \in 0..MaxRestarts

(* Self with all its threads, locks and restarts behaves like the member   *)
(* of BlinkQuorum that votes in single steps.                              *)
VotesAsPromised == Promise!Spec

(* Two conflicting transactions never both collect the approvals of their  *)
(* subquorums.                                                             *)
NoConflictingBlinks == Promise!NoConflictingBlinks

(* Self never finds a blink approved that the signatures of the others     *)
(* reject (approved(), rejected(): "impossible for it to become            *)
(* approved()"), as long as it has not restarted and voted again.          *)
OneVerdict ==
    restarts = 0 =>
       \A b \in Blinks : /\ Approved(b, sigs[b]) => ~Rejected(b, Promise!SignedFor(b))
                         /\ Rejected(b, sigs[b]) => ~Approved(b, Promise!SignedFor(b))

Busy(b) == \E th \in work : th.blink = b

(* Once the threads are through with a blink that Self has voted for and   *)
(* that has its approvals, it is recorded and its transaction relayable,   *)
(* whichever thread brought the deciding signature.                        *)
ApproverRelays ==
    dropped = {} /\ restarts = 0 =>
       \A b \in known :
          Approved(b, sigs[b]) /\ ~Busy(b) /\ Signature(Self, TRUE) \in sigs[b]
          => b.tx \in TxsOf(recorded) /\ b.tx \in relayable

(* A blink is relayed as a transaction only when it has its approvals. *)
RelayedIsApproved ==
    \A t \in relayable :
       t \in Plain \/ \E b \in Blinks : b.tx = t /\ Promise!Passed(b)

(* "Anything past this point always results in a success or failure        *)
(* signature getting sent to peers": a stored blink gets Self's signature, *)
(* unless Self restarts.                                                   *)
StoredIsSigned ==
    \A b \in Blinks :
       b \in known ~> b \notin known \/ Self \in {s.by : s \in sigs[b]}

(* A stashed reply tag is answered by the signature that decides the       *)
(* blink: "stash the tag & pubkey in the metadata to delay the reply until *)
(* a signature comes in that flips it to approved/rejected status".        *)
TagAnswered ==
    \A b \in tags :
       Decided(b, sigs[b]) /\ ~Busy(b)
       => \E r \in {"good", "bad"} : <<b, r>> \in replies
=============================================================================
