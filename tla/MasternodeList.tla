--------------------------- MODULE MasternodeList ---------------------------
(***************************************************************************)
(* How the masternode list keeps up with the main chain                    *)
(* (src/cryptonote_core/masternode_list.cpp, and the parts of              *)
(* blockchain.cpp that connect, detach and replay blocks).                 *)
(*                                                                         *)
(* The daemon holds the state at the top block (m_state), recent states    *)
(* (state_history) and archived ones (state_archive); it stores some of    *)
(* them in the database in two writes, and after a restart, or when blocks *)
(* are detached below the history, it falls back to a stored or archived   *)
(* state and replays the blocks above it.  A state change in a block is    *)
(* checked against the quorum of an earlier height, which has to be found  *)
(* in the history or the archive: when it is not, the code skips the       *)
(* transaction and the list is wrong from there on.                        *)
(***************************************************************************)
EXTENDS Integers, Sequences, FiniteSets

CONSTANTS
    Blocks,        \* the blocks competing for one height
    Base,          \* the height below hard fork 9; heights count from there
    VoteLifetime,  \* VOTE_LIFETIME: a state change refers to fewer heights back
    Buffer,        \* VOTE_OR_TX_VERIFY_HEIGHT_BUFFER
    ShortHistory,  \* DEFAULT_SHORT_TERM_STATE_HISTORY
    Interval,      \* STORE_LONG_TERM_STATE_INTERVAL
    ScanBatch,     \* blocks replayed between two calls of store()
    MaxReorg,      \* how far below the highest block a chain switch goes
    DeepPops,      \* whether pop_blocks goes below the whole history
    MeetsStored,   \* whether init() may find the chain just below the stored state
    MaxHeight,     \* bound on the chain
    MaxCuts,       \* bound on detachments
    MaxStops       \* bound on stops and crashes

ASSUME ListAssumption ==
    /\ Base \in Nat
    /\ VoteLifetime \in Nat \ {0}
    /\ Buffer \in Nat
    /\ ShortHistory \in Nat
    /\ VoteLifetime + Buffer < ShortHistory
    /\ Interval \in Nat \ {0}
    /\ ScanBatch \in Nat \ {0}
    /\ MaxReorg \in Nat
    /\ DeepPops \in BOOLEAN
    /\ MeetsStored \in BOOLEAN
    /\ MaxHeight \in Nat
    /\ MaxCuts \in Nat
    /\ MaxStops \in Nat

VARIABLES
    chain,    \* the main chain in the database
    peak,     \* its greatest height since the history was last rebuilt
    final,    \* the chain up to the block no fork can replace any more
    list,     \* the masternode list in memory
    db,       \* the stored long-term and short-term states
    mode,     \* what the daemon does: see Modes
    scanned,  \* blocks replayed since the list was last stored
    popped,   \* whether blocks were popped from below the history
    cuts,     \* detachments so far
    stops     \* stops and crashes so far

vars == <<chain, peak, final, list, db, mode, scanned, popped, cuts, stops>>

-----------------------------------------------------------------------------
(* Data *)

First(c, n) == SubSeq(c, 1, n)

(* A state_t.  "of" is the chain whose list and quorums it holds: a block  *)
(* id stands for the block with everything below it, and Wrong for a list  *)
(* no chain determines.  A state that is not full has only its quorums.    *)
Wrong == <<"wrong">>
State(h, c, f) == [height |-> h, of |-> c, full |-> f]

At(states, h) == {s \in states : s.height = h}
Above(states, h) == {s \in states : s.height > h}

(* Inserting in a state_set keeps the state that has the height already.   *)
Insert(states, s) == IF At(states, s.height) = {} THEN states \cup {s} ELSE states

QuorumsOnly(s) == [s EXCEPT !.full = FALSE]

(* short_term_state_cull_height *)
CullHeight(h) == IF Base + h < ShortHistory THEN -Base ELSE h - ShortHistory

QuorumWindow == VoteLifetime + Buffer

(* Mutant: the height of the first masternode block is taken off by one. *)
EmptyListBelow == [m |-> State(-1, <<>>, TRUE), history |-> {}, archive |-> {},
                   added |-> FALSE]

(* The list before the first block, as reset() leaves it. *)
EmptyList == [m |-> State(0, <<>>, TRUE), history |-> {}, archive |-> {},
              added |-> FALSE]

NoData == [long |-> {}, short |-> {}]

-----------------------------------------------------------------------------
(* The list and one block *)

(* The quorum of height r is at hand for a block of chain c: the history is *)
(* searched before the archive.                                             *)
FindsQuorum(l, c, r) ==
    LET stored == IF At(l.history, r) # {} THEN At(l.history, r) ELSE At(l.archive, r)
    IN  \E s \in stored : s.of = First(c, r)

(* The heights a state change in the block at height h may refer to. *)
Referable(h) == {r \in 1..(h - 1) : h < r + VoteLifetime}

(* update_from_block: the state after the top block of chain c, when state  *)
(* changes of every admissible height are in the block.                     *)
Updated(l, c) ==
    LET right == /\ l.m.full
                 /\ l.m.of = First(c, Len(c) - 1)
                 /\ \A r \in Referable(Len(c)) : FindsQuorum(l, c, r)
    IN  State(l.m.height + 1, IF right THEN c ELSE Wrong, l.m.full)

(* The states leaving the history that go to the archive. *)
NeedsQuorum(s) == Interval - ((Base + s.height) % Interval) <= QuorumWindow
Archived(states) ==
    {IF NeedsQuorum(s) THEN QuorumsOnly(s) ELSE s :
        s \in {t \in states : (Base + t.height) % Interval = 0 \/ NeedsQuorum(t)}}

(* process_block for the top block of chain c. *)
ProcessBlock(l, c) ==
    LET old  == {s \in l.history : s.height <= CullHeight(Len(c))}
        kept == {s \in Archived(old) : At(l.archive, s.height) = {}}
        next == [m |-> l.m, history |-> Insert(l.history \ old, l.m),
                 archive |-> l.archive \cup kept,
                 added |-> l.added \/ Archived(old) # {}]
    IN  [next EXCEPT !.m = Updated(next, c)]

-----------------------------------------------------------------------------
(* Storing, loading and falling back *)

(* What store() writes: the whole archive when something was added to it,  *)
(* and of the history the states up to a height that leaves room to replay *)
(* from, all but the last of them without their lists.                     *)
MaxShortTermHeight(l) == CullHeight(l.m.height - 1) + QuorumWindow
LongTermData(l) == IF l.added THEN l.archive ELSE db.long

(* Mutant: only the last state is stored, without the quorums below it. *)
ShortTermDataBare(l) == {s \in l.history : s.height = MaxShortTermHeight(l)}

ShortTermData(l) ==
    LET top == MaxShortTermHeight(l)
    IN  {IF s.height < top THEN QuorumsOnly(s) ELSE s :
            s \in {t \in l.history : t.height <= top}}

(* load(): the last stored state becomes m_state, the others the history;  *)
(* a last state with quorums only is refused.                              *)
Newest(states) == CHOOSE s \in states : Above(states, s.height) = {}
Loadable(d) == \E s \in d.short : Above(d.short, s.height) = {} /\ s.full
Loaded(d) == [m |-> Newest(d.short), history |-> d.short \ {Newest(d.short)},
              archive |-> d.long, added |-> FALSE]

(* init() accepts the stored state unless it is above the chain: the limit *)
(* is the number of blocks, one more than the height of the top block.     *)
Accepted(d, c) == Loadable(d) /\ Newest(d.short).height <= Len(c) + 1
AfterInit(d, c) == IF Accepted(d, c) THEN Loaded(d) ELSE EmptyList
DataAfterInit(d, c) == IF Accepted(d, c) THEN d ELSE NoData

(* blockchain_detached: where the state at the new top height h comes from. *)
PrevInterval(h) == h - ((Base + h) % Interval)

InHistory(l, h) == \E s \in At(l.history, h) : s.full
InArchive(l, h) == \E s \in At(l.archive, PrevInterval(h)) : s.full

(* Mutant: the states above the new top stay in the history. *)
FromHistoryKept(l, h) ==
    [m |-> CHOOSE s \in At(l.history, h) : TRUE,
     history |-> l.history, archive |-> l.archive, added |-> l.added]

FromHistory(l, h) ==
    [m |-> CHOOSE s \in At(l.history, h) : TRUE,
     history |-> {s \in l.history : s.height < h},
     archive |-> l.archive, added |-> l.added]
FromArchive(l, h) ==
    [m |-> CHOOSE s \in At(l.archive, PrevInterval(h)) : TRUE,
     history |-> {},
     archive |-> {s \in l.archive : s.height < PrevInterval(h)}, added |-> l.added]

Detached(l, c) ==
    IF InHistory(l, Len(c)) THEN FromHistory(l, Len(c))
    ELSE IF InArchive(l, Len(c)) THEN FromArchive(l, Len(c))
    ELSE AfterInit(db, c)

DataDetached(l, c) ==
    IF InHistory(l, Len(c)) \/ InArchive(l, Len(c)) THEN db ELSE DataAfterInit(db, c)

-----------------------------------------------------------------------------
(* Steps *)

Init == /\ chain = <<>>
        /\ peak = 0
        /\ final = <<>>
        /\ list = EmptyList
        /\ db = NoData
        /\ mode = "up"
        /\ scanned = 0
        /\ popped = FALSE
        /\ cuts = 0
        /\ stops = 0

(* load_missing_blocks_into_quenero_subsystems runs when blocks are missing. *)
AfterFallback(l, c) == IF l.m.height < Len(c) THEN "replay" ELSE "up"

(* The block that follows the chain, one of the final chain below its top. *)
Follows(b) == Len(chain) < Len(final) => b = final[Len(chain) + 1]

Finalised(c) ==
    IF Len(c) > Len(final) + MaxReorg THEN First(c, Len(c) - MaxReorg) ELSE final

(* handle_block_to_main_chain: the block joins the chain and the list. *)
AddBlock(b) ==
    /\ mode = "up"
    /\ Len(chain) < MaxHeight
    /\ Follows(b)
    /\ chain' = Append(chain, b)
    /\ peak' = IF Len(chain') > peak THEN Len(chain') ELSE peak
    /\ final' = Finalised(chain')
    /\ list' = ProcessBlock(list, chain')
    /\ UNCHANGED <<db, mode, scanned, popped, cuts, stops>>

(* The block is refused after the list has taken it in: abort_block pops it *)
(* and detaches the list again.                                             *)
AbortBlock(b) ==
    /\ mode = "up"
    /\ cuts < MaxCuts
    /\ Len(chain) < MaxHeight
    /\ LET l == ProcessBlock(list, Append(chain, b))
       IN  /\ list' = Detached(l, chain)
           /\ db' = DataDetached(l, chain)
    /\ peak' = IF Len(chain) + 1 > peak THEN Len(chain) + 1 ELSE peak
    /\ cuts' = cuts + 1
    /\ UNCHANGED <<chain, final, mode, scanned, popped, stops>>

(* A chain switch, a rollback or pop_blocks leaves the chain at height h    *)
(* and replays what the list has lost.                                      *)
StoredAbove(h) == At(db.short, h + 1) # {} /\ Above(db.short, h + 1) = {}
Reachable(h) ==
    \/ peak - h <= MaxReorg
    \/ DeepPops /\ ~InHistory(list, h)
Detach(h) ==
    /\ mode = "up"
    /\ cuts < MaxCuts
    /\ Reachable(h)
    /\ MeetsStored \/ ~StoredAbove(h)
    /\ chain' = First(chain, h)
    /\ peak' = IF InHistory(list, h) THEN peak ELSE h
    /\ list' = Detached(list, chain')
    /\ db' = DataDetached(list, chain')
    /\ mode' = AfterFallback(list', chain')
    /\ scanned' = 0
    /\ popped' = (popped \/ ~InHistory(list, h))
    /\ cuts' = cuts + 1
    /\ UNCHANGED <<final, stops>>

(* load_missing_blocks_into_quenero_subsystems gives the list the next block *)
(* of the chain, and stores it after every batch and at the end.             *)
Replay ==
    /\ mode = "replay"
    /\ list' = ProcessBlock(list, First(chain, list.m.height + 1))
    /\ \/ /\ list'.m.height = Len(chain) \/ scanned + 1 = ScanBatch
          /\ mode' = "storing"
          /\ scanned' = 0
       \/ /\ list'.m.height # Len(chain) /\ scanned + 1 # ScanBatch
          /\ mode' = "replay"
          /\ scanned' = scanned + 1
    /\ UNCHANGED <<chain, peak, final, db, popped, cuts, stops>>

(* store() in two database transactions, the short-term states last. *)
StoreLongTerm ==
    /\ mode \in {"storing", "stopping"}
    /\ db' = [db EXCEPT !.long = LongTermData(list)]
    /\ mode' = IF mode = "storing" THEN "stored" ELSE "stopped"
    /\ UNCHANGED <<chain, peak, final, list, scanned, popped, cuts, stops>>

StoreShortTerm ==
    /\ mode \in {"stored", "stopped"}
    /\ db' = [db EXCEPT !.short = ShortTermData(list)]
    /\ list' = IF mode = "stored" THEN [list EXCEPT !.added = FALSE] ELSE EmptyList
    /\ mode' = IF mode = "stored" THEN AfterFallback(list, chain) ELSE "down"
    /\ UNCHANGED <<chain, peak, final, scanned, popped, cuts, stops>>

(* core::deinit stores the list; a crash stores nothing.  The environment    *)
(* does not crash the daemon between the two writes once the archive has    *)
(* been cut back by a deep pop: the older short-term states may need the    *)
(* archive that has just been overwritten.                                  *)
Stop ==
    /\ mode = "up"
    /\ stops < MaxStops
    /\ mode' = "stopping"
    /\ stops' = stops + 1
    /\ UNCHANGED <<chain, peak, final, list, db, scanned, popped, cuts>>

Crash ==
    /\ mode # "down"
    /\ stops < MaxStops
    /\ MeetsStored \/ ~StoredAbove(Len(chain))
    /\ mode \in {"stored", "stopped"} => ~popped
    /\ mode' = "down"
    /\ list' = EmptyList
    /\ scanned' = 0
    /\ stops' = stops + 1
    /\ UNCHANGED <<chain, peak, final, db, popped, cuts>>

(* Mutant: a daemon that finds nothing to load does not start. *)
StartLoaded ==
    /\ mode = "down"
    /\ Accepted(db, chain)
    /\ list' = Loaded(db)
    /\ mode' = AfterFallback(list', chain)
    /\ scanned' = 0
    /\ UNCHANGED <<chain, peak, final, db, popped, cuts, stops>>

(* Blockchain::init runs init() of the list and replays what is missing. *)
Start ==
    /\ mode = "down"
    /\ list' = AfterInit(db, chain)
    /\ db' = DataAfterInit(db, chain)
    /\ mode' = AfterFallback(list', chain)
    /\ scanned' = 0
    /\ UNCHANGED <<chain, peak, final, popped, cuts, stops>>

Next == \/ \E b \in Blocks : AddBlock(b) \/ AbortBlock(b)
        \/ \E h \in 0..(Len(chain) - 1) : Detach(h)
        \/ Replay \/ StoreLongTerm \/ StoreShortTerm
        \/ Stop \/ Crash \/ Start

(* The daemon's thread finishes the replay, the store and the start. *)
Fairness == WF_vars(Replay \/ StoreLongTerm \/ StoreShortTerm \/ Start)

Spec == Init /\ [][Next]_vars
FairSpec == Spec /\ Fairness

-----------------------------------------------------------------------------
(* Properties *)

Modes == {"up", "replay", "storing", "stored", "stopping", "stopped", "down"}
Chains == Seq(Blocks)
States == [height : Nat, of : Chains \cup {Wrong}, full : BOOLEAN]

(* The list, its history, archive and stored copy keep their types. *)
TypeOK ==
    /\ chain \in Chains /\ final \in Chains
    /\ peak \in Nat /\ scanned \in Nat /\ cuts \in Nat /\ stops \in Nat
    /\ list \in [m : States, history : SUBSET States, archive : SUBSET States,
                 added : BOOLEAN]
    /\ db \in [long : SUBSET States, short : SUBSET States]
    /\ mode \in Modes
    /\ popped \in BOOLEAN

(* Whatever was cached, archived, stored, lost or replayed, m_state is the   *)
(* list of a block of the main chain: no effect of a detached block stays in *)
(* it, no block is applied twice, and no state change is skipped.            *)
ListChain == IF list.m.full THEN list.m.of ELSE Wrong
Promise == INSTANCE ListOfChain WITH list <- ListChain
ListFollowsChain == Promise!Spec

(* A daemon that is not stopped again has replayed its way back to the top   *)
(* of the chain.                                                             *)
CatchesUp == mode # "up" ~> mode = "up"

(* The states on disk are of the main chain as it is now: what a reorganised *)
(* daemon finds after a crash is never the list of the branch it left.       *)
StoredRight ==
    \A s \in db.short \cup db.long :
        s.height <= Len(chain) => s.of = First(chain, s.height)

(* store() and process_block keep the quorums that the next block's state    *)
(* changes may refer to: the comment in store() has the first stored states  *)
(* there only "such that the following states have quorum information        *)
(* preceeding it".                                                           *)
QuorumsAtHand ==
    mode \in {"up", "replay"} =>
        \A r \in Referable(list.m.height + 1) \ {list.m.height} :
            FindsQuorum(list, First(chain, list.m.height), r)

=============================================================================
