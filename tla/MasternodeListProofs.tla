------------------------ MODULE MasternodeListProofs ------------------------
(***************************************************************************)
(* The masternode list follows the main chain, for every length of the     *)
(* chain, every number of switches, pops, stops and crashes and every      *)
(* value of the code's constants that keeps chain switches within the      *)
(* verification buffer.                                                    *)
(***************************************************************************)
EXTENDS MasternodeList, SequenceTheorems, TLAPS

(* Switches replace at most Buffer blocks; the history is long enough for   *)
(* what store() leaves out, and the interval of the archive for the quorums *)
(* it takes with a list; the first masternode block is above the length of  *)
(* the history.  Where blocks are popped from below the history, init()     *)
(* does not find the chain just below the stored state.                     *)
Tuned ==
    /\ MaxReorg >= 1 /\ MaxReorg <= Buffer
    /\ MaxReorg + QuorumWindow <= ShortHistory + 1
    /\ ShortHistory < Base
    /\ QuorumWindow < Interval
    /\ DeepPops => ~MeetsStored

ListType == [m : States, history : SUBSET States, archive : SUBSET States,
             added : BOOLEAN]
DataType == [long : SUBSET States, short : SUBSET States]

(* A state is of the prefix of chain c of its own height. *)
IsOf(s, c) == s.height <= Len(c) /\ s.of = First(c, s.height)

Unique(states) == \A s, t \in states : s.height = t.height => s = t

(* One of two chains is a prefix of the other. *)
Agree(c, f) == \/ Len(f) <= Len(c) /\ f = First(c, Len(f))
               \/ Len(c) <= Len(f) /\ c = First(f, Len(c))

(* The quorums that the block after s may refer to are those of states. *)
Refers(h, r) == h + 2 <= r + VoteLifetime
Closed(s, states) ==
    \A r \in 0..(s.height - 1) : Refers(s.height, r) => \E t \in states : t.height = r

(* Archived states are final, and a complete one can be replayed from. *)
ArchiveGood(states, f) ==
    /\ \A s \in states : IsOf(s, f)
    /\ Unique(states)
    /\ \A s \in states : s.full => Closed(s, states)

(* Why the quorums of height r may be missing: they were culled, at a height *)
(* no switch needs again and the archive leaves out, or they were never      *)
(* loaded and no state of the history refers to them.                        *)
Early(l, p, r) == r <= p - ShortHistory /\ r <= l.m.height + MaxReorg - ShortHistory
NeedsAt(r) == Interval - ((Base + r) % Interval) <= QuorumWindow
Culled(l, p, r) == Early(l, p, r) /\ ~NeedsAt(r)
NotLoaded(l, r) == \A s \in l.history \cup {l.m} : s.full => ~Refers(s.height, r)

(* What holds of the history and the archive for chain c with final part f   *)
(* that has been p blocks high.                                              *)
RestGood(l, c, p, f) ==
    /\ \A s \in l.history : /\ s.height < l.m.height
                            /\ s.of = First(c, s.height)
                            /\ s.full \/ s.height < Len(f)
    /\ Unique(l.history)
    /\ \A r \in 0..(l.m.height - 1) :
          (\A s \in l.history : s.height # r) => r < Len(f) \/ Early(l, p, r)
    /\ \A r \in 0..(l.m.height - 1) :
          (\A s \in l.history \cup l.archive : s.height # r) => Culled(l, p, r) \/ NotLoaded(l, r)
    /\ ArchiveGood(l.archive, f)

ListGood(l, c, p, f) == l.m.full /\ IsOf(l.m, c) /\ RestGood(l, c, p, f)

(* What holds of the stored states. *)
DataGood(d, f) ==
    /\ \A s \in d.short : IsOf(s, f)
    /\ Unique(d.short)
    /\ \A s \in d.short : s.full => \A t \in d.short : t.height <= s.height
    /\ ArchiveGood(d.long, f)
DataClosed(d) == \A s \in d.short : s.full => Closed(s, d.short \cup d.long)

(* Blocks popped from below the history leave the chain below its final part. *)
ChainGood(c, p, f) ==
    /\ Agree(c, f)
    /\ Len(c) <= p /\ p <= Len(c) + MaxReorg
    /\ Len(c) <= Len(f) + MaxReorg
    /\ ~DeepPops => /\ Len(f) <= Len(c)
                    /\ Len(f) = 0 \/ Len(f) + MaxReorg <= p

ModeGood ==
    /\ mode \in {"up", "stopping", "stopped"} => list.m.height = Len(chain)
    /\ mode = "replay" => list.m.height < Len(chain)
    /\ mode = "down" => MeetsStored \/ ~StoredAbove(Len(chain))

(* The archive in memory and the stored one. *)
Written == mode \in {"stored", "stopped"}
StoreGood ==
    /\ (Written /\ popped) \/ DataClosed(db)
    /\ mode # "down" /\ (~list.added \/ Written) => list.archive \subseteq db.long
    /\ mode # "down" /\ ~popped => db.long \subseteq list.archive

IInv ==
    /\ TypeOK
    /\ ChainGood(chain, peak, final)
    /\ ListGood(list, chain, peak, final)
    /\ DataGood(db, final)
    /\ ModeGood
    /\ StoreGood

-----------------------------------------------------------------------------
(* Prefixes of a chain *)

(* A prefix of a chain is a chain of the length asked for. *)
LEMMA FirstChain ==
    ASSUME NEW c \in Chains, NEW n \in 0..Len(c)
    PROVE  /\ First(c, n) \in Chains
           /\ Len(First(c, n)) = n
           /\ \A i \in 1..n : First(c, n)[i] = c[i]
BY DEF First, Chains

(* Two chains of one length with the same blocks are the same. *)
LEMMA SameBlocks ==
    ASSUME NEW c \in Chains, NEW d \in Chains, Len(c) = Len(d),
           \A i \in 1..Len(c) : c[i] = d[i]
    PROVE  c = d
BY SeqEqual DEF Chains

(* A chain is its own longest prefix, and the shortest is empty. *)
LEMMA FirstEnds ==
    ASSUME NEW c \in Chains
    PROVE  First(c, Len(c)) = c /\ First(c, 0) = <<>>
<1>1. Len(c) \in 0..Len(c) /\ 0 \in 0..Len(c)
  BY DEF Chains
<1>2. First(c, Len(c)) = c
  BY <1>1, FirstChain, SameBlocks
<1>3. First(c, 0) = <<>>
  BY <1>1, FirstChain, EmptySeq DEF Chains
<1> QED BY <1>2, <1>3

(* A prefix of a prefix is a prefix. *)
LEMMA FirstFirst ==
    ASSUME NEW c \in Chains, NEW n \in 0..Len(c), NEW k \in 0..n
    PROVE  First(First(c, n), k) = First(c, k)
<1>1. k \in 0..Len(c) /\ Len(c) \in Nat
  BY DEF Chains
<1>2. First(c, n) \in Chains /\ k \in 0..Len(First(c, n))
  BY FirstChain
<1>3. \A i \in 1..k : i \in 1..n /\ First(c, n)[i] = c[i]
  BY FirstChain
<1>4. \A i \in 1..k : First(First(c, n), k)[i] = First(c, k)[i]
  BY <1>1, <1>2, <1>3, FirstChain
<1> QED BY <1>1, <1>2, <1>4, FirstChain, SameBlocks

(* The prefixes of a chain stay when a block is appended. *)
LEMMA FirstAppend ==
    ASSUME NEW c \in Chains, NEW b \in Blocks, NEW k \in 0..Len(c)
    PROVE  /\ Append(c, b) \in Chains
           /\ Len(Append(c, b)) = Len(c) + 1
           /\ First(Append(c, b), k) = First(c, k)
<1>1. Append(c, b) \in Chains /\ Len(Append(c, b)) = Len(c) + 1 /\ Len(c) \in Nat
  BY DEF Chains
<1>2. \A i \in 1..k : Append(c, b)[i] = c[i]
  BY DEF Chains
<1>3. k \in 0..Len(Append(c, b))
  BY <1>1
<1>4. \A i \in 1..k : First(Append(c, b), k)[i] = First(c, k)[i]
  BY <1>1, <1>2, <1>3, FirstChain
<1>5. First(Append(c, b), k) = First(c, k)
  <2> DEFINE x == First(Append(c, b), k)
             y == First(c, k)
  <2>1. x \in Chains /\ Len(x) = k /\ y \in Chains /\ Len(y) = k
    BY <1>1, <1>3, FirstChain
  <2>2. \A i \in 1..k : x[i] = y[i]
    BY <1>4
  <2> HIDE DEF x, y
  <2>3. x = y
    BY <2>1, <2>2, SameBlocks
  <2> QED BY <2>3 DEF x, y
<1> QED BY <1>1, <1>5

(* Chains of which one is a prefix of the other have the same prefixes. *)
LEMMA AgreeFirst ==
    ASSUME NEW c \in Chains, NEW f \in Chains, Agree(c, f), NEW k \in Nat,
           k <= Len(c), k <= Len(f)
    PROVE  First(c, k) = First(f, k)
<1>0. Len(c) \in Nat /\ Len(f) \in Nat
  BY DEF Chains
<1>1. CASE Len(f) <= Len(c) /\ f = First(c, Len(f))
  <2>1. Len(f) \in 0..Len(c) /\ k \in 0..Len(f)
    BY <1>0, <1>1
  <2> QED BY <2>1, <1>1, FirstFirst
<1>2. CASE Len(c) <= Len(f) /\ c = First(f, Len(c))
  <2>1. Len(c) \in 0..Len(f) /\ k \in 0..Len(c)
    BY <1>0, <1>2
  <2> QED BY <2>1, <1>2, FirstFirst
<1> QED BY <1>1, <1>2 DEF Agree

(* They stay so when one of them is cut. *)
LEMMA AgreeCut ==
    ASSUME NEW c \in Chains, NEW f \in Chains, Agree(c, f), NEW h \in 0..Len(c)
    PROVE  Agree(First(c, h), f)
<1>0. Len(c) \in Nat /\ Len(f) \in Nat /\ h \in Nat /\ h <= Len(c)
  BY DEF Chains
<1>1. First(c, h) \in Chains /\ Len(First(c, h)) = h
  BY FirstChain
<1>2. CASE h <= Len(f)
  <2>1. First(c, h) = First(f, h)
    BY <1>0, <1>2, AgreeFirst
  <2> QED BY <2>1, <1>1, <1>2 DEF Agree
<1>3. CASE Len(f) <= h
  <2>1. Len(f) <= Len(c) /\ Len(f) \in 0..h
    BY <1>0, <1>3
  <2>2. First(First(c, h), Len(f)) = First(c, Len(f))
    BY <2>1, FirstFirst
  <2>3. First(c, Len(f)) = First(f, Len(f)) /\ First(f, Len(f)) = f
    BY <2>1, <1>0, AgreeFirst, FirstEnds
  <2> QED BY <2>2, <2>3, <1>1, <1>3 DEF Agree
<1> QED BY <1>0, <1>2, <1>3

(* A state of one of them is of the other, if that is long enough. *)
LEMMA AgreeIsOf ==
    ASSUME NEW c \in Chains, NEW f \in Chains, Agree(c, f), NEW s \in States,
           s.height <= Len(c), s.height <= Len(f)
    PROVE  IsOf(s, c) <=> IsOf(s, f)
<1>1. s.height \in Nat
  BY DEF States
<1>2. First(c, s.height) = First(f, s.height)
  BY <1>1, AgreeFirst
<1> QED BY <1>2 DEF IsOf

-----------------------------------------------------------------------------
(* One block *)

(* The parts of a list are of their types. *)
LEMMA ListFields ==
    ASSUME NEW l \in ListType
    PROVE  /\ l.m \in States /\ l.history \in SUBSET States
           /\ l.archive \in SUBSET States /\ l.added \in BOOLEAN
           /\ l = [m |-> l.m, history |-> l.history, archive |-> l.archive,
                   added |-> l.added]
BY DEF ListType

(* The fields of a state_t. *)
LEMMA StateFields ==
    ASSUME NEW s \in States
    PROVE  /\ s.height \in Nat /\ s.of \in Chains \cup {Wrong} /\ s.full \in BOOLEAN
           /\ QuorumsOnly(s) \in States
           /\ QuorumsOnly(s).height = s.height
           /\ QuorumsOnly(s).of = s.of
           /\ QuorumsOnly(s).full = FALSE
BY DEF States, QuorumsOnly

(* The archive takes over states with their heights and chains. *)
LEMMA ArchivedStates ==
    ASSUME NEW S \in SUBSET States, NEW s \in Archived(S)
    PROVE  s \in States /\ \E t \in S : s.height = t.height /\ s.of = t.of
<1>1. PICK t \in S : s = IF NeedsQuorum(t) THEN QuorumsOnly(t) ELSE t
  BY DEF Archived
<1> QED BY <1>1, StateFields

(* The heights in a list are natural numbers. *)
LEMMA ListHeights ==
    ASSUME NEW l \in ListType
    PROVE  /\ l.m.height \in Nat
           /\ \A s \in l.history \cup l.archive : s.height \in Nat
<1>1. l.m \in States /\ l.history \in SUBSET States /\ l.archive \in SUBSET States
  BY ListFields
<1> QED BY <1>1, StateFields

(* process_block: what becomes of the history, the archive and m_state. *)
LEMMA ProcessFields ==
    ASSUME NEW l \in ListType, NEW d \in Chains
    PROVE  LET q   == ProcessBlock(l, d)
               old == {s \in l.history : s.height <= CullHeight(Len(d))}
           IN
           /\ q \in ListType
           /\ q.history = Insert(l.history \ old, l.m)
           /\ q.archive = l.archive \cup {s \in Archived(old) : At(l.archive, s.height) = {}}
           /\ q.added = (l.added \/ Archived(old) # {})
           /\ q.m.height = l.m.height + 1
           /\ q.m.full = l.m.full
           /\ (/\ l.m.full
               /\ l.m.of = First(d, Len(d) - 1)
               /\ \A r \in Referable(Len(d)) : FindsQuorum(q, d, r))
              => q.m.of = d
<1> DEFINE old  == {s \in l.history : s.height <= CullHeight(Len(d))}
           kept == {s \in Archived(old) : At(l.archive, s.height) = {}}
           H    == Insert(l.history \ old, l.m)
           A    == l.archive \cup kept
           a    == l.added \/ Archived(old) # {}
           next == [m |-> l.m, history |-> H, archive |-> A, added |-> a]
           u    == Updated(next, d)
           q    == [m |-> u, history |-> H, archive |-> A, added |-> a]
<1>1. ProcessBlock(l, d) = q
  <2>1. ProcessBlock(l, d) = [next EXCEPT !.m = u]
    BY DEF ProcessBlock
  <2> HIDE DEF H, A, a, u
  <2>2. [next EXCEPT !.m = u] = q
    OBVIOUS
  <2> QED BY <2>1, <2>2
<1>2. H \in SUBSET States
  BY ListFields DEF Insert
<1>3. A \in SUBSET States
  BY ListFields, ArchivedStates
<1>4. a \in BOOLEAN
  BY ListFields
<1> DEFINE right == /\ l.m.full
                    /\ l.m.of = First(d, Len(d) - 1)
                    /\ \A r \in Referable(Len(d)) : FindsQuorum(next, d, r)
<1>5. u = [height |-> l.m.height + 1, of |-> IF right THEN d ELSE Wrong, full |-> l.m.full]
  <2> HIDE DEF H, A, a
  <2>1. next.m = l.m
    OBVIOUS
  <2> HIDE DEF next
  <2> QED BY <2>1 DEF Updated, State
<1>6. \A r : FindsQuorum(next, d, r) <=> FindsQuorum(q, d, r)
  <2> HIDE DEF H, A, a, u
  <2>1. next.history = q.history /\ next.archive = q.archive
    OBVIOUS
  <2> HIDE DEF next, q
  <2> QED BY <2>1 DEF FindsQuorum
<1>7. /\ u.height = l.m.height + 1 /\ u.full = l.m.full /\ u \in States
      /\ right => u.of = d
  <2> HIDE DEF right, u
  <2> QED BY <1>5, ListFields, StateFields DEF States
<1>8. (/\ l.m.full
       /\ l.m.of = First(d, Len(d) - 1)
       /\ \A r \in Referable(Len(d)) : FindsQuorum(q, d, r)) => u.of = d
  <2> HIDE DEF q, next, u
  <2> QED BY <1>6, <1>7
<1>9. q \in ListType
  <2> HIDE DEF H, A, a, u
  <2> QED BY <1>2, <1>3, <1>4, <1>7 DEF ListType
<1>10. /\ q.history = H /\ q.archive = A /\ q.added = a /\ q.m = u
  <2> HIDE DEF H, A, a, u
  <2> QED OBVIOUS
<1> HIDE DEF H, A, a, u, q, next
<1>11. /\ q.m.height = l.m.height + 1 /\ q.m.full = l.m.full
  BY <1>7, <1>10
<1>12. (/\ l.m.full
        /\ l.m.of = First(d, Len(d) - 1)
        /\ \A r \in Referable(Len(d)) : FindsQuorum(q, d, r)) => q.m.of = d
  BY <1>8, <1>10
<1> QED BY <1>1, <1>9, <1>10, <1>11, <1>12, Zenon DEF H, A, a

(* The list that reset() leaves, and the database. *)
LEMMA EmptyType ==
    /\ EmptyList \in ListType /\ EmptyList.m.height = 0
    /\ NoData \in DataType
<1>1. <<>> \in Chains
  BY DEF Chains
<1>2. State(0, <<>>, TRUE) \in States /\ State(0, <<>>, TRUE).height = 0
  BY <1>1 DEF State, States
<1> QED BY <1>2 DEF EmptyList, ListType, NoData, DataType

-----------------------------------------------------------------------------
(* Types, whatever the constants: pops below the history, and histories too *)
(* short for the quorums of the blocks, included                            *)

TypeInv == TypeOK /\ (mode = "replay" => list.m.height < Len(chain))

(* process_block keeps the types. *)
LEMMA ProcessType ==
    ASSUME NEW l \in ListType, NEW d \in Chains
    PROVE  /\ ProcessBlock(l, d) \in ListType
           /\ ProcessBlock(l, d).m.height = l.m.height + 1
BY ProcessFields

(* So does what init() finds in the database. *)
LEMMA LoadedType ==
    ASSUME NEW d \in DataType, NEW c \in Chains
    PROVE  AfterInit(d, c) \in ListType /\ DataAfterInit(d, c) \in DataType
<1>1. EmptyList \in ListType /\ NoData \in DataType
  BY EmptyType
<1>2. ASSUME Loadable(d) PROVE Loaded(d) \in ListType
  <2>1. d.long \in SUBSET States /\ d.short \in SUBSET States
    BY DEF DataType
  <2>2. Newest(d.short) \in d.short
    BY <1>2 DEF Loadable, Newest
  <2> QED BY <2>1, <2>2 DEF Loaded, ListType
<1> QED BY <1>1, <1>2 DEF AfterInit, DataAfterInit, Accepted

(* So does a detachment, wherever the state comes from. *)
LEMMA DetachedType ==
    ASSUME TypeOK, NEW l \in ListType, NEW c \in Chains
    PROVE  Detached(l, c) \in ListType /\ DataDetached(l, c) \in DataType
<1>0. /\ l.m \in States /\ l.history \in SUBSET States
      /\ l.archive \in SUBSET States /\ l.added \in BOOLEAN
  BY ListFields
<1>1. db \in DataType
  BY DEF TypeOK, DataType
<1>2. ASSUME NEW h, InHistory(l, h) PROVE FromHistory(l, h) \in ListType
  <2> DEFINE m == CHOOSE s \in At(l.history, h) : TRUE
  <2>1. m \in States
    <3>1. m \in At(l.history, h)
      BY <1>2 DEF InHistory
    <3> QED BY <1>0, <3>1 DEF At
  <2> HIDE DEF m
  <2>2. FromHistory(l, h) = [m |-> m, history |-> {s \in l.history : s.height < h},
                             archive |-> l.archive, added |-> l.added]
    BY DEF FromHistory, m
  <2> QED BY <1>0, <2>1, <2>2 DEF ListType
<1>3. ASSUME NEW h, InArchive(l, h) PROVE FromArchive(l, h) \in ListType
  <2> DEFINE m == CHOOSE s \in At(l.archive, PrevInterval(h)) : TRUE
  <2>1. m \in States
    <3>1. m \in At(l.archive, PrevInterval(h))
      BY <1>3 DEF InArchive
    <3> QED BY <1>0, <3>1 DEF At
  <2> HIDE DEF m
  <2>2. FromArchive(l, h) = [m |-> m, history |-> {},
                             archive |-> {s \in l.archive : s.height < PrevInterval(h)},
                             added |-> l.added]
    BY DEF FromArchive, m
  <2> QED BY <1>0, <2>1, <2>2 DEF ListType
<1> QED BY <1>1, <1>2, <1>3, LoadedType DEF Detached, DataDetached

(* Every step keeps the types. *)
LEMMA TypeStep == TypeInv /\ [Next]_vars => TypeInv'
<1> SUFFICES ASSUME TypeInv, [Next]_vars PROVE TypeInv'
  OBVIOUS
<1>0. /\ chain \in Chains /\ final \in Chains /\ list \in ListType /\ db \in DataType
      /\ peak \in Nat /\ scanned \in Nat /\ cuts \in Nat /\ stops \in Nat
      /\ mode \in Modes /\ popped \in BOOLEAN /\ TypeOK
      /\ Len(chain) \in Nat /\ Len(final) \in Nat /\ MaxReorg \in Nat
      /\ list.m.height \in Nat
  <2>1. list \in ListType /\ chain \in Chains /\ final \in Chains
    BY DEF TypeInv, TypeOK, ListType
  <2> QED BY <2>1, ListHeights, ListAssumption DEF TypeInv, TypeOK, DataType, Chains
<1>1. ASSUME NEW b \in Blocks, AddBlock(b) PROVE TypeInv'
  <2>1. chain' = Append(chain, b) /\ chain' \in Chains /\ Len(chain') = Len(chain) + 1
    BY <1>0, <1>1, FirstAppend, FirstEnds DEF AddBlock, Chains
  <2>2. final' \in Chains
    <3>1. CASE Len(chain') > Len(final) + MaxReorg
      <4>1. Len(chain') - MaxReorg \in 0..Len(chain')
        BY <1>0, <2>1, <3>1
      <4>2. First(chain', Len(chain') - MaxReorg) \in Chains
        BY <2>1, <4>1, FirstChain
      <4> QED BY <1>1, <3>1, <4>2 DEF AddBlock, Finalised
    <3>2. CASE ~(Len(chain') > Len(final) + MaxReorg)
      BY <1>0, <1>1, <3>2 DEF AddBlock, Finalised
    <3> QED BY <3>1, <3>2
  <2>3. list' \in ListType
    BY <1>0, <1>1, <2>1, ProcessType DEF AddBlock
  <2>4. peak' \in Nat /\ mode' = mode /\ mode = "up"
        /\ UNCHANGED <<db, scanned, popped, cuts, stops>>
    BY <1>0, <1>1, <2>1 DEF AddBlock
  <2> QED BY <1>0, <2>1, <2>2, <2>3, <2>4 DEF TypeInv, TypeOK, ListType, DataType
<1>2. ASSUME NEW b \in Blocks, AbortBlock(b) PROVE TypeInv'
  <2> DEFINE l == ProcessBlock(list, Append(chain, b))
  <2>1. Append(chain, b) \in Chains
    BY <1>0 DEF Chains
  <2>2. l \in ListType
    BY <1>0, <2>1, ProcessType
  <2>3. list' = Detached(l, chain) /\ db' = DataDetached(l, chain)
    BY <1>2 DEF AbortBlock
  <2> HIDE DEF l
  <2>4. list' \in ListType /\ db' \in DataType
    BY <1>0, <2>2, <2>3, DetachedType
  <2>5. peak' \in Nat /\ cuts' \in Nat /\ mode = "up"
        /\ UNCHANGED <<chain, final, mode, scanned, popped, stops>>
    BY <1>0, <1>2 DEF AbortBlock
  <2> QED BY <1>0, <2>4, <2>5 DEF TypeInv, TypeOK, ListType, DataType
<1>3. ASSUME NEW h \in 0..(Len(chain) - 1), Detach(h) PROVE TypeInv'
  <2>0. h \in Nat /\ h \in 0..Len(chain) /\ chain' = First(chain, h)
    BY <1>0, <1>3 DEF Detach
  <2>1. chain' \in Chains
    BY <1>0, <2>0, FirstChain
  <2>2. list' \in ListType /\ db' \in DataType
    BY <1>0, <1>3, <2>1, DetachedType DEF Detach
  <2>3. peak' \in Nat /\ cuts' \in Nat /\ scanned' = 0 /\ UNCHANGED <<final, stops>>
    BY <1>0, <1>3, <2>0 DEF Detach
  <2>5. popped' \in BOOLEAN
    <3>1. popped' = (popped \/ ~InHistory(list, h))
      BY <1>3 DEF Detach
    <3> QED BY <3>1, Zenon
  <2>4. mode' \in Modes /\ (mode' = "replay" => list'.m.height < Len(chain'))
    BY <1>3 DEF Detach, AfterFallback, Modes
  <2> QED BY <1>0, <2>1, <2>2, <2>3, <2>4, <2>5 DEF TypeInv, TypeOK, ListType, DataType
<1>4. CASE Replay
  <2> DEFINE d == First(chain, list.m.height + 1)
  <2>0. mode = "replay" /\ list.m.height < Len(chain)
    BY <1>4 DEF Replay, TypeInv
  <2>1. d \in Chains
    BY <1>0, <2>0, FirstChain
  <2>2. list' = ProcessBlock(list, d)
    BY <1>4 DEF Replay
  <2> HIDE DEF d
  <2>3. list' \in ListType /\ list'.m.height = list.m.height + 1
    BY <1>0, <2>1, <2>2, ProcessType
  <2>4. /\ mode' \in {"storing", "replay"} /\ scanned' \in Nat
        /\ mode' = "replay" => list'.m.height # Len(chain)
        /\ UNCHANGED <<chain, peak, final, db, popped, cuts, stops>>
    BY <1>0, <1>4 DEF Replay
  <2>5. mode' = "replay" => list'.m.height < Len(chain')
    BY <1>0, <2>0, <2>3, <2>4
  <2> QED BY <1>0, <2>3, <2>4, <2>5 DEF TypeInv, TypeOK, ListType, DataType, Modes
<1>5. CASE StoreLongTerm
  <2>1. LongTermData(list) \in SUBSET States
    BY <1>0 DEF LongTermData, ListType, DataType
  <2>2. db' \in DataType
    BY <1>0, <1>5, <2>1 DEF StoreLongTerm, DataType
  <2>3. mode' \in {"stored", "stopped"}
        /\ UNCHANGED <<chain, peak, final, list, scanned, popped, cuts, stops>>
    BY <1>5 DEF StoreLongTerm
  <2> QED BY <1>0, <2>2, <2>3 DEF TypeInv, TypeOK, ListType, DataType, Modes
<1>6. CASE StoreShortTerm
  <2>1. ShortTermData(list) \in SUBSET States
    BY <1>0, ListFields, StateFields DEF ShortTermData
  <2>2. db' \in DataType
    BY <1>0, <1>6, <2>1 DEF StoreShortTerm, DataType
  <2>3. list' \in ListType /\ (mode = "stored" => list'.m = list.m)
    BY <1>0, <1>6, EmptyType DEF StoreShortTerm, ListType
  <2>4. UNCHANGED <<chain, peak, final, scanned, popped, cuts, stops>>
    BY <1>6 DEF StoreShortTerm
  <2>5. mode' \in {"replay", "up", "down"} /\ (mode' = "replay" => list'.m.height < Len(chain'))
    BY <1>6, <2>3, <2>4 DEF StoreShortTerm, AfterFallback
  <2> QED BY <1>0, <2>2, <2>3, <2>4, <2>5 DEF TypeInv, TypeOK, ListType, DataType, Modes
<1>7. CASE Stop
  BY <1>0, <1>7 DEF Stop, TypeInv, TypeOK, ListType, DataType, Modes
<1>8. CASE Crash
  <2>1. list' \in ListType
    BY <1>0, <1>8, EmptyType DEF Crash
  <2>2. mode' = "down" /\ scanned' = 0 /\ stops' \in Nat
        /\ UNCHANGED <<chain, peak, final, db, popped, cuts>>
    BY <1>0, <1>8 DEF Crash
  <2> QED BY <1>0, <2>1, <2>2 DEF TypeInv, TypeOK, ListType, DataType, Modes
<1>9. CASE Start
  <2>1. list' \in ListType /\ db' \in DataType
    BY <1>0, <1>9, LoadedType DEF Start
  <2>2. scanned' = 0 /\ UNCHANGED <<chain, peak, final, popped, cuts, stops>>
    BY <1>9 DEF Start
  <2>3. mode' \in {"replay", "up"} /\ (mode' = "replay" => list'.m.height < Len(chain'))
    BY <1>9, <2>2 DEF Start, AfterFallback
  <2> QED BY <1>0, <2>1, <2>2, <2>3 DEF TypeInv, TypeOK, ListType, DataType, Modes
<1>10. CASE UNCHANGED vars
  BY <1>10 DEF vars, TypeInv, TypeOK
<1> QED BY <1>1, <1>2, <1>3, <1>4, <1>5, <1>6, <1>7, <1>8, <1>9, <1>10 DEF Next

-----------------------------------------------------------------------------
(* The constants *)

(* The constants as the arithmetic below needs them. *)
LEMMA Constants ==
    ASSUME Tuned
    PROVE  /\ VoteLifetime \in Nat /\ VoteLifetime >= 1
           /\ ShortHistory \in Nat /\ MaxReorg \in Nat /\ MaxReorg >= 1
           /\ Buffer \in Nat /\ MaxReorg <= Buffer
           /\ MaxReorg + VoteLifetime + Buffer <= ShortHistory + 1
BY ListAssumption DEF Tuned, QuorumWindow

(* Above the first masternode block the cull height is a plain difference. *)
LEMMA CullHeightIs ==
    ASSUME Tuned, NEW n \in Int, n >= -1
    PROVE  CullHeight(n) = n - ShortHistory
BY ListAssumption DEF CullHeight, Tuned

(* What % gives below a multiple of m. *)
LEMMA ModBelow ==
    ASSUME NEW a \in Nat, NEW m \in Nat \ {0}, a % m = 0, NEW i \in 1..m - 1, i <= a
    PROVE  (a - i) % m = m - i
<1> DEFINE p == a \div m
           q == (a - i) \div m
           s == (a - i) % m
<1>1. ASSUME NEW x \in Int
      PROVE  /\ x \div m \in Int /\ x = m * (x \div m) + (x % m)
             /\ x % m \in 0..m - 1
  OBVIOUS
<1>2. p \in Int /\ q \in Int /\ s \in 0..m - 1 /\ a = m * p /\ a - i = m * q + s
  BY <1>1
<1> HIDE DEF p, q, s
<1> DEFINE k == p - q
<1>3. k \in Int /\ m * k = i + s
  <2>1. m * p - m * q = i + s
    BY <1>2
  <2>2. m * p - m * q = m * (p - q)
    BY <1>2
  <2> QED BY <1>2, <2>1, <2>2
<1> HIDE DEF k
<1>4. k <= 0 => m * k <= 0
  BY <1>3
<1>5. k >= 2 => m * k >= 2 * m
  BY <1>3
<1>6. k = 1
  BY <1>2, <1>3, <1>4, <1>5
<1>7. s = m - i
  BY <1>2, <1>3, <1>6
<1> QED BY <1>7 DEF s

(* The archive takes the quorums a complete state of it refers to. *)
LEMMA WindowNeeded ==
    ASSUME Tuned, NEW h \in Nat, (Base + h) % Interval = 0, NEW r \in 0..(h - 1), Refers(h, r)
    PROVE  NeedsAt(r)
<1> DEFINE a == Base + h
           i == h - r
<1>1. /\ a \in Nat /\ Interval \in Nat \ {0} /\ i <= a /\ i \in Nat /\ i >= 1
      /\ a % Interval = 0 /\ Base + r = a - i
  BY ListAssumption
<1>2. /\ VoteLifetime \in Nat /\ Buffer \in Nat /\ VoteLifetime + Buffer < Interval
      /\ h + 2 <= r + VoteLifetime
  BY ListAssumption DEF Tuned, QuorumWindow, Refers
<1>3. i <= VoteLifetime + Buffer /\ i <= Interval - 1
  BY <1>1, <1>2
<1> HIDE DEF a, i
<1>4. i \in 1..Interval - 1
  BY <1>1, <1>3
<1>5. (a - i) % Interval = Interval - i
  BY <1>1, <1>4, ModBelow
<1>6. Interval - (Interval - i) = i
  BY <1>1
<1>7. Interval - ((Base + r) % Interval) = i
  BY <1>1, <1>5, <1>6
<1> QED BY <1>3, <1>7 DEF NeedsAt, QuorumWindow

-----------------------------------------------------------------------------
(* process_block *)

(* What the archive takes from the history. *)
LEMMA ArchivedIs ==
    ASSUME NEW S \in SUBSET States, NEW s \in Archived(S)
    PROVE  \E t \in S : /\ s = IF NeedsQuorum(t) THEN QuorumsOnly(t) ELSE t
                        /\ s.height = t.height /\ s.of = t.of /\ s \in States
                        /\ s.full => s = t /\ (Base + t.height) % Interval = 0
<1>1. PICK t \in S : /\ s = IF NeedsQuorum(t) THEN QuorumsOnly(t) ELSE t
                     /\ (Base + t.height) % Interval = 0 \/ NeedsQuorum(t)
  BY DEF Archived
<1>2. /\ QuorumsOnly(t) \in States /\ QuorumsOnly(t).height = t.height
      /\ QuorumsOnly(t).of = t.of /\ QuorumsOnly(t).full = FALSE /\ t \in States
  BY StateFields
<1>3. CASE NeedsQuorum(t)
  BY <1>1, <1>2, <1>3
<1>4. CASE ~NeedsQuorum(t)
  BY <1>1, <1>2, <1>4
<1> QED BY <1>3, <1>4

(* Quorums within the window before a multiple of the interval go there. *)
LEMMA ArchivedNeeded ==
    ASSUME NEW S \in SUBSET States, NEW t \in S, NeedsAt(t.height)
    PROVE  \E s \in Archived(S) : s.height = t.height
<1>1. NeedsQuorum(t)
  BY DEF NeedsQuorum, NeedsAt
<1>2. QuorumsOnly(t) \in Archived(S)
  BY <1>1 DEF Archived
<1> QED BY <1>2, StateFields

(* The history and the archive after process_block for a block above l. *)
LEMMA ProcessParts ==
    ASSUME Tuned, NEW l \in ListType, NEW d \in Chains, Len(d) = l.m.height + 1,
           \A s \in l.history : s.height < l.m.height
    PROVE  LET q   == ProcessBlock(l, d)
               cut == l.m.height + 1 - ShortHistory
               old == {s \in l.history : s.height <= cut}
           IN
           /\ q \in ListType
           /\ q.history = {s \in l.history : s.height > cut} \cup {l.m}
           /\ q.archive = l.archive \cup {s \in Archived(old) : At(l.archive, s.height) = {}}
           /\ ~q.added => ~l.added /\ q.archive = l.archive
<1> DEFINE q   == ProcessBlock(l, d)
           cut == l.m.height + 1 - ShortHistory
           old == {s \in l.history : s.height <= cut}
           kept == {s \in Archived(old) : At(l.archive, s.height) = {}}
<1>0. /\ l.m.height \in Nat /\ \A s \in l.history : s.height \in Nat
      /\ ShortHistory \in Nat /\ cut \in Int
  BY ListHeights, ListAssumption
<1>1. CullHeight(Len(d)) = cut
  BY <1>0, CullHeightIs
<1>2. old = {s \in l.history : s.height <= CullHeight(Len(d))}
  BY <1>1
<1> HIDE DEF cut
<1>3. /\ q \in ListType
      /\ q.history = Insert(l.history \ old, l.m)
      /\ q.archive = l.archive \cup kept
      /\ q.added = (l.added \/ Archived(old) # {})
  <2> HIDE DEF old
  <2> QED BY <1>2, ProcessFields
<1> HIDE DEF q
<1>4. l.history \ old = {s \in l.history : s.height > cut}
  BY <1>0
<1>5. At(l.history \ old, l.m.height) = {}
  BY <1>0 DEF At
<1>6. q.history = {s \in l.history : s.height > cut} \cup {l.m}
  BY <1>3, <1>4, <1>5 DEF Insert
<1>7. ~q.added => ~l.added /\ q.archive = l.archive
  <2> HIDE DEF old
  <2>1. Archived(old) = {} => kept = {}
    OBVIOUS
  <2> QED BY <1>3, <2>1
<1> QED BY <1>3, <1>6, <1>7 DEF q, cut

(* The archive stays right: a complete state that goes to it takes the     *)
(* quorums it refers to along.                                             *)
LEMMA ProcessArchive ==
    ASSUME Tuned, NEW l \in ListType, NEW c \in Chains, NEW f \in Chains, NEW p \in Nat,
           NEW d \in Chains, Agree(c, f), Len(c) <= Len(f) + MaxReorg,
           Len(d) = l.m.height + 1, ListGood(l, c, p, f)
    PROVE  ArchiveGood(ProcessBlock(l, d).archive, f)
<1> DEFINE n   == l.m.height
           cut == n + 1 - ShortHistory
           old == {s \in l.history : s.height <= cut}
           kept == {s \in Archived(old) : At(l.archive, s.height) = {}}
           A   == l.archive \cup kept
<1>c. /\ VoteLifetime \in Nat /\ VoteLifetime >= 1
      /\ ShortHistory \in Nat /\ MaxReorg \in Nat /\ MaxReorg >= 1
      /\ Buffer \in Nat /\ MaxReorg <= Buffer
      /\ MaxReorg + VoteLifetime + Buffer <= ShortHistory + 1
  BY Constants
<1>0. /\ n \in Nat /\ Len(c) \in Nat /\ Len(f) \in Nat /\ n <= Len(c)
      /\ l.history \in SUBSET States /\ l.archive \in SUBSET States
      /\ \A s \in l.history \cup l.archive : s.height \in Nat
      /\ \A s \in l.history : s.height < n /\ s.of = First(c, s.height)
      /\ Unique(l.history) /\ ArchiveGood(l.archive, f)
      /\ \A r \in 0..(n - 1) : (\A s \in l.history \cup l.archive : s.height # r)
            => Culled(l, p, r) \/ NotLoaded(l, r)
  BY ListFields, ListHeights DEF Chains, ListGood, RestGood, IsOf
<1>1. ProcessBlock(l, d).archive = A
  BY <1>0, ProcessParts
<1>2. cut \in Int /\ cut <= Len(f) /\ cut <= Len(c)
  BY <1>0, <1>c
<1> HIDE DEF cut
<1>3. old \in SUBSET States
  BY <1>0
<1> HIDE DEF n
<1>4. ASSUME NEW s \in kept
      PROVE  \E t \in old : /\ s = IF NeedsQuorum(t) THEN QuorumsOnly(t) ELSE t
                            /\ s.height = t.height /\ s.of = t.of /\ s \in States
                            /\ s.full => s = t /\ (Base + t.height) % Interval = 0
  <2> HIDE DEF old
  <2> QED BY <1>3, ArchivedIs
<1>5. ASSUME NEW s \in A PROVE IsOf(s, f)
  <2>1. CASE s \in l.archive
    BY <2>1, <1>0 DEF ArchiveGood
  <2>2. CASE s \in kept
    <3>1. PICK t \in old : s.height = t.height /\ s.of = t.of
      BY <2>2, <1>4
    <3>2. t \in l.history /\ t.height \in Nat /\ t.height <= cut
      BY <3>1, <1>0
    <3>3. t.height <= Len(f) /\ t.height <= Len(c)
      BY <3>2, <1>0, <1>2
    <3>4. First(c, t.height) = First(f, t.height)
      BY <3>2, <3>3, AgreeFirst
    <3> QED BY <3>1, <3>2, <3>3, <3>4, <1>0 DEF IsOf
  <2> QED BY <2>1, <2>2
<1>6. Unique(A)
  <2> SUFFICES ASSUME NEW s \in A, NEW t \in A, s.height = t.height PROVE s = t
    BY DEF Unique
  <2>1. CASE s \in l.archive /\ t \in l.archive
    BY <2>1, <1>0 DEF ArchiveGood, Unique
  <2>2. CASE s \in kept /\ t \in l.archive
    BY <2>2 DEF At
  <2>3. CASE s \in l.archive /\ t \in kept
    BY <2>3 DEF At
  <2>4. CASE s \in kept /\ t \in kept
    <3>1. PICK x \in old : /\ s = IF NeedsQuorum(x) THEN QuorumsOnly(x) ELSE x
                           /\ s.height = x.height
      BY <2>4, <1>4
    <3>2. PICK y \in old : /\ t = IF NeedsQuorum(y) THEN QuorumsOnly(y) ELSE y
                           /\ t.height = y.height
      BY <2>4, <1>4
    <3>3. x = y
      BY <3>1, <3>2, <1>0 DEF Unique
    <3> QED BY <3>1, <3>2, <3>3
  <2> QED BY <2>1, <2>2, <2>3, <2>4
<1>7. ASSUME NEW s \in A, s.full PROVE Closed(s, A)
  <2>1. CASE s \in l.archive
    BY <2>1, <1>0, <1>7 DEF ArchiveGood, Closed
  <2>2. CASE s \in kept
    <3>1. s \in old /\ (Base + s.height) % Interval = 0
      BY <2>2, <1>4, <1>7
    <3>2. s \in l.history /\ s.height \in Nat /\ s.height <= cut /\ s.height < n
      BY <3>1, <1>0 DEF n
    <3> SUFFICES ASSUME NEW r \in 0..(s.height - 1), Refers(s.height, r)
                 PROVE  \E t \in A : t.height = r
      BY DEF Closed
    <3>3. NeedsAt(r)
      BY <3>1, <3>2, WindowNeeded
    <3>4. ~Culled(l, p, r) /\ ~NotLoaded(l, r)
      BY <3>2, <3>3, <1>7 DEF Culled, NotLoaded
    <3>5. r \in 0..(n - 1)
      <4>1. n \in Nat
        BY <1>0
      <4> QED BY <4>1, <3>2
    <3>6. PICK t \in l.history \cup l.archive : t.height = r
      <4>1. \A k \in 0..(n - 1) : (\A u \in l.history \cup l.archive : u.height # k)
                => Culled(l, p, k) \/ NotLoaded(l, k)
        BY <1>0
      <4> QED BY <4>1, <3>4, <3>5
    <3>7. CASE t \in l.archive
      BY <3>6, <3>7
    <3>8. CASE t \in l.history
      <4>1. t.height <= cut
        BY <3>2, <3>6, <1>2
      <4>2. t \in old
        BY <3>8, <4>1
      <4>3. PICK u \in Archived(old) : u.height = r
        <5>1. NeedsAt(t.height)
          BY <3>3, <3>6
        <5> HIDE DEF old
        <5>2. \E u \in Archived(old) : u.height = t.height
          BY <4>2, <5>1, <1>3, ArchivedNeeded
        <5> QED BY <5>2, <3>6
      <4>4. CASE At(l.archive, r) = {}
        BY <4>3, <4>4
      <4>5. CASE At(l.archive, r) # {}
        BY <4>5 DEF At
      <4> QED BY <4>4, <4>5
    <3> QED BY <3>6, <3>7, <3>8
  <2> QED BY <2>1, <2>2
<1> HIDE DEF A
<1>8. ArchiveGood(A, f)
  BY <1>5, <1>6, <1>7 DEF ArchiveGood
<1> QED BY <1>1, <1>8

(* The history stays right, whatever the block above the list is. *)
LEMMA ProcessRest ==
    ASSUME Tuned, NEW l \in ListType, NEW c \in Chains, NEW f \in Chains, NEW p \in Nat,
           NEW d \in Chains, Agree(c, f), Len(c) <= Len(f) + MaxReorg,
           Len(d) = l.m.height + 1, Len(d) <= p, ListGood(l, c, p, f)
    PROVE  LET q == ProcessBlock(l, d) IN
           /\ q \in ListType /\ q.m.height = l.m.height + 1 /\ q.m.full
           /\ RestGood(q, c, p, f)
           /\ l.m \in q.history /\ l.archive \subseteq q.archive
           /\ ~q.added => ~l.added /\ q.archive = l.archive
<1> DEFINE q   == ProcessBlock(l, d)
           n   == l.m.height
           cut == n + 1 - ShortHistory
           old == {s \in l.history : s.height <= cut}
<1>c. /\ VoteLifetime \in Nat /\ VoteLifetime >= 1
      /\ ShortHistory \in Nat /\ MaxReorg \in Nat /\ MaxReorg >= 1
      /\ Buffer \in Nat /\ MaxReorg <= Buffer
      /\ MaxReorg + VoteLifetime + Buffer <= ShortHistory + 1
  BY Constants
<1>0. /\ n \in Nat /\ Len(c) \in Nat /\ Len(f) \in Nat /\ n <= Len(c)
      /\ l.m.full /\ l.m.of = First(c, n)
      /\ l.history \in SUBSET States
      /\ \A s \in l.history \cup l.archive : s.height \in Nat
  BY ListFields, ListHeights DEF Chains, ListGood, IsOf
<1>1. /\ \A s \in l.history : /\ s.height < n /\ s.of = First(c, s.height)
                              /\ s.full \/ s.height < Len(f)
      /\ Unique(l.history)
      /\ \A r \in 0..(n - 1) : (\A s \in l.history : s.height # r)
            => r < Len(f) \/ Early(l, p, r)
      /\ \A r \in 0..(n - 1) : (\A s \in l.history \cup l.archive : s.height # r)
            => Culled(l, p, r) \/ NotLoaded(l, r)
  BY DEF ListGood, RestGood
<1>2. /\ q \in ListType
      /\ q.history = {s \in l.history : s.height > cut} \cup {l.m}
      /\ q.archive = l.archive \cup {s \in Archived(old) : At(l.archive, s.height) = {}}
      /\ ~q.added => ~l.added /\ q.archive = l.archive
      /\ q.m.height = n + 1 /\ q.m.full
  <2>1. q.m.height = n + 1 /\ q.m.full
    BY <1>0, ProcessFields
  <2> QED BY <2>1, <1>1, ProcessParts
<1>3. ArchiveGood(q.archive, f)
  BY ProcessArchive
<1>4. cut \in Int /\ cut <= p - ShortHistory /\ cut = n + 1 - ShortHistory
  BY <1>0, <1>c
<1> HIDE DEF q, cut
<1>5. \A s \in q.history : /\ s.height < q.m.height
                           /\ s.of = First(c, s.height)
                           /\ s.full \/ s.height < Len(f)
  <2>1. \A s \in l.history : s.height \in Nat /\ s.height < n /\ s.of = First(c, s.height)
    BY <1>0, <1>1
  <2>2. \A s \in l.history : s.full \/ s.height < Len(f)
    BY <1>1
  <2>3. \A s \in q.history : s \in l.history \/ s = l.m
    BY <1>2
  <2>4. l.m.height = n /\ l.m.full /\ l.m.of = First(c, n) /\ n \in Nat
    BY <1>0
  <2>5. q.m.height = n + 1
    BY <1>2
  <2> HIDE DEF n
  <2>6. \A s \in q.history : s.height < q.m.height
    BY <2>1, <2>3, <2>4, <2>5
  <2>7. \A s \in q.history : s.of = First(c, s.height)
    BY <2>1, <2>3, <2>4
  <2>8. \A s \in q.history : s.full \/ s.height < Len(f)
    BY <2>2, <2>3, <2>4
  <2> QED BY <2>6, <2>7, <2>8
<1>6. Unique(q.history)
  <2>1. \A s \in q.history : s \in l.history \/ s = l.m
    BY <1>2
  <2>2. \A s \in l.history : s.height \in Nat /\ s.height < n
    BY <1>0, <1>1
  <2>3. l.m.height = n /\ n \in Nat
    BY <1>0
  <2> HIDE DEF n
  <2>4. \A s \in l.history : s.height # l.m.height
    BY <2>2, <2>3
  <2> QED BY <2>1, <2>4, <1>1 DEF Unique
<1>7. ASSUME NEW r \in 0..n, \A s \in q.history : s.height # r
      PROVE  /\ r \in 0..(n - 1)
             /\ \/ \A s \in l.history : s.height # r
                \/ Early(q, p, r) /\ \E s \in old : s.height = r
  <2>1. r \in 0..(n - 1)
    <3>1. l.m \in q.history
      BY <1>2
    <3>2. n \in Nat /\ r # n
      BY <3>1, <1>0, <1>7
    <3> HIDE DEF n
    <3> QED BY <3>2
  <2>2. ASSUME NEW s \in l.history, s.height = r
        PROVE  Early(q, p, r) /\ s \in old
    <3>1. ~(r > cut)
      BY <2>2, <1>2, <1>7
    <3>2. r <= cut /\ r \in Nat
      BY <3>1, <2>1, <1>4
    <3>3. r <= p - ShortHistory /\ r <= n + 1 + MaxReorg - ShortHistory
      <4> HIDE DEF n
      <4>1. n \in Nat
        BY <1>0 DEF n
      <4> QED BY <4>1, <3>2, <1>4, <1>c
    <3> QED BY <3>2, <3>3, <2>2, <1>2 DEF Early
  <2> QED BY <2>1, <2>2
<1>8. ASSUME NEW r \in 0..(n - 1), Early(l, p, r) PROVE Early(q, p, r)
  <2>1. r <= p - ShortHistory /\ r <= n + MaxReorg - ShortHistory
    BY <1>8 DEF Early
  <2>2. r <= n + 1 + MaxReorg - ShortHistory
    <3> HIDE DEF n
    <3>1. n \in Nat
      BY <1>0 DEF n
    <3> QED BY <3>1, <2>1, <1>c
  <2> QED BY <2>1, <2>2, <1>2 DEF Early
<1>9. ASSUME NEW r \in 0..(q.m.height - 1), \A s \in q.history : s.height # r
      PROVE  r < Len(f) \/ Early(q, p, r)
  <2>1. r \in 0..n
    BY <1>0, <1>2
  <2> QED BY <2>1, <1>1, <1>7, <1>8, <1>9
<1>10. ASSUME NEW r \in 0..(q.m.height - 1), \A s \in q.history \cup q.archive : s.height # r
       PROVE  Culled(q, p, r) \/ NotLoaded(q, r)
  <2>1. r \in 0..n
    BY <1>0, <1>2
  <2>2. \A s \in l.archive : s.height # r
    BY <1>2, <1>10
  <2>3. r \in 0..(n - 1)
    BY <2>1, <1>7, <1>10
  <2>4. CASE Early(q, p, r) /\ \E s \in old : s.height = r
    <3>1. PICK s \in old : s.height = r
      BY <2>4
    <3>2. ~NeedsAt(r)
      <4> SUFFICES ASSUME NeedsAt(r) PROVE FALSE
        OBVIOUS
      <4>1. old \in SUBSET States
        BY <1>0
      <4> HIDE DEF old
      <4>2. PICK u \in Archived(old) : u.height = s.height
        BY <4>1, <3>1, ArchivedNeeded
      <4>3. At(l.archive, u.height) = {}
        BY <4>2, <3>1, <2>2 DEF At
      <4>4. u \in q.archive
        BY <4>2, <4>3, <1>2
      <4> QED BY <4>2, <4>4, <3>1, <1>10
    <3> QED BY <3>2, <2>4 DEF Culled
  <2>5. CASE \A s \in l.history : s.height # r
    <3>1. Culled(l, p, r) \/ NotLoaded(l, r)
      BY <2>2, <2>3, <2>5, <1>1
    <3>2. CASE Culled(l, p, r)
      BY <3>2, <2>3, <1>8 DEF Culled
    <3>3. CASE NotLoaded(l, r)
      <4>1. ~Refers(n, r)
        BY <3>3, <1>0 DEF NotLoaded
      <4>2. ~Refers(n + 1, r)
        <5> HIDE DEF n
        <5>1. n \in Nat
          BY <1>0 DEF n
        <5> QED BY <5>1, <4>1, <2>3, <1>c DEF Refers
      <4> QED BY <4>2, <3>3, <1>2 DEF NotLoaded
    <3> QED BY <3>1, <3>2, <3>3
  <2> QED BY <2>1, <2>4, <2>5, <1>7, <1>10
<1>11. RestGood(q, c, p, f)
  BY <1>3, <1>5, <1>6, <1>9, <1>10 DEF RestGood
<1> QED BY <1>2, <1>11 DEF q

(* The quorums the next block may refer to are found. *)
LEMMA QuorumFound ==
    ASSUME Tuned, NEW l \in ListType, NEW c \in Chains, NEW f \in Chains, NEW p \in Nat,
           Agree(c, f), ListGood(l, c, p, f),
           NEW r \in Referable(l.m.height + 1), r # l.m.height
    PROVE  /\ r \in 0..(l.m.height - 1) /\ r <= Len(c)
           /\ r > l.m.height + 1 - ShortHistory
           /\ \E s \in l.history \cup l.archive : s.height = r
           /\ \A s \in l.history \cup l.archive : s.height = r => s.of = First(c, r)
<1> DEFINE n == l.m.height
<1>c. /\ VoteLifetime \in Nat /\ VoteLifetime >= 1
      /\ ShortHistory \in Nat /\ MaxReorg \in Nat /\ MaxReorg >= 1
      /\ Buffer \in Nat /\ MaxReorg <= Buffer
      /\ MaxReorg + VoteLifetime + Buffer <= ShortHistory + 1
  BY Constants
<1>0. /\ n \in Nat /\ Len(c) \in Nat /\ Len(f) \in Nat /\ n <= Len(c) /\ l.m.full
      /\ l.archive \in SUBSET States
  BY ListFields, ListHeights DEF Chains, ListGood, IsOf
<1>1. /\ \A s \in l.history : s.of = First(c, s.height)
      /\ \A k \in 0..(n - 1) : (\A s \in l.history \cup l.archive : s.height # k)
            => Culled(l, p, k) \/ NotLoaded(l, k)
      /\ \A s \in l.archive : IsOf(s, f)
  BY DEF ListGood, RestGood, ArchiveGood
<1>2. r \in 1..n /\ n + 1 < r + VoteLifetime /\ r # n
  BY <1>0, <1>c DEF Referable
<1>3. ~Culled(l, p, r)
  <2>1. ~(r <= n + MaxReorg - ShortHistory)
    <3> HIDE DEF n
    <3>1. n \in Nat
      BY <1>0 DEF n
    <3> QED BY <3>1, <1>2, <1>c
  <2> QED BY <2>1 DEF Culled, Early
<1>4. ~NotLoaded(l, r)
  <2>1. Refers(n, r)
    <3> HIDE DEF n
    <3>1. n \in Nat
      BY <1>0 DEF n
    <3> QED BY <3>1, <1>2, <1>c DEF Refers
  <2> QED BY <2>1, <1>0 DEF NotLoaded
<1>5. r \in 0..(n - 1) /\ r <= Len(c) /\ r \in Nat
  BY <1>0, <1>2
<1>6. r > n + 1 - ShortHistory
  <2> HIDE DEF n
  <2>1. n \in Nat
    BY <1>0 DEF n
  <2> QED BY <2>1, <1>2, <1>c
<1>7. \E s \in l.history \cup l.archive : s.height = r
  BY <1>1, <1>3, <1>4, <1>5
<1>8. ASSUME NEW s \in l.archive, s.height = r PROVE s.of = First(c, r)
  <2>1. r <= Len(f) /\ s.of = First(f, r)
    BY <1>1, <1>8 DEF IsOf
  <2>2. First(c, r) = First(f, r)
    BY <2>1, <1>5, AgreeFirst
  <2> QED BY <2>1, <2>2
<1> QED BY <1>1, <1>5, <1>6, <1>7, <1>8

(* process_block for the next block of the chain. *)
LEMMA ProcessGood ==
    ASSUME Tuned, NEW l \in ListType, NEW c \in Chains, NEW f \in Chains, NEW p \in Nat,
           Agree(c, f), Len(c) <= Len(f) + MaxReorg, Len(c) <= p, l.m.height < Len(c),
           ListGood(l, c, p, f)
    PROVE  LET q == ProcessBlock(l, First(c, l.m.height + 1)) IN
           /\ q \in ListType
           /\ ListGood(q, c, p, f)
           /\ q.m.height = l.m.height + 1
           /\ l.archive \subseteq q.archive
           /\ ~q.added => ~l.added /\ q.archive = l.archive
<1> DEFINE n == l.m.height
           d == First(c, n + 1)
           q == ProcessBlock(l, d)
<1>0. n \in Nat /\ Len(c) \in Nat /\ n + 1 \in 0..Len(c)
  BY ListHeights DEF Chains
<1>1. /\ d \in Chains /\ Len(d) = n + 1
      /\ \A k \in 0..(n + 1) : First(d, k) = First(c, k)
  BY <1>0, FirstChain, FirstFirst
<1>2. Len(d) <= p /\ Len(d) - 1 = n
  BY <1>0, <1>1
<1>3. l.m.full /\ l.m.of = First(c, n)
  BY DEF ListGood, IsOf
<1> HIDE DEF d
<1>4. /\ q \in ListType /\ q.m.height = n + 1 /\ q.m.full
      /\ RestGood(q, c, p, f)
      /\ l.m \in q.history /\ l.archive \subseteq q.archive
      /\ ~q.added => ~l.added /\ q.archive = l.archive
  BY <1>1, <1>2, ProcessRest
<1>5. q.history = {s \in l.history : s.height > n + 1 - ShortHistory} \cup {l.m}
  <2>1. \A s \in l.history : s.height < l.m.height
    BY DEF ListGood, RestGood
  <2> QED BY <2>1, <1>1, ProcessParts
<1> HIDE DEF q
<1>6. \A s \in q.history : s.of = First(c, s.height)
  BY <1>4 DEF RestGood
<1>7. ASSUME NEW r \in Referable(Len(d)) PROVE FindsQuorum(q, d, r)
  <2>0. r \in Referable(n + 1) /\ r \in 0..(n + 1)
    BY <1>0, <1>1 DEF Referable
  <2>1. First(d, r) = First(c, r)
    BY <2>0, <1>1
  <2>2. CASE r = n
    <3>1. l.m \in At(q.history, r)
      BY <2>2, <1>4 DEF At
    <3>2. l.m.of = First(d, r)
      BY <2>1, <2>2, <1>3
    <3> QED BY <3>1, <3>2 DEF FindsQuorum
  <2>3. CASE r # n
    <3>1. /\ r > n + 1 - ShortHistory
          /\ \E s \in l.history \cup l.archive : s.height = r
          /\ \A s \in l.history \cup l.archive : s.height = r => s.of = First(c, r)
      BY <2>0, <2>3, QuorumFound
    <3>2. CASE At(q.history, r) # {}
      <4>1. PICK s \in q.history : s.height = r
        BY <3>2 DEF At
      <4>2. s \in At(q.history, r) /\ s.of = First(d, r)
        BY <4>1, <1>6, <2>1 DEF At
      <4> QED BY <4>2 DEF FindsQuorum
    <3>3. CASE At(q.history, r) = {}
      <4>1. PICK s \in l.history \cup l.archive : s.height = r
        BY <3>1
      <4>2. s \notin l.history
        BY <4>1, <3>1, <3>3, <1>5 DEF At
      <4>3. s \in At(q.archive, r) /\ s.of = First(d, r)
        BY <4>1, <4>2, <3>1, <2>1, <1>4 DEF At
      <4> QED BY <4>3, <3>3 DEF FindsQuorum
    <3> QED BY <3>2, <3>3
  <2> QED BY <2>2, <2>3
<1>8. q.m.of = d
  <2>1. l.m.of = First(d, Len(d) - 1)
    BY <1>0, <1>1, <1>2, <1>3
  <2> QED BY <2>1, <1>1, <1>3, <1>7, ProcessFields DEF q
<1>9. ListGood(q, c, p, f)
  <2>1. IsOf(q.m, c)
    BY <1>0, <1>4, <1>8 DEF IsOf, d
  <2> QED BY <2>1, <1>4 DEF ListGood
<1> QED BY <1>4, <1>9 DEF q, d

-----------------------------------------------------------------------------
(* Growing, cutting, storing and loading *)

(* A state of a prefix is of the longer chain. *)
LEMMA ExtendIsOf ==
    ASSUME NEW c \in Chains, NEW f \in Chains, Len(f) <= Len(c), f = First(c, Len(f)),
           NEW s \in States, IsOf(s, f)
    PROVE  IsOf(s, c)
<1>1. s.height \in Nat /\ Len(f) \in Nat /\ Len(c) \in Nat
  <2>1. s.height \in Nat
    BY StateFields
  <2> QED BY <2>1 DEF Chains
<1>2. First(f, s.height) = First(c, s.height)
  BY <1>1, FirstFirst DEF IsOf
<1> QED BY <1>1, <1>2 DEF IsOf

(* The archive stays right when the final part of the chain grows. *)
LEMMA ExtendArchive ==
    ASSUME NEW A \in SUBSET States, NEW f \in Chains, NEW g \in Chains,
           Len(f) <= Len(g), f = First(g, Len(f)), ArchiveGood(A, f)
    PROVE  ArchiveGood(A, g)
<1>1. \A s \in A : IsOf(s, g)
  BY ExtendIsOf DEF ArchiveGood
<1> QED BY <1>1 DEF ArchiveGood

(* The list stays right when the chain and its final part grow. *)
LEMMA ExtendGood ==
    ASSUME Tuned, NEW l \in ListType, NEW c \in Chains, NEW e \in Chains,
           NEW f \in Chains, NEW g \in Chains, NEW p \in Nat, NEW k \in Nat,
           Len(c) <= Len(e), c = First(e, Len(c)), Len(f) <= Len(g), f = First(g, Len(f)),
           p <= k, ListGood(l, c, p, f)
    PROVE  ListGood(l, e, k, g)
<1>0. /\ Len(c) \in Nat /\ Len(e) \in Nat /\ Len(f) \in Nat /\ Len(g) \in Nat
      /\ ShortHistory \in Nat /\ MaxReorg \in Nat
  BY Constants DEF Chains
<1>1. /\ l.m \in States /\ l.history \in SUBSET States /\ l.archive \in SUBSET States
      /\ l.m.height \in Nat /\ \A s \in l.history : s.height \in Nat
  BY ListFields, ListHeights
<1>2. l.m.full /\ IsOf(l.m, e)
  BY <1>1, ExtendIsOf DEF ListGood
<1>3. ASSUME NEW s \in l.history
      PROVE  /\ s.height < l.m.height
             /\ s.of = First(e, s.height)
             /\ s.full \/ s.height < Len(g)
  <2>1. s.height < l.m.height /\ s.of = First(c, s.height) /\ (s.full \/ s.height < Len(f))
    BY DEF ListGood, RestGood
  <2>2. s.height \in 0..Len(c)
    BY <2>1, <1>0, <1>1 DEF ListGood, IsOf
  <2>3. First(c, s.height) = First(e, s.height)
    BY <2>2, <1>0, FirstFirst
  <2> QED BY <2>1, <2>3, <1>0, <1>1
<1>4. ASSUME NEW r \in 0..(l.m.height - 1), Early(l, p, r)
      PROVE  Early(l, k, r)
  <2>1. r \in Nat /\ r <= p - ShortHistory
    BY <1>1, <1>4 DEF Early
  <2>2. r <= k - ShortHistory
    BY <2>1, <1>0
  <2> QED BY <2>2, <1>4 DEF Early
<1>5. ASSUME NEW r \in 0..(l.m.height - 1), \A s \in l.history : s.height # r
      PROVE  r < Len(g) \/ Early(l, k, r)
  <2>1. r < Len(f) \/ Early(l, p, r)
    BY <1>5 DEF ListGood, RestGood
  <2>2. r < Len(f) => r < Len(g)
    BY <1>0, <1>1
  <2> QED BY <2>1, <2>2, <1>4
<1>6. ASSUME NEW r \in 0..(l.m.height - 1), \A s \in l.history \cup l.archive : s.height # r
      PROVE  Culled(l, k, r) \/ NotLoaded(l, r)
  BY <1>4, <1>6 DEF ListGood, RestGood, Culled
<1>7. ArchiveGood(l.archive, g)
  BY <1>1, ExtendArchive DEF ListGood, RestGood
<1>8. Unique(l.history)
  BY DEF ListGood, RestGood
<1> QED BY <1>2, <1>3, <1>5, <1>6, <1>7, <1>8 DEF ListGood, RestGood

(* Stored states stay right when the final part of the chain grows. *)
LEMMA ExtendData ==
    ASSUME NEW d \in DataType, NEW f \in Chains, NEW g \in Chains,
           Len(f) <= Len(g), f = First(g, Len(f)), DataGood(d, f)
    PROVE  DataGood(d, g)
<1>1. d.long \in SUBSET States /\ d.short \in SUBSET States
  BY DEF DataType
<1>2. \A s \in d.short : IsOf(s, g)
  BY <1>1, ExtendIsOf DEF DataGood
<1>3. ArchiveGood(d.long, g)
  BY <1>1, ExtendArchive DEF DataGood
<1> QED BY <1>2, <1>3 DEF DataGood

(* blockchain_detached: the list that goes back to a state of the history is *)
(* right for the shorter chain.                                              *)
LEMMA FromHistoryGood ==
    ASSUME Tuned, NEW l \in ListType, NEW c \in Chains, NEW f \in Chains, NEW p \in Nat,
           NEW h \in 0..Len(c), h < l.m.height, p <= h + MaxReorg,
           RestGood(l, c, p, f), InHistory(l, h)
    PROVE  LET q == FromHistory(l, h) IN
           /\ q \in ListType /\ q.m.height = h
           /\ q.archive = l.archive /\ q.added = l.added
           /\ ListGood(q, First(c, h), p, f)
<1> DEFINE q == FromHistory(l, h)
           x == CHOOSE s \in At(l.history, h) : TRUE
           H == {s \in l.history : s.height < h}
           d == First(c, h)
<1>0. /\ h \in Nat /\ Len(c) \in Nat /\ Len(f) \in Nat
      /\ ShortHistory \in Nat /\ MaxReorg \in Nat
  BY Constants DEF Chains
<1>1. /\ l.history \in SUBSET States /\ l.archive \in SUBSET States
      /\ l.added \in BOOLEAN
      /\ l.m.height \in Nat /\ \A s \in l.history : s.height \in Nat
  BY ListFields, ListHeights
<1>2. /\ \A s \in l.history : /\ s.height < l.m.height
                              /\ s.of = First(c, s.height)
                              /\ s.full \/ s.height < Len(f)
      /\ Unique(l.history)
      /\ \A r \in 0..(l.m.height - 1) :
            (\A s \in l.history : s.height # r) => r < Len(f) \/ Early(l, p, r)
      /\ \A r \in 0..(l.m.height - 1) :
            (\A s \in l.history \cup l.archive : s.height # r)
                => Culled(l, p, r) \/ NotLoaded(l, r)
      /\ ArchiveGood(l.archive, f)
  BY DEF RestGood
<1>3. PICK y \in l.history : y.height = h /\ y.full
  BY DEF InHistory, At
<1>4. x \in l.history /\ x.height = h
  BY <1>3 DEF At
<1>5. x.full /\ x.of = First(c, h) /\ x \in States
  <2>1. x = y
    BY <1>2, <1>3, <1>4 DEF Unique
  <2> QED BY <2>1, <1>1, <1>2, <1>3, <1>4
<1>7. q = [m |-> x, history |-> H, archive |-> l.archive, added |-> l.added]
  BY DEF FromHistory
<1> HIDE DEF x
<1>8. /\ q \in ListType /\ q.m = x /\ q.history = H /\ q.archive = l.archive
      /\ q.added = l.added
  <2>1. H \in SUBSET States
    BY <1>1
  <2> HIDE DEF H, q
  <2> QED BY <2>1, <1>1, <1>5, <1>7 DEF ListType
<1> HIDE DEF q
<1>9. d \in Chains /\ Len(d) = h /\ \A k \in 0..h : First(d, k) = First(c, k)
  BY <1>0, FirstChain, FirstFirst
<1>10. q.m.full /\ IsOf(q.m, d)
  BY <1>0, <1>4, <1>5, <1>8, <1>9 DEF IsOf
<1>11. \A s \in q.history : /\ s.height < q.m.height
                            /\ s.of = First(d, s.height)
                            /\ s.full \/ s.height < Len(f)
  <2> SUFFICES ASSUME NEW s \in q.history
               PROVE  /\ s.height < q.m.height
                      /\ s.of = First(d, s.height)
                      /\ s.full \/ s.height < Len(f)
    OBVIOUS
  <2>1. s \in l.history /\ s.height < h
    BY <1>8
  <2>2. s.height \in Nat /\ s.of = First(c, s.height) /\ (s.full \/ s.height < Len(f))
    BY <2>1, <1>1, <1>2
  <2>3. q.m.height = h
    BY <1>4, <1>8
  <2> HIDE DEF d
  <2>4. s.height \in 0..h
    BY <2>1, <2>2, <1>0
  <2>5. First(d, s.height) = First(c, s.height)
    BY <2>4, <1>9
  <2> QED BY <2>1, <2>2, <2>3, <2>5
<1>12. Unique(q.history)
  BY <1>2, <1>8 DEF Unique
<1>e. ASSUME NEW r, Early(l, p, r), r \in Nat PROVE Early(q, p, r)
  <2>1. r <= p - ShortHistory
    BY <1>e DEF Early
  <2>2. r <= h + MaxReorg - ShortHistory
    BY <2>1, <1>0, <1>e
  <2> QED BY <2>1, <2>2, <1>4, <1>8 DEF Early
<1>13. ASSUME NEW r \in 0..(q.m.height - 1), \A s \in q.history : s.height # r
       PROVE  /\ r \in Nat /\ r \in 0..(l.m.height - 1)
              /\ \A s \in l.history : s.height # r
  <2>1. r \in Nat /\ r < h /\ r \in 0..(l.m.height - 1) /\ q.m.height = h
    BY <1>0, <1>1, <1>4, <1>8, <1>13
  <2> QED BY <2>1, <1>8, <1>13
<1>14. ASSUME NEW r \in 0..(q.m.height - 1), \A s \in q.history : s.height # r
       PROVE  r < Len(f) \/ Early(q, p, r)
  BY <1>2, <1>13, <1>14, <1>e
<1>15. ASSUME NEW r \in 0..(q.m.height - 1), \A s \in q.history \cup q.archive : s.height # r
       PROVE  Culled(q, p, r) \/ NotLoaded(q, r)
  <2>1. /\ r \in Nat /\ r \in 0..(l.m.height - 1)
        /\ \A s \in l.history \cup l.archive : s.height # r
    BY <1>8, <1>13, <1>15
  <2>2. CASE Culled(l, p, r)
    BY <2>1, <2>2, <1>e DEF Culled
  <2>3. CASE NotLoaded(l, r)
    BY <2>3, <1>4, <1>8 DEF NotLoaded
  <2> QED BY <2>1, <2>2, <2>3, <1>2
<1>16. ListGood(q, d, p, f)
  <2> HIDE DEF d
  <2> QED BY <1>2, <1>8, <1>10, <1>11, <1>12, <1>14, <1>15 DEF ListGood, RestGood
<1> QED BY <1>4, <1>8, <1>16 DEF q

(* A state above the final part of the chain that a switch goes back to is   *)
(* in the history, complete.                                                 *)
LEMMA InHistoryShallow ==
    ASSUME Tuned, NEW l \in ListType, NEW c \in Chains, NEW f \in Chains, NEW p \in Nat,
           NEW h \in Nat, h < l.m.height, Len(f) <= h, p <= h + MaxReorg,
           RestGood(l, c, p, f)
    PROVE  InHistory(l, h)
<1>0. /\ Len(f) \in Nat /\ ShortHistory \in Nat /\ MaxReorg \in Nat
      /\ MaxReorg < ShortHistory
  BY Constants DEF Chains
<1>1. ~(h < Len(f)) /\ ~Early(l, p, h)
  BY <1>0 DEF Early
<1>2. h \in 0..(l.m.height - 1)
  BY ListHeights
<1>3. PICK s \in l.history : s.height = h
  BY <1>1, <1>2 DEF RestGood
<1>4. s.full
  BY <1>1, <1>3 DEF RestGood
<1> QED BY <1>3, <1>4 DEF InHistory, At

(* blockchain_detached: the list that goes back to a state of the archive is *)
(* right for the shorter chain, and has the quorums to replay from there.    *)
LEMMA FromArchiveGood ==
    ASSUME Tuned, NEW l \in ListType, NEW c \in Chains, NEW f \in Chains, NEW p \in Nat,
           NEW k \in Nat, Agree(c, f), NEW h \in 0..Len(c),
           RestGood(l, c, k, f), InArchive(l, h)
    PROVE  LET q == FromArchive(l, h) IN
           /\ q \in ListType /\ q.m.height \in 0..h
           /\ q.archive \subseteq l.archive /\ q.added = l.added
           /\ ListGood(q, First(c, h), p, f)
<1> DEFINE q == FromArchive(l, h)
           i == PrevInterval(h)
           x == CHOOSE s \in At(l.archive, i) : TRUE
           A == {s \in l.archive : s.height < i}
           d == First(c, h)
<1>0. /\ h \in Nat /\ h <= Len(c) /\ Len(c) \in Nat /\ Len(f) \in Nat
  BY DEF Chains
<1>1. /\ l.archive \in SUBSET States /\ l.added \in BOOLEAN
      /\ \A s \in l.archive : s.height \in Nat
  BY ListFields, ListHeights
<1>2. /\ \A s \in l.archive : IsOf(s, f)
      /\ Unique(l.archive)
      /\ \A s \in l.archive : s.full => Closed(s, l.archive)
  BY DEF RestGood, ArchiveGood
<1>3. PICK y \in l.archive : y.height = i /\ y.full
  BY DEF InArchive, At
<1>4. i \in Nat /\ i <= h
  <2>1. i \in Nat
    BY <1>1, <1>3
  <2>2. (Base + h) % Interval \in Nat
    BY <1>0, ListAssumption
  <2> QED BY <2>1, <2>2, <1>0 DEF PrevInterval
<1> HIDE DEF i
<1>5. x \in l.archive /\ x.height = i
  BY <1>3 DEF At
<1>6. x.full /\ IsOf(x, f) /\ Closed(x, l.archive) /\ x \in States
  <2>1. x = y
    BY <1>2, <1>3, <1>5 DEF Unique
  <2> QED BY <2>1, <1>1, <1>2, <1>3
<1>7. q = [m |-> x, history |-> {}, archive |-> A, added |-> l.added]
  BY DEF FromArchive, i
<1> HIDE DEF x
<1>8. /\ q \in ListType /\ q.m = x /\ q.history = {} /\ q.archive = A
      /\ q.added = l.added
  <2>1. A \in SUBSET States
    BY <1>1
  <2> HIDE DEF A, q
  <2> QED BY <2>1, <1>1, <1>6, <1>7 DEF ListType
<1> HIDE DEF q
<1>9. d \in Chains /\ Len(d) = h /\ Agree(d, f)
  BY <1>0, FirstChain, AgreeCut
<1>10. i <= Len(f) /\ IsOf(x, d)
  <2>1. i <= Len(f)
    BY <1>5, <1>6 DEF IsOf
  <2> HIDE DEF d
  <2> QED BY <2>1, <1>4, <1>5, <1>6, <1>9, AgreeIsOf
<1>11. ASSUME NEW r \in 0..(q.m.height - 1)
       PROVE  r < Len(f)
  BY <1>0, <1>4, <1>5, <1>8, <1>10
<1>12. ASSUME NEW r \in 0..(q.m.height - 1), \A s \in q.history \cup q.archive : s.height # r
       PROVE  NotLoaded(q, r)
  <2>1. r \in 0..(i - 1) /\ r < i
    BY <1>4, <1>5, <1>8, <1>12
  <2>2. ~Refers(i, r)
    <3> SUFFICES ASSUME Refers(i, r) PROVE FALSE
      OBVIOUS
    <3>1. PICK t \in l.archive : t.height = r
      BY <2>1, <1>5, <1>6 DEF Closed
    <3>2. t \in A
      BY <3>1, <2>1
    <3> QED BY <3>1, <3>2, <1>8, <1>12
  <2> QED BY <2>2, <1>5, <1>8 DEF NotLoaded
<1>13. ArchiveGood(q.archive, f)
  <2>1. ASSUME NEW s \in A, s.full PROVE Closed(s, A)
    <3> SUFFICES ASSUME NEW r \in 0..(s.height - 1), Refers(s.height, r)
                 PROVE  \E t \in A : t.height = r
      BY DEF Closed
    <3>1. PICK t \in l.archive : t.height = r
      BY <2>1, <1>2 DEF Closed
    <3>2. t.height < i
      BY <3>1, <2>1, <1>1, <1>4
    <3> QED BY <3>1, <3>2
  <2>2. Unique(A)
    BY <1>2 DEF Unique
  <2>3. \A s \in A : IsOf(s, f)
    BY <1>2
  <2> HIDE DEF A
  <2> QED BY <2>1, <2>2, <2>3, <1>8 DEF ArchiveGood
<1>14. ListGood(q, d, p, f)
  <2> HIDE DEF d
  <2> QED BY <1>6, <1>8, <1>10, <1>11, <1>12, <1>13 DEF ListGood, RestGood, Unique
<1>15. q.m.height \in 0..h
  <2>1. q.m.height = i
    BY <1>5, <1>8
  <2>2. i \in 0..h
    BY <1>0, <1>4
  <2> QED BY <2>1, <2>2, Zenon
<1>16. q.archive \subseteq l.archive
  BY <1>8
<1> QED BY <1>8, <1>14, <1>15, <1>16 DEF q

(* The list that reset() leaves is right for every chain. *)
LEMMA EmptyGood ==
    ASSUME NEW c \in Chains, NEW f \in Chains, NEW p
    PROVE  /\ EmptyList \in ListType /\ EmptyList.m.height = 0
           /\ EmptyList.archive = {} /\ EmptyList.added = FALSE
           /\ ListGood(EmptyList, c, p, f)
<1>1. <<>> \in Chains /\ Len(c) \in Nat
  BY DEF Chains
<1>2. State(0, <<>>, TRUE) \in States
  BY <1>1 DEF State, States
<1>3. /\ EmptyList \in ListType /\ EmptyList.m = State(0, <<>>, TRUE)
      /\ EmptyList.history = {} /\ EmptyList.archive = {} /\ EmptyList.added = FALSE
  BY <1>2 DEF EmptyList, ListType
<1>4. EmptyList.m.height = 0 /\ EmptyList.m.full /\ IsOf(EmptyList.m, c)
  BY <1>1, <1>3, FirstEnds DEF State, IsOf
<1>5. 0..(EmptyList.m.height - 1) = {}
  BY <1>4
<1> QED BY <1>3, <1>4, <1>5 DEF ListGood, RestGood, ArchiveGood, Unique

(* An empty database holds no wrong state. *)
LEMMA NoDataGood ==
    ASSUME NEW f
    PROVE  /\ NoData \in DataType /\ NoData.long = {}
           /\ DataGood(NoData, f) /\ DataClosed(NoData)
BY DEF NoData, DataType, DataGood, DataClosed, ArchiveGood, Unique

(* load(): the stored states make a right list, with the quorums below its *)
(* m_state.                                                                *)
LEMMA LoadedGood ==
    ASSUME Tuned, NEW d \in DataType, NEW c \in Chains, NEW f \in Chains, NEW p,
           Agree(c, f), DataGood(d, f), DataClosed(d), Loadable(d),
           Newest(d.short).height <= Len(c)
    PROVE  LET q == Loaded(d) IN
           /\ q \in ListType /\ q.m.height <= Len(c)
           /\ q.archive = d.long /\ q.added = FALSE
           /\ ListGood(q, c, p, f)
<1> DEFINE x == Newest(d.short)
           q == Loaded(d)
<1>0. /\ d.long \in SUBSET States /\ d.short \in SUBSET States
      /\ \A s \in d.short : s.height \in Nat
  <2>1. d.long \in SUBSET States /\ d.short \in SUBSET States
    BY DEF DataType
  <2> QED BY <2>1, StateFields
<1>1. Len(c) \in Nat /\ Len(f) \in Nat
  BY DEF Chains
<1>2. PICK y \in d.short : Above(d.short, y.height) = {} /\ y.full
  BY DEF Loadable
<1>3. x \in d.short /\ Above(d.short, x.height) = {} /\ x.height <= Len(c)
  BY <1>2 DEF Newest
<1>4. x = y
  <2>1. ~(x.height > y.height) /\ ~(y.height > x.height)
    BY <1>2, <1>3 DEF Above
  <2>2. x.height = y.height
    <3>1. x.height \in Nat /\ y.height \in Nat
      BY <1>0, <1>2, <1>3
    <3> HIDE DEF x
    <3> QED BY <3>1, <2>1
  <2> QED BY <2>2, <1>2, <1>3 DEF DataGood, Unique
<1> HIDE DEF x
<1>5. /\ q \in ListType /\ q.m = x /\ q.history = d.short \ {x} /\ q.archive = d.long
      /\ q.added = FALSE
  <2>1. q = [m |-> x, history |-> d.short \ {x}, archive |-> d.long, added |-> FALSE]
    BY DEF Loaded, x
  <2>2. x \in States /\ d.short \ {x} \in SUBSET States
    BY <1>0, <1>3
  <2> HIDE DEF q
  <2> QED BY <2>1, <2>2, <1>0 DEF ListType
<1> HIDE DEF q
<1>6. x.full /\ x.height \in Nat /\ x.height <= Len(f)
  BY <1>0, <1>2, <1>3, <1>4 DEF DataGood, IsOf
<1>7. ASSUME NEW s \in d.short PROVE IsOf(s, c) /\ s.height <= x.height
  <2>1. s.height <= x.height
    BY <1>3, <1>6 DEF DataGood
  <2>2. s \in States /\ IsOf(s, f)
    BY <1>0 DEF DataGood
  <2>3. s.height <= Len(c) /\ s.height <= Len(f)
    BY <2>1, <1>0, <1>1, <1>3, <1>6
  <2> QED BY <2>1, <2>2, <2>3, AgreeIsOf
<1>8. ASSUME NEW s \in q.history
      PROVE  s.height < x.height /\ s.of = First(c, s.height) /\ ~s.full
  <2>1. s \in d.short /\ s # x
    BY <1>5
  <2>2. s.height # x.height
    BY <2>1, <1>3 DEF DataGood, Unique
  <2>3. s.height <= x.height /\ s.of = First(c, s.height)
    BY <2>1, <1>7 DEF IsOf
  <2>4. s.height \in Nat /\ x.height \in Nat
    BY <2>1, <1>0, <1>3
  <2>5. s.full => x.height <= s.height
    BY <2>1, <1>3 DEF DataGood
  <2> QED BY <2>2, <2>3, <2>4, <2>5
<1>9. \A s \in q.history : s.height < Len(f)
  <2>1. \A s \in q.history : s.height \in Nat /\ s.height < x.height
    BY <1>0, <1>5, <1>8
  <2> QED BY <2>1, <1>1, <1>6
<1>10. Unique(q.history)
  BY <1>5 DEF DataGood, Unique
<1>11. ASSUME NEW r \in 0..(q.m.height - 1)
       PROVE  r < Len(f) /\ r < x.height /\ r \in 0..(x.height - 1)
  BY <1>1, <1>5, <1>6, <1>11
<1>12. ASSUME NEW r \in 0..(q.m.height - 1), \A s \in q.history \cup q.archive : s.height # r
       PROVE  NotLoaded(q, r)
  <2>1. \A s \in d.short \cup d.long : s.height # r
    BY <1>5, <1>6, <1>11, <1>12
  <2>2. ~Refers(x.height, r)
    BY <2>1, <1>3, <1>6, <1>11 DEF DataClosed, Closed
  <2> QED BY <2>2, <1>5, <1>8 DEF NotLoaded
<1>13. ArchiveGood(q.archive, f)
  BY <1>5 DEF DataGood
<1>14. IsOf(q.m, c) /\ q.m.full
  BY <1>3, <1>5, <1>6, <1>7
<1>15. RestGood(q, c, p, f)
  BY <1>5, <1>8, <1>9, <1>10, <1>11, <1>12, <1>13 DEF RestGood
<1> QED BY <1>3, <1>5, <1>14, <1>15 DEF q, ListGood

(* init(): the stored states are taken or dropped; both ways the list is    *)
(* right and its archive is the stored one.                                 *)
LEMMA InitialGood ==
    ASSUME Tuned, NEW d \in DataType, NEW c \in Chains, NEW f \in Chains, NEW p,
           Agree(c, f), DataGood(d, f), DataClosed(d),
           Accepted(d, c) => Newest(d.short).height <= Len(c)
    PROVE  LET q == AfterInit(d, c)
               b == DataAfterInit(d, c)
           IN
           /\ q \in ListType /\ q.m.height \in 0..Len(c)
           /\ q.archive = b.long
           /\ ListGood(q, c, p, f) /\ DataGood(b, f) /\ DataClosed(b)
<1>0. Len(c) \in Nat
  BY DEF Chains
<1>1. CASE Accepted(d, c)
  <2>1. AfterInit(d, c) = Loaded(d) /\ DataAfterInit(d, c) = d /\ Loadable(d)
    BY <1>1 DEF AfterInit, DataAfterInit, Accepted
  <2>2. /\ Loaded(d) \in ListType /\ Loaded(d).m.height <= Len(c)
        /\ Loaded(d).archive = d.long /\ ListGood(Loaded(d), c, p, f)
    BY <1>1, <2>1, LoadedGood
  <2>3. Loaded(d).m.height \in 0..Len(c)
    <3>1. Loaded(d).m.height \in Nat
      BY <2>2, ListHeights
    <3>2. Loaded(d).m.height <= Len(c)
      BY <2>2
    <3> QED BY <3>1, <3>2, <1>0
  <2> QED BY <2>1, <2>2, <2>3
<1>2. CASE ~Accepted(d, c)
  <2>1. AfterInit(d, c) = EmptyList /\ DataAfterInit(d, c) = NoData
    BY <1>2 DEF AfterInit, DataAfterInit
  <2>2. 0 \in 0..Len(c)
    BY <1>0
  <2> QED BY <2>1, <2>2, EmptyGood, NoDataGood
<1> QED BY <1>1, <1>2

(* store(): the short-term states of a right list are final, the last of    *)
(* them alone may be complete, and it has its quorums below it or in the    *)
(* archive.                                                                 *)
LEMMA StoredGood ==
    ASSUME Tuned, NEW l \in ListType, NEW c \in Chains, NEW f \in Chains, NEW p, NEW A,
           Agree(c, f), Len(c) <= Len(f) + MaxReorg,
           ListGood(l, c, p, f), l.archive \subseteq A
    PROVE  LET S == ShortTermData(l) IN
           /\ S \in SUBSET States
           /\ \A s \in S : IsOf(s, f) /\ s.height < l.m.height
           /\ Unique(S)
           /\ \A s \in S : s.full =>
                 (\A t \in S : t.height <= s.height) /\ Closed(s, S \cup A)
<1> DEFINE S == ShortTermData(l)
           top == MaxShortTermHeight(l)
<1>c. /\ VoteLifetime \in Nat /\ VoteLifetime >= 1
      /\ ShortHistory \in Nat /\ MaxReorg \in Nat /\ MaxReorg >= 1
      /\ Buffer \in Nat /\ MaxReorg <= Buffer
      /\ MaxReorg + VoteLifetime + Buffer <= ShortHistory + 1
  BY Constants
<1>0. /\ l.history \in SUBSET States
      /\ l.m.height \in Nat /\ \A s \in l.history : s.height \in Nat
  BY ListFields, ListHeights
<1>1. Len(c) \in Nat /\ Len(f) \in Nat
  BY DEF Chains
<1>2. /\ l.m.height <= Len(c)
      /\ \A s \in l.history : s.height < l.m.height /\ s.of = First(c, s.height)
      /\ Unique(l.history)
      /\ \A r \in 0..(l.m.height - 1) : (\A s \in l.history \cup l.archive : s.height # r)
            => Culled(l, p, r) \/ NotLoaded(l, r)
  BY DEF ListGood, RestGood, IsOf
<1>3. top = l.m.height - 1 - ShortHistory + VoteLifetime + Buffer
  <2>1. l.m.height - 1 \in Int /\ l.m.height - 1 >= -1
    BY <1>0
  <2>2. CullHeight(l.m.height - 1) = l.m.height - 1 - ShortHistory
    BY <2>1, CullHeightIs
  <2>3. top = CullHeight(l.m.height - 1) + (VoteLifetime + Buffer)
    BY DEF MaxShortTermHeight, QuorumWindow
  <2> DEFINE n == l.m.height
  <2>4. n \in Nat /\ top = n - 1 - ShortHistory + (VoteLifetime + Buffer)
    BY <2>2, <2>3, <1>0
  <2> HIDE DEF n, top
  <2>5. top = n - 1 - ShortHistory + VoteLifetime + Buffer
    BY <2>4, <1>c
  <2> QED BY <2>5 DEF n
<1>4. top \in Int /\ top <= Len(f)
  <2> DEFINE n == l.m.height
  <2>1. n <= Len(c) /\ n \in Nat /\ top = n - 1 - ShortHistory + VoteLifetime + Buffer
    BY <1>0, <1>2, <1>3
  <2> HIDE DEF n, top
  <2> QED BY <2>1, <1>1, <1>c
<1>5. S = {IF s.height < top THEN QuorumsOnly(s) ELSE s :
             s \in {t \in l.history : t.height <= top}}
  BY DEF ShortTermData
<1> HIDE DEF top, S
<1>6. ASSUME NEW s \in S
      PROVE  /\ s \in States /\ s.height \in Nat /\ s.height <= top
             /\ \E t \in l.history : /\ t.height = s.height /\ t.of = s.of
                                     /\ s = IF t.height < top THEN QuorumsOnly(t) ELSE t
                                     /\ s.full => t.full /\ t.height = top
  <2>1. PICK t \in l.history : /\ t.height <= top
                               /\ s = IF t.height < top THEN QuorumsOnly(t) ELSE t
    BY <1>5
  <2>2. t \in States /\ t.height \in Nat
    BY <2>1, <1>0
  <2>3. s \in States /\ s.height = t.height /\ s.of = t.of
    BY <2>1, <2>2, StateFields
  <2>4. s.full => t.full /\ t.height = top
    <3>1. CASE t.height < top
      BY <3>1, <2>1, <2>2, StateFields
    <3>2. CASE ~(t.height < top)
      BY <3>2, <2>1, <2>2, <1>4
    <3> QED BY <3>1, <3>2
  <2> QED BY <2>1, <2>2, <2>3, <2>4
<1>7. ASSUME NEW t \in l.history, t.height <= top
      PROVE  \E s \in S : s.height = t.height
  <2>1. (IF t.height < top THEN QuorumsOnly(t) ELSE t) \in S
    BY <1>5, <1>7
  <2> QED BY <2>1, <1>0, StateFields
<1>8. S \in SUBSET States
  BY <1>6
<1>9. ASSUME NEW s \in S
      PROVE  IsOf(s, f) /\ s.height < l.m.height
  <2>1. s.height \in Nat /\ s.height <= Len(f)
    BY <1>1, <1>4, <1>6
  <2>2. s.of = First(c, s.height) /\ s.height < l.m.height
    <3>1. PICK t \in l.history : t.height = s.height /\ t.of = s.of
      BY <1>6
    <3>2. t.height < l.m.height /\ t.of = First(c, t.height)
      BY <1>2
    <3> QED BY <3>1, <3>2
  <2>3. s.height <= Len(c)
    <3> DEFINE n == l.m.height
    <3>1. n \in Nat /\ n <= Len(c) /\ s.height < n
      BY <2>2, <1>0, <1>2
    <3> HIDE DEF n
    <3> QED BY <3>1, <2>1, <1>1
  <2>4. First(c, s.height) = First(f, s.height)
    BY <2>1, <2>3, AgreeFirst
  <2> QED BY <2>1, <2>2, <2>4 DEF IsOf
<1>10. Unique(S)
  <2> SUFFICES ASSUME NEW s \in S, NEW u \in S, s.height = u.height
               PROVE  s = u
    BY DEF Unique
  <2>1. PICK t \in l.history : /\ t.height = s.height
                               /\ s = IF t.height < top THEN QuorumsOnly(t) ELSE t
    BY <1>6
  <2>2. PICK v \in l.history : /\ v.height = u.height
                               /\ u = IF v.height < top THEN QuorumsOnly(v) ELSE v
    BY <1>6
  <2>3. t = v
    <3>1. t.height = v.height
      BY <2>1, <2>2
    <3> QED BY <3>1, <1>2 DEF Unique
  <2> QED BY <2>1, <2>2, <2>3
<1>11. ASSUME NEW s \in S, s.full
       PROVE  (\A t \in S : t.height <= s.height) /\ Closed(s, S \cup A)
  <2>1. PICK t \in l.history : t.height = s.height /\ t.full /\ t.height = top
    BY <1>6, <1>11
  <2>2. ASSUME NEW r \in 0..(s.height - 1), Refers(s.height, r)
        PROVE  \E u \in S \cup A : u.height = r
    <3>1. /\ r \in Nat /\ r < top /\ top + 2 <= r + VoteLifetime
          /\ r \in 0..(l.m.height - 1)
      <4> DEFINE n == l.m.height
      <4>1. s.height = top /\ top < n /\ n \in Nat
        BY <2>1, <1>0, <1>2
      <4>2. r \in 0..(top - 1) /\ top + 2 <= r + VoteLifetime
        BY <4>1, <2>2 DEF Refers
      <4> HIDE DEF n
      <4>3. r \in Nat /\ r < top /\ r \in 0..(n - 1)
        BY <4>1, <4>2, <1>4
      <4> QED BY <4>2, <4>3 DEF n
    <3>2. ~Culled(l, p, r)
      <4> DEFINE n == l.m.height
      <4>1. n \in Nat /\ top = n - 1 - ShortHistory + VoteLifetime + Buffer
        BY <1>0, <1>3
      <4> HIDE DEF n
      <4>2. ~(r <= n + MaxReorg - ShortHistory)
        BY <3>1, <4>1, <1>c
      <4> QED BY <4>2 DEF Culled, Early, n
    <3>3. ~NotLoaded(l, r)
      BY <2>1, <2>2 DEF NotLoaded
    <3>4. PICK u \in l.history \cup l.archive : u.height = r
      BY <3>1, <3>2, <3>3, <1>2
    <3>5. u \in l.history => \E v \in S : v.height = r
      BY <3>1, <3>4, <1>4, <1>7
    <3> QED BY <3>4, <3>5
  <2>3. \A u \in S : u.height <= s.height
    BY <2>1, <1>6
  <2> QED BY <2>2, <2>3 DEF Closed
<1> QED BY <1>8, <1>9, <1>10, <1>11 DEF S

(* Chain e, its height k and its final part g when block b joins. *)
Grown(c, p, f, b, e, k, g) ==
    /\ e = Append(c, b)
    /\ k = IF Len(e) > p THEN Len(e) ELSE p
    /\ g = IF Len(e) > Len(f) + MaxReorg THEN First(e, Len(e) - MaxReorg) ELSE f

(* The chain and its final part stay right when a block joins, below the top *)
(* of the final part as above it.                                            *)
LEMMA ChainGrows ==
    ASSUME Tuned, NEW c \in Chains, NEW f \in Chains, NEW p \in Nat, NEW b \in Blocks,
           NEW e, NEW k, NEW g, ChainGood(c, p, f), Grown(c, p, f, b, e, k, g),
           Len(c) < Len(f) => b = f[Len(c) + 1]
    PROVE  /\ e \in Chains /\ k \in Nat /\ g \in Chains /\ p <= k
           /\ Len(e) = Len(c) + 1
           /\ Len(c) <= Len(e) /\ c = First(e, Len(c))
           /\ Len(f) <= Len(g) /\ f = First(g, Len(f))
           /\ ChainGood(e, k, g)
<1>0. /\ Len(c) \in Nat /\ Len(f) \in Nat /\ MaxReorg \in Nat /\ MaxReorg >= 1
      /\ Agree(c, f)
      /\ Len(c) <= p /\ p <= Len(c) + MaxReorg
      /\ Len(c) <= Len(f) + MaxReorg
      /\ ~DeepPops => Len(f) <= Len(c) /\ (Len(f) = 0 \/ Len(f) + MaxReorg <= p)
  BY Constants DEF Chains, ChainGood
<1>g. /\ e = Append(c, b)
      /\ k = IF Len(e) > p THEN Len(e) ELSE p
      /\ g = IF Len(e) > Len(f) + MaxReorg THEN First(e, Len(e) - MaxReorg) ELSE f
  BY DEF Grown
<1>1. /\ e \in Chains /\ Len(e) = Len(c) + 1
      /\ \A i \in 0..Len(c) : First(e, i) = First(c, i)
  BY <1>0, <1>g, FirstAppend
<1>2. c = First(e, Len(c)) /\ f = First(f, Len(f))
  <2>1. Len(c) \in 0..Len(c)
    BY <1>0
  <2> QED BY <2>1, <1>1, FirstEnds
<1>3. k \in Nat /\ p <= k /\ Len(e) <= k /\ k <= Len(e) + MaxReorg
  BY <1>0, <1>1, <1>g
<1>4. CASE Len(c) < Len(f)
  <2>1. g = f /\ Len(e) <= Len(f)
    BY <1>0, <1>1, <1>4, <1>g
  <2>2. e = First(f, Len(e))
    <3> DEFINE d == First(f, Len(e))
    <3>1. /\ d \in Chains /\ Len(d) = Len(e)
          /\ \A i \in 1..Len(e) : d[i] = f[i]
      BY <2>1, <1>0, <1>1, FirstChain
    <3>2. c = First(f, Len(c)) /\ \A i \in 1..Len(c) : First(f, Len(c))[i] = f[i]
      <4>1. Len(c) \in 0..Len(f)
        BY <1>0, <1>4
      <4>2. First(c, Len(c)) = First(f, Len(c)) /\ First(c, Len(c)) = c
        BY <1>0, <1>4, AgreeFirst, FirstEnds
      <4> QED BY <4>1, <4>2, FirstChain
    <3> HIDE DEF d
    <3>3. ASSUME NEW i \in 1..Len(e) PROVE e[i] = f[i]
      <4>1. CASE i = Len(c) + 1
        BY <4>1, <1>0, <1>4, <1>g DEF Chains
      <4>2. CASE i # Len(c) + 1
        <5>1. i \in 1..Len(c)
          BY <4>2, <1>0, <1>1
        <5>2. e[i] = c[i]
          BY <5>1, <1>g DEF Chains
        <5> QED BY <5>1, <5>2, <3>2
      <4> QED BY <4>1, <4>2
    <3>4. e = d
      BY <3>1, <3>3, <1>1, SameBlocks
    <3> QED BY <3>4 DEF d
  <2> QED BY <2>1, <2>2, <1>0, <1>1, <1>2, <1>3, <1>4 DEF ChainGood, Agree
<1>5. CASE ~(Len(c) < Len(f))
  <2>0. Len(f) <= Len(c) /\ f = First(e, Len(f))
    <3>1. Len(f) <= Len(c) /\ Len(f) \in 0..Len(c)
      BY <1>0, <1>5
    <3>2. First(c, Len(f)) = First(f, Len(f))
      BY <3>1, <1>0, AgreeFirst
    <3> QED BY <3>1, <3>2, <1>1, <1>2
  <2>1. CASE Len(e) > Len(f) + MaxReorg
    <3> DEFINE n == Len(e) - MaxReorg
    <3>1. n \in 0..Len(e) /\ Len(f) \in 0..n /\ n + MaxReorg = Len(e)
      BY <2>0, <2>1, <1>0, <1>1
    <3>2. g = First(e, n)
      BY <2>1, <1>g
    <3> HIDE DEF n
    <3>3. g \in Chains /\ Len(g) = n /\ First(g, Len(f)) = First(e, Len(f))
      BY <3>1, <3>2, <1>1, FirstChain, FirstFirst
    <3>4. Len(g) <= Len(e) /\ Len(e) <= Len(g) + MaxReorg /\ Len(g) + MaxReorg <= k
      BY <3>1, <3>3, <1>0, <1>1, <1>3
    <3>5. Agree(e, g)
      BY <3>2, <3>3, <3>4 DEF Agree
    <3>6. Len(f) <= Len(g)
      BY <3>1, <3>3
    <3> QED BY <2>0, <3>3, <3>4, <3>5, <3>6, <1>0, <1>1, <1>2, <1>3 DEF ChainGood
  <2>2. CASE ~(Len(e) > Len(f) + MaxReorg)
    <3>1. g = f /\ Len(e) <= Len(f) + MaxReorg /\ Len(f) <= Len(e)
      BY <2>0, <2>2, <1>0, <1>1, <1>g
    <3>2. Agree(e, g)
      BY <3>1, <2>0 DEF Agree
    <3>3. ~DeepPops => Len(f) = 0 \/ Len(f) + MaxReorg <= k
      BY <1>0, <1>3
    <3> QED BY <3>1, <3>2, <3>3, <1>0, <1>1, <1>2, <1>3 DEF ChainGood
  <2> QED BY <2>1, <2>2
<1> QED BY <1>4, <1>5

-----------------------------------------------------------------------------
(* The steps *)

(* A step of the daemon is a step of the abstract list or changes neither    *)
(* the chain nor the list.                                                   *)
Simulates == Promise!Next \/ UNCHANGED <<chain, ListChain>>

(* What the invariant says of the variables. *)
LEMMA Facts ==
    ASSUME IInv
    PROVE  /\ chain \in Chains /\ final \in Chains /\ peak \in Nat
           /\ Len(chain) \in Nat /\ Len(final) \in Nat
           /\ list \in ListType /\ db \in DataType
           /\ list.m.height \in Nat /\ list.m.height <= Len(chain)
           /\ Agree(chain, final)
           /\ Len(chain) <= peak /\ peak <= Len(chain) + MaxReorg
           /\ Len(chain) <= Len(final) + MaxReorg
           /\ ListGood(list, chain, peak, final) /\ DataGood(db, final)
           /\ ListChain = First(chain, list.m.height)
<1>1. /\ chain \in Chains /\ final \in Chains /\ peak \in Nat
      /\ list \in ListType /\ db \in DataType
  BY DEF IInv, TypeOK, ListType, DataType
<1>2. Len(chain) \in Nat /\ Len(final) \in Nat
  BY <1>1 DEF Chains
<1>3. list.m.height \in Nat
  BY <1>1, ListHeights
<1>4. list.m.full /\ list.m.height <= Len(chain) /\ list.m.of = First(chain, list.m.height)
  BY DEF IInv, ListGood, IsOf
<1>5. ListChain = First(chain, list.m.height)
  BY <1>4 DEF ListChain
<1> QED BY <1>1, <1>2, <1>3, <1>4, <1>5 DEF IInv, ChainGood

(* The same after a step. *)
LEMMA ListChainAfter ==
    ASSUME ListGood(list', chain', peak', final')
    PROVE  ListChain' = First(chain', list'.m.height)
<1>1. list'.m.full /\ list'.m.of = First(chain', list'.m.height)
  BY DEF ListGood, IsOf
<1> QED BY <1>1 DEF ListChain

(* What init() accepts is not above the chain. *)
LEMMA NewestBelow ==
    ASSUME Tuned, NEW d \in DataType, NEW c \in Chains, NEW f \in Chains, DataGood(d, f),
           Accepted(d, c),
           \/ Len(f) <= Len(c)
           \/ ~(At(d.short, Len(c) + 1) # {} /\ Above(d.short, Len(c) + 1) = {})
    PROVE  Newest(d.short).height <= Len(c)
<1> DEFINE x == Newest(d.short)
<1>0. Len(c) \in Nat /\ Len(f) \in Nat
  BY DEF Chains
<1>1. x \in d.short /\ Above(d.short, x.height) = {} /\ x.height <= Len(c) + 1
  BY DEF Accepted, Loadable, Newest
<1> HIDE DEF x
<1>2. x.height \in Nat /\ x.height <= Len(f)
  <2>1. x \in States /\ IsOf(x, f)
    BY <1>1 DEF DataType, DataGood
  <2> QED BY <2>1, StateFields DEF IsOf
<1>3. CASE Len(f) <= Len(c)
  <2>1. x.height <= Len(c)
    BY <1>0, <1>2, <1>3
  <2> QED BY <2>1 DEF x
<1>4. CASE ~(At(d.short, Len(c) + 1) # {} /\ Above(d.short, Len(c) + 1) = {})
  <2>1. x.height # Len(c) + 1
    BY <1>1, <1>4 DEF At
  <2>2. x.height <= Len(c)
    BY <2>1, <1>0, <1>1, <1>2
  <2> QED BY <2>2 DEF x
<1> QED BY <1>3, <1>4

(* process_block for a block that joins the chain. *)
LEMMA AddBlockStep ==
    ASSUME Tuned, IInv, TypeOK', NEW b \in Blocks, AddBlock(b)
    PROVE  IInv' /\ Simulates
<1>0. /\ chain \in Chains /\ final \in Chains /\ peak \in Nat
      /\ Len(chain) \in Nat /\ list \in ListType /\ db \in DataType
      /\ list.m.height = Len(chain)
      /\ ListChain = First(chain, list.m.height)
      /\ ListGood(list, chain, peak, final)
  BY Facts DEF AddBlock, IInv, ModeGood
<1>1. /\ chain' \in Chains /\ peak' \in Nat /\ final' \in Chains /\ peak <= peak'
      /\ Len(chain') = Len(chain) + 1
      /\ Len(chain) <= Len(chain') /\ chain = First(chain', Len(chain))
      /\ Len(final) <= Len(final') /\ final = First(final', Len(final))
      /\ ChainGood(chain', peak', final')
  <2>1. Grown(chain, peak, final, b, chain', peak', final')
    BY DEF AddBlock, Finalised, Grown
  <2>2. ChainGood(chain, peak, final)
    BY DEF IInv
  <2>3. Len(chain) < Len(final) => b = final[Len(chain) + 1]
    BY DEF AddBlock, Follows
  <2> QED BY <2>1, <2>2, <2>3, <1>0, ChainGrows
<1>2. ListGood(list, chain', peak', final')
  BY <1>0, <1>1, ExtendGood
<1>3. /\ list' \in ListType /\ ListGood(list', chain', peak', final')
      /\ list'.m.height = Len(chain')
      /\ list.archive \subseteq list'.archive
      /\ ~list'.added => ~list.added /\ list'.archive = list.archive
  <2>1. First(chain', list.m.height + 1) = chain'
    BY <1>0, <1>1, FirstEnds
  <2>2. /\ Agree(chain', final') /\ Len(chain') <= Len(final') + MaxReorg
        /\ Len(chain') <= peak'
    BY <1>1 DEF ChainGood
  <2>3. list' = ProcessBlock(list, First(chain', list.m.height + 1))
    BY <2>1 DEF AddBlock
  <2>4. list.m.height < Len(chain')
    BY <1>0, <1>1
  <2> QED BY <2>2, <2>3, <2>4, <1>0, <1>1, <1>2, ProcessGood
<1>4. DataGood(db', final') /\ db' = db /\ mode' = mode /\ mode = "up" /\ popped' = popped
  BY <1>0, <1>1, ExtendData DEF AddBlock, IInv
<1>5. ModeGood'
  BY <1>3, <1>4 DEF ModeGood
<1>6. StoreGood'
  BY <1>3, <1>4 DEF IInv, StoreGood, Written
<1>7. Promise!Next
  <2>1. ListChain = chain
    BY <1>0, FirstEnds
  <2>2. ListChain' = chain'
    BY <1>1, <1>3, ListChainAfter, FirstEnds
  <2>3. Promise!Connect(b)
    BY <2>1, <2>2 DEF AddBlock, Promise!Connect
  <2> QED BY <2>3 DEF Promise!Next
<1> QED BY <1>1, <1>3, <1>4, <1>5, <1>6, <1>7 DEF IInv, Simulates

(* abort_block detaches the list again after process_block. *)
LEMMA AbortBlockStep ==
    ASSUME Tuned, IInv, TypeOK', NEW b \in Blocks, AbortBlock(b)
    PROVE  IInv' /\ Simulates
<1> DEFINE e == Append(chain, b)
           l == ProcessBlock(list, e)
           n == Len(chain)
<1>0. /\ chain \in Chains /\ final \in Chains /\ peak \in Nat
      /\ n \in Nat /\ Len(final) \in Nat /\ list \in ListType
      /\ list.m.height = n /\ Agree(chain, final)
      /\ n <= peak /\ peak <= n + MaxReorg /\ n <= Len(final) + MaxReorg
      /\ ListChain = First(chain, list.m.height)
      /\ ListGood(list, chain, peak, final)
      /\ MaxReorg \in Nat /\ MaxReorg >= 1
  BY Facts, Constants DEF AbortBlock, IInv, ModeGood
<1>1. e \in Chains /\ Len(e) = n + 1
  <2>1. chain \in Chains /\ 0 \in 0..Len(chain)
    BY <1>0
  <2> QED BY <2>1, FirstAppend
<1>2. /\ peak' \in Nat /\ peak <= peak' /\ n + 1 <= peak' /\ peak' <= n + MaxReorg
      /\ chain' = chain /\ final' = final /\ mode' = mode /\ mode = "up"
      /\ popped' = popped
  BY <1>0 DEF AbortBlock
<1> HIDE DEF e
<1>3. ListGood(list, chain, peak', final)
  <2>1. chain = First(chain, Len(chain)) /\ final = First(final, Len(final))
    BY <1>0, FirstEnds
  <2>2. Len(chain) <= Len(chain) /\ Len(final) <= Len(final)
    BY <1>0
  <2> QED BY <2>1, <2>2, <1>0, <1>2, ExtendGood
<1>4. /\ l \in ListType /\ l.m.height = n + 1
      /\ RestGood(l, chain, peak', final)
      /\ list.m \in l.history /\ list.archive \subseteq l.archive
      /\ ~l.added => ~list.added /\ l.archive = list.archive
  <2>1. Len(e) = list.m.height + 1 /\ Len(e) <= peak'
    BY <1>0, <1>1, <1>2
  <2>2. list \in ListType /\ chain \in Chains /\ final \in Chains /\ Agree(chain, final)
    BY <1>0
  <2>3. Len(chain) <= Len(final) + MaxReorg
    BY <1>0
  <2>4. e \in Chains /\ peak' \in Nat /\ ListGood(list, chain, peak', final)
    BY <1>1, <1>2, <1>3
  <2>5. LET q == ProcessBlock(list, e) IN
        /\ q \in ListType /\ q.m.height = list.m.height + 1 /\ q.m.full
        /\ RestGood(q, chain, peak', final)
        /\ list.m \in q.history /\ list.archive \subseteq q.archive
        /\ ~q.added => ~list.added /\ q.archive = list.archive
    BY <2>1, <2>2, <2>3, <2>4, ProcessRest
  <2> QED BY <2>5, <1>0
<1> HIDE DEF l
<1>5. InHistory(l, n)
  <2>1. list.m.full
    BY <1>0 DEF ListGood
  <2> QED BY <2>1, <1>0, <1>4 DEF InHistory, At
<1>6. /\ FromHistory(l, n) \in ListType /\ FromHistory(l, n).m.height = n
      /\ FromHistory(l, n).archive = l.archive /\ FromHistory(l, n).added = l.added
      /\ ListGood(FromHistory(l, n), chain, peak', final)
  <2>1. n \in 0..Len(chain) /\ n < l.m.height
    <3>1. n \in Nat /\ l.m.height = n + 1
      BY <1>0, <1>4
    <3> QED BY <3>1
  <2>2. First(chain, n) = chain
    BY <1>0, FirstEnds
  <2>3. chain \in Chains /\ final \in Chains /\ peak' \in Nat /\ peak' <= n + MaxReorg
    BY <1>0, <1>2
  <2>4. l \in ListType /\ RestGood(l, chain, peak', final)
    BY <1>4
  <2> HIDE DEF n
  <2>5. LET q == FromHistory(l, n) IN
        /\ q \in ListType /\ q.m.height = n
        /\ q.archive = l.archive /\ q.added = l.added
        /\ ListGood(q, First(chain, n), peak', final)
    BY <2>1, <2>3, <2>4, <1>5, FromHistoryGood
  <2> QED BY <2>2, <2>5
<1>7. list' = FromHistory(l, n) /\ db' = db
  BY <1>5 DEF AbortBlock, Detached, DataDetached, l, e
<1>8. ChainGood(chain', peak', final')
  <2>1. ~DeepPops => /\ Len(final) <= n
                     /\ Len(final) = 0 \/ Len(final) + MaxReorg <= peak'
    BY <1>0, <1>2 DEF IInv, ChainGood
  <2>2. n <= peak'
    BY <1>0, <1>2
  <2> QED BY <2>1, <2>2, <1>0, <1>2 DEF ChainGood
<1>9. ModeGood'
  BY <1>2, <1>6, <1>7 DEF ModeGood
<1>10. StoreGood'
  BY <1>2, <1>4, <1>6, <1>7 DEF IInv, StoreGood, Written
<1>11. ListChain' = ListChain
  BY <1>0, <1>2, <1>6, <1>7, ListChainAfter
<1>12. DataGood(db', final')
  BY <1>2, <1>7 DEF IInv
<1> QED BY <1>2, <1>6, <1>7, <1>8, <1>9, <1>10, <1>11, <1>12 DEF IInv, Simulates

(* The mode after the list has gone back to height k. *)
LEMMA ModeAfter ==
    ASSUME NEW k, NEW n \in Nat, k \in 0..n, list'.m.height = k, Len(chain') = n,
           mode' = AfterFallback(list', chain')
    PROVE  ModeGood' /\ mode' \in {"up", "replay"}
<1>1. mode' = IF k < n THEN "replay" ELSE "up"
  BY DEF AfterFallback
<1>2. /\ mode' \in {"up", "stopping", "stopped"} => k = n
      /\ mode' = "replay" => k < n
      /\ mode' \in {"up", "replay"}
  BY <1>1
<1> QED BY <1>2 DEF ModeGood

(* A height is one of those up to itself. *)
LEMMA Itself ==
    ASSUME NEW h \in Nat
    PROVE  h \in 0..h
OBVIOUS

(* A chain switch stays within the history; only a deep pop leaves it. *)
LEMMA DetachFacts ==
    ASSUME Tuned, IInv, NEW h \in 0..(Len(chain) - 1), Detach(h)
    PROVE  /\ h \in Nat /\ h < Len(chain) /\ h \in 0..Len(chain) /\ h < list.m.height
           /\ list.m.height = Len(chain)
           /\ InHistory(list, h) => peak' = peak /\ peak <= h + MaxReorg
           /\ ~InHistory(list, h) => DeepPops /\ peak' = h
           /\ ~DeepPops => Len(final) <= h
<1> DEFINE n == Len(chain)
           g == Len(final)
<1>0. n \in Nat /\ g \in Nat /\ peak \in Nat /\ MaxReorg \in Nat /\ MaxReorg >= 1
  BY Facts, Constants
<1>1. h \in 0..(n - 1)
  OBVIOUS
<1>2. list.m.height = n
  BY DEF Detach, IInv, ModeGood
<1>3. peak' = IF InHistory(list, h) THEN peak ELSE h
  BY DEF Detach
<1>4. InHistory(list, h) \/ ~DeepPops => peak - h <= MaxReorg
  BY DEF Detach, Reachable
<1>5. ~DeepPops => g = 0 \/ g + MaxReorg <= peak
  BY DEF IInv, ChainGood
<1> HIDE DEF n, g
<1>6. h \in Nat /\ h < n /\ h \in 0..n
  BY <1>0, <1>1
<1>7. InHistory(list, h) \/ ~DeepPops => peak <= h + MaxReorg
  BY <1>0, <1>4, <1>6
<1>8. ~DeepPops => g <= h
  BY <1>0, <1>5, <1>6, <1>7
<1>9. ~DeepPops => InHistory(list, h)
  <2> SUFFICES ASSUME ~DeepPops PROVE InHistory(list, h)
    OBVIOUS
  <2>1. /\ list \in ListType /\ chain \in Chains /\ final \in Chains /\ peak \in Nat
        /\ RestGood(list, chain, peak, final)
    BY Facts DEF ListGood
  <2>2. h < list.m.height /\ Len(final) <= h /\ peak <= h + MaxReorg
    BY <1>2, <1>6, <1>7, <1>8 DEF g
  <2> QED BY <2>1, <2>2, <1>6, InHistoryShallow
<1> QED BY <1>2, <1>3, <1>6, <1>7, <1>8, <1>9 DEF n, g

(* blockchain_detached for a chain switch or pop: within the history, from   *)
(* the archive, and from the stored states.                                  *)
LEMMA DetachedGood ==
    ASSUME Tuned, IInv, NEW h \in 0..(Len(chain) - 1), Detach(h)
    PROVE  LET c == First(chain, h)
               q == Detached(list, c)
               d == DataDetached(list, c)
           IN
           /\ ListGood(q, c, peak', final) /\ q.m.height \in 0..h
           /\ DataGood(d, final) /\ DataClosed(d)
           /\ ~q.added => q.archive \subseteq d.long
           /\ InHistory(list, h) => d.long = db.long /\ q.archive = list.archive
<1> DEFINE c == First(chain, h)
           q == Detached(list, c)
           d == DataDetached(list, c)
<1>0. /\ chain \in Chains /\ final \in Chains /\ peak \in Nat
      /\ Len(chain) \in Nat /\ Len(final) \in Nat /\ list \in ListType /\ db \in DataType
      /\ list.m.height = Len(chain) /\ Agree(chain, final)
      /\ ListGood(list, chain, peak, final) /\ RestGood(list, chain, peak, final)
      /\ DataGood(db, final)
      /\ MaxReorg \in Nat /\ MaxReorg >= 1
  BY Facts, Constants DEF Detach, IInv, ModeGood, ListGood
<1>1. DataClosed(db) /\ (~list.added => list.archive \subseteq db.long)
  BY DEF IInv, StoreGood, Written, Detach
<1>2. h \in Nat /\ h < Len(chain) /\ h \in 0..Len(chain) /\ h < list.m.height
  BY DetachFacts
<1>3. c \in Chains /\ Len(c) = h /\ Agree(c, final)
  <2>1. chain \in Chains /\ final \in Chains /\ Agree(chain, final)
    BY <1>0
  <2> QED BY <2>1, <1>2, FirstChain, AgreeCut
<1>4. CASE InHistory(list, h)
  <2>1. q = FromHistory(list, h) /\ d = db
    BY <1>3, <1>4 DEF Detached, DataDetached
  <2>2. peak' = peak /\ peak <= h + MaxReorg
    BY <1>4, DetachFacts
  <2>3. /\ q.m.height = h
        /\ q.archive = list.archive /\ q.added = list.added
        /\ ListGood(q, c, peak', final)
    <3>1. /\ list \in ListType /\ chain \in Chains /\ final \in Chains /\ peak \in Nat
          /\ RestGood(list, chain, peak, final)
      BY <1>0
    <3>2. LET r == FromHistory(list, h) IN
          /\ r \in ListType /\ r.m.height = h
          /\ r.archive = list.archive /\ r.added = list.added
          /\ ListGood(r, First(chain, h), peak, final)
      BY <3>1, <2>2, <1>2, <1>4, FromHistoryGood
    <3> HIDE DEF q
    <3> QED BY <3>2, <2>1, <2>2
  <2> HIDE DEF q, d, c
  <2>4. q.m.height \in 0..h
    <3>1. h \in 0..h
      BY Itself, <1>2
    <3> QED BY <3>1, <2>3, Zenon
  <2> QED BY <2>1, <2>3, <2>4, <1>0, <1>1 DEF q, d, c
<1>5. CASE ~InHistory(list, h) /\ InArchive(list, h)
  <2>1. q = FromArchive(list, h) /\ d = db
    BY <1>3, <1>5 DEF Detached, DataDetached
  <2>2. peak' = h /\ h \in Nat
    BY <1>5, DetachFacts
  <2>3. /\ q.m.height \in 0..h
        /\ q.archive \subseteq list.archive /\ q.added = list.added
        /\ ListGood(q, c, peak', final)
    <3>1. /\ list \in ListType /\ chain \in Chains /\ final \in Chains /\ peak \in Nat
          /\ Agree(chain, final) /\ RestGood(list, chain, peak, final)
      BY <1>0
    <3>2. LET r == FromArchive(list, h) IN
          /\ r \in ListType /\ r.m.height \in 0..h
          /\ r.archive \subseteq list.archive /\ r.added = list.added
          /\ ListGood(r, First(chain, h), h, final)
      BY <3>1, <1>2, <1>5, FromArchiveGood
    <3> HIDE DEF q
    <3> QED BY <3>2, <2>1, <2>2
  <2> HIDE DEF q, d, c
  <2> QED BY <2>1, <2>3, <1>0, <1>1, <1>5 DEF q, d, c
<1>6. CASE ~InHistory(list, h) /\ ~InArchive(list, h)
  <2>1. q = AfterInit(db, c) /\ d = DataAfterInit(db, c)
    BY <1>3, <1>6 DEF Detached, DataDetached
  <2>2. DeepPops
    BY <1>6, DetachFacts
  <2>3. ~StoredAbove(h)
    BY <2>2 DEF Detach, Tuned
  <2>4. ~(At(db.short, Len(c) + 1) # {} /\ Above(db.short, Len(c) + 1) = {})
    BY <2>3, <1>3 DEF StoredAbove
  <2> HIDE DEF c
  <2>5. Accepted(db, c) => Newest(db.short).height <= Len(c)
    BY <2>4, <1>0, <1>3, NewestBelow
  <2>6. /\ q.m.height \in 0..Len(c) /\ q.archive = d.long
        /\ ListGood(q, c, peak', final) /\ DataGood(d, final) /\ DataClosed(d)
    BY <2>1, <2>5, <1>0, <1>1, <1>3, InitialGood
  <2> HIDE DEF q, d
  <2> QED BY <2>6, <1>3, <1>6 DEF q, d, c
<1> QED BY <1>4, <1>5, <1>6

(* A chain switch, a rollback or pop_blocks. *)
LEMMA DetachStep ==
    ASSUME Tuned, IInv, TypeOK', NEW h \in 0..(Len(chain) - 1), Detach(h)
    PROVE  IInv' /\ Simulates
<1>0. /\ chain \in Chains /\ final \in Chains /\ peak \in Nat
      /\ Len(chain) \in Nat /\ Len(final) \in Nat
      /\ list.m.height = Len(chain) /\ Agree(chain, final)
      /\ Len(chain) <= peak /\ Len(chain) <= Len(final) + MaxReorg
      /\ ListChain = First(chain, list.m.height)
      /\ ListGood(list, chain, peak, final) /\ RestGood(list, chain, peak, final)
      /\ list \in ListType
      /\ MaxReorg \in Nat /\ MaxReorg >= 1
  BY Facts, Constants DEF Detach, IInv, ModeGood, ListGood
<1>1. h \in Nat /\ h < Len(chain) /\ h \in 0..Len(chain) /\ h < list.m.height
  BY DetachFacts
<1>2. /\ chain' = First(chain, h) /\ Len(chain') = h /\ Agree(chain', final)
      /\ final' = final
      /\ list' = Detached(list, chain') /\ db' = DataDetached(list, chain')
      /\ mode' = AfterFallback(list', chain')
      /\ peak' = IF InHistory(list, h) THEN peak ELSE h
  <2>1. Len(First(chain, h)) = h /\ Agree(First(chain, h), final)
    BY <1>0, <1>1, FirstChain, AgreeCut
  <2> QED BY <2>1 DEF Detach
<1>p. popped' = (popped \/ ~InHistory(list, h)) /\ mode = "up"
  BY DEF Detach
<1>3. /\ ListGood(list', chain', peak', final') /\ list'.m.height \in 0..h
      /\ DataGood(db', final') /\ DataClosed(db')
      /\ ~list'.added => list'.archive \subseteq db'.long
      /\ InHistory(list, h) => db'.long = db.long /\ list'.archive = list.archive
  BY <1>2, DetachedGood
<1>4. ModeGood' /\ mode' \in {"up", "replay"}
  BY <1>1, <1>2, <1>3, ModeAfter
<1>5. ChainGood(chain', peak', final')
  <2>0. h <= peak /\ h <= Len(final) + MaxReorg
    <3> DEFINE n == Len(chain)
               g == Len(final)
    <3>1. /\ n \in Nat /\ g \in Nat /\ peak \in Nat /\ MaxReorg \in Nat
          /\ n <= peak /\ n <= g + MaxReorg /\ h \in Nat /\ h < n
      BY <1>0, <1>1
    <3> HIDE DEF n, g
    <3>2. h <= peak /\ h <= g + MaxReorg
      BY <3>1
    <3> QED BY <3>2 DEF g
  <2>1. CASE InHistory(list, h)
    <3>1. peak' = peak /\ peak <= h + MaxReorg
      BY <2>1, DetachFacts
    <3>2. ~DeepPops => /\ Len(final) <= h
                       /\ Len(final) = 0 \/ Len(final) + MaxReorg <= peak
      BY DetachFacts DEF IInv, ChainGood
    <3> QED BY <3>1, <3>2, <2>0, <1>2 DEF ChainGood
  <2>2. CASE ~InHistory(list, h)
    <3>1. DeepPops /\ peak' = h
      BY <2>2, DetachFacts
    <3>2. h <= h /\ h <= h + MaxReorg
      <4>1. h \in Nat /\ MaxReorg \in Nat
        BY <1>0, <1>1
      <4> QED BY <4>1
    <3> QED BY <3>1, <3>2, <2>0, <1>2 DEF ChainGood
  <2> QED BY <2>1, <2>2
<1>6. StoreGood'
  <2>1. ~Written'
    BY <1>4 DEF Written
  <2>2. ~popped' => db'.long \subseteq list'.archive
    BY <1>3, <1>p DEF IInv, StoreGood
  <2> QED BY <2>1, <2>2, <1>3 DEF StoreGood
<1>7. Promise!Next
  <2>1. ListChain = chain
    BY <1>0, FirstEnds
  <2> DEFINE k == list'.m.height
  <2>2. ListChain' = First(chain, k) /\ k \in 0..h
    <3>1. ListChain' = First(First(chain, h), k) /\ k \in 0..h
      BY <1>2, <1>3, ListChainAfter
    <3> HIDE DEF k
    <3> QED BY <3>1, <1>0, <1>1, FirstFirst
  <2> HIDE DEF k
  <2>3. Promise!Cut(h)
    BY <2>1, <2>2, <1>2 DEF Promise!Cut, Promise!First, First
  <2> QED BY <2>3 DEF Promise!Next
<1> QED BY <1>3, <1>4, <1>5, <1>6, <1>7 DEF IInv, Simulates

(* load_missing_blocks_into_quenero_subsystems, one block. *)
LEMMA ReplayStep ==
    ASSUME Tuned, IInv, TypeOK', Replay
    PROVE  IInv' /\ Simulates
<1> DEFINE n == list.m.height
<1>0. /\ chain \in Chains /\ final \in Chains /\ peak \in Nat
      /\ Len(chain) \in Nat /\ list \in ListType
      /\ n \in Nat /\ n < Len(chain) /\ Agree(chain, final)
      /\ Len(chain) <= peak /\ Len(chain) <= Len(final) + MaxReorg
      /\ ListGood(list, chain, peak, final)
      /\ ListChain = First(chain, n)
  BY Facts DEF Replay, IInv, ModeGood
<1>1. /\ UNCHANGED <<chain, peak, final, db, popped>> /\ mode = "replay"
      /\ list' = ProcessBlock(list, First(chain, n + 1))
  BY DEF Replay
<1>2. /\ ListGood(list', chain', peak', final') /\ list'.m.height = n + 1
      /\ list.archive \subseteq list'.archive
      /\ ~list'.added => ~list.added /\ list'.archive = list.archive
  BY <1>0, <1>1, ProcessGood
<1>3. mode' \in {"storing", "replay"}
  BY DEF Replay
<1>4. ModeGood'
  <2>1. mode' = "replay" => list'.m.height # Len(chain)
    BY DEF Replay
  <2>2. list'.m.height # Len(chain) => list'.m.height < Len(chain)
    BY <1>0, <1>2
  <2> QED BY <2>1, <2>2, <1>1, <1>3 DEF ModeGood
<1>5. StoreGood'
  BY <1>1, <1>2, <1>3 DEF IInv, StoreGood, Written
<1>6. Promise!Next
  <2>1. ListChain' = First(chain, n + 1)
    BY <1>1, <1>2, ListChainAfter
  <2>2. Len(ListChain) = n
    BY <1>0, FirstChain
  <2>3. Promise!CatchUp
    <3> HIDE DEF n
    <3> QED BY <2>1, <2>2, <1>0, <1>1 DEF Promise!CatchUp, Promise!First, First
  <2> QED BY <2>3 DEF Promise!Next
<1>7. ChainGood(chain', peak', final') /\ DataGood(db', final')
  BY <1>1 DEF IInv
<1> QED BY <1>2, <1>4, <1>5, <1>6, <1>7 DEF IInv, Simulates

(* A daemon that goes back to some block of the unchanged chain. *)
LEMMA FallsBack ==
    ASSUME IInv, chain' = chain, ListGood(list', chain', peak', final'),
           list'.m.height \in 0..Len(chain)
    PROVE  Simulates
<1>1. ListChain' = First(chain, list'.m.height)
  BY ListChainAfter
<1>2. Promise!Restart
  BY <1>1 DEF Promise!Restart, Promise!First, First
<1> QED BY <1>2 DEF Promise!Next, Simulates

(* The first write of store(). *)
LEMMA StoreLongTermStep ==
    ASSUME Tuned, IInv, TypeOK', StoreLongTerm
    PROVE  IInv' /\ Simulates
<1>0. /\ UNCHANGED <<chain, peak, final, list, popped>> /\ db \in DataType
      /\ mode \in {"storing", "stopping"}
      /\ mode' = IF mode = "storing" THEN "stored" ELSE "stopped"
  BY Facts DEF StoreLongTerm
<1> DEFINE A == LongTermData(list)
<1>1. db'.long = A /\ db'.short = db.short
  <2>1. db' = [db EXCEPT !.long = A]
    BY DEF StoreLongTerm
  <2> HIDE DEF A
  <2> QED BY <2>1, <1>0 DEF DataType
<1>2. /\ (~popped => db.long \subseteq list.archive)
      /\ (~list.added => list.archive \subseteq db.long)
      /\ DataClosed(db)
  BY <1>0 DEF IInv, StoreGood, Written
<1>3. /\ ArchiveGood(A, final)
      /\ list.archive \subseteq A
      /\ ~popped => A \subseteq list.archive /\ db.long \subseteq A
  BY <1>2 DEF LongTermData, IInv, ListGood, RestGood, DataGood
<1> HIDE DEF A
<1>4. DataGood(db', final')
  BY <1>0, <1>1, <1>3 DEF IInv, DataGood
<1>5. ~popped => DataClosed(db')
  BY <1>1, <1>2, <1>3 DEF DataClosed, Closed
<1>6. StoreGood'
  <2>1. Written' /\ list'.archive \subseteq db'.long
    BY <1>0, <1>1, <1>3 DEF Written
  <2>2. ~popped' => db'.long \subseteq list'.archive
    BY <1>0, <1>1, <1>3
  <2>3. popped' \in BOOLEAN /\ (~popped' => DataClosed(db'))
    BY <1>0, <1>5 DEF TypeOK
  <2> QED BY <2>1, <2>2, <2>3 DEF StoreGood
<1>7. ModeGood'
  BY <1>0 DEF IInv, ModeGood
<1>8. UNCHANGED <<chain, ListChain>>
  BY <1>0 DEF ListChain
<1>9. ChainGood(chain', peak', final') /\ ListGood(list', chain', peak', final')
  BY <1>0 DEF IInv
<1> QED BY <1>4, <1>6, <1>7, <1>8, <1>9 DEF IInv, Simulates

(* The second write of store(). *)
LEMMA StoreShortTermStep ==
    ASSUME Tuned, IInv, TypeOK', StoreShortTerm
    PROVE  IInv' /\ Simulates
<1>0. /\ list \in ListType /\ db \in DataType /\ UNCHANGED <<chain, peak, final, popped>>
      /\ chain \in Chains /\ final \in Chains /\ peak \in Nat
      /\ Agree(chain, final)
      /\ Len(chain) <= Len(final) + MaxReorg /\ Len(chain) \in Nat
      /\ list.m.height \in Nat /\ list.m.height <= Len(chain)
      /\ ListGood(list, chain, peak, final) /\ DataGood(db, final)
  BY Facts DEF StoreShortTerm
<1>w. list.archive \subseteq db.long /\ (~popped => db.long \subseteq list.archive)
  BY DEF StoreShortTerm, IInv, StoreGood, Written
<1> DEFINE S == ShortTermData(list)
<1>1. /\ S \in SUBSET States
      /\ \A s \in S : IsOf(s, final) /\ s.height < list.m.height
      /\ Unique(S)
      /\ \A s \in S : s.full =>
            (\A t \in S : t.height <= s.height) /\ Closed(s, S \cup db.long)
  BY <1>0, <1>w, StoredGood
<1> HIDE DEF S
<1>2. db' = [db EXCEPT !.short = S]
  BY DEF StoreShortTerm, S
<1>3. db'.short = S /\ db'.long = db.long
  BY <1>0, <1>2 DEF DataType
<1>4. DataGood(db', final') /\ DataClosed(db')
  BY <1>0, <1>1, <1>3 DEF DataGood, DataClosed
<1>c. ChainGood(chain', peak', final')
  BY <1>0 DEF IInv
<1>5. CASE mode = "stored"
  <2>1. list' = [list EXCEPT !.added = FALSE] /\ mode' = AfterFallback(list, chain)
    BY <1>5 DEF StoreShortTerm
  <2>2. /\ list'.m = list.m /\ list'.history = list.history
        /\ list'.archive = list.archive
    BY <2>1, <1>0 DEF ListType
  <2>3. ListGood(list', chain', peak', final')
    BY <2>2, <1>0 DEF ListGood, RestGood, Culled, Early, NotLoaded
  <2>4. ModeGood' /\ mode' \in {"up", "replay"}
    <3>1. mode' = AfterFallback(list', chain')
      BY <2>1, <2>2, <1>0 DEF AfterFallback
    <3>2. list'.m.height \in 0..Len(chain')
      <4>1. /\ list.m.height \in Nat /\ list.m.height <= Len(chain) /\ Len(chain) \in Nat
            /\ chain' = chain /\ list'.m.height = list.m.height
        BY <2>2, <1>0
      <4> QED BY <4>1
    <3>3. Len(chain') \in Nat
      BY <1>0
    <3> QED BY <3>1, <3>2, <3>3, ModeAfter
  <2>5. StoreGood'
    BY <2>2, <2>4, <1>0, <1>3, <1>4, <1>w DEF StoreGood, Written
  <2>6. UNCHANGED <<chain, ListChain>>
    BY <2>2, <1>0 DEF ListChain
  <2> QED BY <2>3, <2>4, <2>5, <2>6, <1>4, <1>c DEF IInv, Simulates
<1>6. CASE mode = "stopped"
  <2>1. list' = EmptyList /\ mode' = "down"
    BY <1>6 DEF StoreShortTerm
  <2>2. list'.m.height = 0 /\ ListGood(list', chain', peak', final')
    BY <2>1, <1>0, EmptyGood
  <2>3. ModeGood'
    <3>1. \A s \in S : s.height # Len(chain) + 1
      <4>1. \A s \in S : s.height \in Nat /\ s.height < list.m.height
        BY <1>1, StateFields
      <4> DEFINE n == Len(chain)
                 k == list.m.height
      <4>2. n \in Nat /\ k \in Nat /\ k <= n /\ \A s \in S : s.height \in Nat /\ s.height < k
        BY <4>1, <1>0
      <4> HIDE DEF n, k
      <4>3. \A s \in S : s.height # n + 1
        BY <4>2
      <4> QED BY <4>3 DEF n
    <3>2. ~StoredAbove(Len(chain))'
      BY <3>1, <1>0, <1>3 DEF StoredAbove, At
    <3> QED BY <3>2, <2>1 DEF ModeGood
  <2>4. StoreGood'
    BY <2>1, <1>4 DEF StoreGood
  <2>5. Simulates
    <3>1. chain' = chain /\ Len(chain) \in Nat
      BY <1>0
    <3>2. 0 \in 0..Len(chain)
      BY <3>1
    <3>3. list'.m.height \in 0..Len(chain)
      BY <3>2, <2>2
    <3> QED BY <3>1, <3>3, <2>2, FallsBack
  <2> QED BY <2>2, <2>3, <2>4, <2>5, <1>4, <1>c DEF IInv
<1> QED BY <1>5, <1>6 DEF StoreShortTerm

(* core::deinit. *)
LEMMA StopStep ==
    ASSUME IInv, TypeOK', Stop
    PROVE  IInv' /\ Simulates
<1>0. /\ UNCHANGED <<chain, peak, final, list, db, popped>>
      /\ mode = "up" /\ mode' = "stopping"
  BY DEF Stop
<1>1. ModeGood'
  BY <1>0 DEF IInv, ModeGood
<1>2. StoreGood'
  BY <1>0 DEF IInv, StoreGood, Written
<1>3. UNCHANGED <<chain, ListChain>>
  BY <1>0 DEF ListChain
<1> QED BY <1>0, <1>1, <1>2, <1>3 DEF IInv, Simulates

(* A crash leaves the database as it is. *)
LEMMA CrashStep ==
    ASSUME IInv, TypeOK', Crash
    PROVE  IInv' /\ Simulates
<1>0. /\ UNCHANGED <<chain, peak, final, db, popped>> /\ mode' = "down"
      /\ list' = EmptyList
      /\ chain \in Chains /\ final \in Chains /\ Len(chain) \in Nat
  BY Facts DEF Crash
<1>1. list'.m.height = 0 /\ ListGood(list', chain', peak', final')
  BY <1>0, EmptyGood
<1>2. ModeGood'
  BY <1>0 DEF Crash, ModeGood, StoredAbove
<1>3. StoreGood'
  <2>1. DataClosed(db)
    BY DEF IInv, StoreGood, Written, Crash
  <2> QED BY <2>1, <1>0 DEF StoreGood
<1>4. Simulates
  BY <1>0, <1>1, FallsBack
<1>5. ChainGood(chain', peak', final') /\ DataGood(db', final')
  BY <1>0 DEF IInv
<1> QED BY <1>1, <1>2, <1>3, <1>4, <1>5 DEF IInv

(* init() and load() take what the database holds, or start anew. *)
LEMMA StartStep ==
    ASSUME Tuned, IInv, TypeOK', Start
    PROVE  IInv' /\ Simulates
<1>0. /\ db \in DataType /\ UNCHANGED <<chain, peak, final, popped>>
      /\ chain \in Chains /\ final \in Chains /\ Len(chain) \in Nat
      /\ Agree(chain, final) /\ DataGood(db, final)
      /\ list' = AfterInit(db, chain) /\ db' = DataAfterInit(db, chain)
      /\ mode' = AfterFallback(list', chain')
  BY Facts DEF Start
<1>1. DataClosed(db)
  BY DEF Start, IInv, StoreGood, Written
<1>2. Accepted(db, chain) => Newest(db.short).height <= Len(chain)
  <2>1. CASE DeepPops
    <3>1. ~StoredAbove(Len(chain))
      BY <2>1 DEF Tuned, Start, IInv, ModeGood
    <3> QED BY <3>1, <1>0, NewestBelow DEF StoredAbove
  <2>2. CASE ~DeepPops
    <3>1. Len(final) <= Len(chain)
      BY <2>2 DEF IInv, ChainGood
    <3> QED BY <3>1, <1>0, NewestBelow
  <2> QED BY <2>1, <2>2
<1>3. /\ list'.m.height \in 0..Len(chain) /\ list'.archive = db'.long
      /\ ListGood(list', chain', peak', final')
      /\ DataGood(db', final') /\ DataClosed(db')
  BY <1>0, <1>1, <1>2, InitialGood
<1>4. ModeGood'
  BY <1>0, <1>3, ModeAfter
<1>5. StoreGood'
  BY <1>3 DEF StoreGood
<1>6. Simulates
  BY <1>0, <1>3, FallsBack
<1>7. ChainGood(chain', peak', final')
  BY <1>0 DEF IInv
<1> QED BY <1>3, <1>4, <1>5, <1>6, <1>7 DEF IInv

-----------------------------------------------------------------------------
(* Results *)

(* The list before the first block. *)
LEMMA InitGood ==
    ASSUME Tuned, Init
    PROVE  IInv /\ Promise!Init
<1>0. /\ chain = <<>> /\ peak = 0 /\ final = <<>> /\ list = EmptyList /\ db = NoData
      /\ mode = "up" /\ scanned = 0 /\ popped = FALSE /\ cuts = 0 /\ stops = 0
  BY DEF Init
<1>1. <<>> \in Chains /\ Len(<<>>) = 0
  BY DEF Chains
<1>2. /\ list \in ListType /\ list.m.height = 0 /\ list.archive = {}
      /\ ListGood(list, chain, peak, final)
  BY <1>0, <1>1, EmptyGood
<1>3. db \in DataType /\ db.long = {} /\ DataGood(db, final) /\ DataClosed(db)
  BY <1>0, NoDataGood
<1>4. TypeOK
  BY <1>0, <1>1, <1>2, <1>3 DEF TypeOK, ListType, DataType, Modes
<1>5. ChainGood(chain, peak, final)
  <2>1. final = First(chain, 0)
    BY <1>0, <1>1, FirstEnds
  <2> QED BY <2>1, <1>0, <1>1, Constants DEF ChainGood, Agree
<1>6. ModeGood
  BY <1>0, <1>1, <1>2 DEF ModeGood
<1>7. StoreGood
  BY <1>2, <1>3 DEF StoreGood
<1>8. ListChain = <<>>
  BY <1>0 DEF ListChain, EmptyList, State
<1> QED BY <1>0, <1>2, <1>3, <1>4, <1>5, <1>6, <1>7, <1>8 DEF IInv, Promise!Init

(* Every step keeps the invariant and is a step of the abstract list. *)
LEMMA StepGood ==
    ASSUME Tuned, IInv, [Next]_vars
    PROVE  IInv' /\ Simulates
<1>0. TypeOK'
  BY TypeStep DEF IInv, ModeGood, TypeInv
<1>1. CASE \E b \in Blocks : AddBlock(b) \/ AbortBlock(b)
  BY <1>0, <1>1, AddBlockStep, AbortBlockStep
<1>2. CASE \E h \in 0..(Len(chain) - 1) : Detach(h)
  BY <1>0, <1>2, DetachStep
<1>3. CASE Replay
  BY <1>0, <1>3, ReplayStep
<1>4. CASE StoreLongTerm
  BY <1>0, <1>4, StoreLongTermStep
<1>5. CASE StoreShortTerm
  BY <1>0, <1>5, StoreShortTermStep
<1>6. CASE Stop
  BY <1>0, <1>6, StopStep
<1>7. CASE Crash
  BY <1>0, <1>7, CrashStep
<1>8. CASE Start
  BY <1>0, <1>8, StartStep
<1>9. CASE UNCHANGED vars
  <2>1. UNCHANGED <<chain, peak, final, list, db, mode, scanned, popped, cuts, stops>>
    BY <1>9 DEF vars
  <2>2. ModeGood' /\ StoreGood'
    BY <2>1 DEF IInv, ModeGood, StoreGood, StoredAbove, Written
  <2>3. IInv'
    BY <2>1, <2>2, <1>0 DEF IInv
  <2>4. UNCHANGED <<chain, ListChain>>
    BY <2>1 DEF ListChain
  <2> QED BY <2>3, <2>4 DEF Simulates
<1> QED BY <1>1, <1>2, <1>3, <1>4, <1>5, <1>6, <1>7, <1>8, <1>9 DEF Next

(* The inductive invariant: the list in memory, the archive and the stored   *)
(* states are right, a complete state comes with the quorums the blocks      *)
(* above it refer to, and a quorum that is missing is one no state the list  *)
(* can go back to refers to.                                                 *)
THEOREM ListInvariant ==
    ASSUME Tuned
    PROVE  Spec => []IInv
<1>1. Init => IInv
  BY InitGood
<1>2. IInv /\ [Next]_vars => IInv'
  BY StepGood
<1> QED BY <1>1, <1>2, PTL DEF Spec

(* The list implements its abstract specification: whatever is cached,       *)
(* archived, stored, popped, lost in a crash and replayed by                 *)
(* blockchain_detached, store, load and                                      *)
(* load_missing_blocks_into_quenero_subsystems, m_state is the list of a     *)
(* block of the main chain and moves as ListOfChain allows.                  *)
THEOREM ListImplements ==
    ASSUME Tuned
    PROVE  Spec => ListFollowsChain
<1>1. Init => Promise!Init
  BY InitGood
<1>2. IInv /\ [Next]_vars => [Promise!Next]_<<chain, ListChain>>
  BY StepGood DEF Simulates
<1> QED BY <1>1, <1>2, ListInvariant, PTL DEF Spec, ListFollowsChain, Promise!Spec

(* A restart after a crash, or a fallback after pop_blocks, never finds      *)
(* stored states of a branch the chain has left (store, load).               *)
THEOREM StoredStatesRight ==
    ASSUME Tuned
    PROVE  Spec => []StoredRight
<1>1. IInv => StoredRight
  <2> SUFFICES ASSUME IInv, NEW s \in db.short \cup db.long, s.height <= Len(chain)
               PROVE  s.of = First(chain, s.height)
    BY DEF StoredRight
  <2>1. s \in States /\ IsOf(s, final) /\ chain \in Chains /\ final \in Chains
    BY Facts DEF IInv, DataGood, ArchiveGood, DataType
  <2>2. Agree(chain, final) /\ s.height <= Len(final)
    BY <2>1, Facts DEF IsOf
  <2>3. IsOf(s, chain)
    BY <2>1, <2>2, AgreeIsOf
  <2> QED BY <2>3 DEF IsOf
<1> QED BY <1>1, ListInvariant, PTL

(* Culling, archiving, storing and falling back never lose a quorum the next *)
(* block may refer to (process_block, store, blockchain_detached):           *)
(* get_quorum finds it in the history or the archive.                        *)
THEOREM QuorumsFound ==
    ASSUME Tuned
    PROVE  Spec => []QuorumsAtHand
<1>1. IInv => QuorumsAtHand
  <2> DEFINE n == list.m.height
  <2> SUFFICES ASSUME IInv, NEW r \in Referable(n + 1), r # n
               PROVE  FindsQuorum(list, First(chain, n), r)
    BY DEF QuorumsAtHand
  <2>0. /\ n \in Nat /\ n <= Len(chain) /\ Len(chain) \in Nat /\ chain \in Chains
        /\ final \in Chains /\ peak \in Nat /\ list \in ListType /\ Agree(chain, final)
        /\ ListGood(list, chain, peak, final)
    BY Facts
  <2>1. /\ r \in 0..(n - 1)
        /\ \E s \in list.history \cup list.archive : s.height = r
        /\ \A s \in list.history \cup list.archive : s.height = r => s.of = First(chain, r)
    BY <2>0, QuorumFound
  <2> HIDE DEF n
  <2>2. First(First(chain, n), r) = First(chain, r)
    <3>1. n \in 0..Len(chain) /\ r \in 0..n
      BY <2>0, <2>1
    <3> QED BY <3>1, <2>0, FirstFirst
  <2> QED BY <2>1, <2>2 DEF FindsQuorum, At
<1> QED BY <1>1, ListInvariant, PTL

(* The list, its history, archive and stored copy keep their types even when *)
(* blocks are popped from below the history or the history is too short:     *)
(* a replay never runs past the top of the chain (load_missing_blocks_into_  *)
(* quenero_subsystems), and what blockchain_detached and load fall back to   *)
(* is a state there is.                                                      *)
THEOREM ListTypeCorrect == Spec => []TypeOK
<1>1. Init => TypeInv
  <2> SUFFICES ASSUME Init PROVE TypeInv
    OBVIOUS
  <2>1. <<>> \in Chains
    BY DEF Chains
  <2>2. EmptyList \in ListType /\ NoData \in DataType
    BY EmptyType
  <2> QED BY <2>1, <2>2 DEF Init, TypeInv, TypeOK, ListType, DataType, Modes
<1>2. TypeInv => TypeOK
  BY DEF TypeInv
<1> QED BY <1>1, <1>2, TypeStep, PTL DEF Spec

=============================================================================
