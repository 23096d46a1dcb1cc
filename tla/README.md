# Formal model of the Quenero daemon

TLA+ modules, TLC configurations and TLAPS proofs for the parts of the daemon in
`src/` on which agreement about the chain rests. Every definition is translated
from the C++ source. `PROJECT.json` maps each one to the lines it models, lists
the components of the system, the hazards of the code, the runs, their mutants
and the theorems.

Paths below are relative to `src/src/`.

## 1. The system and its parts

Quenero is a CryptoNote chain. Its blocks are normally made by quorums of bonded
*masternodes* (Pulse) and only exceptionally by proof-of-work miners. Other
masternode quorums vote on *checkpoints* that make blocks final, test each other
(*obligations*) and approve transactions instantly (*Blink*).

| Part | Source | State |
|------|--------|-------|
| Pulse ceremony: how a quorum makes a block | `cryptonote_core/pulse.cpp` | modelled, proved |
| Pulse rounds: which round a node runs when | `pulse.cpp`, `verify_block` in `masternode_list.cpp` | modelled, proved |
| Checkpoint voting | `masternode_quorum_cop.cpp`, `masternode_voting.cpp`, `checkpoints/checkpoints.cpp` | modelled, proved |
| Masternode list: history, archive, storing, detaching, replay | `masternode_list.cpp`, `blockchain.cpp` | modelled, proved |
| Masternode list: what a block does to it | `masternode_list.cpp`, `masternode_rules.cpp`, `masternode_swarm.cpp` | one deterministic step; only the Pulse rule in detail |
| Blink: a member of the quorum | `tx_blink.cpp`, `cryptonote_protocol/quorumnet.cpp` | modelled, proved |
| Transaction pool | `tx_pool.cpp`, `cryptonote_core.cpp` | as far as Blink uses it |
| Blink: the submitter | `quorumnet.cpp` | not modelled |
| Checkpoint store, finality, fork choice | `checkpoints.cpp`, `blockchain.cpp` | one height |
| Obligations: tests, votes, state changes, uptime proofs | `masternode_quorum_cop.cpp`, `masternode_voting.cpp`, `uptime_proof.cpp` | not modelled |
| Quorumnet relay | `quorumnet.cpp`, `quorumnet_conn_matrix.h` | Pulse relay and blink handlers |
| Block queue, name system, hard-fork voting, thread pool, peer lists, transaction broadcast | `cryptonote_protocol/block_queue.cpp`, `quenero_name_system.cpp`, `cryptonote_basic/hardfork.cpp`, `common/threadpool.cpp`, `p2p/net_peerlist.cpp`, `cryptonote_protocol/levin_notify.cpp` | not modelled |
| Database, p2p connections, RPC, daemon, wallets, cryptography, devices, tools | `blockchain_db`, `p2p`, `rpc`, `daemon`, `wallet`, `crypto`, `ringct`, `device*`, ... | not modelled (section 8) |

How they interact. `Blockchain` owns the chain and calls *hooks* when a block is
added or the chain is detached: the masternode list, the name system, the quorum
cop and the checkpoint store, in that order and under the blockchain lock. The
masternode list is kept in memory, stored on shutdown, and replayed from the
blocks when it falls behind the chain. Blink submissions and signatures arrive on
several quorumnet threads, which share the quorum state (`qnet.blinks`), each
blink's slots and the transaction pool, each under its own lock. Pulse
runs on its own thread, is called by a 500 ms timer, reads the chain through
separately locked calls, and exchanges messages with its quorum through
quorumnet. The quorum cop votes from inside the block hook; the votes of others
arrive on network threads.

## 2. Modules

| Module | Models |
|--------|--------|
| `PulseCeremony` | one round, all members of the quorum |
| `MCPulseCeremony` | its TLC instances |
| `PulseCeremonySteps` | lemmas: what each action does to one context |
| `PulseCeremonyProofs` | inductive invariant and theorems: types and the locked-in bitset |
| `PulseBlockProofs` | the same from the bitset to the block |
| `PulseRounds` | one node, many rounds and blocks, the clock and the chain |
| `MCPulseRounds` | its TLC instances |
| `PulseRoundsProofs` | inductive invariant and theorems |
| `CheckpointVoting` | all nodes, one checkpoint height |
| `MCCheckpointVoting` | its TLC instances |
| `CheckpointVotingProofs` | inductive invariant and theorems |
| `ListOfChain` | abstract specification: the masternode list is a function of the chain |
| `MasternodeList` | one daemon: state history, archive, database, reorganisations, stops and crashes |
| `MCMasternodeList` | its TLC instances |
| `MasternodeListProofs` | inductive invariant, refinement and theorems |
| `BlinkTx` | subquorums, signatures, verdicts and conflicts between transactions |
| `BlinkQuorum` | abstract specification: members that vote in single steps |
| `Blink` | one member in full, with threads, locks and restarts, among the others |
| `MCBlink` | its TLC instances |
| `BlinkProofs` | inductive invariants, refinement and theorems on the quorum as a whole |
| `BlinkVerdictProofs` | the same on the verdicts of one member and what it relays |

Operators commented "Mutant" are faulty variants of the definition that follows.
They are used only to show that a property can fail: TLC must find the property
violated when the variant takes the definition's place.

### PulseCeremony

`ctx[n]` is the `round_context` of daemon `n`: its state, the messages queued
early and the messages received of each stage, what it has sent, the locked-in
bitset (`best`) and the final block. `net` holds every validly signed message
ever relayed; it only grows, so a message can be delivered late, twice or never.
`blocks` are the blocks given to `handle_block_found`, with their signatures.

| Action | Code |
|--------|------|
| `HandleMessage` | `handle_message`, with the early queue, the locked-in check and relaying |
| `WaitForRound` ... `SendAndWaitForSignedBlocks` | the function of the same name |
| `SendFails` | the `catch` branches around sending |
| `Restart` | the daemon is started again inside the round |

`main` and `handle_message` run on one tagged thread, so the loop of `main` is
atomic with respect to messages: `active` is the node whose loop is running.
Clocks are left out. Whether a stage's `end_time` has passed is a free choice,
which covers every skew between nodes. Random values are tagged with their author
and the author's number of restarts, and hashes are injective. A validator sends
to the members `pulse_relay_message_to_quorum` selects.

### PulseRounds

One node with its `round_context` (`c`), the ring of past quorums (`history`), a
clock, and a chain that grows by whatever `verify_block` accepts and may be
reorganised. The ceremony is one state, `in_round`. `wait_for_next_block` is
three actions, one per locked read, so that the chain can change between them.
`prepare_for_round` is one action: its reads of height, entropy and masternode
list are taken together. Each block has a new identifier, so a return to an
earlier chain is not covered. `ran` and `left` are history variables.
`MessageFate` is the start of `handle_message`: what becomes of a message of an
earlier round.

### CheckpointVoting

Everything the daemons know of one height H. `chain` is `"short"` (ends below
H - 1), `"ready"` (ends at H - 1) or the block at H; `due` says that
`m_last_checkpointed_height` has not passed H; `pool` is the vote pool by block;
`work` are the `handle_vote` calls that have put a vote in the pool and wait for
the blockchain lock, each with the copy of the votes it took; `checkpoint` is the
database entry. `votes` are all votes ever signed.

| Action | Code |
|--------|------|
| `Advance`, `BlockAdded`, `LaterBlock` | `add_new_block`, `handle_block_to_main_chain` and the hooks of quorum cop and checkpoint store |
| `ReceiveVote` | `handle_vote` up to the lock in `handle_checkpoint_vote` |
| `FinishVote` | the rest of `handle_checkpoint_vote` |
| `Reorg` | `switch_to_alternative_blockchain` that succeeds |
| `FailedReorg` | one that is rolled back, after votes may have been cast for the other chain |
| `Restart` | the pool and `m_last_checkpointed_height` are lost; chain and checkpoint are on disk |

Abstractions. A block may come with any checkpoint that `verify_checkpoint`
accepts. How many blocks a switch cuts is reduced to where it cuts relative to H
(`split`) and whether the quorum cop's safety buffer is exceeded (`deep`, and
`again` for the rollback); a node for which it is exceeded counts as `rearmed`.
The quorum is the same on all forks, as it is taken 11 blocks below H; forks that
deep are outside the model. Expiry of votes after `VOTE_LIFETIME` is left out, as
is the abort of a block after the masternode list refused it.

### MasternodeList

`list` is `m_transient` with `m_state`: the state at the top (`m`), the history,
the archive and the flag `state_added_to_archive` (`added`). A `state_t` is
represented by its height, the chain whose list and quorums it holds (`of`), and
whether it has a list or quorums only (`full`). What a block does to the list is
a deterministic step, `Updated`. It is right only when every quorum that a state
change of the block may refer to is found, as `process_state_change_tx` skips the
transaction otherwise; the model lets every block refer to all of them. `db` holds
the long-term and short-term data, `chain` is the block database.

| Action | Code |
|--------|------|
| `AddBlock` | `handle_block_to_main_chain`, `process_block` with culling and archiving |
| `AbortBlock` | `abort_block`, after the list has taken the block in |
| `Detach` | `blockchain_detached`: history, archive, or `init()` again; then the start of the replay |
| `Replay` | one block of `load_missing_blocks_into_quenero_subsystems` |
| `StoreLongTerm`, `StoreShortTerm` | the two database writes of `store()` |
| `Stop`, `Crash`, `Start` | `core::deinit`, a kill at any point, `Blockchain::init` with `init()` and `load()` |

`peak` and `final` are history variables: the greatest height since the history
was built, and the chain up to the last block that no switch replaces.
`ListFollowsChain` is `ListOfChain` with `list.m.of` for the abstract list.

Abstractions. Registration, staking, decommission and rewards are inside
`Updated`. Alternative states (`alt_state`), `old_quorum_states` and data of old
versions are left out. The chain database is written block by block and never
lost. Two situations are excluded from the environment, by `MeetsStored` and by
the guard of `Crash`; section 7 says what happens in them.

### Blink

`pool`, `signed` and `dropped` belong to all members and are the variables of
`BlinkQuorum`. The rest is the state of the member `Self`: `known`, `sigs`,
`pending` and `tags` are `qnet.blinks` (stored blinks, their slots, signatures
that came before the blink, stashed reply tags), `relayable` are the pool entries
without `do_not_relay`, `recorded` is `m_blinks`, and `work` are the threads
between two locks, each with its phase and what it carries from one lock to the
next.

| Action | Code |
|--------|------|
| `NotStarted`, `SubmitKnown`, `SubmitNew`, `StoreBlink` | `handle_blink` with a tag, up to the unique lock of `qnet.mutex` |
| `RelayBlink` | the same for a blink relayed by another member |
| `CheckBlink`, `AddUnapproved`, `AddApproved` | the rest of `handle_blink`: `add_new_blink`, `add_tx`, `remove_blink_conflicts`, the signature |
| `ReceiveSignatures` | `handle_blink_signature` and the first look of `process_blink_signatures` |
| `AddSignatures`, `RecordBlink`, `PublishBlink` | the rest of `process_blink_signatures`: slots and verdict, `add_existing_blink`, `set_relayable`, relay and reply |
| `ReceiveApproved`, `ReceiveTx` | `handle_notify_new_transactions` with and without blink signatures |
| `FillPool` | `prune` of a full pool |
| `Restart` | quorum state and `m_blinks` are lost, the pool is in the database |
| `OtherStep` | the other members: the steps of `BlinkQuorum` |

Abstractions. Messages are not a variable: what was signed and relayed can arrive
at any later time, repeatedly or never. Checks that depend on data outside the
model (fees, weights, ring signatures, heights) may fail at any time. A member's
signature fills its positions in both subquorums at once. Adding the transaction
and recording the blink are one step in `ReceiveApproved`. Mining, and the
rollback of mined transactions in conflict with a blink, are left out.

## 3. Runs

Every passing run has a mutant for each of its properties.

| Run | Instance | Shows |
|-----|----------|-------|
| `pulse_safety` | 3 validators, 2 signatures, 2 time-outs | `Agreement`, `EnoughSigners`, `CommitReveal`, `BlocksVerify` |
| `pulse_restart` | 2 validators, a restart, 2 time-outs, failing calls | `Agreement`, `UniqueBlock` |
| `pulse_live` | 2 validators, everything may time out or fail | `CeremonyCompletes`, `RoundEnds` |
| `rounds` | 2 rounds per block, heights up to 3, one without quorum, one reorganisation, a quiet end | `TimingsOfTop`, `RoundsRunOnce`, `PreparesCurrentRound`, `LateMessagesRecognised`, `FollowsChain`, `GivesUp` |
| `checkpoint_safety` | 3 validators, 2 votes, 2 blocks, one switch | `CheckpointAgreement`, `OneVotePerHeight`, `CheckpointVerifies`, `SignaturesKept`, `NeverFewerSignatures` |
| `checkpoint_live` | 3 validators, a fork, one restart | `CheckpointForms` |
| `masternode_list` | 12 heights, 2 blocks each, 2 detachments, 2 stops or crashes | `ListFollowsChain` (refinement), `StoredRight`, `QuorumsAtHand`, `CatchesUp` |
| `blink_conflicts` | 3 members, 2 conflicting blinks, a subquorum below full size, 2 threads | `NoConflictingBlinks`, `OneVerdict`, `ApproverRelays` |
| `blink_faults` | 3 members, a blink and a conflicting transaction, a restart, a full pool | `VotesAsPromised` (refinement), `RelayedIsApproved`, `StoredIsSigned` |

Each component's first run also checks `TypeOK`. Runs that find the code at odds
with a comment (`findings` in `PROJECT.json`):

| Run | What the code does |
|-----|--------------------|
| `pulse_template_position` | a template carries position 0 and is dropped when validator 0 is not locked in, so a round with enough participants fails |
| `masternode_list_quorums` | after a detachment of more than `VOTE_OR_TX_VERIFY_HEIGHT_BUFFER` blocks, `store()` writes fewer quorums than the blocks replayed after the next start may refer to |
| `blink_reply` | a reply tag stashed while a relayed copy of the blink is verified is not answered when the thread's own signature decides the blink |

`FirstIndices` models the signature loop as it is: it reads `indices[index]`, so
the signatures are those of the lowest positions, although the comment above it
says they are chosen randomly (`std::sample` fills `selected`, which is not read).

Bounds and why they suffice:

- Three validators with two signatures is the smallest quorum in which two
  quorums overlap without being equal, a validator can be left out of the
  bitset, and every member still sees a different subset of the messages.
- Two validators keep restarts with failing calls within reach. Both must sign,
  which is where a second signature of a restarted validator could do harm.
- Two time-outs let two members leave a stage at different times; with twelve,
  in `pulse_live`, every stage of every member can time out.
- Two rounds per block stand for 256. The last round, a round that fails
  and the wrap of the counter all occur. The history ring has two slots and is
  filled and reused.
- Two of three votes leave no room for a validator that votes anew
  (`QuorumsOverlap`), so the re-armed ones of `checkpoint_live` are not part of
  `checkpoint_safety`. Agreement with re-armed validators is what
  `CheckpointsAgree` proves.
- `masternode_list`: a vote lifetime of 3, a buffer of 2, a history of 6 and an
  archive every 7 blocks keep the order of the code's constants (60, 5, 360 and
  10000). With 12 heights states are culled, archived with and without their
  lists, and the list falls back to the history, the archive, the database and
  nothing. Switches of two blocks, as deep as the buffer, leave a stale state in
  the history unless it is erased. The names of blocks at new heights are fixed
  (`Renamed`): a block id stands for its whole branch, so only competing blocks
  need two names.
- `blink_conflicts`: an interval boundary lies between the two blinks, so they
  share one subquorum and not the other, and `Self` is missing from one. Two
  threads are enough for any two handlers to interleave. `blink_faults` has one
  blink, so that restarts and full pools stay within reach; the theorems of
  section 5 cover the combination.
- Symmetry over validators, members and blocks is used in safety runs only.

Deadlock is not checked. A round ends, a height is settled, the chain reaches its
bound, every blink is decided and the bounded clock stops: these are states in
which the modelled part really has nothing left to do.
Waiting for ever is covered by the liveness properties.

## 4. Fairness

- `PulseCeremony`: weak fairness of each node's loop, which the 500 ms timer
  calls again and again, as far as it need not wait for a stage's `end_time`, and
  of handling a relayed message of each stage. `CeremonyCompletes` is about the
  behaviours in which no stage times out and nobody gives up. `RoundEnds` needs
  time to pass as well (`StagesTimeOut`: weak fairness of the whole loop), and
  holds whatever time-outs and failures happen.
- `PulseRounds`: the clock runs, the timer calls `main`, and a round ends by its
  last `end_time`. New blocks and reorganisations are not fair.
- `CheckpointVoting`: blocks keep arriving, a thread waiting for the blockchain
  lock gets it, and votes are delivered: they are relayed again every two
  minutes while they live. Restarts and switches are not fair and are bounded.
- `MasternodeList`: replay, store and start run on the thread that began them and
  come to their end. Blocks, detachments, stops and crashes are not fair.
- `Blink`: a worker thread that can go on does, in each phase; locks are handed
  over. Nothing is assumed of messages, submissions, peers and other members.

## 5. Proofs

TLAPS checks the theorems for every value of the constants that the named
assumptions (`PulseAssumption`, `RoundsAssumption`, `VotingAssumption`,
`ListAssumption`, `BlinkAssumption`, `MemberAssumption`) allow: any quorum size,
any number of restarts, time-outs, switches and threads, any length of the chain.
Every invariant, action property and refinement that a passing run checks is
proved; only liveness is left to TLC (section 6). Where a theorem needs more than
these assumptions, it states the condition (`QuorumsOverlap`, `Tuned`,
`Neighbours`), and the instances of the runs satisfy it.

`PulseCeremonyProofs`:

- `TypeCorrect`: `TypeOK` is inductive. Each action is first reduced, in
  `PulseCeremonySteps`, to one of a few kinds of step of one context (`StepTo`).
- `BitsetAgreement`: `Agreement`, assuming `QuorumsOverlap`
  (`2 * RequiredSignatures > NumValidators + MaxRestarts`; with 7 of 11 it holds
  for up to two restarts). `Agreement` is not inductive: a locked-in bitset says
  nothing of the votes it came from. `BitsetInv` adds that bitsets held by a
  member were relayed (`Relayed`), that a validator that has not restarted sent
  only one (`OneBitset`), that each bitset names its author (`SelfSeen`,
  `NamesAuthor`), that a lock has the votes of `RequiredSignatures` validators
  (`LockedVotes`), and that restarts are counted (`RestartsCounted`). Two locks
  then share a validator that sent one bitset.
- `LockedInEnough`: `EnoughSigners`, without the overlap assumption. All voters
  for a bitset are in it, as each names itself.

`PulseBlockProofs` goes on from `BitsetInv` to the block. `BlockInv` adds what
each later stage leaves behind in a context: at most one template, for the
locked-in bitset (`TemplateAt`); the hash of every locked-in validator before any
value is taken (`RevealAt`); a final block made of that template and all values
(`FinalAt`); signatures of that block only (`SignedAt`). It adds that a validator
that has not restarted signs once (`OneSignature`). Each action is shown to clear
a context or to let it grow by acceptable messages of its own stage (`Grows`).

- `RevealsCommitted`, `SubmittedBlocksVerify`: `CommitReveal`, `BlocksVerify`,
  without a condition.
- `OneBlockPerRound`: `UniqueBlock`, assuming `QuorumsOverlap`. Two blocks share
  a signer that signed once.

`PulseRoundsProofs`: the inductive invariant `RoundsInv` rests on the fact that a
block's hash is never used again. The hash that `wait_for_next_block` holds
between its locked reads names one block at one height, or none any more
(`ReadInv`, `TimingInv`). The node comes back to a block whose rounds it ran only
if it never left it, and runs the rounds of one block in ascending order
(`RanInv`). As long as the chain only grows, the quorums that were left last are
in the slots of the ring just behind its index, each once (`LateInv`).

- `RoundsTypeCorrect`, `TimingsAgree`, `LateMessagesFound`: `TypeOK`,
  `TimingsOfTop`, `LateMessagesRecognised`.
- `NoRoundTwice`, `NoRoundSkipped`: the action properties `RoundsRunOnce`,
  `PreparesCurrentRound`.

`CheckpointVotingProofs`: the inductive invariant `VotingInv` says that every
signature in a pool, in a waiting thread's copy or in a stored checkpoint was
really made (`GoodState`), that a node that still has to vote and was not
re-armed has not voted (`NotYetVoted`), and that few are re-armed (`FewRearmed`).
Each action is shown to be a `NodeStep`, and a `NodeStep` preserves it.

- `VotingTypeCorrect`, `VotesOnce`, `StoredCheckpointsVerify`: `TypeOK`,
  `OneVotePerHeight`, `CheckpointVerifies`.
- `CheckpointsAgree`: `CheckpointAgreement`, assuming `QuorumsOverlap`
  (`2 * MinVotes > Cardinality(Validators) + MaxRearmed`; with 13 of 20 it holds
  for up to five validators that vote anew).
- `NoSignatureLost`, `NeverFewer`: the action properties `SignaturesKept` and
  `NeverFewerSignatures`. The second compares the checkpoint before the hooks of a
  new block with the one after both of them.

`MasternodeListProofs` assumes `Tuned`, which the code's constants satisfy: a
chain switch replaces at most `Buffer` blocks, the history is long enough for that
and for what `store()` leaves out, the archive's interval is longer than the
window of quorums, and hard fork 9 lies above the length of the history. With
`DeepPops`, blocks may be popped from any depth below the history as well, and
then `MeetsStored` is excluded (section 7). The run `masternode_list_quorums`
shows that the bound on switches is needed.

The inductive invariant `IInv` says of every state in memory that it is of the
present chain, and of every archived and stored one that it is of the final part
of the chain (`ListGood`, `DataGood`). Popped blocks leave the chain shorter than
its final part, so the two are only known to agree as far as both go (`Agree`).
What is hard is to say which quorums may be missing:

- those that were culled at a height no switch needs again and that the archive
  leaves out (`Culled`), and those that were never loaded, which no complete state
  in memory refers to (`NotLoaded`);
- a complete state of the archive has the quorums it refers to in the archive,
  since the window of `NeedsQuorum` reaches as far back as its references
  (`WindowNeeded`, `Closed`), so the list can be replayed from there;
- a complete stored state has them among the stored states (`DataClosed`), except
  between the two writes of `store()` after a deep pop, which is where `Crash` is
  restricted;
- `StoreGood` relates the archive in memory to the stored one, which `store()`
  writes only when `state_added_to_archive` is set.

The theorems are:

- `ListImplements`: `ListFollowsChain`. Each step of the daemon is a step of
  `ListOfChain` or a stutter, also when the list comes from the archive, from the
  database or from nothing.
- `StoredStatesRight`, `QuorumsFound`: `StoredRight`, `QuorumsAtHand`.
- `ListTypeCorrect`: `TypeOK`, for all constants, without `Tuned`.

`BlinkProofs` has three layers.

- `MemberImplements`: `VotesAsPromised`. `MemberInv` says that the signatures in
  slots, pending lists and threads were really made (`GoodThread`), so a blink
  that `Self` finds approved has passed in the quorum as a whole. Then each step
  is one of `BlinkQuorum` or leaves pools and votes alone.
- `BlinksAgree`: `NoConflictingBlinks`, assuming `Neighbours` (blinks that
  conflict have heights close enough to share a subquorum; the code accepts only
  heights within two of its chain). `NoConflictingBlinks` itself is conditional
  on `Sound`: fewer members of each subquorum have dropped a transaction from a
  full pool than two majorities have in common. `QuorumInv` says that pools are
  free of conflicts (`PoolsAgree`), that a voter keeps the transaction until a
  rival is approved (`VotersKeep`), and that the voters of the first approved
  rival of a blink hold on to it and never vote for the blink
  (`FirstRivalBlocks`). Conflicts are not transitive, which is why it speaks of
  the first one.
- `OnlyApprovedRelayed`: `RelayedIsApproved`, with `RelayInv` on what threads in
  the last two phases carry and what is recorded.

`BlinkVerdictProofs` continues with one member that has not restarted.
`OneSignature` says that nobody signs a blink both ways: storing a blink is what
starts the one thread that verifies and signs it. `RecordInv` and `RelayableInv`
say that an approved blink is recorded and its transaction relayable, or that a
thread is on its way to do so.

- `BlinkTypeCorrect`: `TypeOK`, whatever restarts.
- `VerdictsAgree`: `OneVerdict`. Approvers and rejecters of one subquorum are
  different members, so there are not enough of them for both verdicts.
- `ApprovedIsRelayed`: `ApproverRelays`, assuming `Neighbours`: the transaction is
  still in the pool, as no approved rival can have taken its place.

## 6. Only model-checked

Liveness (`CeremonyCompletes`, `RoundEnds`, `FollowsChain`, `GivesUp`,
`CheckpointForms`, `CatchesUp`, `StoredIsSigned`): TLAPS has no rules for fairness
and ENABLED that would carry it. Of the violation runs, `LockedRoundProceeds` and
`TagAnswered` are refuted by TLC alone; `QuorumsAtHand` is proved under `Tuned`
and refuted without its bound on switches.

## 7. Remarks on the code

Met while modelling, beside the findings. None of them is checked by a run.

- `wait_for_next_block` compares heights only (`pulse.cpp:1127`): after a
  reorganisation that keeps the height the node stays with the old tip until the
  next block. `FollowsChain` shows that it then moves on.
- The signature of a late block template is checked with the present producer's
  key (`pulse.cpp:387`), so that it is reported as an error and not recognised.
- The miner fallback begins when round 255 does (`pulse.cpp:762`): the last round
  is run, but the chain no longer takes its block.
- `masternode_list::init` accepts a stored state one block above the chain
  (`masternode_list.cpp:109` compares with the number of blocks). `MeetsStored`
  keeps the environment from meeting this; with it, `ListFollowsChain` fails.
- After blocks were popped from below the history, a crash between the two writes
  of `store()` (`masternode_list.cpp:2725`) leaves an archive that was cut back
  beside older short-term states that may need what was cut. `Crash` excludes it.
- A blink that is stored by another thread between the first look of
  `handle_blink` and its unique lock (`quorumnet.cpp:1012`) ends the submission
  without a reply and without a stashed tag.
- A member that has rejected a blink, or whose own `add_new_blink` finds it
  recorded already, signs a rejection; the approved transaction reaches its pool
  only through its peers. `ApproverRelays` is about members that approved.
- `prune` may drop a blink that the member has approved but the quorum has not
  (`tx_pool.cpp:755`); hence `Sound`.
- The comments on `handle_blink_failure` and `handle_blink_success` speak of a
  majority; `common_blink_response` passes the first answer on.

## 8. Not modelled, and why

- Cryptography (`crypto`, `ringct`, `multisig`): computation without
  interleavings. Signatures are taken as unforgeable, hashes as injective.
- Transaction, reward and difficulty rules: arithmetic on 64- and 128-bit values
  whose interesting ranges TLC cannot enumerate.
- `blockchain_db`: LMDB transactions are taken as atomic.
- `p2p` connections, `net`, `rpc`, `daemon`, `device`, `device_trezor`: I/O
  around the modelled calls. The network of the models delays, duplicates,
  reorders and loses messages.
- `wallet`, `simplewallet`: clients of the daemon.
- `miner.cpp`: miner blocks are part of the environment in `PulseRounds`.
- `src/translations/*.ts`: Qt message catalogues of the wallets. They are data
  without behaviour, and nothing in the models stands for them.
- Obligations, the content of a masternode state, alternative states, several
  checkpoint heights and fork choice, the submitter's side of Blink, the block
  queue, the name system, hard-fork voting and the thread pool have behaviour
  worth modelling. They come next, in this order: checkpoints of several heights
  against a specification of finality, obligations composed with
  `MasternodeList`, then the block queue.
- Tools (`blockchain_utilities`, `gen_multisig`, `debug_utilities`, `mnemonics`,
  `serialization`, `common` helpers): no shared state.

## 9. Running the checks

```
tlc -config CheckpointVoting.cfg MCCheckpointVoting
tlapm CheckpointVotingProofs.tla
```

Each configuration belongs to the MC module of the same component; the table of
runs in `PROJECT.json` gives the pairs.
