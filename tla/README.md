# Verification of the Linera protocol

TLA+ models of the core of this repository: the consensus of a microchain, the
collection of votes by clients, cross-chain messages, and the atomic writes of
the storage layer.  The models are checked with TLC on small instances, and the
properties of the consensus and of the collection of votes are proved with TLAPS
for all values of the constants.  `PROJECT.json` lists the components, the runs,
the mutants that show that every property can fail, the source lines each
definition models, the hazards, the findings and the theorems.

    tlc -config MCDelivery_validator.cfg MCDelivery     # a run
    tlapm AgreementProofs.tla                           # a proof

## The system

| Part | State | Operations |
|---|---|---|
| Chain manager (`linera-chain/src/manager.rs`) | proposal, lock, votes, timeout certificate, current round | check and vote for proposals and certificates, vote for timeouts and for fallback mode |
| Chain worker (`linera-core/src/chain_worker`) | tip, manager, inboxes, outboxes of a chain | proposals, certificates, cross-chain requests, queries, one at a time; `save` before an answer |
| Committee (`linera-execution/src/committee.rs`) | votes per validator, thresholds | weights, quorum and validity thresholds |
| Client and updater (`linera-core/src/client`, `updater.rs`) | pending block, answers of validators | propose, collect votes, form certificates, synchronise |
| Inboxes (`linera-chain/src/inbox.rs`, `chain.rs`) | added and removed bundles, cursors, queue of unskippable bundles | add bundles, remove bundles (also before they were added) |
| Outboxes (`linera-chain/src/outbox.rs`, `chain.rs`) | unacknowledged heights, counters | schedule, mark as received |
| Worker and RPC (`linera-core/src/worker.rs`, `linera-rpc`) | delivery notifiers, bounded queue of requests | send, retry and drop requests, notify callers |
| Batches (`linera-views/src/batch.rs`) | operations on keys and prefixes | simplify, expand prefixes |
| Journaling (`linera-views/src/backends/journaling.rs`) | journal header and blocks | write in blocks, resolve, clear upon opening |
| Views (`linera-views/src/views`) | stored content and pending updates | read, update, flush, roll back |
| Execution (`linera-execution`) | system state, applications, resources | operations, messages, fees, oracles |
| Services (`linera-service`, `linera-client`) | wallet, subscriptions | command line, node service, faucet, proxy |

Owners propose blocks to the chain managers of all validators.  Their votes are
collected into certificates, which make every node execute the blocks.  A block
schedules messages in outboxes; the worker sends them to the worker of the
recipient's chain, which adds them to inboxes, where blocks of the recipient
consume them.  All state is in views, which are saved as batches through stacked
key-value stores, of which the journaling store makes large batches atomic.

What makes this hard: proposals, certificates, requests and acknowledgements are
lost, repeated and reordered; rounds time out while votes are under way; nodes
execute blocks before they receive the messages that these consume; the process
crashes or gets an error between two database transactions; several tasks use
one chain worker, one channel and one journal.

## Modules

The definitions have the names of the functions they model.

* **ChainOwnership** – rounds as natural numbers (fast, multi-leader, single-leader,
  validator), their order and successor, and which of them time out.
* **ChainManager** – the manager's fields, `check_proposed_block`,
  `check_validated_block`, `create_vote`, `create_final_vote`,
  `handle_timeout_certificate`, `vote_timeout`, `vote_fallback`.
* **Consensus** – a manager and a tip on every node; one action per handler of the
  chain worker.  A hash commits to its ancestors, so it is represented by the chain
  of blocks.  The leaders of the single-leader rounds are drawn for each height, as the
  manager is reset with the height as the seed (`RoundLeader[height][round]`).  A certificate exists as soon as the honest members of a quorum have
  cast the votes; faulty validators sign everything; the network may do anything.
* **Ledger** – what consensus promises: one append-only sequence of decided blocks, of
  which every node executes a prefix.  Consensus refines it.
* **Committee**, **QuorumCollection** – weights and thresholds as computed by
  `Committee::new` (with integer division), and `communicate_with_quorum`.
* **Inbox**, **Inboxes** – `add_bundle` and `remove_bundle`; several nodes that learn
  the senders' blocks and their chain's own blocks in different orders, with the
  trust in bundles of old epochs and the queue of unskippable bundles.  Blocks are valid:
  their timestamps are not before those of their bundles, so that the check of
  timestamps in `remove_bundles_from_inboxes` always passes.
* **Outbox**, **Delivery** – outboxes with their counters; updates, confirmations and
  notifications on a node whose transport loses, repeats and reorders requests.  The
  handler of an update calls the recipient's chain worker once per medium, and other
  handlers run, or an error ends it, between two calls (`updating`).  A validator throws
  updates of inactive chains away; a message of the chain itself (`OpenChain`) or another
  chain's message (`activate`) creates the recipient.
* **KeyValues**, **Batch** – the content of a store; `simplify` and the two ways to
  expand deleted prefixes, against the operations in sequence.
* **AtomicStore**, **Journaling** – what views expect of a store; the blocks and
  transactions of `write_journal` with their sizes, `coherently_resolve_journal`,
  crashes and errors between any two transactions.  Journaling refines AtomicStore, in
  which a write is atomic, and is reported as successful only after it was committed.
  The sizes are those of `SimpleUnorderedBatch` (DynamoDB).
* **ConsensusProofs**, **AgreementProofs**, **QuorumProofs** – the proofs.
* **MC...** – instances for TLC.

## Runs

| Run | What it shows |
|---|---|
| `consensus_rounds` | A super owner and an owner, the fast round and two multi-leader rounds, two blocks, four validators of which one is faulty: the inductive invariant `SafetyInv`; a validator has a vote to answer a proposal that it is sent again, whatever came in between (`RepeatedProposalIsAnswered`); a confirmed block is final; the certificates of the rounds with two votes agree; the honest validators' locks never exclude each other, so that an owner that collects them can propose. |
| `consensus_leader_rotation` | Single-leader rounds with timeouts at any moment and an oracle that answers differently each time: agreement also on the outcome, order of rounds, and votes that never go back. |
| `consensus_heights` | Two heights with the jump to fallback mode, and a node without a key: the nodes implement one ledger. |
| `quorum_collection` | Five validators with unequal votes, two values, two errors: certificates are valid, trusted errors are honest, the client gives up only without a quorum; it gets a certificate once the honest validators agree, and gives up once there can be no quorum, however long the others take. |
| `inboxes` | Two nodes, two senders, up to three blocks: inboxes never fail, depend only on what was received and executed, and settle what was anticipated. |
| `delivery_client` | Three recipients, two of them tracked, two blocks: no message is dropped or skipped, counters match, callers are not notified early. |
| `delivery_validator` | Direct messages, of which one creates the recipient, and a channel: all messages arrive. |
| `batch` | Up to three operations on five keys and prefixes that contain each other, for all contents: simplified batches are equivalent, and touch each key once. |
| `journaling_crashes` | Batches on both sides of the limits, crashes and failing transactions: atomic and durable writes, resolved journals, transactions within the limits. |

These runs show where the code does not do what its documentation says; the
counterexamples are described in `PROJECT.json` under `findings`.

| Run | Disagreement |
|---|---|
| `fast_round_agreement` | The lock of the fast round is forgotten when the block is proposed again in a multi-leader round. |
| `acknowledgement_lost` | Messages whose confirmation was lost are never acknowledged. |
| `journaling_shared` | Concurrent large batches of one store overwrite each other's journal. |

The properties stop short of the following, which the code does not guarantee (see
the notes under `hazards`):

* A proposal beyond the last configured multi-leader round is accepted and takes
  validators to a round that never times out, so nothing is claimed about the end of
  cooperative mode.
* A caller that waits for a chain's first block may be notified when one of several
  recipients has confirmed: `NotifiedAfterDelivery` is about later blocks.
* A caller that waits for a height that no confirmation names may wait forever, so only
  early notifications are excluded.
* After a transaction has failed while `write_batch` resolves its journal, the next batch is
  written around the pending journal: `TransientErrors` leaves `"resolving"` out.
* A transaction of `write_journal` with two blocks can exceed the database's total size
  by a key and the lengths of a block: `WritesFitTheStore` counts the bytes of the
  transactions that execute blocks, and the operations of all.

### Bounds

* Four validators of equal weight with one faulty are the smallest committee in
  which two quorums may differ by an honest validator.  Quorums are listed in the
  configurations; unequal weights are in `quorum_collection`.  That any committee
  has intersecting quorums, which is all that consensus needs of it, is proved.
  `consensus_heights` has two honest validators that are a quorum together and may lag
  behind each other, and an observer.
* Two payloads and up to three rounds suffice to confirm one block, lock it, and try
  to confirm the other one; or one payload with two outcomes.
  `Explored` bounds the rounds, `U32Max` their number and `MaxHeight` the heights.  One owner proposes everything that several could.
* Inboxes: a sender with two bundles in a block and a gap between its blocks, skippable
  and unskippable bundles, and a named bundle that was never sent.
* Delivery: `queue_size` requests in flight are enough for an update and a confirmation
  to overtake each other, and `MaxUpdates` handlers of updates for two of them to run at
  the same time; `Heights` bounds the blocks.
* Journaling: `MAX_BATCH_SIZE` and the byte limits are scaled down so that batches of
  five operations need several blocks and transactions, and both the number of
  operations and the bytes limit some block.  `MaxBlocks` bounds the blocks of a batch.
* Batch: bytes are 0 and 1, so that a prefix of last bytes has no upper bound.
* Symmetry is used for honest validators, payloads without oracles and outcomes of the only
  payload with one, and only in runs without liveness.

### Fairness

* `QuorumCollection`: the grace period ends (`tokio::time::timeout`).  Nothing is assumed
  of validators, nor of the time-out of a day before the grace period has begun.
* `Inboxes`: nodes keep receiving what senders keep in their outboxes.
* `Delivery`: pending requests are loaded and sent again whenever a chain is used; of the
  requests that keep being sent some are handled, for every sending is retried up to
  `max_retries` times, and then its task ends, so that requests leave the queue; of the
  handlers of updates some reach their last medium.  Nothing makes a recipient active:
  `MessagesArrive` is about recipients that are, or that a message creates.
* `Journaling`: a store is opened again after a crash, and executes transactions now and
  then even if it keeps crashing.

## Proofs

The constants are arbitrary; the assumptions are the named `ASSUME`s, of which only
`CommitteeAssumption` (any two quorums share an honest validator) is more than typing.
It is discharged by `QuorumIntersection` for the thresholds of `Committee`.

* **Type correctness** (`TypeCorrect`): every optional field has at most one value.  This
  is only proved: no run checks it on its own.
* **Agreement.** `SlowAgreement` is not inductive, since managers are reset and
  votes are not visible in them.  `SafetyInv` relates the votes a validator has cast for its
  height to what its manager remembers (`ManagersRememberVotes`): its last proposal is not below the rounds of its
  validated votes, its lock not below its confirmed votes, and no votes are ahead of its
  height.  From this each action preserves `LockedBlockRule` (the second rule in the doc
  of `manager.rs`).  `Finality` follows by taking the least round in which another
  block is validated after a confirmed one, which contradicts the rule for a common
  honest validator.  `AgreementOfSlowRounds`, `AgreementWithoutSuperOwners` and
  `ChainsOfNodesAgree` are its consequences.
* **Repeated proposals.** `check_proposed_block` skips the proposal that the manager has
  already, and the answer is the pending vote.  `RepeatedProposals` proves that there is one.
  `create_vote` and `create_final_vote` leave a vote behind, and nothing but the reset for
  the next height, which also drops the proposal, takes it away.
* **Quorums.** `QuorumIntersection`, `HonestQuorum` and `ValidityThreshold` hold for any
  weights.  `CollectionIsSound` proves the safety of `communicate_with_quorum` by
  `ScoresInv`: the counters are the weights of disjoint sets of validators.

Only model-checked: everything about inboxes, delivery, batches and journaling, all
liveness properties, the refinements of `Ledger` and `AtomicStore`, `RoundsInOrder`,
`VotesNeverGoBack` and `ProgressPossible`.  Liveness and `ENABLED` are out of the
reach of the proof system, and so is induction over data, which is why functions defined by
recursion over sequences (`journal`, `simplify`, `remove_bundles`) are only checked.

## Not modelled

* Cryptography: hashes are injective and signatures cannot be forged.
* Durations: timers may fire at any moment after they are set.
* The content of blocks: execution is a set of possible outcomes.
* Batches with deleted prefixes in the journal (`UnorderedBatch`, ScyllaDB), whose blocks
  have one more vector and an `overhead_size` of 3.
* Wasm runtimes, bindings, RPC encodings, command line tools and observers: they have no
  state that the protocol's properties depend on.

## Plan

1. **ChainWorkers** – the cache of chain worker actors, cancelled queries, failed
   loads, and saves that fail after the views were flushed.
2. **Channels** – subscriptions, unsubscriptions and the messages of a channel.
3. **Stores** – value splitting and the cache of reads, as refinements of a map.
4. **Views** – register, log, queue, map and collection views with pending updates,
   `flush` and `rollback`, as refinements of their mathematical meaning.
5. **Client** – the pending block, synchronisation with validators, updates of
   validators that lag behind, the local node's downloads, notifications.
6. **Execution** – conservation of balances in the system application, message grants
   and resource limits, epochs and committees.
7. **Liveness of rounds** under the timeouts of `ChainOwnership`.
8. **Proofs** – delivery (counters, no message skipped), inboxes, atomicity of
   journaling, and the refinement of `Ledger`.
