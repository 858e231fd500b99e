# A TLA+ model of bera-reth

bera-reth is Berachain's execution client: reth with another kind of block. From the Prague1
fork on, every block begins with a *proof-of-liquidity* (PoL) transaction nobody signs, which the
node derives from the parent proposer's public key (BRIP-0004); base fees follow Berachain's
rules (BRIP-0002); and the engine API and the header carry the key around. This directory models
what bera-reth adds to reth, and reth itself only where bera-reth's code meets it.

Every definition that models code names its file and lines in `PROJECT.json` (`map`), together with
the runs, the mutations each property was tried against, the hazards and the theorems. Lines below
refer to `src/src`.

## 1. Inventory

| component | state | operations | hard to get right |
|---|---|---|---|
| hardforks (`hardforks/`) | schedule of fork times | `is_*_active_at_timestamp` | Prague3 is a window that Prague4 closes |
| base fee (`chainspec/mod.rs`) | none | `next_block_base_fee` | denominator and floor of the *parent's* fork, computed in four places |
| genesis acceptance (`chainspec/`, `genesis/`) | the chain specification | `From<Genesis>`: parse, compare times, list forks, make the genesis header | absent forks, ties, a fallback to plain Ethereum, two genesis hashes |
| fork id, fork filter, `eth_config` (`chainspec/`, `rpc/config.rs`) | status and filter of a running node | `fork_id`, `latest_fork_id`, `fork_filter`, current/next/last fork | order of the fork list, restarts over an old database, nodes with different files |
| block executor (`node/evm/executor.rs`, `deposits.rs`) | receipts, gas, state hooks, requests | pre-execution with the PoL call, execute, commit, finish | PoL runs outside the loop and is met again in the body |
| assembler, builder (`node/evm/assembler.rs`, `builder.rs`) | the block being sealed | assemble header and body, put the PoL transaction and its sender back | three lists filled by three components |
| PoL transaction (`transaction/pol.rs`) | none | create, validate | derived twice, from environment and from header |
| consensus (`consensus/`) | none | header, pre- and post-execution validation | post-execution filter of Prague3 reads the PoL receipt too |
| EVM and its configuration (`evm/`, `node/evm/config.rs`) | block environment | environments and contexts of next, stored, received and pending blocks; system call; replay with an inspector | three derivations that must agree |
| payload job (`engine/builder.rs`) | best payload, attempts | the loop over the pool, retries, cancellation, fetch | limits counted twice, races of attempts, lost sidecars |
| engine API, validator, payload types (`engine/`) | known blocks, jobs | newPayload, forkchoiceUpdated, getPayload, by version | which version serves which fork; identifiers of jobs |
| pool admission (`pool/min_priority_fee.rs`) | base fee of the tip floor | validate a batch, follow new heads | a head arriving within a batch |
| pool transaction, envelope (`pool/transaction.rs`, `transaction/`) | none | pooled, consensus, compact, EIP-2718 forms | sidecars, type identifiers shared with upstream's storage |
| header (`primitives/header.rs`) | none | RLP and compact forms, execution data | optional fields known by position only |
| RPC (`rpc/`), node (`node/mod.rs`, `main.rs`) | none of their own | receipts, traces, pending block, feeding blocks from another node, dev-mode attributes; delegation, wiring | a raw transaction is broadcast before it is added; the pending block borrows its parent's key |

How they interact: the consensus client calls the engine API; a forkchoice update with attributes
starts a payload job; its attempts take transactions from the pool and drive executor, builder and
assembler; payloads come back as blocks, through the engine validator, the consensus checks and the
executor again, and the new head reaches the pool's maintenance task, which passes it to the
tip-floor validator and to the pool. The genesis file decides the schedule all of them consult, and
the fork identifier by which peers choose each other.

Correct means, in short: a block is executed the same way whoever executes it, the distribution runs
exactly once per block and pays the parent's proposer; lists built apart line up; a node accepts what
it builds; a job yields the best block the pool allows and an answer; every fork keeps a working set
of engine methods; nodes with compatible genesis files stay peers; nothing changes a transaction's or
a header's hash on its way.

## 2. Modules

`Hardforks` (schedules and their predicates) and `BaseFee` are shared by all.

**The block pipeline.** `BlockExecutor` holds executor, assembler, sender correction and consensus
checks as operators over an executor record (receipts, gas, hooks, trace, spent transactions).
`BlockLifecycle` composes them into a node: `tree` (validated blocks, siblings included), one payload
job (`StartJob`, `JobPreExecution`, `JobTransaction`, `JobFinish`, `JobAbort`) and one import
(`ImportOwn`/`ImportPeer`, `ConsensusChecks`, `ImportPreExecution`, `ImportTransaction`,
`ImportFinish`, `ImportConclude`, `ImportAbort`), which interleave at every step. Consensus checks may
come before or after execution, as reth allows. Peers offer honest blocks and blocks with one fault
(PoL missing, doubled, misplaced, with a wrong nonce, price or key; a wrong number, time, fee or key in the header; wrong gas, receipts or requests).
`PolChain` is the abstract specification: a chain to which a block is added whole, on its parent,
having run its distribution once, to the parent's proposer. `BlockLifecycle` implements it
(`ImplementsPolChain`, with `ledger` and `offered` as the abstraction of `tree` and `payloads`).

**The environment.** `BlockEnvironment` is the code around the executor: the builder derives EVM
environment and context from the parent and the attributes, everyone else from the header or from the
payload. `Build` does the former and keeps what it derived with the block, for the invariants to
compare; `AskPending` asks for the pending block; `Read` is a trace (`TransactRaw` on each transaction,
with or without an inspector) or the conversion of a block's receipts. What the EVM answers to the
distribution is tied to the point the call was made at (environment, caller, target, data), so a replay
from a different point does not get the builder's answer.

**The network.** `GenesisConfig` is the loader as operators: which files are accepted, in what order
the forks are listed, the fork identifiers (both lists are folds, as the code's loops are). `ForkNetwork` runs nodes on such files: `Start` (over a
database that may be at a later head), `NewHead`, `Stop`, `Upgrade`; `Accepts` is EIP-2124's filter.

**The payload job.** `PayloadBuilder` has one action per pass of the loop in
`default_berachain_payload` (`LoopStep`), with the transactions that arrive meanwhile, attempts one
after the other and, after an early fetch, the two that race (`attempt["main"]`, `attempt["race"]`),
cancellation, the blob store, and the errors that end an attempt.

**The engine API.** `EngineApi`: one action per method family (`NewPayload`, `Forkchoice`, `GetPayload`),
over every version of it, each version with its own gates; a client that may call any version at any
time with any key, or hand back the envelope it fetched (`HandBack`). Blocks also come in past the
gates: from another node's RPC (`Feed`, `rpc_to_primitive_block` and `block_to_payload`) and from the
dev-mode miner (`Mine`, whose attributes carry no key). `last` records whether a right call was served.
A block is the part of its header the methods differ in.

**The pool.** `PoolAdmission`: tasks validate batches transaction by transaction (`Filter`, one load
of the base fee each), hand the rest to the inner validator and merge; the maintenance task works
through new heads, telling first the validator (`OnNewHeadBlock`), then the pool (`SetBlockInfo`).
`seen` and `window` are history variables for the properties.

**Forms.** `TransactionForms` follows transactions from gossip, a wallet's request or another node's
JSON through pool, block, payload, disk and peers, with reorgs, finalization and restarts;
`HeaderForms` does it for a header's optional fields, from the genesis file or a sealed block, through
RLP, disk and the engine API's execution data, and with an arbitrary list from a peer. In both, hashing
is abstracted to identity of the encoded form.

`MC*` modules give constants to TLC; `*Proofs` modules and `Induction` hold the theorems (`FormsProofs` those of both modules of forms). In a module, operators whose
comment begins with "Mutant" are plausible bugs which the property named for them in
`PROJECT.json` must detect.

## 3. What the runs show

| run | instance | properties |
|---|---|---|
| import | one block on genesis, from peers honest and not, two keys, two user transactions (a deposit, a restricted transfer), three schedules, four behaviours of the distributor, under fairness: 27,750 states | `TypeOK`, `ReceiptsAligned`, `GasAccounted`, `Prague3Enforced`, `DepositsRequestedOnce`, `ImplementsPolChain`, `ImportsDecided` |
| build | two blocks, in a chain or as siblings, and two payloads of the node's own, jobs and imports interleaved: 1,748,718 states | `SendersAligned`, `NoReplay`, `OwnPayloadsAccepted` |
| env | three blocks across fork boundaries, three user transactions of which two carry blobs, two keys, two choices of the other attributes; traces, receipts and the pending block at every tip: 346,534 states | `SameExecution`, `PendingKeyed`, `ReadersTold` |
| genesis | every genesis file over a small set of times, each fork present or absent: 33,394 states | `TypeOK`, `AcceptanceExact` |
| peers | two nodes through releases, restarts, forks and reorgs, times 0 to 5: 181,476 states | `StatusCurrent`, `PeersAgree`, `ConfigAgrees` |
| floor | one genesis file | `Osaka1RaisesFloor`, **violated**, see section 6 |
| job | five transactions of three senders, two attempts, gas, size and blob limits all within reach: 145,676 states | `TypeOK`, `LimitsNotFatal`, `BlobsAccounted`, `NothingLeftOut`, `CancelStops`, `PayloadsImprove` |
| race | a fetch before the first payload, under fairness: 11,408 states | `FetchAnswered` |
| engine | three networks, two keys, two request lists, one block beside genesis and one job at a time, a dev-mode miner and a feed: 49,971 states, deadlock checked | `TypeOK`, `KeysMatchFork`, `JobsBuildable`, `PayloadsAsAsked`, `RightCallsServed` |
| pool | two tasks, three transactions, heads and reorgs around two forks that move the floor: 1,606,017 states up to exchange of the tasks | `TypeOK`, `FeesAgree`, `OutcomesInOrder`, `JudgedByCurrentFee`, `NoFreeRiders` |
| forms | one transaction of each of the five types, three blocks, databases of this node or of upstream reth: 44,114 states | `BlocksUnaltered`, `PoolServable`, `ReorgReturns` |
| header | the genesis headers and all sealed headers of three networks, all lists of up to eight items a peer may send: 1,063 states | `TypeOK`, `HashKept` |

*Bounds and why they suffice.* Heights: the code looks at a block and its parent only, and two blocks
make a parent that is not genesis and a sibling. Times: `MaxTime` of 2 to 5 puts a block before, at and
after each fork of the schedules, which include coinciding forks and forks at genesis. Transactions:
two suffice for order within a block; the job has three senders, two with a pair of nonces and two with blobs.
Attempts: two, the smallest number that can be compared or race. Tasks: two, the smallest number
that interleaves. Blocks of `env`: three, so that one has a parent and a child on the other side of a
fork. Gas limits of 4 and denominators of 2 and 4 keep the base fee formula's rounding
and all three of its branches in reach. Every bound is a constant named `Max...` or a set given in the
`.cfg`, and appears in guards only.

*Deadlock.* Where a bound really brings the node to rest (no block left to build or import) the
configuration says `CHECK_DEADLOCK FALSE`: import, build, env, genesis, job, race, pool. The others check it.

*Symmetry.* Only the tasks of `pool` are exchanged, and no temporal property is checked there.

*Fairness.* `BlockLifecycle!FairSpec` has weak fairness of each step of an import already begun: reth
runs it on a thread that waits for nothing outside. Jobs and peers owe nothing. The run `import` is of
`FairSpec`.
`PayloadBuilder!FairSpec` has weak fairness of the loop, which is a blocking task on a thread of its
own, and of the job's polling of a fetch. No property assumes that a transaction, a head or a call
arrives.

*Exceptions the properties name.* `OwnPayloadsAccepted` leaves out one case the code leaves open: in
the Prague3 window the builder drops all users' transactions, but the filter also reads the PoL
receipt, so a distribution that itself emits a restricted transfer makes the node refuse its own
block. `NothingLeftOut` leaves out a sender of whom the pool still holds a transaction with a used nonce that
does not fit: it marks the sender invalid before its nonce is looked at, and the sender's next one,
which would fit, is skipped with it (`engine/builder.rs` 354). `NoFreeRiders` is about admission: `pool/min_priority_fee.rs` says (18-22) that a transaction
may later pay less. `PayloadsImprove` and `NothingLeftOut` leave out the Prague3 window, where blocks
are empty. `PendingKeyed` says where the pending block cannot be built: on the last tip before Prague1,
whose header has no key to lend (`node/evm/config.rs` 287). `ReadersTold` says nothing of the gas of a PoL
call that reverted: a trace shows what it burnt, since `evm/mod.rs` 215 sets `gas_used` to 0 in a
`Success` only, while the receipt has 0. `RightCallsServed` asks nothing of the dev-mode miner from Prague1 on, where
its attributes have no key (`engine/payload.rs` 167), and `KeysMatchFork` says that nothing wrong comes of it.

## 4. What is proved

All statements hold for every value of the constants that meets the named assumptions
(`FeeAssumption`: denominators and elasticity are positive and the gas target is not zero;
`ExecutorAssumption`, `LifecycleAssumption`, `BuilderAssumption`, `EngineAssumption`, `EnvironmentAssumption`,
`PoolAssumption`, `FormsAssumption`, `HeaderAssumption`, `NetworkAssumption`, `NeverAssumption`: types, ordered schedules (which `AcceptedOrdered` proves of accepted files),
gas used within gas limits, `None`, `Absent` and `Never` are no values of the data, files and hashes included, and the PoL transaction's fields are no user's). The assumptions are evaluated in every run.

* `BlockLifecycleProofs!TypeCorrect`: type correctness of the pipeline. It rests on the base fee of a
  next block being a natural number, whichever branch of the formula applies (`PoolAdmissionProofs` has the
  same for the fee the pool compares with).
* `ReceiptsAlwaysAligned`, `SendersAlwaysAligned`. Neither is inductive. `PipelineInv` adds what holds
  in the middle of a job or an import: how far the executor's lists have come against the transactions
  met so far. Because the consensus checks may come after execution, the import's part is
  conditional: a body whose PoL transactions are misplaced puts the lists out of step, and is refused
  before it can enter the tree.
* `Implementation`: `BlockLifecycle` implements `PolChain`: Init maps to Init, and each action to a step
  or a stutter. `JobFinish` and `ImportConclude` are the only ones that are steps. Uses `PipelineInv`:
  the trace has the distribution once because the lists are aligned.
* `GenesisConfigProofs!AcceptedOrdered`: the loader compares each fork with the one configured before
  it; accepted files have *all* forks in order (`OrderedSchedule`), which the other modules assume of
  their schedules. `AcceptanceCorrect` is `AcceptanceExact` for any number of nodes and any files.
* `Prague3AlwaysEnforced`, `DepositsCountedOnce` (`BlockLifecycleProofs`), from `CheckedInv`: every block in the
  tree has passed the header checks and the post-execution checks against the execution it is stored with.
  The import's part says that `checked` stands for the header checks, whenever they ran; the own payloads
  need no part, since they enter the tree by the same import.
* `GasAlwaysAccounted`, `NeverReplayed` (`BlockLifecycleProofs`), from `RunInv`: every execution, under way or
  done, is a run on the state its parent left. Receipts' cumulative gas is the sum of what the trace used so
  far; each user's transaction had room for its limit, is met once, and was not spent on the branch below; a
  block is higher than its parent. The last makes the walk up the branch (a recursive function) one that ends.
* `OwnPayloadsNeverRefused`, from `OwnInv`: each payload passes every check an import makes, on the
  execution it was built with. `NoReplay`'s invariant enters because the import must meet the same
  state as the job, and `PipelineInv` because the body must be the trace.
* `BlockEnvironmentProofs!SameExecutionHolds`, `PendingKeyedHolds`, from `EnvInv`: the environment, the context and the
  blob excess kept with each block are those its header determines, and every header has a key exactly
  from Prague1 on. `AssembledRunsAlike` carries it: field by field, the assembler writes to the header what the
  builder's environment was derived from. `ReadersAlwaysTold` adds `ToldInv`: a block's receipts are those of its
  transactions in order, so that a reader who executes them again from the parent's state is told the same.
* `PayloadBuilderProofs!NoFatalLimits`: neither the executor's gas check nor the size of the sealed block
  ever refuses what the loop let through, by the invariant that loop and executor have counted the same
  in each attempt. `TypeCorrect` adds `JobState`: an attempt skips blobs exactly
  from the limit on, and a fetch has a payload exactly when it was answered, which ends the job. `CancellationStops`
  follows step by step.
* `BlobsAlwaysAccounted`, `PayloadsOnlyImprove`, from `GatherInv`: fees, blob count and sidecars of an attempt,
  which the loop adds up, are those of the transactions it has taken, and a payload's are copied from there.
  `NothingIsLeftOut`, from `SettledInv`: what the pool has offered so far is behind its sender's nonce, or its
  sender is blocked, and for a blocked sender some transaction was refused, which at the end of the loop is
  the one that hides the others.
* `GenesisConfigProofs`, the network. `fork_id` folds over the list of forks, the filter sorts and
  splits a set, `eth_config` searches a sorted list. `Enumerates` relates lists to sets (there is
  exactly one list of a bounded set of times, `OrderedIs`), and each of the three comes to the same two things:
  the forks passed at a head, and the one that is next. For `fork_id` that is a loop invariant
  (`WalkedOn`, `ForkIdentifies`), which needs that accepted files list their forks in time order
  (`ForkTimesInOrder`); for the filter it is `AcceptsIs`. `TypeCorrect`, `StatusAlwaysCurrent`, `ConfigAlwaysAgrees` and
  `PeersAlwaysAgree` follow with `NetworkInv`: a running node's filter and status are those of its
  file and head, and the head is not before the genesis, since a start refuses files of another genesis hash.
* `EngineApiProofs`, all five properties of the run. `KeysCorrect`: headers have a key exactly from Prague1
  on, by `Hands`: whichever call it was, a block becomes known only through `Converts`. `JobsCorrect` and
  `PayloadsCorrect` are proved together (`JobsInv`): a job has the attributes last asked for under its
  identifier, and those passed their gate. `TypeCorrect` and `RightCallsAlwaysServed` need `TypesInv`, whose
  `HeldSound` says that an envelope held by the client was made from attributes whose key fits their time, so that
  handing it back by the matching method must succeed.
* `PoolAdmissionProofs`: `TypeCorrect`, `FeesAlwaysAgree`, `OutcomesAlwaysInOrder`, `FloorHolds`, from `PoolInv`: the
  fees known to validator and pool are those of the heads they were told of (`FeeInv`), and each call's
  slots are the verdicts of a prefix of its batch, with one inner outcome per empty slot (`CallInv`).
  Between them lies a counting argument about `merge_outcomes`. `AlwaysJudgedByCurrentFee` adds `WindowInv`: while
  a task filters, the validator's base fee is among those seen during its call, and each verdict
  so far was given at one of these.
* `FormsProofs`, all three properties of the run `forms`. The codec lemmas (`PeerRoundTrip`, `JsonRoundTrip`,
  `UpstreamRoundTrip`, `DiskRoundTrip`) say that decoding inverts encoding, `BlockRoundTrip` lifts them to blocks, and
  `BlocksNeverAltered` needs `ChainInv`: memory is what was agreed on, the disk a prefix that reads back to it, and
  no user's transaction is in two blocks. The last part is for the pool: `PoolInv` (users' transactions that
  no block holds, the blobs of each in the store) survives a reorg because what returns is in no kept block, and
  survives finalization because a sidecar goes only with its own transaction. `PoolAlwaysServes` and
  `ReorgAlwaysReturns` follow.
* `FormsProofs`, both properties of the run `header`: `HeaderTypeCorrect` and `HashAlwaysKept`. `HeaderInv` says that a
  header in memory is complete (its optional fields are the first n of the list, with a value each) and encodes to
  `origin`, and that the disk holds the compact form of that very header. It is kept because `decode` inverts `encode`
  both ways. `DecodeSound`: whatever list it accepts, the header it returns is complete and encodes to the part
  it read. `DecodeEncoded`: a complete header is read back whole, and what follows is left. Both rest on the lengths: every item is at
  least a byte long, so the sums grow (`PrefixesLengthen`) and there is one place to stop (`StopsOnce`);
  and the length `header_payload_length` adds up in a loop of its own is that of the items (`DeclaredRight`).
  `CompactKept` and `EngineKept` say the same of the disk and of the engine API.

`Induction` is what the proofs about recursive definitions share. The model writes recursion as functions and
folds; the provers cannot instantiate an induction schema, so induction is stated of a set of numbers
(`IntervalInduction`, from well-foundedness of inclusion between finite sets), and from it that the equation of
a recursive function has one solution (`RecursionExists`, `SameRecursion`) and that a fold of the community
modules is such a function (`FoldExists`, `FoldFollows`), of which each step is one of the loop (`FoldStep`).

Only model-checked: the liveness properties `ImportsDecided` and `FetchAnswered` (fairness and ENABLED are
beyond the prover). Every invariant and every action property of a passing run is proved.

## 5. What is not modelled

* The EVM's computation: the distributor contract is an outcome chosen once per network or block; user
  transactions have a gas use and at most one log.
* State roots, tries, bloom filters: each root is the value it commits to.
* Arithmetic widths: fees, gas and times are naturals, overflow is not considered.
* Validity in the pool beyond the floor; the sub-pools beyond parked and not; the blob cache, KZG set-up
  and limits, which are configuration of reth's pool.
* Engine methods that only delegate and change no state (bodies, blobs, client version).
* Of `rpc/api.rs`, lines 38-330 build transactions from requests for traits the node's own code never calls
  into; the rest but the conversions above delegates. `send_transaction` broadcasts a raw transaction before
  the pool answers (457): no text of the repository says which should come first, so no property takes a side.
* Node: components are put together, a command line is parsed, metrics and version are set.
* Of headers, the fifteen fields that are always there; of transactions, the fields within a body; getters,
  cached sizes and hashes.

## 6. Finding

`floor`: `hardforks/mod.rs` 16 and `genesis/mod.rs` 40 say that Osaka1 raises the base fee floor. The
loader compares fork times only (`chainspec/mod.rs` 651-662) and takes the floors over unchecked
(834-837), so an accepted genesis file may lower it, and `next_block_base_fee` then does.

## 7. Plan

Done, in this order: the block pipeline with its refinement of `PolChain`; genesis, fork identifiers and
peers; the payload job; the engine API with every version, feed and dev mode; pool admission; forms of
transactions and headers; the environment of execution, traces, receipts and the pending block; proofs of
all of them. Left:

1. Composition of `EngineApi` with `BlockLifecycle`, so that jobs, payloads and imports share one tree.
