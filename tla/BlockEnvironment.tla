---------------------------- MODULE BlockEnvironment ----------------------------
(***************************************************************************)
(* The environment a block runs in, and what a reader of the chain is told *)
(* of the run (src/node/evm/config.rs, src/evm/mod.rs, src/rpc/receipt.rs).*)
(*                                                                         *)
(* One block is executed many times: by the node that builds it, from its  *)
(* parent and the payload attributes; by every node that imports it, from  *)
(* the payload or from the header; and again for every trace.  Each has    *)
(* its own code to derive the EVM environment and the execution context,   *)
(* and they must all agree across the hardfork boundaries, where the blob  *)
(* parameters, the EVM rules, the contract limits and the proposer key     *)
(* change.                                                                 *)
(*                                                                         *)
(* Abstractions, beside BlockExecutor's.  Blob gas is counted in blobs.    *)
(* Recipient, randao, beacon root and withdrawals come as one choice.  The *)
(* gas limit is a constant.  Shanghai, Cancun and the merge are active     *)
(* from genesis, so blob fields, beacon root and withdrawals are never     *)
(* absent, and the London boundary of next_evm_env is never met.           *)
(***************************************************************************)
EXTENDS BlockExecutor, SequencesExt

CONSTANTS
  ZeroKey,               \* BlsPublicKey::ZERO, the key of a Prague1 genesis
  TxBlobs,               \* the blobs a user transaction carries
  ForkBlobs,             \* the genesis file's blob_schedule, per EVM rules
  Osaka1MinimumBlobFee,  \* minimum_blob_base_fee_wei of the genesis file
  PolGas,                \* the gas a PoL system call burns in the EVM
  OtherAttributes,               \* what else the payload attributes choose
  PendingChoice,         \* what build_pending_env puts in its place
  BlockTime,             \* BERACHAIN_BLOCK_TIME_SECONDS
  Inspector,             \* tracers a debug or trace call may attach
  Schedules, PolOutcomes, Bodies, GenesisBaseFee,
  MaxBlocks, MaxTime     \* bounds: length of the chain, block timestamps

BlobParams == [target: Nat, max: Nat, minFee: Nat, baseCost: Nat]

EvmRules == {"CANCUN", "PRAGUE", "OSAKA"}

ASSUME EnvironmentAssumption ==
  /\ ZeroKey \in Pubkey
  /\ TxBlobs \in [UserTx -> Nat]
  /\ ForkBlobs \in [EvmRules -> BlobParams]
  /\ Osaka1MinimumBlobFee \in Nat
  /\ PendingChoice \in OtherAttributes
  /\ None \notin Inspector
  /\ Schedules \subseteq {s \in Schedule : OrderedSchedule(s)}
  /\ PolOutcomes \subseteq PolOutcome
  /\ Bodies \subseteq Seq(UserTx)
  /\ GenesisBaseFee \in Nat /\ PolGas \in Nat
  /\ BlockTime \in Nat \ {0} /\ MaxBlocks \in Nat /\ MaxTime \in Nat

VARIABLES
  sched,    \* the schedule of this network
  chain,    \* the blocks, each with the run that built it
  pending,  \* the last pending block asked for: its context, or None
  report    \* the last trace or receipts asked for, or None

vars == <<sched, chain, pending, report>>

-----------------------------------------------------------------------------
(* Blob parameters and fees *)

\* revm_spec_by_timestamp_and_block_number, after the merge.
SpecId(s, t) ==
  CASE IsOsakaActive(s, t) -> "OSAKA"
    [] IsPragueActive(s, t) /\ ~IsOsakaActive(s, t) -> "PRAGUE"
    [] OTHER -> "CANCUN"

\* blob_params_at_timestamp: the blob schedule's, with the floor Osaka1
\* raises, unlike the base fee's, in the fork block itself.
BlobParamsAt(s, t) ==
  IF IsOsaka1Active(s, t)
    THEN [ForkBlobs[SpecId(s, t)] EXCEPT !.minFee = Osaka1MinimumBlobFee]
    ELSE ForkBlobs[SpecId(s, t)]

\* calc_blob_fee: a curve over the excess that starts at the floor, here a
\* straight line in place of the exponential.
BlobFee(params, excess) == params.minFee * (1 + excess)

(***************************************************************************)
(* maybe_next_block_excess_blob_gas (alloy), from the parent's header: the *)
(* excess falls to zero under the target, and by EIP-7918 shrinks only     *)
(* while a blob's fee covers its share of execution cost.                  *)
(***************************************************************************)
NextExcess(params, parent) ==
  LET next == parent.excess + parent.blobs
      reserve == params.baseCost * parent.baseFee > BlobFee(params, parent.excess)
  IN  CASE next < params.target -> 0
        [] next >= params.target /\ reserve
             -> parent.excess + (parent.blobs * (params.max - params.target)) \div params.max
        [] OTHER -> next - params.target

-----------------------------------------------------------------------------
(* The environment, three times over *)

\* The part of CfgEnv that follows from the timestamp: EVM rules, blobs per
\* transaction and, from Osaka on, the transaction gas cap and code sizes.
CfgEnv(s, t) ==
  [spec |-> SpecId(s, t), maxBlobs |-> BlobParamsAt(s, t).max,
   osakaLimits |-> IsOsakaActive(s, t)]

\* Mutant: the blob parameters are looked up where the base fee's are.
BlobParamsOfParent(s, parent, attributes) ==
  LET params == BlobParamsAt(s, parent.timestamp)
      excess == NextExcess(params, parent)
  IN  [cfg |-> CfgEnv(s, attributes.timestamp), number |-> parent.number + 1,
       timestamp |-> attributes.timestamp, choice |-> attributes.choice,
       baseFee |-> NextBlockBaseFee(s, parent),
       blob |-> [excess |-> excess, price |-> BlobFee(params, excess)]]

\* next_evm_env: the environment the builder derives.
NextEvmEnv(s, parent, attributes) ==
  LET params == BlobParamsAt(s, attributes.timestamp)
      excess == NextExcess(params, parent)
  IN  [cfg |-> CfgEnv(s, attributes.timestamp), number |-> parent.number + 1,
       timestamp |-> attributes.timestamp, choice |-> attributes.choice,
       baseFee |-> NextBlockBaseFee(s, parent),
       blob |-> [excess |-> excess, price |-> BlobFee(params, excess)]]

\* evm_env: the environment a header determines.
EvmEnv(s, header) ==
  [cfg |-> CfgEnv(s, header.timestamp), number |-> header.number,
   timestamp |-> header.timestamp, choice |-> header.choice,
   baseFee |-> header.baseFee,
   blob |-> [excess |-> header.excess,
             price |-> BlobFee(BlobParamsAt(s, header.timestamp), header.excess)]]

\* The execution data of a block, as newPayload brings it: the key and the
\* beacon root travel in the sidecar.
ExecutionData(header) ==
  [payload |-> [number |-> header.number, timestamp |-> header.timestamp,
                choice |-> header.choice, baseFee |-> header.baseFee,
                excess |-> header.excess, parent |-> header.parent],
   sidecar |-> [pubkey |-> header.pubkey]]

\* evm_env_for_payload.
EvmEnvForPayload(s, data) ==
  LET params == BlobParamsAt(s, data.payload.timestamp) IN
  [cfg |-> CfgEnv(s, data.payload.timestamp), number |-> data.payload.number,
   timestamp |-> data.payload.timestamp, choice |-> data.payload.choice,
   baseFee |-> data.payload.baseFee,
   blob |-> [excess |-> data.payload.excess,
             price |-> BlobFee(params, data.payload.excess)]]

\* context_for_next_block, context_for_block and context_for_payload (beacon
\* root and withdrawals are part of the environment's choice).
ContextForNextBlock(parent, attributes) ==
  [parent |-> parent.number, pubkey |-> attributes.pubkey]
ContextForBlock(header)  == [parent |-> header.parent, pubkey |-> header.pubkey]
ContextForPayload(data)  ==
  [parent |-> data.payload.parent, pubkey |-> data.sidecar.pubkey]

\* Environment and context as the executor of BlockExecutor takes them.
ExecutorContext(env, ctx) ==
  [parent |-> ctx.parent, number |-> env.number, timestamp |-> env.timestamp,
   baseFee |-> env.baseFee, pubkey |-> ctx.pubkey]

-----------------------------------------------------------------------------
(* The EVM *)

\* BerachainEvmBuilder and BerachainEvmFactory: precompiles follow the EVM
\* rules, and an inspector is attached and switched on together.
CreateEvm(env) ==
  [env |-> env, precompiles |-> env.cfg.spec, inspector |-> None, inspect |-> FALSE]
CreateEvmWithInspector(env, inspector) ==
  [CreateEvm(env) EXCEPT !.inspector = inspector, !.inspect = TRUE]

PolDistributor == "pol_contract"

\* from_recovered_tx and from_encoded_tx: the transaction as the EVM sees it.
\* The call data of a PoL transaction is the key it distributes for.
TxEnv(tx) ==
  IF tx.kind = "PoL"
    THEN [type |-> "PoL", caller |-> Signer(tx), to |-> PolDistributor, data |-> tx.pubkey]
    ELSE [type |-> "User", caller |-> Signer(tx), to |-> None, data |-> tx.id]

(***************************************************************************)
(* What the distributor contract answers is a function of the environment  *)
(* and the call.  An answer records it at the one point the chain went     *)
(* through; at any other the contract may well answer otherwise.           *)
(***************************************************************************)
Answer(point, outcome) == [point |-> point, outcome |-> outcome]
AnswerAt(answer, point) ==
  IF point = answer.point THEN answer.outcome
  ELSE [answer.outcome EXCEPT !.success = ~@]

\* Mutant: the system call never goes through the inspector.
BlindSystemCall(evm, caller, to, data, answer) ==
  [result |-> AnswerAt(answer, [env |-> evm.env, caller |-> caller, to |-> to, data |-> data]),
   inspectedBy |-> None]

\* transact_system_call, through the inspector when it is switched on.
TransactSystemCall(evm, caller, to, data, answer) ==
  [result |-> AnswerAt(answer, [env |-> evm.env, caller |-> caller, to |-> to, data |-> data]),
   inspectedBy |-> IF evm.inspect THEN evm.inspector ELSE None]

\* transact_raw: a PoL transaction becomes the system call, its gas set to
\* zero when it succeeded and left as it is when it did not.
TransactRaw(evm, tx, answer) ==
  IF tx.type = "PoL"
    THEN LET call == TransactSystemCall(evm, tx.caller, tx.to, tx.data, answer) IN
         [success |-> call.result.success, log |-> call.result.log,
          gasUsed |-> IF call.result.success THEN 0 ELSE PolGas,
          inspectedBy |-> call.inspectedBy]
    ELSE [success |-> TRUE, log |-> TxLog[tx.data], gasUsed |-> TxGasUsed[tx.data],
          inspectedBy |-> IF evm.inspect THEN evm.inspector ELSE None]

-----------------------------------------------------------------------------
(* Building, and answering for what was built *)

\* The header the genesis file makes; its key is zero under Prague1.
GenesisHeader ==
  [parent |-> 0, number |-> 0, timestamp |-> 0, choice |-> PendingChoice,
   baseFee |-> GenesisBaseFee, gasUsed |-> 0, excess |-> 0, blobs |-> 0,
   pubkey |-> IF IsPrague1Active(sched, 0) THEN ZeroKey ELSE None]

HeaderAt(i) == IF i = 0 THEN GenesisHeader ELSE chain[i].header
SpentAt(i)  == IF i = 0 THEN {} ELSE chain[i].ex.spent
Tip == Len(chain)

\* The builder's loop over a pool's transactions: what does not execute is
\* passed over.
RunBody(ex, body) ==
  FoldLeft(LAMBDA run, u :
             LET tx == [kind |-> "User", id |-> u] IN
             IF Executable(run.ex, tx)
               THEN [ex |-> CommitTransaction(run.ex, tx), txs |-> Append(run.txs, tx)]
               ELSE run,
           [ex |-> ex, txs |-> <<>>], body)

BlobsOf(txs) == FoldLeft(LAMBDA sum, tx : sum + TxBlobs[tx.id], 0, txs)

\* assemble_block's header: the blob excess is computed once more, from the
\* parent and the block's own blob parameters.
AssembleHeader(s, parent, env, ctx, ex, txs) ==
  [parent |-> ctx.parent, number |-> env.number, timestamp |-> env.timestamp,
   choice |-> env.choice, baseFee |-> env.baseFee, gasUsed |-> ex.gasUsed,
   excess |-> NextExcess(BlobParamsAt(s, env.timestamp), parent),
   blobs |-> BlobsOf(txs), pubkey |-> ctx.pubkey]

\* The point at which the executor calls the distributor: the fields of the
\* PoL transaction it has just created.
PolPoint(env, ctx) ==
  LET tx == TxEnv(CreatePolTransaction(ExecutorContext(env, ctx))) IN
  [env |-> env, caller |-> tx.caller, to |-> tx.to, data |-> tx.data]

Init ==
  /\ sched \in Schedules
  /\ chain = <<>>
  /\ pending = None
  /\ report = None

\* Environment, context, execution and assembly of one block on the tip.
Built(attributes, outcome, body) ==
  LET parent == HeaderAt(Tip)
      env == NextEvmEnv(sched, parent, attributes)
      ctx == ContextForNextBlock(parent, attributes)
      ran == RunBody(ApplyPreExecutionChanges(sched, ExecutorContext(env, ctx),
                       NewExecutor(SpentAt(Tip)), outcome), body)
  IN  [header |-> AssembleHeader(sched, parent, env, ctx, ran.ex, ran.txs),
       txs |-> IF IsPrague1Active(sched, env.timestamp)
                 THEN <<CreatePolTransaction(ExecutorContext(env, ctx))>> \o ran.txs
                 ELSE ran.txs,
       env |-> env, ctx |-> ctx, ex |-> ran.ex,
       answer |-> Answer(PolPoint(env, ctx), outcome)]

\* A block is built on the tip and becomes the tip: by a proposer running
\* this code, this node or another.
Build ==
  /\ Tip < MaxBlocks
  /\ \E t \in 1..MaxTime, choice \in OtherAttributes, pubkey \in Pubkey \cup {None},
        outcome \in PolOutcomes, body \in Bodies :
       LET attributes == [timestamp |-> t, choice |-> choice, pubkey |-> pubkey]
           block == Built(attributes, outcome, body)
       IN  /\ t > HeaderAt(Tip).timestamp
           /\ PreExecutable(sched, ExecutorContext(block.env, block.ctx))
           /\ block.header.blobs <= block.env.cfg.maxBlobs
           /\ chain' = Append(chain, block)
  /\ pending' = None
  /\ report' = None
  /\ UNCHANGED sched

\* Mutant: the pending block is asked for without a key.
KeylessPendingEnv(parent) ==
  [timestamp |-> parent.timestamp + BlockTime, choice |-> PendingChoice, pubkey |-> None]

\* build_pending_env: the parent's own key stands in for the next one.
BuildPendingEnv(parent) ==
  [timestamp |-> parent.timestamp + BlockTime, choice |-> PendingChoice,
   pubkey |-> parent.pubkey]

\* A reader asks for the pending block, which is built on the tip or fails.
AskPending ==
  /\ LET parent == HeaderAt(Tip)
         attributes == BuildPendingEnv(parent)
         run == ExecutorContext(NextEvmEnv(sched, parent, attributes),
                                ContextForNextBlock(parent, attributes))
     IN  pending' = [ctx |-> run, built |-> PreExecutable(sched, run)]
  /\ UNCHANGED <<sched, chain, report>>

\* A trace of block i: its transactions again, one after the other, in the
\* environment its header determines.
Trace(i, inspector) ==
  LET env == EvmEnv(sched, chain[i].header)
      evm == IF inspector = None THEN CreateEvm(env)
             ELSE CreateEvmWithInspector(env, inspector)
  IN  report' = [kind |-> "trace", block |-> i, inspector |-> inspector,
                 rows |-> [j \in DOMAIN chain[i].txs |->
                             TransactRaw(evm, TxEnv(chain[i].txs[j]), chain[i].answer)]]

\* Mutant: the blob fee of the receipt is the one before the block's fork.
PriceAtParent(i) ==
  BlobFee(BlobParamsAt(sched, HeaderAt(i - 1).timestamp), chain[i].header.excess)

\* The blob fee of a receipt: blob_params_at_timestamp of the block's time
\* and calc_blob_fee of the block's excess.
ReceiptBlobPrice(i) ==
  BlobFee(BlobParamsAt(sched, chain[i].header.timestamp), chain[i].header.excess)

\* convert_receipts: the stored receipts of block i, each with its own gas
\* and, where it carries blobs, the blob fee.
ConvertReceipts(i) ==
  LET rs == chain[i].ex.receipts
      before(j) == IF j = 1 THEN 0 ELSE rs[j - 1].cumulativeGas
      carried(j) == IF chain[i].txs[j].kind = "User" THEN TxBlobs[chain[i].txs[j].id] ELSE 0
  IN  report' = [kind |-> "receipts", block |-> i, inspector |-> None,
                 rows |-> [j \in DOMAIN rs |->
                             [type |-> rs[j].kind, success |-> rs[j].success,
                              log |-> rs[j].log, gasUsed |-> rs[j].cumulativeGas - before(j),
                              blobPrice |-> IF carried(j) > 0 THEN ReceiptBlobPrice(i) ELSE 0]]]

Read ==
  /\ \E i \in DOMAIN chain :
       ConvertReceipts(i) \/ \E inspector \in Inspector \cup {None} : Trace(i, inspector)
  /\ UNCHANGED <<sched, chain, pending>>

Next == Build \/ AskPending \/ Read

Spec == Init /\ [][Next]_vars

-----------------------------------------------------------------------------
(* Properties *)

(***************************************************************************)
(* Every node runs a block in the environment and context its builder ran  *)
(* it in, whether it has the block as a payload or as a header, although   *)
(* the builder derives them from the parent and the attributes; and the    *)
(* blob fields the assembler wrote are those consensus expects of a child  *)
(* of that parent.                                                         *)
(***************************************************************************)
SameExecution ==
  \A i \in DOMAIN chain :
    LET h    == chain[i].header
        data == ExecutionData(h)
    IN  /\ EvmEnv(sched, h) = chain[i].env
        /\ EvmEnvForPayload(sched, data) = chain[i].env
        /\ ContextForBlock(h) = chain[i].ctx
        /\ ContextForPayload(data) = chain[i].ctx
        /\ h.excess = NextExcess(BlobParamsAt(sched, h.timestamp), HeaderAt(i - 1))
        /\ h.blobs <= BlobParamsAt(sched, h.timestamp).max

(***************************************************************************)
(* The pending block can be built on every tip, with the one exception the *)
(* code leaves: where the next block is Prague1's first, the parent has no *)
(* key to lend it.                                                         *)
(***************************************************************************)
PendingKeyed ==
  pending # None =>
    LET parent == HeaderAt(pending.ctx.number - 1) IN
    pending.built <=> ~ /\ IsPrague1Active(sched, pending.ctx.timestamp)
                        /\ ~IsPrague1Active(sched, parent.timestamp)

(***************************************************************************)
(* What a trace or the receipts of a block tell is what its run did: the   *)
(* PoL call, replayed outside the executor, meets the same answer, passes  *)
(* the inspector like any transaction, and costs nothing when it succeeds; *)
(* gas adds up to the header's; and blobs cost what the run charged.  (A   *)
(* PoL call that reverted is shown with the gas it burnt: evm/mod.rs sets  *)
(* gas_used to 0 in a Success only.)                                       *)
(***************************************************************************)
ReadersTold ==
  report # None =>
    LET b  == chain[report.block]
        rs == b.ex.receipts
        gas(j) == rs[j].cumulativeGas - (IF j = 1 THEN 0 ELSE rs[j - 1].cumulativeGas)
    IN  /\ DOMAIN report.rows = DOMAIN b.txs
        /\ \A j \in DOMAIN report.rows :
             LET row == report.rows[j] IN
             /\ row.success = rs[j].success /\ row.log = rs[j].log
             /\ row.success => row.gasUsed = gas(j)
             /\ report.kind = "trace" => row.inspectedBy = report.inspector
             /\ report.kind = "receipts" =>
                  /\ row.type = b.txs[j].kind
                  /\ row.blobPrice \in {0, b.env.blob.price}
=============================================================================
