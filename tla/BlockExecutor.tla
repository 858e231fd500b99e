---------------------------- MODULE BlockExecutor ----------------------------
(***************************************************************************)
(* Executing, assembling and validating one block, as operators on values. *)
(*                                                                         *)
(* The block executor (src/node/evm/executor.rs), the assembler            *)
(* (assembler.rs), the sender repair (builder.rs) and the consensus checks *)
(* (src/consensus/mod.rs) are pure functions of the block, its context and *)
(* the parent state.  BlockLifecycle runs them step by step, once when the *)
(* node builds a block and once when it imports one.                       *)
(*                                                                         *)
(* Abstractions.  Hashes and roots are injective, so a root is the data it *)
(* commits to and a PoL transaction's hash is its fields; the constant     *)
(* fields of a PoL transaction (chain id, sender, distributor, gas limit)  *)
(* are left out.  Of the EVM only what the code around it observes is      *)
(* kept: whether a transaction is valid, the gas it used, and the one log  *)
(* the code reacts to.  The post-state of a block is the set of user       *)
(* transactions whose nonce it has consumed.                               *)
(***************************************************************************)
EXTENDS BaseFee, Sequences

CONSTANTS
  None,        \* an Option's absent value
  Pubkey,      \* BLS public keys of proposers
  UserTx,      \* user transactions, each of a sender of its own
  TxGasLimit,  \* the gas limit of a user transaction
  TxGasUsed,   \* the gas it uses when it executes
  TxLog        \* the log it leaves

\* What a requests hash commits to: the receipts its deposits come from.
RequestsHash == [deposits: SUBSET Nat]

(***************************************************************************)
(* What a log can be to the code: "restricted" is one the Prague3 filter   *)
(* refuses, "deposit" a well-formed deposit event, "malformed" a deposit   *)
(* event that does not decode, "plain" anything else.                      *)
(***************************************************************************)
LogKind == {"plain", "restricted", "deposit", "malformed"}

ASSUME ExecutorAssumption ==
  /\ None \notin Pubkey \cup RequestsHash
  /\ TxGasLimit \in [UserTx -> Nat \ {0}]
  /\ TxGasUsed \in [UserTx -> Nat]
  /\ \A u \in UserTx : TxGasUsed[u] <= TxGasLimit[u]
  /\ TxLog \in [UserTx -> LogKind]

SystemAddress == "SYSTEM_ADDRESS"

PolTransaction  == [kind: {"PoL"}, pubkey: Pubkey, nonce: Nat, gasPrice: Nat]
UserTransaction == [kind: {"User"}, id: UserTx]
Transaction     == PolTransaction \cup UserTransaction

Receipt == [kind: {"PoL", "User"}, success: BOOLEAN, cumulativeGas: Nat, log: LogKind]

\* How the distributor contract answers the PoL system call: it may revert,
\* and it may emit any log.
PolOutcome == [success: BOOLEAN, log: LogKind]

\* Block environment and execution context (BlockEnv, BerachainBlockExecutionCtx).
Context == [parent: Nat, number: Nat, timestamp: Nat, baseFee: Nat,
            pubkey: Pubkey \cup {None}]

\* The executor's mutable state.  trace and hooks are observations: the
\* transactions applied to the state so far, and the transaction indices
\* reported to the state hook with them.
Executor == [receipts: Seq(Receipt), gasUsed: Nat, spent: SUBSET UserTx,
             trace: Seq(Transaction), hooks: Seq(Nat)]

Header == [parent: Nat, number: Nat, timestamp: Nat, baseFee: Nat,
           pubkey: Pubkey \cup {None}, gasUsed: Nat, receiptsRoot: Seq(Receipt),
           requests: RequestsHash \cup {None}]

Block == [header: Header, txs: Seq(Transaction)]

\* Mutant: execution starts from the genesis state.
NewExecutorOnGenesis(spent) ==
  [receipts |-> <<>>, gasUsed |-> 0, spent |-> {}, trace |-> <<>>, hooks |-> <<>>]

\* The executor of a block, on the state its parent left.
NewExecutor(spent) ==
  [receipts |-> <<>>, gasUsed |-> 0, spent |-> spent, trace |-> <<>>, hooks |-> <<>>]

-----------------------------------------------------------------------------
(* Transactions *)

\* Mutants: the nonce of the header's own block, or of its grandparent.
PolNonceOfBlock(ctx) ==
  [kind |-> "PoL", pubkey |-> ctx.pubkey, nonce |-> ctx.number, gasPrice |-> ctx.baseFee]
PolNonceOfGrandparent(ctx) ==
  [kind |-> "PoL", pubkey |-> ctx.pubkey, nonce |-> ctx.number - 2, gasPrice |-> ctx.baseFee]

\* create_pol_transaction: from number, base fee and key of its block.
CreatePolTransaction(ctx) ==
  [kind |-> "PoL", pubkey |-> ctx.pubkey, nonce |-> ctx.number - 1,
   gasPrice |-> ctx.baseFee]

\* A user transaction is recovered from its signature; a PoL transaction
\* carries its sender, always the system address.
Signer(tx) == IF tx.kind = "PoL" THEN SystemAddress ELSE tx.id

(***************************************************************************)
(* The key is present exactly from Prague1 on.  Missing and superfluous    *)
(* keys are distinct errors in the code; both refuse the block.            *)
(***************************************************************************)
ValidProposerPubkey(s, t, pubkey) == IsPrague1Active(s, t) <=> pubkey # None

-----------------------------------------------------------------------------
(* The executor *)

(***************************************************************************)
(* What the PoL call needs of its context: a key exactly from Prague1 on,  *)
(* and then a number above zero, for the nonce is the number minus one     *)
(* and must fit in 64 bits.  Neither failure is a BlockValidationError.    *)
(***************************************************************************)
PreExecutable(s, ctx) ==
  /\ ValidProposerPubkey(s, ctx.timestamp, ctx.pubkey)
  /\ IsPrague1Active(s, ctx.timestamp) => ctx.number > 0

\* Mutant: the PoL call is charged to the block.
PolPaysGas(s, ctx, ex, outcome) ==
  IF ~IsPrague1Active(s, ctx.timestamp) THEN ex
  ELSE [receipts |-> Append(ex.receipts,
                       [kind |-> "PoL", success |-> outcome.success,
                        cumulativeGas |-> ex.gasUsed + 1, log |-> outcome.log]),
        gasUsed  |-> ex.gasUsed + 1,
        spent    |-> ex.spent,
        trace    |-> Append(ex.trace, CreatePolTransaction(ctx)),
        hooks    |-> Append(ex.hooks, 0)]

\* The PoL call runs first, at hook index 0 and at no gas.  A reverted call
\* still leaves its (failed) receipt.
ApplyPreExecutionChanges(s, ctx, ex, outcome) ==
  IF ~IsPrague1Active(s, ctx.timestamp) THEN ex
  ELSE [ex EXCEPT
          !.receipts = Append(@, [kind |-> "PoL", success |-> outcome.success,
                                  cumulativeGas |-> ex.gasUsed, log |-> outcome.log]),
          !.trace    = Append(@, CreatePolTransaction(ctx)),
          !.hooks    = Append(@, 0)]

\* execute_transaction_without_commit: a PoL transaction of the body is
\* always let through (its result is a dummy); a user transaction needs the
\* block's remaining gas and an unused nonce.
Executable(ex, tx) ==
  tx.kind = "User" =>
    /\ TxGasLimit[tx.id] <= GasLimit - ex.gasUsed
    /\ tx.id \notin ex.spent

\* Mutant: the PoL transaction of the body is executed once more.
CommitPolAgain(ex, tx) ==
  LET used == IF tx.kind = "PoL" THEN 0 ELSE TxGasUsed[tx.id] IN
  [receipts |-> Append(ex.receipts,
                  [kind |-> tx.kind, success |-> TRUE, cumulativeGas |-> ex.gasUsed + used,
                   log |-> IF tx.kind = "PoL" THEN "plain" ELSE TxLog[tx.id]]),
   gasUsed  |-> ex.gasUsed + used,
   spent    |-> ex.spent \cup (IF tx.kind = "PoL" THEN {} ELSE {tx.id}),
   trace    |-> Append(ex.trace, tx),
   hooks    |-> Append(ex.hooks, Len(ex.receipts))]

\* commit_transaction: nothing is committed for a PoL transaction, which
\* apply_pre_execution_changes has already executed.
CommitTransaction(ex, tx) ==
  IF tx.kind = "PoL" THEN ex
  ELSE LET gasUsed == ex.gasUsed + TxGasUsed[tx.id] IN
       [receipts |-> Append(ex.receipts,
                       [kind |-> "User", success |-> TRUE, cumulativeGas |-> gasUsed,
                        log |-> TxLog[tx.id]]),
        gasUsed  |-> gasUsed,
        spent    |-> ex.spent \cup {tx.id},
        trace    |-> Append(ex.trace, tx),
        hooks    |-> Append(ex.hooks, Len(ex.receipts))]

\* finish: deposit requests are read from every receipt of the block, the
\* PoL one included, but only once Osaka is active; one undecodable deposit
\* fails the block.
Finishable(s, ctx, ex) ==
  IsPragueActive(s, ctx.timestamp) /\ IsOsakaActive(s, ctx.timestamp) =>
    \A i \in DOMAIN ex.receipts : ex.receipts[i].log # "malformed"

\* Mutant: deposits are read from the receipts before Osaka too.
RequestsSincePrague(s, ctx, ex) ==
  IF ~IsPragueActive(s, ctx.timestamp) THEN None
  ELSE [deposits |-> {i \in DOMAIN ex.receipts : ex.receipts[i].log = "deposit"}]

\* The requests a block commits to; it has a requests hash exactly from
\* Prague on.
Requests(s, ctx, ex) ==
  IF ~IsPragueActive(s, ctx.timestamp) THEN None
  ELSE [deposits |-> {i \in DOMAIN ex.receipts :
          IsOsakaActive(s, ctx.timestamp) /\ ex.receipts[i].log = "deposit"}]

-----------------------------------------------------------------------------
(* The assembler and the sender repair *)

Assemblable(s, ctx, ex) ==
  /\ PreExecutable(s, ctx)
  /\ IsPrague1Active(s, ctx.timestamp) => ex.receipts # <<>>

\* assemble_block: the PoL transaction is created once more, from the same
\* context, and goes first.
AssembleBlock(s, ctx, ex, transactions) ==
  [header |-> [parent |-> ctx.parent, number |-> ctx.number,
               timestamp |-> ctx.timestamp, baseFee |-> ctx.baseFee,
               pubkey |-> ctx.pubkey, gasUsed |-> ex.gasUsed,
               receiptsRoot |-> ex.receipts, requests |-> Requests(s, ctx, ex)],
   txs |-> IF IsPrague1Active(s, ctx.timestamp)
             THEN <<CreatePolTransaction(ctx)>> \o transactions
             ELSE transactions]

\* The senders fix_pol_senders accepts: all but the injected first one.
SendersFixable(s, block, senders) ==
  IF IsPrague1Active(s, block.header.timestamp)
    THEN Len(block.txs) = Len(senders) + 1 /\ block.txs[1].kind = "PoL"
    ELSE Len(block.txs) = Len(senders)

\* Mutant: the system address goes to the end of the senders.
FixPolSendersLast(s, block, senders) ==
  senders \o (IF IsPrague1Active(s, block.header.timestamp)
                THEN <<Signer(block.txs[1])>> ELSE <<>>)

FixPolSenders(s, block, senders) ==
  IF IsPrague1Active(s, block.header.timestamp)
    THEN <<Signer(block.txs[1])>> \o senders
    ELSE senders

-----------------------------------------------------------------------------
(* The consensus checks *)

\* The context import derives from the header (evm_env, context_for_block).
ContextOf(header) ==
  [parent |-> header.parent, number |-> header.number, timestamp |-> header.timestamp,
   baseFee |-> header.baseFee, pubkey |-> header.pubkey]

ValidHeader(s, header) ==
  /\ (header.requests # None) <=> IsPragueActive(s, header.timestamp)
  /\ ValidProposerPubkey(s, header.timestamp, header.pubkey)

ValidHeaderAgainstParent(s, header, parent) ==
  /\ header.number = parent.number + 1
  /\ header.timestamp > parent.timestamp
  /\ header.baseFee = NextBlockBaseFee(s, parent)

\* Mutant: only the first transaction is looked at.
FirstTransactionOnly(s, block) ==
  IsPrague1Active(s, block.header.timestamp) =>
    /\ block.txs # <<>>
    /\ block.header.pubkey # None /\ block.header.number > 0
    /\ block.txs[1] = CreatePolTransaction(ContextOf(block.header))

\* The body's PoL transaction: first, the only one, and equal in every
\* hashed field to the one its header determines.  None before Prague1.
ValidBlockPreExecution(s, block) ==
  IF IsPrague1Active(s, block.header.timestamp)
    THEN /\ block.txs # <<>>
         /\ block.header.pubkey # None /\ block.header.number > 0
         /\ block.txs[1] = CreatePolTransaction(ContextOf(block.header))
         /\ \A i \in DOMAIN block.txs : i > 1 => block.txs[i].kind # "PoL"
    ELSE \A i \in DOMAIN block.txs : block.txs[i].kind # "PoL"

\* Mutant: the Prague3 filter takes the first receipt, PoL's, for clean.
FilterUserReceipts(s, block, ex) ==
  LET header == block.header IN
  /\ header.gasUsed = ex.gasUsed
  /\ header.receiptsRoot = ex.receipts
  /\ header.requests = Requests(s, ContextOf(header), ex)
  /\ IsPrague3Active(s, header.timestamp) =>
       \A i \in DOMAIN ex.receipts : i > 1 => ex.receipts[i].log # "restricted"

\* The commitments of the header are those of the execution, and in the
\* Prague3 window no receipt, the PoL one included, holds a restricted log.
ValidBlockPostExecution(s, block, ex) ==
  LET header == block.header IN
  /\ header.gasUsed = ex.gasUsed
  /\ header.receiptsRoot = ex.receipts
  /\ header.requests = Requests(s, ContextOf(header), ex)
  /\ IsPrague3Active(s, header.timestamp) =>
       \A i \in DOMAIN ex.receipts : ex.receipts[i].log # "restricted"
=============================================================================
