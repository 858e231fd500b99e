------------------------- MODULE BlockLifecycleProofs -------------------------
(***************************************************************************)
(* Proofs about BlockLifecycle, for every schedule, distributor, set of    *)
(* transactions and set of peer blocks.                                    *)
(***************************************************************************)
EXTENDS BlockLifecycle, Induction

USE DEF ImportTask

-----------------------------------------------------------------------------
(* The base fee *)

\* calc_next_block_base_fee of natural numbers is a natural number: the rule
\* moves the fee by a share of it and stops at zero.
LEMMA CalcFeeType ==
  ASSUME NEW gasUsed \in Nat, NEW baseFee \in Nat, NEW denominator \in Nat \ {0}
  PROVE  CalcNextBlockBaseFee(gasUsed, GasLimit, baseFee, denominator) \in Nat
<1> DEFINE target == GasLimit \div Elasticity
           share(excess) == (baseFee * excess) \div (target * denominator)
<1>1. target \in Nat \ {0}
  BY FeeAssumption DEF FeeAssumption
<1>2. \A excess \in Int : share(excess) \in Int
  <2> HIDE DEF target
  <2>1. \A excess \in Int : baseFee * excess \in Int
    OBVIOUS
  <2> QED
    BY <1>1, <2>1, ShareType
<1>3. CASE gasUsed = target
  BY <1>3 DEF CalcNextBlockBaseFee
<1>4. CASE gasUsed > target
  <2>1. share(gasUsed - target) \in Int
    BY <1>1, <1>2
  <2>2. CalcNextBlockBaseFee(gasUsed, GasLimit, baseFee, denominator)
          = baseFee + AtLeast(1, share(gasUsed - target))
    BY <1>1, <1>4 DEF CalcNextBlockBaseFee
  <2> QED
    BY <2>1, <2>2 DEF AtLeast
<1>5. CASE gasUsed < target
  <2>1. share(target - gasUsed) \in Int
    BY <1>1, <1>2
  <2>2. CalcNextBlockBaseFee(gasUsed, GasLimit, baseFee, denominator)
          = AtLeast(0, baseFee - share(target - gasUsed))
    BY <1>1, <1>5 DEF CalcNextBlockBaseFee
  <2> QED
    BY <2>1, <2>2 DEF AtLeast
<1> QED
  BY <1>1, <1>3, <1>4, <1>5

\* next_block_base_fee of a well-typed parent is a natural number, under
\* every fork's floor.
LEMMA NextFeeType ==
  ASSUME NEW s, NEW parent, parent.gasUsed \in Nat, parent.baseFee \in Nat
  PROVE  NextBlockBaseFee(s, parent) \in Nat
<1>1. MaxChangeDenominator(s, parent.timestamp) \in Nat \ {0}
  BY FeeAssumption DEF FeeAssumption, MaxChangeDenominator
<1>2. MinimumBaseFee(s, parent.timestamp) \in Nat
  BY FeeAssumption DEF FeeAssumption, MinimumBaseFee
<1> QED
  BY <1>1, <1>2, CalcFeeType DEF NextBlockBaseFee, AtLeast

-----------------------------------------------------------------------------
(* The operators of BlockExecutor have the types BlockLifecycle expects. *)

\* create_pol_transaction of a context with a key and a positive number is a
\* PoL transaction.
LEMMA PolType ==
  ASSUME NEW ctx \in Context, ctx.pubkey # None, ctx.number > 0
  PROVE  CreatePolTransaction(ctx) \in PolTransaction
BY DEF Context, PolTransaction, CreatePolTransaction

\* The pre-execution changes keep the executor well typed.
LEMMA PreExecutionType ==
  ASSUME NEW s, NEW ctx \in Context, NEW ex \in Executor, NEW out \in PolOutcome,
         PreExecutable(s, ctx)
  PROVE  ApplyPreExecutionChanges(s, ctx, ex, out) \in Executor
<1>1. CASE ~IsPrague1Active(s, ctx.timestamp)
  BY <1>1 DEF ApplyPreExecutionChanges
<1>2. CASE IsPrague1Active(s, ctx.timestamp)
  <2> DEFINE r == [kind |-> "PoL", success |-> out.success,
                   cumulativeGas |-> ex.gasUsed, log |-> out.log]
  <2>1. CreatePolTransaction(ctx) \in Transaction
    BY <1>2, PolType DEF PreExecutable, ValidProposerPubkey, Transaction
  <2>2. r \in Receipt
    BY DEF PolOutcome, Executor, Receipt
  <2>3. /\ Append(ex.receipts, r) \in Seq(Receipt)
        /\ Append(ex.trace, CreatePolTransaction(ctx)) \in Seq(Transaction)
        /\ Append(ex.hooks, 0) \in Seq(Nat)
    BY <2>1, <2>2 DEF Executor
  <2> QED
    BY <1>2, <2>3 DEF ApplyPreExecutionChanges, Executor
<1> QED
  BY <1>1, <1>2

\* Committing a transaction keeps the executor well typed.
LEMMA CommitType ==
  ASSUME NEW ex \in Executor, NEW tx \in Transaction
  PROVE  CommitTransaction(ex, tx) \in Executor
<1>1. CASE tx.kind = "PoL"
  BY <1>1 DEF CommitTransaction
<1>2. CASE tx.kind # "PoL"
  <2> DEFINE g == ex.gasUsed + TxGasUsed[tx.id]
             r == [kind |-> "User", success |-> TRUE, cumulativeGas |-> g,
                   log |-> TxLog[tx.id]]
  <2>1. tx.id \in UserTx
    BY <1>2 DEF Transaction, PolTransaction, UserTransaction
  <2>2. g \in Nat /\ r \in Receipt
    BY <2>1, ExecutorAssumption DEF ExecutorAssumption, Executor, Receipt
  <2>3. /\ Append(ex.receipts, r) \in Seq(Receipt)
        /\ Append(ex.trace, tx) \in Seq(Transaction)
        /\ Append(ex.hooks, Len(ex.receipts)) \in Seq(Nat)
        /\ ex.spent \cup {tx.id} \in SUBSET UserTx
    BY <2>1, <2>2 DEF Executor
  <2> HIDE DEF r
  <2>4. CommitTransaction(ex, tx) =
          [receipts |-> Append(ex.receipts, r), gasUsed |-> g,
           spent |-> ex.spent \cup {tx.id}, trace |-> Append(ex.trace, tx),
           hooks |-> Append(ex.hooks, Len(ex.receipts))]
    BY <1>2 DEF CommitTransaction, r
  <2> QED
    BY <2>2, <2>3, <2>4 DEF Executor
<1> QED
  BY <1>1, <1>2

\* The assembler makes a well-typed block of a well-typed execution.
LEMMA AssembleType ==
  ASSUME NEW s, NEW ctx \in Context, NEW ex \in Executor,
         NEW txs \in Seq(UserTransaction), Assemblable(s, ctx, ex)
  PROVE  AssembleBlock(s, ctx, ex, txs) \in Block
<1>1. Requests(s, ctx, ex) \in RequestsHash \cup {None}
  BY DEF Requests, RequestsHash, Executor
<1>2. txs \in Seq(Transaction)
  BY DEF Transaction
<1>3. (IF IsPrague1Active(s, ctx.timestamp)
         THEN <<CreatePolTransaction(ctx)>> \o txs ELSE txs) \in Seq(Transaction)
  <2>1. CASE ~IsPrague1Active(s, ctx.timestamp)
    BY <1>2, <2>1
  <2>2. CASE IsPrague1Active(s, ctx.timestamp)
    <3>1. CreatePolTransaction(ctx) \in Transaction
      BY <2>2, PolType DEF Assemblable, PreExecutable, ValidProposerPubkey, Transaction
    <3> QED
      BY <1>2, <2>2, <3>1
  <2> QED
    BY <2>1, <2>2
<1> QED
  BY <1>1, <1>3 DEF AssembleBlock, Block, Header, Context, Executor

\* fix_pol_senders hands on user signers and the system address only.
LEMMA SendersType ==
  ASSUME NEW s, NEW block \in Block, NEW senders \in Seq(UserTx),
         SendersFixable(s, block, senders)
  PROVE  FixPolSenders(s, block, senders) \in Seq(UserTx \cup {SystemAddress})
<1>1. senders \in Seq(UserTx \cup {SystemAddress})
  OBVIOUS
<1>2. CASE ~IsPrague1Active(s, block.header.timestamp)
  BY <1>1, <1>2 DEF FixPolSenders
<1>3. CASE IsPrague1Active(s, block.header.timestamp)
  <2> DEFINE Senders == UserTx \cup {SystemAddress}
  <2>1. Signer(block.txs[1]) \in Senders
    BY <1>3 DEF SendersFixable, Signer
  <2>2. <<Signer(block.txs[1])>> \in Seq(Senders)
    BY <2>1
  <2>3. senders \in Seq(Senders)
    BY <1>1
  <2> HIDE DEF Senders
  <2>4. <<Signer(block.txs[1])>> \o senders \in Seq(Senders)
    BY <2>2, <2>3
  <2> QED
    BY <1>3, <2>4 DEF FixPolSenders, Senders
<1> QED
  BY <1>2, <1>3

\* The context a stored block is executed in is well typed.
LEMMA ContextType ==
  ASSUME NEW header \in Header
  PROVE  ContextOf(header) \in Context
BY DEF Header, Context, ContextOf
\* A new executor is well typed.
LEMMA NewExecutorType ==
  ASSUME NEW spent \in SUBSET UserTx
  PROVE  NewExecutor(spent) \in Executor
BY DEF NewExecutor, Executor

-----------------------------------------------------------------------------
(* Type correctness *)

\* Every position of the tree, genesis included, has a well-typed header and
\* state.
LEMMA HeaderAtType ==
  ASSUME TypeOK, NEW i \in 0..Len(tree)
  PROVE  /\ HeaderAt(i).number \in Nat
         /\ HeaderAt(i).timestamp \in Nat
         /\ HeaderAt(i).baseFee \in Nat
         /\ HeaderAt(i).gasUsed \in Nat
         /\ SpentAt(i) \in SUBSET UserTx
<1>1. CASE i = 0
  BY <1>1, LifecycleAssumption DEF LifecycleAssumption, HeaderAt, GenesisHeader, SpentAt
<1>2. CASE i # 0
  <2> DEFINE Entry == [block: Block, executed: Executor]
  <2>0. tree \in Seq(Entry)
    BY DEF TypeOK
  <2>1. tree[i] \in Entry
    <3> HIDE DEF Entry
    <3> QED
      BY <1>2, <2>0
  <2>2. tree[i].block.header \in Header /\ tree[i].executed.spent \in SUBSET UserTx
    BY <2>1 DEF Block, Executor
  <2> QED
    BY <1>2, <2>2 DEF HeaderAt, SpentAt, Header
<1> QED
  BY <1>1, <1>2

\* The context of a next block, its base fee included, is well typed.
LEMMA NextContextType ==
  ASSUME TypeOK, NEW parent \in 0..Len(tree), NEW t \in Times,
         NEW pubkey \in Pubkey \cup {None}
  PROVE  NextBlockContext(parent, t, pubkey) \in Context
<1>1. NextBlockBaseFee(sched, HeaderAt(parent)) \in Nat
  BY HeaderAtType, NextFeeType
<1>2. HeaderAt(parent).number + 1 \in Nat /\ parent \in Nat /\ t \in Nat
  BY HeaderAtType, LifecycleAssumption DEF LifecycleAssumption, Times
<1> QED
  BY <1>1, <1>2 DEF NextBlockContext, Context

\* Of a block about to be imported only its parent has to be known.
LEMMA ImportType ==
  ASSUME TypeOK, NEW block \in Block, block.header.parent \in 0..Len(tree),
         Import(block)
  PROVE  TypeOK'
<1>1. NewExecutor(SpentAt(block.header.parent)) \in Executor
  BY HeaderAtType, NewExecutorType
<1> QED
  BY <1>1 DEF TypeOK, Import, Stage

(***************************************************************************)
(* The parent of a payload is known, which TypeOK does not say.            *)
(***************************************************************************)
ParentsKnown ==
  /\ job # None => job.ctx.parent \in 0..Len(tree)
  /\ \A p \in payloads : p.block.header.parent \in 0..Len(tree)

\* Every step of the payload job keeps the types.
LEMMA BuilderTypes ==
  ASSUME TypeOK, ParentsKnown,
         StartJob \/ JobPreExecution \/ JobTransaction \/ JobFinish \/ JobAbort
  PROVE  TypeOK' /\ ParentsKnown'
<1>1. CASE StartJob
  <2>1. PICK parent \in 0..Len(tree), t \in Times, pubkey \in Pubkey \cup {None} :
          job' = [stage |-> "fresh", ctx |-> NextBlockContext(parent, t, pubkey),
                  ex |-> NewExecutor(SpentAt(parent)), txs |-> <<>>]
    BY <1>1 DEF StartJob
  <2>2. NextBlockContext(parent, t, pubkey) \in Context
    BY NextContextType
  <2>3. NewExecutor(SpentAt(parent)) \in Executor
    BY HeaderAtType, NewExecutorType
  <2>4. NextBlockContext(parent, t, pubkey).parent = parent
    BY DEF NextBlockContext
  <2>5. UNCHANGED <<sched, outcome, tree, payloads, imp, verdict>>
    BY <1>1 DEF StartJob
  <2> QED
    BY <2>1, <2>2, <2>3, <2>4, <2>5 DEF TypeOK, ParentsKnown
<1>2. CASE JobPreExecution
  <2>1. job # None /\ job.stage = "fresh"
    BY <1>2 DEF JobPreExecution
  <2>2. UNCHANGED <<sched, outcome, tree, payloads, imp, verdict>>
    BY <1>2 DEF JobPreExecution
  <2>3. CASE PreExecutable(sched, job.ctx)
    <3>1. ApplyPreExecutionChanges(sched, job.ctx, job.ex, outcome) \in Executor
      BY <2>1, <2>3, PreExecutionType, LifecycleAssumption
      DEF TypeOK, LifecycleAssumption
    <3>2. job' = [job EXCEPT !.stage = "open",
                   !.ex = ApplyPreExecutionChanges(sched, job.ctx, @, outcome)]
      BY <1>2, <2>3 DEF JobPreExecution
    <3> QED
      BY <2>1, <2>2, <3>1, <3>2 DEF TypeOK, ParentsKnown
  <2>4. CASE ~PreExecutable(sched, job.ctx)
    BY <1>2, <2>2, <2>4 DEF JobPreExecution, TypeOK, ParentsKnown
  <2> QED
    BY <2>3, <2>4
<1>3. CASE JobTransaction
  <2>1. PICK u \in UserTx :
          job' = [job EXCEPT !.ex = CommitTransaction(@, [kind |-> "User", id |-> u]),
                             !.txs = Append(@, [kind |-> "User", id |-> u])]
    BY <1>3 DEF JobTransaction
  <2> DEFINE tx == [kind |-> "User", id |-> u]
  <2>2. job # None /\ UNCHANGED <<sched, outcome, tree, payloads, imp, verdict>>
    BY <1>3 DEF JobTransaction
  <2>3. tx \in UserTransaction /\ tx \in Transaction
    BY DEF UserTransaction, Transaction
  <2>4. /\ CommitTransaction(job.ex, tx) \in Executor
        /\ Append(job.txs, tx) \in Seq(UserTransaction)
    BY <2>2, <2>3, CommitType DEF TypeOK
  <2> HIDE DEF tx
  <2> QED
    BY <2>1, <2>2, <2>4 DEF TypeOK, ParentsKnown, tx
<1>4. CASE JobFinish
  <2> DEFINE block   == AssembleBlock(sched, job.ctx, job.ex, job.txs)
             senders == [i \in DOMAIN job.txs |-> Signer(job.txs[i])]
             payload == [block |-> block, executed |-> job.ex,
                         senders |-> FixPolSenders(sched, block, senders)]
  <2>1. job # None /\ job' = None /\ UNCHANGED <<sched, outcome, tree, imp, verdict>>
    BY <1>4 DEF JobFinish
  <2>2. CASE /\ Assemblable(sched, job.ctx, job.ex)
             /\ SendersFixable(sched, block, senders)
             /\ payloads' = payloads \cup {payload}
    <3>1. job.ctx \in Context /\ job.ex \in Executor /\ job.txs \in Seq(UserTransaction)
      BY <2>1 DEF TypeOK
    <3>2. block \in Block
      BY <2>2, <3>1, AssembleType
    <3>3. senders \in Seq(UserTx)
      <4>1. /\ Len(job.txs) \in Nat
            /\ DOMAIN job.txs = 1..Len(job.txs)
            /\ \A i \in 1..Len(job.txs) : job.txs[i] \in UserTransaction
        BY <3>1
      <4>2. \A i \in 1..Len(job.txs) : Signer(job.txs[i]) \in UserTx
        BY <4>1 DEF Signer, UserTransaction
      <4> QED
        BY <4>1, <4>2
    <3>4. block.header.parent = job.ctx.parent
      BY DEF AssembleBlock
    <3> HIDE DEF block, senders
    <3>5. FixPolSenders(sched, block, senders) \in Seq(UserTx \cup {SystemAddress})
      BY <2>2, <3>2, <3>3, SendersType
    <3>6. payload \in [block: Block, executed: Executor,
                       senders: Seq(UserTx \cup {SystemAddress})]
      BY <3>1, <3>2, <3>5, Zenon
    <3>7. payload.block = block
      OBVIOUS
    <3> HIDE DEF payload
    <3>8. TypeOK'
      BY <2>1, <2>2, <3>6 DEF TypeOK
    <3>9. ParentsKnown'
      BY <2>1, <2>2, <3>4, <3>7 DEF ParentsKnown
    <3> QED
      BY <3>8, <3>9
  <2>3. CASE payloads' = payloads
    BY <2>1, <2>3 DEF TypeOK, ParentsKnown
  <2> QED
    BY <1>4, <2>2, <2>3 DEF JobFinish
<1>5. CASE JobAbort
  BY <1>5 DEF JobAbort, TypeOK, ParentsKnown
<1> QED
  BY <1>1, <1>2, <1>3, <1>4, <1>5

\* Every step of an import keeps the types.
LEMMA ImporterTypes ==
  ASSUME TypeOK, ParentsKnown,
         \/ ImportOwn \/ ImportPeer \/ ConsensusChecks \/ ImportPreExecution
         \/ ImportTransaction \/ ImportFinish \/ ImportConclude \/ ImportAbort
  PROVE  TypeOK' /\ ParentsKnown'
<1>1. CASE ImportOwn
  <2>1. PICK p \in payloads : Import(p.block)
    BY <1>1 DEF ImportOwn
  <2>2. p.block \in Block /\ p.block.header.parent \in 0..Len(tree)
    BY DEF TypeOK, ParentsKnown
  <2> QED
    BY <2>1, <2>2, ImportType DEF ParentsKnown, Import
<1>2. CASE ImportPeer
  <2>1. PICK block \in Block : block.header.parent \in 0..Len(tree) /\ Import(block)
    BY <1>2 DEF ImportPeer
  <2> QED
    BY <2>1, ImportType DEF ParentsKnown, Import
<1>3. CASE ConsensusChecks
  BY <1>3 DEF ConsensusChecks, Continue, Refuse, TypeOK, ParentsKnown
<1>4. CASE ImportPreExecution
  <2>1. imp # None /\ UNCHANGED <<sched, outcome, tree, job, payloads>>
    BY <1>4 DEF ImportPreExecution
  <2>2. CASE PreExecutable(sched, ImportContext)
    <3>1. ImportContext \in Context
      BY <2>1, ContextType DEF TypeOK, ImportContext, Block
    <3>2. ApplyPreExecutionChanges(sched, ImportContext, imp.ex, outcome) \in Executor
      BY <2>1, <2>2, <3>1, PreExecutionType, LifecycleAssumption
      DEF TypeOK, LifecycleAssumption
    <3>3. /\ imp' = [imp EXCEPT !.stage = "executing",
                       !.ex = ApplyPreExecutionChanges(sched, ImportContext, @, outcome)]
          /\ verdict' = verdict
      BY <1>4, <2>2 DEF ImportPreExecution, Continue
    <3> QED
      BY <2>1, <3>2, <3>3 DEF TypeOK, ParentsKnown, Stage
  <2>3. CASE ~PreExecutable(sched, ImportContext)
    BY <1>4, <2>1, <2>3 DEF ImportPreExecution, GiveUp, TypeOK, ParentsKnown
  <2> QED
    BY <2>2, <2>3
<1>5. CASE ImportTransaction
  <2> DEFINE tx == imp.block.txs[imp.next]
  <2>1. /\ imp # None /\ imp.next <= Len(imp.block.txs)
        /\ UNCHANGED <<sched, outcome, tree, job, payloads>>
    BY <1>5 DEF ImportTransaction
  <2>2. CASE Executable(imp.ex, tx)
    <3>1. tx \in Transaction
      BY <2>1 DEF TypeOK, Block
    <3>2. CommitTransaction(imp.ex, tx) \in Executor
      BY <2>1, <3>1, CommitType DEF TypeOK
    <3>3. /\ imp' = [imp EXCEPT !.ex = CommitTransaction(@, tx), !.next = @ + 1]
          /\ verdict' = verdict
      BY <1>5, <2>2 DEF ImportTransaction, Continue
    <3> HIDE DEF tx
    <3> DEFINE Importing == ImportTask
    <3>4. imp' \in Importing
      <4>1. imp \in Importing
        BY <2>1 DEF TypeOK
      <4>2. imp.next + 1 \in Nat \ {0}
        BY <4>1
      <4> QED
        BY <3>2, <3>3, <4>1, <4>2
    <3> QED
      BY <2>1, <3>3, <3>4 DEF TypeOK, ParentsKnown
  <2>3. CASE ~Executable(imp.ex, tx)
    BY <1>5, <2>1, <2>3 DEF ImportTransaction, Refuse, TypeOK, ParentsKnown
  <2> QED
    BY <2>2, <2>3
<1>6. CASE ImportFinish
  BY <1>6 DEF ImportFinish, Continue, Refuse, TypeOK, ParentsKnown, Stage
<1>7. CASE ImportConclude
  <2> DEFINE Entry == [block: Block, executed: Executor]
             entry == [block |-> imp.block, executed |-> imp.ex]
  <2>1. entry \in Entry /\ tree \in Seq(Entry)
    BY <1>7 DEF ImportConclude, TypeOK
  <2>2. UNCHANGED <<sched, outcome, job, payloads>> /\ imp' = None
    BY <1>7 DEF ImportConclude, Refuse
  <2>3. CASE tree' = Append(tree, entry) /\ verdict' = "VALID"
    <3>1. tree' \in Seq(Entry) /\ Len(tree') = Len(tree) + 1
      <4> HIDE DEF Entry, entry
      <4> QED BY <2>1, <2>3
    <3>2. TypeOK'
      BY <2>2, <2>3, <3>1 DEF TypeOK
    <3>3. Len(tree) \in Nat /\ 0..Len(tree) \subseteq 0..Len(tree')
      BY <2>1, <3>1
    <3>4. ParentsKnown'
      BY <2>2, <3>3 DEF ParentsKnown
    <3> QED
      BY <3>2, <3>4
  <2>4. CASE UNCHANGED tree /\ verdict' = "INVALID"
    BY <2>2, <2>4 DEF TypeOK, ParentsKnown
  <2> QED
    BY <1>7, <2>3, <2>4 DEF ImportConclude, Refuse
<1>8. CASE ImportAbort
  BY <1>8 DEF ImportAbort, GiveUp, TypeOK, ParentsKnown
<1> QED
  BY <1>1, <1>2, <1>3, <1>4, <1>5, <1>6, <1>7, <1>8

\* The types hold of a node at genesis.
LEMMA TypesInit == Init => TypeOK /\ ParentsKnown
BY DEF Init, TypeOK, ParentsKnown

\* Every step of the node keeps the types.
LEMMA TypesStep ==
  ASSUME TypeOK, ParentsKnown, [Next]_vars
  PROVE  TypeOK' /\ ParentsKnown'
<1>1. CASE Next
  BY <1>1, BuilderTypes, ImporterTypes DEF Next
<1>2. CASE UNCHANGED vars
  BY <1>2 DEF vars, TypeOK, ParentsKnown
<1> QED
  BY <1>1, <1>2

(***************************************************************************)
(* No step of a job or an import takes the node's state out of its types:  *)
(* no PoL nonce is ever below zero, and no fee either.                     *)
(***************************************************************************)
THEOREM TypeCorrect == Spec => [](TypeOK /\ ParentsKnown)
BY TypesInit, TypesStep, PTL DEF Spec

-----------------------------------------------------------------------------
(* The alignment of body, receipts, hook indices and trace *)

\* What the executor has done so far is the first n transactions of a body.
Prefix(body, n, ex) ==
  /\ Len(ex.trace) = n /\ Len(ex.receipts) = n /\ Len(ex.hooks) = n
  /\ \A i \in 1..n : /\ ex.trace[i] = body[i]
                     /\ ex.receipts[i].kind = body[i].kind
                     /\ ex.hooks[i] = i - 1

\* The body AssembleBlock makes of the transactions a job has accepted.
BodyOf(ctx, txs) ==
  IF IsPrague1Active(sched, ctx.timestamp)
    THEN <<CreatePolTransaction(ctx)>> \o txs ELSE txs

Unused(ex) == ex.trace = <<>> /\ ex.receipts = <<>> /\ ex.hooks = <<>>

JobInv ==
  job # None =>
    /\ job.stage = "fresh" => Unused(job.ex) /\ job.txs = <<>>
    /\ job.stage = "open" =>
         /\ PreExecutable(sched, job.ctx)
         /\ Prefix(BodyOf(job.ctx, job.txs), Len(BodyOf(job.ctx, job.txs)), job.ex)

\* How much of an import's body has been executed: the PoL transaction is
\* ahead of the loop, which passes over it when it gets there.
Executed ==
  IF IsPrague1Active(sched, imp.block.header.timestamp) /\ imp.next = 1
    THEN 1 ELSE imp.next - 1

(***************************************************************************)
(* Only for a body that passes the consensus checks does the executor keep *)
(* in step, and the checks may come last: so the invariant is conditional. *)
(***************************************************************************)
ImportInv ==
  imp # None =>
    /\ imp.next <= Len(imp.block.txs) + 1
    /\ imp.block.header.parent \in 0..Len(tree)
    /\ imp.checked =>
         /\ ValidBlockPreExecution(sched, imp.block)
         /\ ValidHeaderAgainstParent(sched, imp.block.header,
                                     HeaderAt(imp.block.header.parent))
    /\ imp.stage = "fresh" => Unused(imp.ex) /\ imp.next = 1
    /\ imp.stage = "executed" => imp.next = Len(imp.block.txs) + 1
    /\ imp.stage # "fresh" /\ ValidBlockPreExecution(sched, imp.block) =>
         Prefix(imp.block.txs, Executed, imp.ex)

PipelineInv == JobInv /\ ImportInv /\ ReceiptsAligned /\ SendersAligned

\* An unused executor has executed the first none of any body.
LEMMA PrefixUnused ==
  ASSUME NEW body, NEW ex, Unused(ex)
  PROVE  Prefix(body, 0, ex)
BY DEF Prefix, Unused

\* After the PoL call the executor is one transaction ahead.
LEMMA PrefixPol ==
  ASSUME NEW s, NEW ctx, NEW ex, NEW out, NEW body, Unused(ex),
         IsPrague1Active(s, ctx.timestamp), body[1] = CreatePolTransaction(ctx)
  PROVE  Prefix(body, 1, ApplyPreExecutionChanges(s, ctx, ex, out))
<1> DEFINE post == ApplyPreExecutionChanges(s, ctx, ex, out)
           pol  == CreatePolTransaction(ctx)
           r    == [kind |-> "PoL", success |-> out.success,
                    cumulativeGas |-> ex.gasUsed, log |-> out.log]
<1>1. pol.kind = "PoL" /\ r.kind = "PoL"
  BY DEF CreatePolTransaction
<1> HIDE DEF pol, r
<1>2. post = [ex EXCEPT !.receipts = Append(<<>>, r), !.trace = Append(<<>>, pol),
                        !.hooks = Append(<<>>, 0)]
  BY DEF ApplyPreExecutionChanges, Unused, pol, r
<1> QED
  BY <1>1, <1>2 DEF Prefix, pol

\* Committing the next user transaction of a body puts the executor one further
\* into it.
LEMMA PrefixCommit ==
  ASSUME NEW ex \in Executor, NEW body, NEW n \in Nat, Prefix(body, n, ex),
         body[n + 1] \in Transaction, body[n + 1].kind # "PoL"
  PROVE  Prefix(body, n + 1, CommitTransaction(ex, body[n + 1]))
<1> DEFINE tx == body[n + 1]
           g  == ex.gasUsed + TxGasUsed[tx.id]
           r  == [kind |-> "User", success |-> TRUE, cumulativeGas |-> g,
                  log |-> TxLog[tx.id]]
           post == CommitTransaction(ex, tx)
<1>1. tx.kind = "User" /\ r.kind = "User"
  BY DEF Transaction, PolTransaction, UserTransaction
<1> HIDE DEF r
<1>2. /\ post.trace = Append(ex.trace, tx)
      /\ post.receipts = Append(ex.receipts, r)
      /\ post.hooks = Append(ex.hooks, n)
  BY DEF CommitTransaction, Prefix, r
<1> HIDE DEF tx, post
<1>3. /\ ex.trace \in Seq(Transaction) /\ ex.receipts \in Seq(Receipt)
      /\ ex.hooks \in Seq(Nat)
      /\ Len(ex.trace) = n /\ Len(ex.receipts) = n /\ Len(ex.hooks) = n
  BY DEF Executor, Prefix
<1>4. /\ Len(post.trace) = n + 1 /\ Len(post.receipts) = n + 1 /\ Len(post.hooks) = n + 1
      /\ post.trace[n + 1] = tx /\ post.receipts[n + 1] = r /\ post.hooks[n + 1] = n
      /\ \A i \in 1..n : /\ post.trace[i] = ex.trace[i]
                         /\ post.receipts[i] = ex.receipts[i]
                         /\ post.hooks[i] = ex.hooks[i]
  BY <1>2, <1>3
<1>5. \A i \in 1..n : /\ post.trace[i] = body[i]
                     /\ post.receipts[i].kind = body[i].kind
                     /\ post.hooks[i] = i - 1
  BY <1>4 DEF Prefix
<1> QED
  BY <1>1, <1>4, <1>5 DEF Prefix, tx, post

\* A longer body has the same prefixes.
LEMMA PrefixExtend ==
  ASSUME NEW ex, NEW body, NEW longer, NEW n \in Nat, Prefix(body, n, ex),
         \A i \in 1..n : longer[i] = body[i]
  PROVE  Prefix(longer, n, ex)
BY DEF Prefix

\* An executor that is through the whole body is aligned with the block.
LEMMA PrefixAligned ==
  ASSUME NEW block \in Block, NEW ex \in Executor,
         Prefix(block.txs, Len(block.txs), ex)
  PROVE  Aligned(block, ex)
<1>1. block.txs \in Seq(Transaction) /\ ex.trace \in Seq(Transaction)
  BY DEF Block, Executor
<1>2. ex.trace = block.txs
  <2>1. /\ Len(ex.trace) = Len(block.txs)
        /\ \A i \in 1..Len(block.txs) : ex.trace[i] = block.txs[i]
    BY DEF Prefix
  <2> QED
    BY <1>1, <2>1
<1>3. DOMAIN block.txs = 1..Len(block.txs)
  BY <1>1
<1> QED
  BY <1>2, <1>3 DEF Prefix, Aligned

\* The body a job would be assembled into is a sequence of transactions.
LEMMA BodyType ==
  ASSUME NEW ctx \in Context, NEW txs \in Seq(UserTransaction), PreExecutable(sched, ctx)
  PROVE  BodyOf(ctx, txs) \in Seq(Transaction)
<1>1. txs \in Seq(Transaction)
  BY DEF Transaction
<1>2. CASE IsPrague1Active(sched, ctx.timestamp)
  <2>1. CreatePolTransaction(ctx) \in Transaction
    BY <1>2, PolType DEF PreExecutable, ValidProposerPubkey, Transaction
  <2> QED
    BY <1>1, <1>2, <2>1 DEF BodyOf
<1> QED
  BY <1>1, <1>2 DEF BodyOf

\* The import's invariant depends on the schedule, the tree and the import
\* only.
LEMMA ImportInvStable ==
  ASSUME ImportInv, UNCHANGED <<sched, tree, imp>>
  PROVE  ImportInv'
BY DEF ImportInv, Executed, HeaderAt

\* The job's invariant depends on the schedule and the job only.
LEMMA JobInvStable ==
  ASSUME JobInv, UNCHANGED <<sched, job>>
  PROVE  JobInv'
BY DEF JobInv, BodyOf

\* Putting an element in front of a sequence shifts the others by one.
LEMMA FrontSeq ==
  ASSUME NEW T, NEW x \in T, NEW q \in Seq(T)
  PROVE  /\ Len(<<x>> \o q) = Len(q) + 1
         /\ DOMAIN (<<x>> \o q) = 1..(Len(q) + 1)
         /\ (<<x>> \o q)[1] = x
         /\ \A i \in 2..(Len(q) + 1) : (<<x>> \o q)[i] = q[i - 1]
OBVIOUS

\* Putting an element in front and appending another commute.
LEMMA FrontAppend ==
  ASSUME NEW T, NEW x \in T, NEW y \in T, NEW q \in Seq(T)
  PROVE  <<x>> \o Append(q, y) = Append(<<x>> \o q, y)
<1> DEFINE a == <<x>> \o Append(q, y)
           b == Append(<<x>> \o q, y)
<1>1. a \in Seq(T) /\ b \in Seq(T) /\ Len(a) = Len(q) + 2 /\ Len(b) = Len(q) + 2
  OBVIOUS
<1>2. \A i \in 1..(Len(q) + 2) : a[i] = b[i]
  OBVIOUS
<1> HIDE DEF a, b
<1>3. a = b
  BY <1>1, <1>2
<1> QED
  BY <1>3 DEF a, b

\* What a finished job adds to the payloads.
LEMMA PayloadAligned ==
  ASSUME TypeOK, JobInv, job # None, job.stage = "open",
         Assemblable(sched, job.ctx, job.ex),
         NEW block, block = AssembleBlock(sched, job.ctx, job.ex, job.txs),
         NEW senders, senders = [i \in DOMAIN job.txs |-> Signer(job.txs[i])],
         SendersFixable(sched, block, senders),
         NEW fixed, fixed = FixPolSenders(sched, block, senders)
  PROVE  /\ Aligned(block, job.ex)
         /\ Len(fixed) = Len(block.txs)
         /\ \A i \in DOMAIN fixed : fixed[i] = Signer(block.txs[i])
<1>1. job.ctx \in Context /\ job.ex \in Executor /\ job.txs \in Seq(UserTransaction)
  BY DEF TypeOK
<1>2. block \in Block /\ block.txs = BodyOf(job.ctx, job.txs)
  BY <1>1, AssembleType DEF AssembleBlock, BodyOf
<1>3. Aligned(block, job.ex)
  BY <1>1, <1>2, PrefixAligned DEF JobInv
<1>4. /\ Len(job.txs) \in Nat
      /\ senders \in Seq({senders[i] : i \in DOMAIN senders})
      /\ Len(senders) = Len(job.txs)
      /\ \A i \in 1..Len(job.txs) : senders[i] = Signer(job.txs[i])
  BY <1>1
<1>5. CASE ~IsPrague1Active(sched, job.ctx.timestamp)
  BY <1>1, <1>2, <1>3, <1>4, <1>5 DEF FixPolSenders, AssembleBlock, BodyOf
<1>6. CASE IsPrague1Active(sched, job.ctx.timestamp)
  <2> DEFINE pol == CreatePolTransaction(job.ctx)
  <2>1. block.txs = <<pol>> \o job.txs
    BY <1>2, <1>6 DEF BodyOf
  <2>2. fixed = <<Signer(block.txs[1])>> \o senders
    BY <1>6 DEF FixPolSenders, AssembleBlock
  <2> HIDE DEF pol
  <2>3. /\ Len(block.txs) = Len(job.txs) + 1
        /\ block.txs[1] = pol
        /\ \A i \in 2..(Len(job.txs) + 1) : block.txs[i] = job.txs[i - 1]
    <3>1. job.txs \in Seq(UserTransaction \cup {pol})
      BY <1>1
    <3> QED
      BY <2>1, <3>1, FrontSeq
  <2>4. /\ Len(fixed) = Len(job.txs) + 1
        /\ DOMAIN fixed = 1..(Len(job.txs) + 1)
        /\ fixed[1] = Signer(block.txs[1])
        /\ \A i \in 2..(Len(job.txs) + 1) : fixed[i] = senders[i - 1]
    <3> DEFINE Senders == {senders[i] : i \in DOMAIN senders} \cup {Signer(block.txs[1])}
    <3>1. senders \in Seq(Senders) /\ Signer(block.txs[1]) \in Senders
      BY <1>4
    <3> HIDE DEF Senders
    <3> QED
      BY <1>4, <2>2, <3>1, FrontSeq
  <2>5. \A i \in DOMAIN fixed : fixed[i] = Signer(block.txs[i])
    <3> SUFFICES ASSUME NEW i \in 1..(Len(job.txs) + 1)
                 PROVE  fixed[i] = Signer(block.txs[i])
      BY <2>4
    <3>1. CASE i = 1
      BY <2>4, <3>1
    <3>2. CASE i # 1
      <4>1. i - 1 \in 1..Len(job.txs) /\ i \in 2..(Len(job.txs) + 1)
        BY <1>4, <3>2
      <4> QED
        BY <1>4, <2>3, <2>4, <4>1
    <3> QED
      BY <3>1, <3>2
  <2> QED
    BY <1>3, <2>3, <2>4, <2>5
<1> QED
  BY <1>5, <1>6

\* Every step of the payload job keeps the pipeline invariant.
LEMMA BuilderPipeline ==
  ASSUME TypeOK, PipelineInv,
         StartJob \/ JobPreExecution \/ JobTransaction \/ JobFinish \/ JobAbort
  PROVE  PipelineInv'
<1>1. UNCHANGED <<sched, tree, imp>>
  BY DEF StartJob, JobPreExecution, JobTransaction, JobFinish, JobAbort
<1>2. ImportInv'
  BY <1>1, ImportInvStable DEF PipelineInv
<1>3. CASE StartJob
  <2>1. JobInv'
    BY <1>3 DEF StartJob, JobInv, NewExecutor, Unused
  <2>2. payloads' = payloads
    BY <1>3 DEF StartJob
  <2> QED
    BY <1>1, <1>2, <2>1, <2>2 DEF PipelineInv, ReceiptsAligned, SendersAligned
<1>4. CASE JobPreExecution
  <2>1. job # None /\ job.stage = "fresh" /\ payloads' = payloads
    BY <1>4 DEF JobPreExecution
  <2>2. Unused(job.ex) /\ job.txs = <<>>
    BY <2>1 DEF PipelineInv, JobInv
  <2>3. JobInv'
    <3>1. CASE ~PreExecutable(sched, job.ctx)
      BY <1>4, <3>1 DEF JobPreExecution, JobInv
    <3>2. CASE PreExecutable(sched, job.ctx)
      <4> DEFINE post == ApplyPreExecutionChanges(sched, job.ctx, job.ex, outcome)
                 body == BodyOf(job.ctx, <<>>)
      <4>1. /\ job'.stage = "open" /\ job'.ctx = job.ctx /\ job'.txs = <<>>
            /\ job'.ex = post
        BY <1>4, <2>1, <2>2, <3>2 DEF JobPreExecution, TypeOK
      <4>2. Prefix(body, Len(body), post)
        <5>1. CASE IsPrague1Active(sched, job.ctx.timestamp)
          <6>1. body = <<CreatePolTransaction(job.ctx)>>
            BY <5>1 DEF BodyOf
          <6> QED
            BY <2>2, <5>1, <6>1, PrefixPol
        <5>2. CASE ~IsPrague1Active(sched, job.ctx.timestamp)
          BY <2>2, <5>2, PrefixUnused DEF BodyOf, ApplyPreExecutionChanges
        <5> QED
          BY <5>1, <5>2
      <4>3. PreExecutable(sched, job.ctx)' /\ BodyOf(job.ctx, job.txs)' = body
        BY <1>1, <3>2, <4>1 DEF PreExecutable, BodyOf
      <4> QED
        BY <4>1, <4>2, <4>3 DEF JobInv, Prefix
    <3> QED
      BY <3>1, <3>2
  <2> QED
    BY <1>1, <1>2, <2>1, <2>3 DEF PipelineInv, ReceiptsAligned, SendersAligned
<1>5. CASE JobTransaction
  <2>1. PICK u \in UserTx :
          job' = [job EXCEPT !.ex = CommitTransaction(@, [kind |-> "User", id |-> u]),
                             !.txs = Append(@, [kind |-> "User", id |-> u])]
    BY <1>5 DEF JobTransaction
  <2>2. job # None /\ job.stage = "open" /\ payloads' = payloads
    BY <1>5 DEF JobTransaction
  <2> DEFINE tx   == [kind |-> "User", id |-> u]
             body == BodyOf(job.ctx, job.txs)
             n    == Len(body)
             longer == BodyOf(job.ctx, Append(job.txs, tx))
  <2>3. /\ job.ctx \in Context /\ job.ex \in Executor
        /\ job.txs \in Seq(UserTransaction)
    BY <2>2 DEF TypeOK
  <2>4. tx \in Transaction /\ tx \in UserTransaction /\ tx.kind # "PoL"
    BY DEF Transaction, UserTransaction
  <2>5. PreExecutable(sched, job.ctx) /\ Prefix(body, n, job.ex)
    BY <2>2 DEF PipelineInv, JobInv
  <2>6. /\ job'.stage = "open" /\ job'.ctx = job.ctx /\ job'.txs = Append(job.txs, tx)
        /\ job'.ex = CommitTransaction(job.ex, tx)
    BY <2>1, <2>2 DEF TypeOK
  <2> HIDE DEF tx
  <2>7. longer = Append(body, tx) /\ n \in Nat /\ body \in Seq(Transaction)
    <3>1. body \in Seq(Transaction)
      BY <2>3, <2>5, BodyType
    <3>2. job.txs \in Seq(Transaction)
      BY <2>3 DEF Transaction
    <3>3. CASE IsPrague1Active(sched, job.ctx.timestamp)
      <4>1. CreatePolTransaction(job.ctx) \in Transaction
        BY <2>3, <2>5, <3>3, PolType DEF PreExecutable, ValidProposerPubkey, Transaction
      <4>2. <<CreatePolTransaction(job.ctx)>> \o Append(job.txs, tx)
              = Append(<<CreatePolTransaction(job.ctx)>> \o job.txs, tx)
        BY <2>4, <3>2, <4>1, FrontAppend
      <4> QED
        BY <3>1, <3>3, <4>2 DEF BodyOf
    <3> QED
      BY <3>1, <3>3 DEF BodyOf
  <2>8. Len(longer) = n + 1 /\ longer[n + 1] = tx /\ \A i \in 1..n : longer[i] = body[i]
    <3> HIDE DEF body, longer
    <3> QED
      BY <2>4, <2>7
  <2>9. Prefix(longer, Len(longer), CommitTransaction(job.ex, tx))
    <3>1. Prefix(longer, n, job.ex)
      BY <2>5, <2>7, <2>8, PrefixExtend
    <3> HIDE DEF longer, n
    <3> QED
      BY <2>3, <2>4, <2>7, <2>8, <3>1, PrefixCommit
  <2>10. PreExecutable(sched, job.ctx)' /\ BodyOf(job.ctx, job.txs)' = longer
    BY <1>1, <2>5, <2>6 DEF PreExecutable, BodyOf
  <2>11. JobInv'
    BY <2>6, <2>9, <2>10 DEF JobInv, Prefix
  <2> QED
    BY <1>1, <1>2, <2>2, <2>11 DEF PipelineInv, ReceiptsAligned, SendersAligned
<1>6. CASE JobFinish
  <2> DEFINE block   == AssembleBlock(sched, job.ctx, job.ex, job.txs)
             senders == [i \in DOMAIN job.txs |-> Signer(job.txs[i])]
             fixed   == FixPolSenders(sched, block, senders)
             payload == [block |-> block, executed |-> job.ex, senders |-> fixed]
  <2>1. job # None /\ job.stage = "open" /\ job' = None
    BY <1>6 DEF JobFinish
  <2>2. JobInv'
    BY <2>1 DEF JobInv
  <2>3. CASE /\ Assemblable(sched, job.ctx, job.ex)
             /\ SendersFixable(sched, block, senders)
             /\ payloads' = payloads \cup {payload}
    <3>1. /\ Aligned(block, job.ex)
          /\ Len(fixed) = Len(block.txs)
          /\ \A i \in DOMAIN fixed : fixed[i] = Signer(block.txs[i])
      <4> HIDE DEF block, senders, fixed
      <4> QED
        BY <2>1, <2>3, PayloadAligned DEF PipelineInv, block, senders, fixed
    <3> HIDE DEF block, fixed
    <3>2. payload.block = block /\ payload.executed = job.ex /\ payload.senders = fixed
      OBVIOUS
    <3> HIDE DEF payload
    <3> QED
      BY <1>1, <1>2, <2>2, <2>3, <3>1, <3>2
      DEF PipelineInv, ReceiptsAligned, SendersAligned
  <2>4. CASE payloads' = payloads
    BY <1>1, <1>2, <2>2, <2>4 DEF PipelineInv, ReceiptsAligned, SendersAligned
  <2> QED
    BY <1>6, <2>3, <2>4 DEF JobFinish
<1>7. CASE JobAbort
  BY <1>1, <1>2, <1>7 DEF JobAbort, JobInv, PipelineInv, ReceiptsAligned, SendersAligned
<1> QED
  BY <1>3, <1>4, <1>5, <1>6, <1>7

\* The part of PipelineInv an import can disturb before it concludes.
LEMMA ImportOnly ==
  ASSUME PipelineInv, ImportInv', UNCHANGED <<sched, tree, job, payloads>>
  PROVE  PipelineInv'
BY JobInvStable DEF PipelineInv, ReceiptsAligned, SendersAligned

\* A new import has executed nothing, which the pipeline invariant allows.
LEMMA ImportStartPipeline ==
  ASSUME TypeOK, PipelineInv, NEW block \in Block,
         block.header.parent \in 0..Len(tree), Import(block)
  PROVE  PipelineInv'
<1>1. UNCHANGED <<sched, tree, job, payloads>>
  BY DEF Import
<1>2. Unused(NewExecutor(SpentAt(block.header.parent)))
  BY DEF Unused, NewExecutor
<1>3. Len(block.txs) \in Nat
  BY DEF Block
<1>4. ImportInv'
  BY <1>1, <1>2, <1>3 DEF Import, ImportInv
<1> QED
  BY <1>1, <1>4, ImportOnly

\* The pre-execution changes of an import keep the pipeline invariant.
LEMMA PreExecutionPipeline ==
  ASSUME TypeOK, PipelineInv, ImportPreExecution
  PROVE  PipelineInv'
<1>1. /\ imp # None /\ imp.stage = "fresh"
      /\ UNCHANGED <<sched, outcome, tree, job, payloads>>
  BY DEF ImportPreExecution
<1>2. CASE imp' = None
  BY <1>1, <1>2, ImportOnly DEF ImportInv
<1>3. CASE PreExecutable(sched, ImportContext)
  <2> DEFINE post == ApplyPreExecutionChanges(sched, ImportContext, imp.ex, outcome)
             b == imp.block
             p == IsPrague1Active(sched, b.header.timestamp)
  <2>1. imp' = [imp EXCEPT !.stage = "executing", !.ex = post]
    BY <1>3 DEF ImportPreExecution, Continue
  <2>2. /\ imp'.stage = "executing" /\ imp'.ex = post /\ imp'.block = b
        /\ imp'.checked = imp.checked /\ imp'.next = imp.next
    BY <1>1, <2>1 DEF TypeOK
  <2>3. Unused(imp.ex) /\ imp.next = 1
    BY <1>1 DEF PipelineInv, ImportInv
  <2>4. ImportContext = ContextOf(b.header) /\ ImportContext.timestamp = b.header.timestamp
    BY DEF ImportContext, ContextOf
  <2>5. ValidBlockPreExecution(sched, b) => Prefix(b.txs, IF p THEN 1 ELSE 0, post)
    <3>1. CASE p
      BY <2>3, <2>4, <3>1, PrefixPol DEF ValidBlockPreExecution
    <3>2. CASE ~p
      BY <2>3, <2>4, <3>2, PrefixUnused DEF ApplyPreExecutionChanges
    <3> QED
      BY <3>1, <3>2
  <2> HIDE DEF post
  <2>6. Executed' = IF p THEN 1 ELSE 0
    BY <1>1, <2>2, <2>3 DEF Executed
  <2>7. ImportInv'
    BY <1>1, <2>2, <2>5, <2>6 DEF PipelineInv, ImportInv, HeaderAt
  <2> QED
    BY <1>1, <2>7, ImportOnly
<1> QED
  BY <1>2, <1>3 DEF ImportPreExecution, GiveUp

\* Each transaction of an imported body keeps the pipeline invariant, PoL
\* transactions included.
LEMMA TransactionPipeline ==
  ASSUME TypeOK, PipelineInv, ImportTransaction
  PROVE  PipelineInv'
<1>1. /\ imp # None /\ imp.stage = "executing" /\ imp.next <= Len(imp.block.txs)
      /\ UNCHANGED <<sched, outcome, tree, job, payloads>>
  BY DEF ImportTransaction
<1>2. CASE imp' = None
  BY <1>1, <1>2, ImportOnly DEF ImportInv
<1>3. CASE imp' # None
  <2> DEFINE b  == imp.block
             tx == b.txs[imp.next]
             post == CommitTransaction(imp.ex, tx)
  <2>1. imp' = [imp EXCEPT !.ex = post, !.next = @ + 1]
    BY <1>3 DEF ImportTransaction, Continue, Refuse
  <2>2. /\ imp'.stage = "executing" /\ imp'.ex = post /\ imp'.block = b
        /\ imp'.checked = imp.checked /\ imp'.next = imp.next + 1
    BY <1>1, <2>1 DEF TypeOK
  <2>3. /\ imp.next \in 1..Len(b.txs) /\ Len(b.txs) \in Nat
        /\ tx \in Transaction /\ imp.ex \in Executor
    BY <1>1 DEF TypeOK, Block
  <2>4. ASSUME ValidBlockPreExecution(sched, b)
        PROVE  Prefix(b.txs, imp.next, post)
    <3>1. Prefix(b.txs, Executed, imp.ex)
      BY <1>1, <2>4 DEF PipelineInv, ImportInv
    <3>2. CASE tx.kind = "PoL"
      <4>1. IsPrague1Active(sched, b.header.timestamp) /\ imp.next = 1
        BY <2>3, <2>4, <3>2 DEF ValidBlockPreExecution
      <4> QED
        BY <3>1, <3>2, <4>1 DEF Executed, CommitTransaction
    <3>3. CASE tx.kind # "PoL"
      <4>1. Executed = imp.next - 1
        <5>1. IsPrague1Active(sched, b.header.timestamp) => imp.next # 1
          BY <2>4, <3>3 DEF ValidBlockPreExecution, CreatePolTransaction
        <5> QED
          BY <5>1 DEF Executed
      <4> DEFINE n == imp.next - 1
      <4>2. n \in Nat /\ n + 1 = imp.next /\ tx = b.txs[n + 1]
        BY <2>3
      <4>3. Prefix(b.txs, n, imp.ex)
        BY <3>1, <4>1
      <4> HIDE DEF n
      <4>4. Prefix(b.txs, n + 1, CommitTransaction(imp.ex, b.txs[n + 1]))
        BY <2>3, <3>3, <4>2, <4>3, PrefixCommit
      <4> QED
        BY <4>2, <4>4
    <3> QED
      BY <3>2, <3>3
  <2> HIDE DEF post
  <2>5. Executed' = imp.next
    BY <1>1, <2>2, <2>3 DEF Executed
  <2>6. ImportInv'
    <3>1. ImportInv
      BY DEF PipelineInv
    <3>2. imp.next + 1 <= Len(b.txs) + 1
      BY <2>3
    <3> QED
      BY <1>1, <2>2, <2>4, <2>5, <3>1, <3>2 DEF ImportInv, HeaderAt
  <2> QED
    BY <1>1, <2>6, ImportOnly
<1> QED
  BY <1>2, <1>3

\* Every step of an import keeps the pipeline invariant.
LEMMA ImporterPipeline ==
  ASSUME TypeOK, ParentsKnown, PipelineInv,
         \/ ImportOwn \/ ImportPeer \/ ConsensusChecks \/ ImportPreExecution
         \/ ImportTransaction \/ ImportFinish \/ ImportConclude \/ ImportAbort
  PROVE  PipelineInv'
<1>1. CASE ImportOwn
  <2>1. PICK p \in payloads : Import(p.block)
    BY <1>1 DEF ImportOwn
  <2>2. p.block \in Block /\ p.block.header.parent \in 0..Len(tree)
    BY DEF TypeOK, ParentsKnown
  <2> QED
    BY <2>1, <2>2, ImportStartPipeline
<1>2. CASE ImportPeer
  <2>1. PICK block \in Block : block.header.parent \in 0..Len(tree) /\ Import(block)
    BY <1>2 DEF ImportPeer
  <2> QED
    BY <2>1, ImportStartPipeline
<1>3. CASE ConsensusChecks
  <2>1. imp # None /\ UNCHANGED <<sched, tree, job, payloads>>
    BY <1>3 DEF ConsensusChecks
  <2>2. CASE imp' = None
    BY <2>1, <2>2, ImportOnly DEF ImportInv
  <2>3. CASE imp' # None
    <3>1. /\ ValidBlockPreExecution(sched, imp.block)
          /\ ValidHeaderAgainstParent(sched, imp.block.header,
                                      HeaderAt(imp.block.header.parent))
          /\ imp' = [imp EXCEPT !.checked = TRUE]
      BY <1>3, <2>3 DEF ConsensusChecks, Continue, Refuse
    <3>2. /\ imp'.block = imp.block /\ imp'.stage = imp.stage /\ imp'.next = imp.next
          /\ imp'.ex = imp.ex
      BY <2>1, <3>1 DEF TypeOK
    <3>3. ImportInv'
      BY <2>1, <3>1, <3>2 DEF PipelineInv, ImportInv, Executed, HeaderAt
    <3> QED
      BY <2>1, <3>3, ImportOnly
  <2> QED
    BY <2>2, <2>3
<1>4. CASE ImportPreExecution
  BY <1>4, PreExecutionPipeline
<1>5. CASE ImportTransaction
  BY <1>5, TransactionPipeline
<1>6. CASE ImportFinish
  <2>1. /\ imp # None /\ imp.stage = "executing" /\ imp.next > Len(imp.block.txs)
        /\ UNCHANGED <<sched, tree, job, payloads>>
    BY <1>6 DEF ImportFinish
  <2>2. CASE imp' = None
    BY <2>1, <2>2, ImportOnly DEF ImportInv
  <2>3. CASE imp' = [imp EXCEPT !.stage = "executed"]
    <3>1. /\ imp'.block = imp.block /\ imp'.stage = "executed" /\ imp'.next = imp.next
          /\ imp'.ex = imp.ex /\ imp'.checked = imp.checked
      BY <2>1, <2>3 DEF TypeOK
    <3>2. imp.next = Len(imp.block.txs) + 1
      BY <2>1 DEF PipelineInv, ImportInv, TypeOK, Block
    <3>3. ImportInv'
      BY <2>1, <3>1, <3>2 DEF PipelineInv, ImportInv, Executed, HeaderAt
    <3> QED
      BY <2>1, <3>3, ImportOnly
  <2> QED
    BY <1>6, <2>2, <2>3 DEF ImportFinish, Continue, Refuse
<1>7. CASE ImportConclude
  <2>1. /\ imp # None /\ imp.stage = "executed" /\ imp.checked
        /\ UNCHANGED <<sched, job, payloads>> /\ imp' = None
    BY <1>7 DEF ImportConclude, Refuse
  <2>2. JobInv' /\ ImportInv' /\ SendersAligned'
    BY <2>1, JobInvStable DEF PipelineInv, ImportInv, SendersAligned
  <2> DEFINE entry == [block |-> imp.block, executed |-> imp.ex]
             Entry == [block: Block, executed: Executor]
  <2>3. CASE tree' = tree
    BY <2>1, <2>2, <2>3 DEF PipelineInv, ReceiptsAligned
  <2>4. CASE tree' = Append(tree, entry)
    <3>1. Aligned(imp.block, imp.ex)
      <4>1. imp.block \in Block /\ imp.ex \in Executor /\ Len(imp.block.txs) \in Nat
        BY <2>1 DEF TypeOK, Block
      <4>2. /\ imp.next = Len(imp.block.txs) + 1
            /\ ValidBlockPreExecution(sched, imp.block)
            /\ Prefix(imp.block.txs, Executed, imp.ex)
        BY <2>1 DEF PipelineInv, ImportInv
      <4>3. IsPrague1Active(sched, imp.block.header.timestamp) => Len(imp.block.txs) # 0
        BY <4>1, <4>2 DEF ValidBlockPreExecution, Block
      <4>4. Executed = Len(imp.block.txs)
        BY <4>1, <4>2, <4>3 DEF Executed
      <4> QED
        BY <4>1, <4>2, <4>4, PrefixAligned
    <3>2. entry \in Entry /\ tree \in Seq(Entry)
      BY <2>1 DEF TypeOK
    <3>3. entry.block = imp.block /\ entry.executed = imp.ex
      OBVIOUS
    <3> HIDE DEF entry, Entry
    <3>4. \A i \in DOMAIN tree' : tree'[i] = entry \/ (i \in DOMAIN tree /\ tree'[i] = tree[i])
      BY <2>4, <3>2
    <3> QED
      BY <2>1, <2>2, <3>1, <3>3, <3>4 DEF PipelineInv, ReceiptsAligned
  <2> QED
    BY <1>7, <2>3, <2>4 DEF ImportConclude
<1>8. CASE ImportAbort
  BY <1>8, ImportOnly DEF ImportAbort, GiveUp, ImportInv
<1> QED
  BY <1>1, <1>2, <1>3, <1>4, <1>5, <1>6, <1>7, <1>8

\* The pipeline invariant holds of a node at genesis.
LEMMA PipelineInit == Init => PipelineInv
BY DEF Init, PipelineInv, JobInv, ImportInv, ReceiptsAligned, SendersAligned

\* Every step of the node keeps the pipeline invariant.
LEMMA PipelineStep ==
  ASSUME TypeOK, ParentsKnown, PipelineInv, [Next]_vars
  PROVE  PipelineInv'
<1>1. CASE Next
  BY <1>1, BuilderPipeline, ImporterPipeline DEF Next
<1>2. CASE UNCHANGED vars
  BY <1>2, ImportInvStable, JobInvStable
  DEF vars, PipelineInv, ReceiptsAligned, SendersAligned
<1> QED
  BY <1>1, <1>2

\* The pipeline invariant: stored blocks, payloads, and the executions of job
\* and import under way are aligned with the transactions they stand for.
THEOREM PipelineCorrect == Spec => []PipelineInv
<1>1. TypeOK /\ ParentsKnown /\ PipelineInv /\ [Next]_vars => PipelineInv'
  BY PipelineStep
<1> QED
  BY <1>1, PipelineInit, TypeCorrect, PTL DEF Spec

(***************************************************************************)
(* Body, receipts, hook indices and trace of every validated block and     *)
(* every payload line up, though the executor runs the PoL call outside    *)
(* its loop, the assembler inserts the transaction and imports may execute *)
(* bodies no check has seen.                                               *)
(***************************************************************************)
THEOREM ReceiptsAlwaysAligned == Spec => []ReceiptsAligned
BY PipelineCorrect, PTL DEF PipelineInv

\* fix_pol_senders gives every payload the senders of its transactions.
THEOREM SendersAlwaysAligned == Spec => []SendersAligned
BY PipelineCorrect, PTL DEF PipelineInv

-----------------------------------------------------------------------------
(* What the checks leave in the tree *)

(***************************************************************************)
(* A block of the tree has passed validate_header and the checks after     *)
(* execution; an import marked as checked has passed the former.           *)
(***************************************************************************)
CheckedInv ==
  /\ imp # None => (imp.checked => ValidHeader(sched, imp.block.header))
  /\ \A i \in DOMAIN tree :
       /\ ValidHeader(sched, tree[i].block.header)
       /\ ValidBlockPostExecution(sched, tree[i].block, tree[i].executed)

\* A step that leaves the tree alone needs a look at the import only.
LEMMA TreeKept ==
  ASSUME CheckedInv, UNCHANGED <<sched, tree>>,
         imp' # None => (imp'.checked => ValidHeader(sched, imp'.block.header))
  PROVE  CheckedInv'
BY DEF CheckedInv

\* Each step of an import keeps CheckedInv.
LEMMA ImportChecked ==
  ASSUME TypeOK, CheckedInv,
         \/ ImportOwn \/ ImportPeer \/ ConsensusChecks \/ ImportPreExecution
         \/ ImportTransaction \/ ImportFinish \/ ImportConclude \/ ImportAbort
  PROVE  CheckedInv'
<1>1. CASE ImportOwn \/ ImportPeer
  <2>1. PICK block : Import(block)
    BY <1>1 DEF ImportOwn, ImportPeer
  <2>2. UNCHANGED <<sched, tree>> /\ imp'.checked = FALSE
    BY <2>1 DEF Import
  <2> QED
    BY <2>2, TreeKept
<1>2. CASE ConsensusChecks
  <2>1. imp # None /\ UNCHANGED <<sched, tree>>
    BY <1>2 DEF ConsensusChecks
  <2>2. imp' # None => ValidHeader(sched, imp.block.header) /\ imp' = [imp EXCEPT !.checked = TRUE]
    BY <1>2 DEF ConsensusChecks, Continue, Refuse
  <2>3. imp' # None => imp'.block = imp.block
    BY <2>1, <2>2 DEF TypeOK
  <2> QED
    BY <2>1, <2>2, <2>3, TreeKept
<1>3. CASE ImportPreExecution \/ ImportTransaction \/ ImportFinish
  <2>1. imp # None /\ UNCHANGED <<sched, tree>>
    BY <1>3 DEF ImportPreExecution, ImportTransaction, ImportFinish
  <2>2. imp' = None \/ (imp'.block = imp.block /\ imp'.checked = imp.checked)
    BY <1>3, <2>1 DEF ImportPreExecution, ImportTransaction, ImportFinish, Continue, Refuse,
                      GiveUp, TypeOK
  <2> QED
    BY <2>1, <2>2, TreeKept DEF CheckedInv
<1>4. CASE ImportConclude
  <2> DEFINE entry == [block |-> imp.block, executed |-> imp.ex]
             Entry == [block: Block, executed: Executor]
  <2>1. imp # None /\ imp.checked /\ UNCHANGED sched /\ imp' = None
    BY <1>4 DEF ImportConclude, Refuse
  <2>2. CASE tree' = tree
    BY <2>1, <2>2, TreeKept
  <2>3. CASE tree' # tree
    <3>1. ValidBlockPostExecution(sched, imp.block, imp.ex) /\ tree' = Append(tree, entry)
      BY <1>4, <2>3 DEF ImportConclude
    <3>2. ValidHeader(sched, imp.block.header)
      BY <2>1 DEF CheckedInv
    <3>3. entry \in Entry /\ tree \in Seq(Entry)
      BY <2>1 DEF TypeOK
    <3>4. entry.block = imp.block /\ entry.executed = imp.ex
      OBVIOUS
    <3> HIDE DEF entry, Entry
    <3>5. \A i \in DOMAIN tree' : tree'[i] = entry \/ (i \in DOMAIN tree /\ tree'[i] = tree[i])
      BY <3>1, <3>3
    <3> QED
      BY <2>1, <3>1, <3>2, <3>4, <3>5 DEF CheckedInv
  <2> QED
    BY <2>2, <2>3
<1>5. CASE ImportAbort
  BY <1>5, TreeKept DEF ImportAbort, GiveUp
<1> QED
  BY <1>1, <1>2, <1>3, <1>4, <1>5

\* CheckedInv is inductive over type correctness.
LEMMA CheckedStep ==
  ASSUME TypeOK, CheckedInv, [Next]_vars
  PROVE  CheckedInv'
<1>1. CASE StartJob \/ JobPreExecution \/ JobTransaction \/ JobFinish \/ JobAbort
  <2>1. UNCHANGED <<sched, tree, imp>>
    BY <1>1 DEF StartJob, JobPreExecution, JobTransaction, JobFinish, JobAbort
  <2> QED
    BY <2>1, TreeKept DEF CheckedInv
<1>2. CASE UNCHANGED vars
  BY <1>2, TreeKept DEF vars, CheckedInv
<1> QED
  BY <1>1, <1>2, ImportChecked DEF Next

\* Whatever the order of checks and execution, the tree holds checked blocks.
LEMMA CheckedCorrect == Spec => []CheckedInv
<1>1. Init => CheckedInv
  BY DEF Init, CheckedInv
<1>2. TypeOK /\ CheckedInv /\ [Next]_vars => CheckedInv'
  BY CheckedStep
<1> QED
  BY <1>1, <1>2, TypeCorrect, PTL DEF Spec

(***************************************************************************)
(* No block of the tree records a restricted log in the Prague3 window,    *)
(* not even that of its distribution.                                      *)
(***************************************************************************)
THEOREM Prague3AlwaysEnforced == Spec => []Prague3Enforced
<1>1. CheckedInv => Prague3Enforced
  BY DEF CheckedInv, ValidBlockPostExecution, Prague3Enforced
<1> QED
  BY <1>1, CheckedCorrect, PTL

(***************************************************************************)
(* The requests of a validated block are its deposits, from Osaka on, and  *)
(* none before; validate_header alone decides whether there is a hash.     *)
(***************************************************************************)
THEOREM DepositsCountedOnce == Spec => []DepositsRequestedOnce
<1>1. TypeOK /\ CheckedInv => DepositsRequestedOnce
  <2> SUFFICES ASSUME CheckedInv, NEW i \in DOMAIN tree
               PROVE  LET h  == tree[i].block.header
                          rs == tree[i].executed.receipts
                      IN  /\ (h.requests = None) <=> ~IsPragueActive(sched, h.timestamp)
                          /\ h.requests # None =>
                               \A j \in DOMAIN rs :
                                 (j \in h.requests.deposits
                                    <=> rs[j].log = "deposit" /\ IsOsakaActive(sched, h.timestamp))
    BY DEF DepositsRequestedOnce
  <2> DEFINE h == tree[i].block.header
  <2>1. /\ (h.requests # None) <=> IsPragueActive(sched, h.timestamp)
        /\ h.requests = Requests(sched, ContextOf(h), tree[i].executed)
    BY DEF CheckedInv, ValidHeader, ValidBlockPostExecution
  <2>2. ContextOf(h).timestamp = h.timestamp
    BY DEF ContextOf
  <2> QED
    BY <2>1, <2>2 DEF Requests
<1> QED
  BY <1>1, CheckedCorrect, TypeCorrect, PTL

-----------------------------------------------------------------------------
(* The pipeline implements PolChain *)

\* Appending, be it an element of another set, keeps the elements there are.
LEMMA AppendKeeps ==
  ASSUME NEW S, NEW q \in Seq(S), NEW e, NEW i \in 1..Len(q)
  PROVE  Append(q, e)[i] = q[i]
<1> DEFINE T == S \cup {e}
<1>1. q \in Seq(T) /\ e \in T
  OBVIOUS
<1> HIDE DEF T
<1> QED
  BY <1>1

\* Blocks never leave the tree, so what a parent's header says stays true.
LEMMA HeaderStable ==
  ASSUME TypeOK, NEW i \in 0..Len(tree),
         tree' = tree \/ \E e : tree' = Append(tree, e)
  PROVE  HeaderAt(i)' = HeaderAt(i)
<1>1. CASE tree' = tree
  BY <1>1 DEF HeaderAt, GenesisHeader
<1>2. ASSUME NEW e, tree' = Append(tree, e)
      PROVE  HeaderAt(i)' = HeaderAt(i)
  <2> DEFINE Entry == [block: Block, executed: Executor]
  <2>1. tree \in Seq(Entry)
    BY DEF TypeOK
  <2> HIDE DEF Entry
  <2>2. i # 0 => tree'[i] = tree[i]
    BY <1>2, <2>1, AppendKeeps
  <2> QED
    BY <2>2 DEF HeaderAt, GenesisHeader
<1> QED
  BY <1>1, <1>2

\* The block being built comes after its parent.
JobExtends ==
  job # None =>
    /\ job.ctx.number = HeaderAt(job.ctx.parent).number + 1
    /\ job.ctx.timestamp > HeaderAt(job.ctx.parent).timestamp

\* Every step keeps the block being built one above and later than its parent.
LEMMA JobExtendsStep ==
  ASSUME TypeOK, ParentsKnown, JobExtends, [Next]_vars
  PROVE  JobExtends'
<1>1. CASE StartJob
  <2>1. PICK parent \in 0..Len(tree), t \in Times, pubkey \in Pubkey \cup {None} :
          /\ t > HeaderAt(parent).timestamp
          /\ job' = [stage |-> "fresh", ctx |-> NextBlockContext(parent, t, pubkey),
                     ex |-> NewExecutor(SpentAt(parent)), txs |-> <<>>]
    BY <1>1 DEF StartJob
  <2>2. HeaderAt(parent)' = HeaderAt(parent)
    BY <1>1, HeaderStable DEF StartJob
  <2>3. job'.ctx.parent = parent /\ job'.ctx.number = HeaderAt(parent).number + 1
        /\ job'.ctx.timestamp = t
    BY <2>1 DEF NextBlockContext
  <2>4. HeaderAt(job.ctx.parent)' = HeaderAt(parent)
    BY <2>2, <2>3 DEF HeaderAt
  <2> QED
    BY <2>1, <2>3, <2>4 DEF JobExtends
<1>2. CASE ~StartJob
  <2>1. job' = None \/ (job # None /\ job'.ctx = job.ctx)
    <3>1. CASE JobPreExecution
      BY <3>1 DEF JobPreExecution, TypeOK
    <3>2. CASE JobTransaction
      BY <3>2 DEF JobTransaction, TypeOK
    <3>3. CASE job' = job \/ job' = None
      BY <3>3
    <3> QED
      BY <1>2, <3>1, <3>2, <3>3 DEF Next, vars, JobFinish, JobAbort, ImportOwn,
         ImportPeer, Import, ConsensusChecks, ImportPreExecution, ImportTransaction,
         ImportFinish, ImportConclude, ImportAbort
  <2>2. tree' = tree \/ \E e : tree' = Append(tree, e)
    BY <1>2 DEF Next, vars, JobPreExecution, JobTransaction, JobFinish, JobAbort,
       ImportOwn, ImportPeer, Import, ConsensusChecks, ImportPreExecution,
       ImportTransaction, ImportFinish, ImportConclude, ImportAbort
  <2>3. CASE job' = None
    BY <2>3 DEF JobExtends
  <2>4. CASE job # None /\ job'.ctx = job.ctx
    <3>1. HeaderAt(job.ctx.parent)' = HeaderAt(job.ctx.parent)
      <4>1. PICK i \in 0..Len(tree) : job.ctx.parent = i /\ job'.ctx.parent = i
        BY <2>4 DEF ParentsKnown
      <4>2. HeaderAt(i)' = HeaderAt(i)
        BY <2>2, <4>1, HeaderStable
      <4> QED
        BY <4>1, <4>2 DEF HeaderAt
    <3> QED
      BY <2>4, <3>1 DEF JobExtends
  <2> QED
    BY <2>1, <2>3, <2>4
<1> QED
  BY <1>1, <1>2

\* Prague1 is active exactly from the activation time PolChain is given.
LEMMA Prague1Time ==
  ASSUME TypeOK, NEW t
  PROVE  IsPrague1Active(sched, t) <=> sched["Prague1"] <= t
BY LifecycleAssumption
DEF LifecycleAssumption, TypeOK, OrderedSchedule, IsPrague1Active, ActiveAt

\* A body the assembler made passes the check the importer makes.
LEMMA OwnBodyValid ==
  ASSUME NEW ctx \in Context, NEW ex \in Executor, NEW txs \in Seq(UserTransaction),
         Assemblable(sched, ctx, ex)
  PROVE  ValidBlockPreExecution(sched, AssembleBlock(sched, ctx, ex, txs))
<1> DEFINE block == AssembleBlock(sched, ctx, ex, txs)
           pol   == CreatePolTransaction(ctx)
<1>1. /\ block.header.timestamp = ctx.timestamp /\ block.header.number = ctx.number
      /\ block.header.pubkey = ctx.pubkey /\ block.header.baseFee = ctx.baseFee
  BY DEF AssembleBlock
<1>2. CreatePolTransaction(ContextOf(block.header)) = pol
  BY <1>1 DEF CreatePolTransaction, ContextOf
<1>3. \A i \in DOMAIN txs : txs[i].kind # "PoL"
  <2>1. \A i \in DOMAIN txs : txs[i] \in UserTransaction
    OBVIOUS
  <2> QED
    BY <2>1 DEF UserTransaction
<1>4. CASE ~IsPrague1Active(sched, ctx.timestamp)
  <2>1. block.txs = txs
    BY <1>4 DEF AssembleBlock
  <2> HIDE DEF block
  <2>2. ValidBlockPreExecution(sched, block)
    BY <1>1, <1>3, <1>4, <2>1 DEF ValidBlockPreExecution
  <2> QED
    BY <2>2 DEF block
<1>5. CASE IsPrague1Active(sched, ctx.timestamp)
  <2>1. block.txs = <<pol>> \o txs
    BY <1>5 DEF AssembleBlock
  <2>2. ctx.pubkey # None /\ ctx.number > 0
    BY <1>5 DEF Assemblable, PreExecutable, ValidProposerPubkey
  <2> HIDE DEF pol, block
  <2>3. /\ block.txs[1] = pol /\ DOMAIN block.txs = 1..(Len(txs) + 1)
        /\ Len(txs) \in Nat /\ DOMAIN txs = 1..Len(txs)
        /\ \A i \in 2..(Len(txs) + 1) : block.txs[i] = txs[i - 1]
    <3>1. txs \in Seq(UserTransaction \cup {pol})
      OBVIOUS
    <3> QED
      BY <2>1, <3>1, FrontSeq
  <2>4. block.txs # <<>>
    BY <2>3
  <2>5. \A i \in DOMAIN block.txs : i > 1 => block.txs[i].kind # "PoL"
    <3> SUFFICES ASSUME NEW i \in 2..(Len(txs) + 1) PROVE block.txs[i].kind # "PoL"
      BY <2>3
    <3>1. i - 1 \in 1..Len(txs)
      BY <2>3
    <3> QED
      BY <1>3, <2>3, <3>1
  <2>6. ValidBlockPreExecution(sched, block)
    BY <1>1, <1>2, <1>5, <2>2, <2>3, <2>4, <2>5 DEF ValidBlockPreExecution
  <2> QED
    BY <2>6 DEF block
<1> QED
  BY <1>4, <1>5

\* A block that passes the check pays its parent's proposer, once, first.
LEMMA ValidBodyPays ==
  ASSUME TypeOK, NEW block \in Block, NEW ex \in Executor,
         ValidBlockPreExecution(sched, block), Aligned(block, ex)
  PROVE  PoL!WellFormed(Abstract([block |-> block, executed |-> ex]))
<1> DEFINE b == Abstract([block |-> block, executed |-> ex])
           h == block.header
<1>1. /\ b.body = block.txs /\ b.executed = ex.trace /\ b.pubkey = h.pubkey
      /\ b.number = h.number /\ b.baseFee = h.baseFee /\ b.timestamp = h.timestamp
  BY DEF Abstract
<1> HIDE DEF b
<1>2. PoL!ExecutesBody(b)
  BY <1>1 DEF PoL!ExecutesBody, Aligned
<1>3. PoL!PaysProposer(b)
  <2>1. PoL!Reward(b) = CreatePolTransaction(ContextOf(h))
    BY <1>1 DEF PoL!Reward, CreatePolTransaction, ContextOf
  <2>2. DOMAIN b.body = 1..Len(b.body) /\ Len(b.body) \in Nat
    BY <1>1 DEF Block
  <2>3. CASE IsPrague1Active(sched, h.timestamp)
    <3>1. /\ b.body[1] = PoL!Reward(b) /\ b.body # <<>>
          /\ \A i \in DOMAIN b.body : i > 1 => b.body[i].kind # "PoL"
      BY <1>1, <2>1, <2>3 DEF ValidBlockPreExecution
    <3>2. b.body[1].kind = "PoL"
      BY <3>1 DEF PoL!Reward
    <3>3. 1 \in DOMAIN b.body
      BY <1>1, <2>2, <3>1 DEF Block
    <3>4. {i \in DOMAIN b.body : b.body[i].kind = "PoL"} = {1}
      BY <2>2, <3>1, <3>2, <3>3
    <3> QED
      BY <1>1, <2>3, <3>1, <3>4, Prague1Time DEF PoL!PaysProposer
  <2>4. CASE ~IsPrague1Active(sched, h.timestamp)
    BY <1>1, <2>4, Prague1Time DEF PoL!PaysProposer, ValidBlockPreExecution
  <2> QED
    BY <2>3, <2>4
<1> QED
  BY <1>2, <1>3 DEF PoL!WellFormed, b

\* What comes after its parent in the tree does so in the ledger.
LEMMA AfterParent ==
  ASSUME TypeOK, NEW e, e.block.header.parent \in 0..Len(tree),
         e.block.header.number = HeaderAt(e.block.header.parent).number + 1,
         e.block.header.timestamp > HeaderAt(e.block.header.parent).timestamp
  PROVE  PoL!Extends(Abstract(e))
<1> DEFINE i == e.block.header.parent
<1>1. /\ Abstract(e).parent = i /\ Abstract(e).number = e.block.header.number
      /\ Abstract(e).timestamp = e.block.header.timestamp
  BY DEF Abstract
<1>2. CASE i = 0
  BY <1>1, <1>2 DEF PoL!Extends, HeaderAt, GenesisHeader
<1>3. CASE i # 0
  <2>1. i \in DOMAIN tree
    BY <1>3 DEF TypeOK
  <2>2. /\ Abstract(tree[i]).number = HeaderAt(i).number
        /\ Abstract(tree[i]).timestamp = HeaderAt(i).timestamp
    BY <1>3 DEF Abstract, HeaderAt
  <2> QED
    BY <1>1, <1>3, <2>1, <2>2 DEF PoL!Extends
<1> QED
  BY <1>2, <1>3

\* The ledger of a tree and of a longer one.
LEMMA LedgerGrows ==
  ASSUME TypeOK, NEW e, tree' = Append(tree, e)
  PROVE  LET ledger == [i \in DOMAIN tree |-> Abstract(tree[i])]
         IN  /\ Len(ledger) = Len(tree) /\ DOMAIN ledger = 1..Len(tree)
             /\ Len(ledger') = Len(tree) + 1
             /\ \A i \in 1..Len(tree) : ledger'[i] = ledger[i]
             /\ ledger'[Len(tree) + 1] = Abstract(e)
<1> DEFINE Entry == [block: Block, executed: Executor]
           ledger == [i \in DOMAIN tree |-> Abstract(tree[i])]
<1>1. tree \in Seq(Entry)
  BY DEF TypeOK
<1> HIDE DEF Entry
<1>2. /\ DOMAIN tree = 1..Len(tree) /\ Len(tree) \in Nat
      /\ DOMAIN tree' = 1..(Len(tree) + 1)
      /\ tree'[Len(tree) + 1] = e
  <2> DEFINE T == Entry \cup {e}
  <2>1. tree \in Seq(T) /\ e \in T
    BY <1>1
  <2> HIDE DEF T
  <2> QED
    BY <2>1
<1>3. \A i \in 1..Len(tree) : tree'[i] = tree[i]
  BY <1>1, AppendKeeps
<1>4. \A i \in 1..Len(tree) : Abstract(tree[i])' = Abstract(tree[i])
  BY <1>3 DEF Abstract
<1>5. ledger' = [i \in 1..(Len(tree) + 1) |-> Abstract(tree'[i])]
  BY <1>2 DEF Abstract
<1> QED
  BY <1>2, <1>3, <1>5

\* Every step of the node is a step of PolChain or leaves it unchanged.
LEMMA RefinementStep ==
  ASSUME TypeOK, ParentsKnown, PipelineInv, JobExtends, Next
  PROVE  [PoL!Next]_PoL!vars
<1> DEFINE ledger  == [i \in DOMAIN tree |-> Abstract(tree[i])]
           offered == {Abstract(p) : p \in payloads}
<1>1. CASE UNCHANGED <<sched, tree, payloads>>
  BY <1>1 DEF PoL!vars, Abstract
<1>2. CASE JobFinish
  <2> DEFINE block   == AssembleBlock(sched, job.ctx, job.ex, job.txs)
             senders == [i \in DOMAIN job.txs |-> Signer(job.txs[i])]
             fixed   == FixPolSenders(sched, block, senders)
             payload == [block |-> block, executed |-> job.ex, senders |-> fixed]
  <2>1. job # None /\ job.stage = "open" /\ UNCHANGED <<sched, tree>>
    BY <1>2 DEF JobFinish
  <2>2. CASE /\ Assemblable(sched, job.ctx, job.ex)
             /\ SendersFixable(sched, block, senders)
             /\ payloads' = payloads \cup {payload}
    <3>1. /\ job.ctx \in Context /\ job.ex \in Executor
          /\ job.txs \in Seq(UserTransaction)
      BY <2>1 DEF TypeOK
    <3>2. block \in Block /\ ValidBlockPreExecution(sched, block)
      BY <2>2, <3>1, AssembleType, OwnBodyValid
    <3>3. Aligned(block, job.ex)
      <4> HIDE DEF block, senders
      <4> QED
        BY <2>1, <2>2, PayloadAligned DEF PipelineInv, block, senders
    <3>4. /\ block.header.parent = job.ctx.parent /\ block.header.number = job.ctx.number
          /\ block.header.timestamp = job.ctx.timestamp
      BY DEF AssembleBlock
    <3> HIDE DEF block, fixed
    <3>5. payload.block = block /\ payload.executed = job.ex
      OBVIOUS
    <3>6. Abstract(payload) = Abstract([block |-> block, executed |-> job.ex])
      BY <3>5 DEF Abstract
    <3> HIDE DEF payload
    <3>7. PoL!WellFormed(Abstract(payload))
      BY <3>1, <3>2, <3>3, <3>6, ValidBodyPays
    <3>8. PoL!Extends(Abstract(payload))
      BY <2>1, <3>4, <3>5, AfterParent DEF ParentsKnown, JobExtends
    <3>9. offered' = offered \cup {Abstract(payload)}
      BY <2>2 DEF Abstract
    <3>10. UNCHANGED <<sched["Prague1"], ledger>>
      BY <2>1 DEF Abstract
    <3> QED
      BY <3>7, <3>8, <3>9, <3>10 DEF PoL!Next, PoL!Offer
  <2>3. CASE payloads' = payloads
    BY <1>1, <2>1, <2>3
  <2> QED
    BY <1>2, <2>2, <2>3 DEF JobFinish
<1>3. CASE ImportConclude
  <2> DEFINE entry == [block |-> imp.block, executed |-> imp.ex]
             h     == imp.block.header
  <2>1. /\ imp # None /\ imp.stage = "executed" /\ imp.checked
        /\ UNCHANGED <<sched, payloads>>
    BY <1>3 DEF ImportConclude
  <2>2. CASE tree' = tree
    BY <1>1, <2>1, <2>2
  <2>3. CASE tree' = Append(tree, entry)
    <3>1. imp.block \in Block /\ imp.ex \in Executor
      BY <2>1 DEF TypeOK
    <3>2. /\ ValidBlockPreExecution(sched, imp.block)
          /\ h.parent \in 0..Len(tree)
          /\ h.number = HeaderAt(h.parent).number + 1
          /\ h.timestamp > HeaderAt(h.parent).timestamp
      BY <2>1 DEF PipelineInv, ImportInv, ValidHeaderAgainstParent
    <3>3. Aligned(imp.block, imp.ex)
      <4>1. PipelineInv'
        BY <1>3, ImporterPipeline
      <4>2. tree'[Len(tree) + 1] = entry /\ Len(tree) + 1 \in DOMAIN tree'
        <5> DEFINE Entry == [block: Block, executed: Executor]
        <5>1. tree \in Seq(Entry) /\ entry \in Entry
          BY <3>1 DEF TypeOK
        <5> HIDE DEF Entry, entry
        <5> QED
          BY <2>3, <5>1
      <4>3. entry.block = imp.block /\ entry.executed = imp.ex
        OBVIOUS
      <4> HIDE DEF entry
      <4> QED
        BY <4>1, <4>2, <4>3 DEF PipelineInv, ReceiptsAligned
    <3>4. PoL!WellFormed(Abstract(entry))
      BY <3>1, <3>2, <3>3, ValidBodyPays
    <3>5. PoL!Extends(Abstract(entry))
      <4>1. entry.block = imp.block
        OBVIOUS
      <4> HIDE DEF entry
      <4> QED
        BY <3>2, <4>1, AfterParent
    <3> HIDE DEF entry
    <3>6. /\ Len(ledger) = Len(tree) /\ DOMAIN ledger = 1..Len(tree)
          /\ Len(ledger') = Len(tree) + 1
          /\ \A i \in 1..Len(tree) : ledger'[i] = ledger[i]
          /\ ledger'[Len(tree) + 1] = Abstract(entry)
      BY <2>3, LedgerGrows
    <3>7. PoL!Extends(Abstract(entry)) = PoL!Extends(ledger'[Len(ledger')])
      BY <3>6
    <3>8. UNCHANGED <<sched["Prague1"], offered>>
      BY <2>1 DEF Abstract
    <3>9. PoL!Validate
      BY <3>4, <3>5, <3>6, <3>8 DEF PoL!Validate
    <3> QED
      BY <3>9 DEF PoL!Next
  <2> QED
    BY <1>3, <2>2, <2>3 DEF ImportConclude
<1>4. CASE ~JobFinish /\ ~ImportConclude
  BY <1>1, <1>4 DEF Next, StartJob, JobPreExecution, JobTransaction, JobAbort, ImportOwn,
     ImportPeer, Import, ConsensusChecks, ImportPreExecution, ImportTransaction,
     ImportFinish, ImportAbort
<1> QED
  BY <1>2, <1>3, <1>4

\* A node at genesis is an initial state of PolChain.
LEMMA RefinementInit == Init => PoL!Init
<1> SUFFICES ASSUME Init PROVE PoL!Init
  OBVIOUS
<1>1. DOMAIN tree = {} /\ payloads = {}
  BY DEF Init
<1>2. [i \in DOMAIN tree |-> Abstract(tree[i])] = <<>>
  BY <1>1
<1> QED
  BY <1>1, <1>2 DEF PoL!Init

(***************************************************************************)
(* The pipeline implements PolChain: whatever other proposers send, and    *)
(* however checks and execution interleave, every block the node validates *)
(* and every payload it builds pays the parent's proposer exactly once and *)
(* first from Prague1 on and never before, and executes its body as is.    *)
(***************************************************************************)
THEOREM Implementation == Spec => ImplementsPolChain
<1>1. Init => JobExtends
  BY DEF Init, JobExtends
<1>2. TypeOK /\ ParentsKnown /\ JobExtends /\ [Next]_vars => JobExtends'
  BY JobExtendsStep
<1>3. TypeOK /\ ParentsKnown /\ PipelineInv /\ JobExtends /\ [Next]_vars
        => [PoL!Next]_PoL!vars
  <2>1. UNCHANGED vars => UNCHANGED PoL!vars
    BY DEF vars, PoL!vars, Abstract
  <2> QED
    BY <2>1, RefinementStep
<1> QED
  BY <1>1, <1>2, <1>3, RefinementInit, TypeCorrect, PipelineCorrect, PTL
  DEF Spec, PoL!Spec, ImplementsPolChain

-----------------------------------------------------------------------------
(* What an execution leaves: gas, receipts and spent nonces *)

\* The gas used up to and including transaction i of an execution.
Cumulative(ex, i) == IF i = 0 THEN 0 ELSE ex.receipts[i].cumulativeGas

\* The receipt a transaction leaves that is executed when gas had been used.
ReceiptOf(out, tx, gas) ==
  IF tx.kind = "PoL"
    THEN [kind |-> "PoL", success |-> out.success, cumulativeGas |-> gas,
          log |-> out.log]
    ELSE [kind |-> "User", success |-> TRUE, cumulativeGas |-> gas + TxGasUsed[tx.id],
          log |-> TxLog[tx.id]]

\* Every receipt is determined by its transaction and the gas used before.
Receipted(out, ex) ==
  /\ Len(ex.receipts) = Len(ex.trace)
  /\ \A i \in DOMAIN ex.trace :
       ex.receipts[i] = ReceiptOf(out, ex.trace[i], Cumulative(ex, i - 1))
  /\ ex.gasUsed = Cumulative(ex, Len(ex.trace))

UserAt(ex) == {i \in DOMAIN ex.trace : ex.trace[i].kind = "User"}

\* Every user transaction had a fresh nonce and gas left for it when it was
\* executed, on top of a state in which the nonces of spent were consumed.
Admitted(ex, spent) ==
  /\ ex.gasUsed <= GasLimit
  /\ ex.spent = spent \cup {ex.trace[i].id : i \in UserAt(ex)}
  /\ \A i \in UserAt(ex) :
       /\ TxGasLimit[ex.trace[i].id] <= GasLimit - Cumulative(ex, i - 1)
       /\ ex.trace[i].id \notin spent
       /\ \A j \in UserAt(ex) : ex.trace[j].id = ex.trace[i].id => j = i

Run(out, ex, spent) == Receipted(out, ex) /\ Admitted(ex, spent)

(***************************************************************************)
(* Every execution, under way or done, is a run on the state its parent    *)
(* left, and every block of the tree comes after its parent.               *)
(***************************************************************************)
RunInv ==
  /\ job # None => Run(outcome, job.ex, SpentAt(job.ctx.parent))
  /\ imp # None => Run(outcome, imp.ex, SpentAt(imp.block.header.parent))
  /\ \A i \in DOMAIN tree :
       /\ tree[i].block.header.parent \in 0..(i - 1)
       /\ Run(outcome, tree[i].executed, SpentAt(tree[i].block.header.parent))
  /\ \A p \in payloads : Run(outcome, p.executed, SpentAt(p.block.header.parent))

\* An execution that has not begun is a run.
LEMMA RunNew ==
  ASSUME NEW out, NEW spent
  PROVE  Run(out, NewExecutor(spent), spent)
<1> DEFINE ex == NewExecutor(spent)
<1>1. ex.trace = <<>> /\ ex.receipts = <<>> /\ ex.gasUsed = 0 /\ ex.spent = spent
  BY DEF NewExecutor
<1> HIDE DEF ex
<1>2. Receipted(out, ex)
  BY <1>1 DEF Receipted, Cumulative
<1>3. UserAt(ex) = {} /\ ex.gasUsed <= GasLimit
  BY <1>1, FeeAssumption DEF UserAt, FeeAssumption
<1>4. Admitted(ex, spent)
  BY <1>1, <1>3 DEF Admitted
<1> QED
  BY <1>2, <1>4 DEF Run, ex

\* What an executor has recorded grows by tx, and what it had recorded stays.
Further(out, ex, tx, post) ==
  LET n == Len(ex.trace)
  IN  /\ n \in Nat /\ DOMAIN ex.trace = 1..n
      /\ DOMAIN post.trace = 1..(n + 1)
      /\ post.trace[n + 1] = tx
      /\ \A i \in 1..n : post.trace[i] = ex.trace[i]
      /\ \A i \in 0..n : Cumulative(post, i) = Cumulative(ex, i)
      /\ Receipted(out, post)

\* One transaction further: trace and receipts grow by one, the counts before
\* stay.
LEMMA RunGrows ==
  ASSUME NEW out, NEW ex \in Executor, Receipted(out, ex), NEW tx, NEW post,
         post.trace = Append(ex.trace, tx),
         post.receipts = Append(ex.receipts, ReceiptOf(out, tx, ex.gasUsed)),
         post.gasUsed = ReceiptOf(out, tx, ex.gasUsed).cumulativeGas
  PROVE  Further(out, ex, tx, post)
<1> DEFINE n == Len(ex.trace)
           r == ReceiptOf(out, tx, ex.gasUsed)
<1>1. ex.trace \in Seq(Transaction \cup {tx}) /\ ex.receipts \in Seq(Receipt \cup {r})
  BY DEF Executor
<1>2. n \in Nat /\ Len(ex.receipts) = n /\ DOMAIN ex.trace = 1..n
  BY <1>1 DEF Receipted
<1> HIDE DEF r
<1>3. /\ DOMAIN post.trace = 1..(n + 1) /\ Len(post.trace) = n + 1
      /\ post.trace[n + 1] = tx
      /\ \A i \in 1..n : post.trace[i] = ex.trace[i]
  <2> DEFINE T == Transaction \cup {tx}
  <2>1. ex.trace \in Seq(T) /\ tx \in T
    BY <1>1
  <2> HIDE DEF T
  <2> QED
    BY <2>1
<1>4. /\ Len(post.receipts) = n + 1
      /\ post.receipts[n + 1] = r
      /\ \A i \in 1..n : post.receipts[i] = ex.receipts[i]
  <2> DEFINE T == Receipt \cup {r}
  <2>1. ex.receipts \in Seq(T) /\ r \in T /\ post.receipts = Append(ex.receipts, r)
    BY <1>1 DEF r
  <2> HIDE DEF T
  <2> QED
    BY <1>2, <2>1
<1>5. \A i \in 0..n : Cumulative(post, i) = Cumulative(ex, i)
  BY <1>2, <1>4 DEF Cumulative
<1>6. Receipted(out, post)
  <2>1. post.gasUsed = Cumulative(post, n + 1)
    BY <1>2, <1>4 DEF Cumulative, r
  <2>2. ASSUME NEW i \in 1..(n + 1)
        PROVE  post.receipts[i] = ReceiptOf(out, post.trace[i], Cumulative(post, i - 1))
    <3>1. CASE i = n + 1
      BY <1>2, <1>3, <1>4, <1>5, <3>1 DEF Receipted, r
    <3>2. CASE i # n + 1
      <4>1. i \in 1..n /\ i - 1 \in 0..n
        BY <1>2, <3>2
      <4> QED
        BY <1>2, <1>3, <1>4, <1>5, <4>1 DEF Receipted
    <3> QED
      BY <3>1, <3>2
  <2> QED
    BY <1>3, <1>4, <2>1, <2>2 DEF Receipted
<1> QED
  BY <1>2, <1>3, <1>5, <1>6 DEF Further

\* The PoL call adds a receipt, and neither gas nor a nonce.
LEMMA RunPre ==
  ASSUME NEW out, NEW spent, NEW ex \in Executor, Run(out, ex, spent), NEW s, NEW ctx
  PROVE  Run(out, ApplyPreExecutionChanges(s, ctx, ex, out), spent)
<1> DEFINE post == ApplyPreExecutionChanges(s, ctx, ex, out)
           pol  == CreatePolTransaction(ctx)
<1>1. CASE ~IsPrague1Active(s, ctx.timestamp)
  BY <1>1 DEF ApplyPreExecutionChanges
<1>2. CASE IsPrague1Active(s, ctx.timestamp)
  <2>1. pol.kind = "PoL"
    BY DEF CreatePolTransaction
  <2> HIDE DEF pol
  <2>2. /\ post.trace = Append(ex.trace, pol)
        /\ post.receipts = Append(ex.receipts, ReceiptOf(out, pol, ex.gasUsed))
        /\ post.gasUsed = ReceiptOf(out, pol, ex.gasUsed).cumulativeGas
        /\ post.gasUsed = ex.gasUsed /\ post.spent = ex.spent
    BY <1>2, <2>1 DEF ApplyPreExecutionChanges, ReceiptOf, Executor, pol
  <2> HIDE DEF post
  <2> DEFINE n == Len(ex.trace)
  <2>3. /\ n \in Nat /\ DOMAIN ex.trace = 1..n
        /\ DOMAIN post.trace = 1..(n + 1)
        /\ post.trace[n + 1] = pol
        /\ \A i \in 1..n : post.trace[i] = ex.trace[i]
        /\ \A i \in 0..n : Cumulative(post, i) = Cumulative(ex, i)
        /\ Receipted(out, post)
    <3>1. Receipted(out, ex)
      BY DEF Run
    <3>2. Further(out, ex, pol, post)
      BY ONLY ex \in Executor, <2>2, <3>1, RunGrows, Zenon
    <3> QED
      BY ONLY <3>2 DEF Further
  <2>4. UserAt(post) = UserAt(ex) /\ UserAt(ex) \subseteq 1..n
    BY <2>1, <2>3 DEF UserAt
  <2>5. \A i \in UserAt(ex) : /\ post.trace[i] = ex.trace[i]
                             /\ Cumulative(post, i - 1) = Cumulative(ex, i - 1)
    BY <2>3, <2>4
  <2>6. {post.trace[i].id : i \in UserAt(post)} = {ex.trace[i].id : i \in UserAt(ex)}
    BY <2>4, <2>5
  <2>7. Admitted(post, spent)
    BY <2>2, <2>4, <2>5, <2>6 DEF Admitted, Run
  <2> QED
    BY <2>3, <2>7 DEF Run, post
<1> QED
  BY <1>1, <1>2

\* A user transaction is charged the gas it used, which its limit bounds, and
\* its nonce; a PoL transaction of the body is passed over.
LEMMA RunCommit ==
  ASSUME NEW out, NEW spent, NEW ex \in Executor, Run(out, ex, spent),
         NEW tx \in Transaction, Executable(ex, tx)
  PROVE  Run(out, CommitTransaction(ex, tx), spent)
<1> DEFINE post == CommitTransaction(ex, tx)
<1>1. CASE tx.kind = "PoL"
  BY <1>1 DEF CommitTransaction
<1>2. CASE tx.kind # "PoL"
  <2>1. tx.kind = "User" /\ tx.id \in UserTx
    BY <1>2 DEF Transaction, PolTransaction, UserTransaction
  <2>2. /\ TxGasLimit[tx.id] \in Nat /\ TxGasUsed[tx.id] \in Nat
        /\ TxGasUsed[tx.id] <= TxGasLimit[tx.id] /\ ex.gasUsed \in Nat /\ GasLimit \in Nat
    BY <2>1, ExecutorAssumption, FeeAssumption DEF ExecutorAssumption, FeeAssumption, Executor
  <2>3. /\ post.trace = Append(ex.trace, tx)
        /\ post.receipts = Append(ex.receipts, ReceiptOf(out, tx, ex.gasUsed))
        /\ post.gasUsed = ReceiptOf(out, tx, ex.gasUsed).cumulativeGas
        /\ post.gasUsed = ex.gasUsed + TxGasUsed[tx.id]
        /\ post.spent = ex.spent \cup {tx.id}
    BY <1>2 DEF CommitTransaction, ReceiptOf
  <2> HIDE DEF post
  <2> DEFINE n == Len(ex.trace)
  <2>4. /\ n \in Nat /\ DOMAIN ex.trace = 1..n
        /\ DOMAIN post.trace = 1..(n + 1)
        /\ post.trace[n + 1] = tx
        /\ \A i \in 1..n : post.trace[i] = ex.trace[i]
        /\ \A i \in 0..n : Cumulative(post, i) = Cumulative(ex, i)
        /\ Receipted(out, post)
    <3>1. Receipted(out, ex)
      BY DEF Run
    <3>2. Further(out, ex, tx, post)
      BY ONLY ex \in Executor, <2>3, <3>1, RunGrows, Zenon
    <3> QED
      BY ONLY <3>2 DEF Further
  <2>5. /\ UserAt(post) = UserAt(ex) \cup {n + 1} /\ UserAt(ex) \subseteq 1..n
        /\ n + 1 \notin UserAt(ex)
    BY <2>1, <2>4 DEF UserAt
  <2>6. \A i \in UserAt(ex) : /\ post.trace[i] = ex.trace[i]
                             /\ Cumulative(post, i - 1) = Cumulative(ex, i - 1)
    BY <2>4, <2>5
  <2>7. post.spent = spent \cup {post.trace[i].id : i \in UserAt(post)}
    <3>1. {post.trace[i].id : i \in UserAt(post)}
            = {ex.trace[i].id : i \in UserAt(ex)} \cup {tx.id}
      BY <2>4, <2>5, <2>6
    <3> QED
      BY <2>3, <3>1 DEF Run, Admitted
  <2>8. /\ TxGasLimit[tx.id] <= GasLimit - ex.gasUsed
        /\ tx.id \notin spent
        /\ \A i \in UserAt(ex) : ex.trace[i].id # tx.id
    BY <2>1 DEF Executable, Run, Admitted
  <2>9. Cumulative(post, n) = ex.gasUsed
    BY <2>4 DEF Run, Receipted
  <2>10. ASSUME NEW i \in UserAt(post)
         PROVE  /\ TxGasLimit[post.trace[i].id] <= GasLimit - Cumulative(post, i - 1)
                /\ post.trace[i].id \notin spent
                /\ \A j \in UserAt(post) : post.trace[j].id = post.trace[i].id => j = i
    <3>1. CASE i = n + 1
      BY <2>4, <2>5, <2>6, <2>8, <2>9, <3>1
    <3>2. CASE i \in UserAt(ex)
      BY <2>4, <2>5, <2>6, <2>8, <3>2 DEF Run, Admitted
    <3> QED
      BY <2>5, <2>10, <3>1, <3>2
  <2>11. post.gasUsed <= GasLimit
    BY <2>2, <2>3, <2>8
  <2> QED
    BY <2>4, <2>7, <2>10, <2>11 DEF Run, Admitted, post
<1> QED
  BY <1>1, <1>2

\* What the blocks of the tree left behind stays, too.
LEMMA SpentStable ==
  ASSUME TypeOK, NEW i \in 0..Len(tree),
         tree' = tree \/ \E e : tree' = Append(tree, e)
  PROVE  SpentAt(i)' = SpentAt(i)
<1>1. CASE tree' = tree
  BY <1>1 DEF SpentAt
<1>2. ASSUME NEW e, tree' = Append(tree, e)
      PROVE  SpentAt(i)' = SpentAt(i)
  <2> DEFINE Entry == [block: Block, executed: Executor]
  <2>1. tree \in Seq(Entry)
    BY DEF TypeOK
  <2> HIDE DEF Entry
  <2>2. i # 0 => tree'[i] = tree[i]
    BY <1>2, <2>1, AppendKeeps
  <2> QED
    BY <2>2 DEF SpentAt
<1> QED
  BY <1>1, <1>2

\* What a step may do to an execution: nothing, the PoL call, or one
\* transaction the executor lets through.
Advances(ex, post) ==
  \/ post = ex
  \/ \E s, ctx : post = ApplyPreExecutionChanges(s, ctx, ex, outcome)
  \/ \E tx \in Transaction : Executable(ex, tx) /\ post = CommitTransaction(ex, tx)

\* A run that advances is a run.
LEMMA RunAdvances ==
  ASSUME NEW spent, NEW ex \in Executor, Run(outcome, ex, spent),
         NEW post, Advances(ex, post)
  PROVE  Run(outcome, post, spent)
BY RunPre, RunCommit DEF Advances

\* What a step may do to the block being built.
LEMMA JobStep ==
  ASSUME TypeOK, Next, job' # None
  PROVE  \/ \E i \in 0..Len(tree) :
              job'.ctx.parent = i /\ job'.ex = NewExecutor(SpentAt(i))
         \/ job # None /\ job'.ctx = job.ctx /\ Advances(job.ex, job'.ex)
<1>1. CASE StartJob
  BY <1>1 DEF StartJob, NextBlockContext
<1>2. CASE JobPreExecution
  <2>1. /\ job # None
        /\ job' = [job EXCEPT !.stage = "open",
                      !.ex = ApplyPreExecutionChanges(sched, job.ctx, @, outcome)]
    BY <1>2 DEF JobPreExecution
  <2>2. /\ job'.ctx = job.ctx
        /\ job'.ex = ApplyPreExecutionChanges(sched, job.ctx, job.ex, outcome)
    BY <2>1 DEF TypeOK
  <2> QED
    BY <2>1, <2>2 DEF Advances
<1>3. CASE JobTransaction
  <2>1. PICK u \in UserTx :
          /\ Executable(job.ex, [kind |-> "User", id |-> u])
          /\ job' = [job EXCEPT !.ex = CommitTransaction(@, [kind |-> "User", id |-> u]),
                                !.txs = Append(@, [kind |-> "User", id |-> u])]
    BY <1>3 DEF JobTransaction
  <2> DEFINE tx == [kind |-> "User", id |-> u]
  <2>2. job # None
    BY <1>3 DEF JobTransaction
  <2>3. tx \in Transaction
    BY DEF Transaction, UserTransaction
  <2> HIDE DEF tx
  <2>4. job'.ctx = job.ctx /\ job'.ex = CommitTransaction(job.ex, tx)
    BY <2>1, <2>2 DEF TypeOK, tx
  <2> QED
    BY <2>1, <2>2, <2>3, <2>4 DEF Advances, tx
<1>4. CASE job' = job
  BY <1>4 DEF Advances
<1> QED
  BY <1>1, <1>2, <1>3, <1>4 DEF Next, JobFinish, JobAbort, ImportOwn, ImportPeer, Import,
     ConsensusChecks, ImportPreExecution, ImportTransaction, ImportFinish, ImportConclude,
     ImportAbort

\* What a step may do to the block being imported.
LEMMA ImportStep ==
  ASSUME TypeOK, ParentsKnown, Next, imp' # None
  PROVE  \/ \E i \in 0..Len(tree) :
              imp'.block.header.parent = i /\ imp'.ex = NewExecutor(SpentAt(i))
         \/ imp # None /\ imp'.block = imp.block /\ Advances(imp.ex, imp'.ex)
<1>1. CASE ImportOwn \/ ImportPeer
  <2>1. PICK block : block.header.parent \in 0..Len(tree) /\ Import(block)
    BY <1>1 DEF ImportOwn, ImportPeer, ParentsKnown
  <2>2. /\ imp'.block = block
        /\ imp'.ex = NewExecutor(SpentAt(block.header.parent))
    BY <2>1 DEF Import
  <2> QED
    BY <2>1, <2>2
<1>2. CASE ConsensusChecks \/ ImportFinish
  <2>1. /\ imp # None
        /\ imp' = [imp EXCEPT !.checked = TRUE] \/ imp' = [imp EXCEPT !.stage = "executed"]
    BY <1>2 DEF ConsensusChecks, ImportFinish, Continue, Refuse
  <2>2. imp'.block = imp.block /\ imp'.ex = imp.ex
    BY <2>1 DEF TypeOK
  <2> QED
    BY <2>1, <2>2 DEF Advances
<1>3. CASE ImportPreExecution
  <2>1. /\ imp # None
        /\ imp' = [imp EXCEPT !.stage = "executing",
                     !.ex = ApplyPreExecutionChanges(sched, ImportContext, @, outcome)]
    BY <1>3 DEF ImportPreExecution, Continue, GiveUp
  <2>2. /\ imp'.block = imp.block
        /\ imp'.ex = ApplyPreExecutionChanges(sched, ImportContext, imp.ex, outcome)
    BY <2>1 DEF TypeOK
  <2> QED
    BY <2>1, <2>2 DEF Advances
<1>4. CASE ImportTransaction
  <2> DEFINE tx == imp.block.txs[imp.next]
  <2>1. /\ imp # None /\ imp.next <= Len(imp.block.txs) /\ Executable(imp.ex, tx)
        /\ imp' = [imp EXCEPT !.ex = CommitTransaction(@, tx), !.next = @ + 1]
    BY <1>4 DEF ImportTransaction, Continue, Refuse
  <2>2. tx \in Transaction
    BY <2>1 DEF TypeOK, Block
  <2>3. imp'.block = imp.block /\ imp'.ex = CommitTransaction(imp.ex, tx)
    BY <2>1 DEF TypeOK
  <2> QED
    BY <2>1, <2>2, <2>3 DEF Advances
<1>5. CASE imp' = imp
  BY <1>5 DEF Advances
<1> QED
  BY <1>1, <1>2, <1>3, <1>4, <1>5 DEF Next, StartJob, JobPreExecution, JobTransaction,
     JobFinish, JobAbort, ImportConclude, ImportAbort, Refuse, GiveUp

\* What a step may do to the tree: add the block that has been imported.
LEMMA TreeStep ==
  ASSUME TypeOK, Next, tree' # tree
  PROVE  /\ imp # None
         /\ LET e == [block |-> imp.block, executed |-> imp.ex]
                n == Len(tree)
            IN  /\ tree' = Append(tree, e)
                /\ n \in Nat /\ DOMAIN tree = 1..n /\ DOMAIN tree' = 1..(n + 1)
                /\ tree'[n + 1] = e
                /\ \A i \in 1..n : tree'[i] = tree[i]
<1> DEFINE e == [block |-> imp.block, executed |-> imp.ex]
           Entry == [block: Block, executed: Executor]
<1>1. imp # None /\ tree' = Append(tree, e)
  BY DEF Next, StartJob, JobPreExecution, JobTransaction, JobFinish, JobAbort, ImportOwn,
     ImportPeer, Import, ConsensusChecks, ImportPreExecution, ImportTransaction,
     ImportFinish, ImportConclude, ImportAbort
<1>2. tree \in Seq(Entry) /\ e \in Entry
  BY <1>1 DEF TypeOK
<1> HIDE DEF e, Entry
<1>3. /\ Len(tree) \in Nat /\ DOMAIN tree = 1..Len(tree)
      /\ DOMAIN tree' = 1..(Len(tree) + 1)
      /\ tree'[Len(tree) + 1] = e
      /\ \A i \in 1..Len(tree) : tree'[i] = tree[i]
  BY <1>1, <1>2
<1> QED
  BY <1>1, <1>3 DEF e

\* What a step may do to the payloads: add that of a finished job.
LEMMA PayloadStep ==
  ASSUME TypeOK, Next, NEW p \in payloads' \ payloads
  PROVE  /\ JobFinish /\ job # None /\ job.stage = "open"
         /\ Finishable(sched, job.ctx, job.ex)
         /\ Assemblable(sched, job.ctx, job.ex)
         /\ p.block = AssembleBlock(sched, job.ctx, job.ex, job.txs)
         /\ p.executed = job.ex
<1>1. JobFinish
  BY DEF Next, StartJob, JobPreExecution, JobTransaction, JobAbort, ImportOwn,
     ImportPeer, Import, ConsensusChecks, ImportPreExecution, ImportTransaction,
     ImportFinish, ImportConclude, ImportAbort
<1> DEFINE block   == AssembleBlock(sched, job.ctx, job.ex, job.txs)
           senders == [i \in DOMAIN job.txs |-> Signer(job.txs[i])]
           fixed   == FixPolSenders(sched, block, senders)
           payload == [block |-> block, executed |-> job.ex, senders |-> fixed]
<1>2. /\ Finishable(sched, job.ctx, job.ex)
      /\ Assemblable(sched, job.ctx, job.ex)
      /\ payloads' = payloads \cup {payload}
  BY <1>1 DEF JobFinish
<1>3. payload.block = block /\ payload.executed = job.ex
  OBVIOUS
<1> HIDE DEF payload
<1>4. p = payload
  BY <1>2
<1> QED
  BY <1>1, <1>2, <1>3, <1>4 DEF JobFinish

\* Every step of the node leaves runs only.
LEMMA RunStep ==
  ASSUME TypeOK, ParentsKnown, PipelineInv, RunInv, Next
  PROVE  RunInv'
<1>1. outcome' = outcome
  BY DEF Next, StartJob, JobPreExecution, JobTransaction, JobFinish, JobAbort, ImportOwn,
     ImportPeer, Import, ConsensusChecks, ImportPreExecution, ImportTransaction,
     ImportFinish, ImportConclude, ImportAbort
<1>2. tree' = tree \/ \E e : tree' = Append(tree, e)
  BY TreeStep
<1>3. ASSUME NEW i \in 0..Len(tree)
      PROVE  SpentAt(i)' = SpentAt(i)
  BY <1>2, SpentStable
<1>4. ASSUME job' # None
      PROVE  Run(outcome', job'.ex, SpentAt(job.ctx.parent)')
  <2>1. CASE \E i \in 0..Len(tree) :
               job'.ctx.parent = i /\ job'.ex = NewExecutor(SpentAt(i))
    <3>1. PICK i \in 0..Len(tree) :
            job'.ctx.parent = i /\ job'.ex = NewExecutor(SpentAt(i))
      BY <2>1
    <3>2. SpentAt(job.ctx.parent)' = SpentAt(i)
      <4>1. SpentAt(i)' = SpentAt(i)
        BY <1>3
      <4> QED
        BY <3>1, <4>1 DEF SpentAt
    <3> QED
      BY <1>1, <3>1, <3>2, RunNew
  <2>2. CASE job # None /\ job'.ctx = job.ctx /\ Advances(job.ex, job'.ex)
    <3>1. PICK i \in 0..Len(tree) : job.ctx.parent = i
      BY <2>2 DEF ParentsKnown
    <3>2. Run(outcome, job'.ex, SpentAt(i))
      BY <2>2, <3>1, RunAdvances DEF RunInv, TypeOK
    <3>3. SpentAt(job.ctx.parent)' = SpentAt(i)
      <4>1. SpentAt(i)' = SpentAt(i)
        BY <1>3
      <4> QED
        BY <2>2, <3>1, <4>1 DEF SpentAt
    <3> QED
      BY <1>1, <3>2, <3>3
  <2> QED
    BY <1>4, <2>1, <2>2, JobStep
<1>5. ASSUME imp' # None
      PROVE  Run(outcome', imp'.ex, SpentAt(imp.block.header.parent)')
  <2>1. CASE \E i \in 0..Len(tree) :
               imp'.block.header.parent = i /\ imp'.ex = NewExecutor(SpentAt(i))
    <3>1. PICK i \in 0..Len(tree) :
            imp'.block.header.parent = i /\ imp'.ex = NewExecutor(SpentAt(i))
      BY <2>1
    <3>2. SpentAt(imp.block.header.parent)' = SpentAt(i)
      <4>1. SpentAt(i)' = SpentAt(i)
        BY <1>3
      <4> QED
        BY <3>1, <4>1 DEF SpentAt
    <3> QED
      BY <1>1, <3>1, <3>2, RunNew
  <2>2. CASE imp # None /\ imp'.block = imp.block /\ Advances(imp.ex, imp'.ex)
    <3>1. PICK i \in 0..Len(tree) : imp.block.header.parent = i
      BY <2>2 DEF PipelineInv, ImportInv
    <3>2. Run(outcome, imp'.ex, SpentAt(i))
      BY <2>2, <3>1, RunAdvances DEF RunInv, TypeOK
    <3>3. SpentAt(imp.block.header.parent)' = SpentAt(i)
      <4>1. SpentAt(i)' = SpentAt(i)
        BY <1>3
      <4> QED
        BY <2>2, <3>1, <4>1 DEF SpentAt
    <3> QED
      BY <1>1, <3>2, <3>3
  <2> QED
    BY <1>5, <2>1, <2>2, ImportStep
<1>6. ASSUME NEW k \in DOMAIN tree'
      PROVE  /\ tree'[k].block.header.parent \in 0..(k - 1)
             /\ Run(outcome', tree'[k].executed, SpentAt(tree[k].block.header.parent)')
  <2> DEFINE n == Len(tree)
  <2>0. n \in Nat /\ DOMAIN tree = 1..n
    BY DEF TypeOK
  <2>1. CASE k \in DOMAIN tree /\ tree'[k] = tree[k]
    <3>1. PICK i \in 0..(k - 1) : tree[k].block.header.parent = i
      BY <2>1 DEF RunInv
    <3>2. i \in 0..n
      BY <2>0, <2>1
    <3>3. SpentAt(i)' = SpentAt(i)
      BY <1>3, <3>2
    <3>4. SpentAt(tree[k].block.header.parent)' = SpentAt(i)
      BY <2>1, <3>1, <3>3 DEF SpentAt
    <3>5. Run(outcome, tree[k].executed, SpentAt(i))
      BY <2>1, <3>1 DEF RunInv
    <3> QED
      BY <1>1, <2>1, <3>1, <3>4, <3>5
  <2>2. CASE ~(k \in DOMAIN tree /\ tree'[k] = tree[k])
    <3>1. tree' # tree
      BY <1>6, <2>2
    <3> DEFINE e == [block |-> imp.block, executed |-> imp.ex]
    <3>2. imp # None /\ k = n + 1 /\ tree'[k] = e
      BY <1>6, <2>0, <2>2, <3>1, TreeStep
    <3>3. tree'[k].block = imp.block /\ tree'[k].executed = imp.ex
      BY <3>2
    <3>4. PICK i \in 0..n : imp.block.header.parent = i
      BY <3>2 DEF PipelineInv, ImportInv
    <3>5. SpentAt(i)' = SpentAt(i)
      BY <1>3
    <3>6. SpentAt(tree[k].block.header.parent)' = SpentAt(i)
      BY <3>3, <3>4, <3>5 DEF SpentAt
    <3>7. Run(outcome, imp.ex, SpentAt(i))
      BY <3>2, <3>4 DEF RunInv
    <3>8. i \in 0..(k - 1)
      BY <2>0, <3>2
    <3> HIDE DEF e, n
    <3> QED
      BY <1>1, <3>3, <3>4, <3>6, <3>7, <3>8
  <2> QED
    BY <2>1, <2>2
<1>7. ASSUME NEW p \in payloads'
      PROVE  Run(outcome', p.executed, SpentAt(p.block.header.parent)')
  <2>1. CASE p \in payloads
    <3>1. PICK i \in 0..Len(tree) : p.block.header.parent = i
      BY <2>1 DEF ParentsKnown
    <3>2. SpentAt(i)' = SpentAt(i)
      BY <1>3
    <3> QED
      BY <1>1, <2>1, <3>1, <3>2 DEF RunInv
  <2>2. CASE p \notin payloads
    <3>1. /\ job # None /\ p.executed = job.ex
          /\ p.block.header.parent = job.ctx.parent
      BY <1>7, <2>2, PayloadStep DEF AssembleBlock
    <3>2. PICK i \in 0..Len(tree) : job.ctx.parent = i
      BY <3>1 DEF ParentsKnown
    <3>3. SpentAt(i)' = SpentAt(i)
      BY <1>3
    <3>4. Run(outcome, job.ex, SpentAt(i))
      BY <3>1, <3>2 DEF RunInv
    <3> QED
      BY <1>1, <3>1, <3>2, <3>3, <3>4
  <2> QED
    BY <2>1, <2>2
<1> QED
  BY <1>4, <1>5, <1>6, <1>7 DEF RunInv

\* Everything the node executes is a run on the state its parent left.
LEMMA RunCorrect == Spec => []RunInv
<1>1. Init => RunInv
  BY DEF Init, RunInv
<1>2. TypeOK /\ ParentsKnown /\ PipelineInv /\ RunInv /\ [Next]_vars => RunInv'
  <2>1. RunInv /\ UNCHANGED vars => RunInv'
    BY DEF RunInv, vars, SpentAt
  <2> QED
    BY <2>1, RunStep
<1> QED
  BY <1>1, <1>2, TypeCorrect, PipelineCorrect, PTL DEF Spec

\* f[i] is the gas of the first i transactions of a body.
GasSums(txs, f) ==
  /\ f[0] = 0
  /\ \A i \in 1..Len(txs) :
       f[i] = f[i - 1] + (IF txs[i].kind = "User" THEN TxGasUsed[txs[i].id] ELSE 0)

\* Whatever counts gas like that ends at BodyGas.
LEMMA BodyGasIs ==
  ASSUME NEW txs \in Seq(Transaction), NEW f, GasSums(txs, f)
  PROVE  BodyGas(txs) = f[Len(txs)]
<1> DEFINE gas(i) == IF txs[i].kind = "User" THEN TxGasUsed[txs[i].id] ELSE 0
           n == Len(txs)
           upTo(g) == g = [i \in 0..n |-> IF i = 0 THEN 0 ELSE g[i - 1] + gas(i)]
<1>1. n \in Nat /\ 0 \in 0..n /\ n \in 0..n
  OBVIOUS
<1>2. \E g : upTo(g)
  <2> DEFINE h == [i \in 0..n |-> f[i]]
  <2>1. ASSUME NEW i \in 0..n
        PROVE  h[i] = IF i = 0 THEN 0 ELSE h[i - 1] + gas(i)
    <3>1. i # 0 => i \in 1..n /\ i - 1 \in 0..n
      BY <1>1
    <3> QED
      BY <3>1 DEF GasSums
  <2>2. upTo(h)
    BY <2>1
  <2> QED
    BY <2>2
<1>3. PICK g : upTo(g) /\ BodyGas(txs) = g[n]
  BY <1>2, Zenon DEF BodyGas
<1> HIDE DEF n
<1>4. g[0] = 0 /\ \A i \in 1..n : g[i] = g[i - 1] + gas(i)
  BY <1>1, <1>3
<1>5. \A i \in 1..n : f[i] = f[i - 1] + gas(i)
  BY DEF n, GasSums
<1> HIDE DEF gas, upTo
<1>6. \A i \in 0..n : f[i] = g[i]
  <2>1. f[0] = g[0] /\ GoOnAlike(f, g, n)
    BY <1>4, <1>5 DEF GasSums, GoOnAlike
  <2>2. SameUpTo(f, g, n)
    BY <1>1, <2>1, SameRecursion
  <2> QED
    BY <2>2 DEF SameUpTo
<1> QED
  BY <1>1, <1>3, <1>6 DEF n

(***************************************************************************)
(* The gas of a validated block is that of its user transactions, within   *)
(* the limit, and the last receipt counts all of it: the receipts of a run *)
(* are partial sums, to which the PoL call adds nothing.                   *)
(***************************************************************************)
THEOREM GasAlwaysAccounted == Spec => []GasAccounted
<1>1. TypeOK /\ ReceiptsAligned /\ CheckedInv /\ RunInv => GasAccounted
  <2> SUFFICES ASSUME TypeOK, ReceiptsAligned, CheckedInv, RunInv, NEW k \in DOMAIN tree
               PROVE  LET b  == tree[k].block
                          rs == tree[k].executed.receipts
                      IN /\ b.header.gasUsed = BodyGas(b.txs)
                         /\ b.header.gasUsed <= GasLimit
                         /\ rs # <<>> => rs[Len(rs)].cumulativeGas = b.header.gasUsed
    BY DEF GasAccounted
  <2> DEFINE b  == tree[k].block
             ex == tree[k].executed
             n  == Len(b.txs)
             f  == [i \in 0..n |-> Cumulative(ex, i)]
  <2>1. b \in Block /\ ex \in Executor
    <3> DEFINE Entry == [block: Block, executed: Executor]
    <3>1. tree \in Seq(Entry)
      BY DEF TypeOK
    <3>2. tree[k] \in Entry
      <4> HIDE DEF Entry
      <4> QED
        BY <3>1
    <3> QED
      BY <3>2
  <2>2. /\ ex.trace = b.txs
        /\ b.header.gasUsed = ex.gasUsed
        /\ Receipted(outcome, ex) /\ ex.gasUsed <= GasLimit
    BY DEF ReceiptsAligned, Aligned, CheckedInv, ValidBlockPostExecution, RunInv, Run, Admitted
  <2> HIDE DEF b, ex
  <2>3. b.txs \in Seq(Transaction) /\ ex.receipts \in Seq(Receipt)
    BY <2>1 DEF Block, Executor
  <2>4. n \in Nat /\ DOMAIN b.txs = 1..n /\ Len(ex.receipts) = n /\ n \in 0..n
    BY <2>2, <2>3 DEF Receipted
  <2>5. ASSUME NEW i \in 1..n
        PROVE  Cumulative(ex, i) = Cumulative(ex, i - 1)
                 + (IF b.txs[i].kind = "User" THEN TxGasUsed[b.txs[i].id] ELSE 0)
    <3>1. ex.receipts[i] = ReceiptOf(outcome, b.txs[i], Cumulative(ex, i - 1))
      BY <2>2, <2>4 DEF Receipted
    <3>2. b.txs[i].kind \in {"PoL", "User"}
      BY <2>3, <2>4 DEF Transaction, PolTransaction, UserTransaction
    <3>3. Cumulative(ex, i) = ex.receipts[i].cumulativeGas
      BY DEF Cumulative
    <3>4. Cumulative(ex, i - 1) \in Nat
      <4>1. CASE i = 1
        BY <4>1 DEF Cumulative
      <4>2. CASE i # 1
        <5>1. i - 1 \in 1..n
          BY <2>4, <4>2
        <5>2. ex.receipts[i - 1] \in Receipt
          BY <2>3, <2>4, <5>1
        <5> QED
          BY <5>1, <5>2 DEF Cumulative, Receipt
      <4> QED
        BY <4>1, <4>2
    <3> QED
      BY <3>1, <3>2, <3>3, <3>4 DEF ReceiptOf
  <2>6. GasSums(b.txs, f)
    <3>1. \A i \in 1..n : i \in 0..n /\ i - 1 \in 0..n
      BY <2>4
    <3>2. f[0] = 0
      BY <2>4 DEF Cumulative
    <3> QED
      BY <2>5, <3>1, <3>2 DEF GasSums
  <2>7. BodyGas(b.txs) = f[n]
    <3> HIDE DEF f
    <3> QED
      BY <2>3, <2>6, BodyGasIs
  <2>8. BodyGas(b.txs) = ex.gasUsed
    BY <2>2, <2>4, <2>7 DEF Receipted
  <2>9. ex.receipts # <<>> => ex.receipts[Len(ex.receipts)].cumulativeGas = ex.gasUsed
    BY <2>2, <2>3, <2>4 DEF Receipted, Cumulative
  <2> QED
    BY <2>2, <2>8, <2>9 DEF b, ex
<1> QED
  BY <1>1, TypeCorrect, ReceiptsAlwaysAligned, CheckedCorrect, RunCorrect, PTL

\* A parent comes before its child in the tree, so the recursion of Branch
\* ends: its value at n is what every set closed under parents holds that
\* holds n.
LEMMA BranchExists ==
  ASSUME TypeOK, RunInv
  PROVE  \E up : up = [n \in 0..Len(tree) |->
                         IF n = 0 THEN {} ELSE {n} \cup up[tree[n].block.header.parent]]
<1> DEFINE N == Len(tree)
           parent(n) == tree[n].block.header.parent
           Closed(A) == A \subseteq 0..N /\ \A m \in A : m # 0 => parent(m) \in A
           above(n)  == {m \in 1..N : \A A : Closed(A) /\ n \in A => m \in A}
           up == [n \in 0..N |-> above(n)]
<1>1. N \in Nat /\ \A n \in 1..N : parent(n) \in 0..(n - 1)
  <2>1. N \in Nat /\ DOMAIN tree = 1..N
    BY DEF TypeOK
  <2> QED
    BY <2>1 DEF RunInv
<1> HIDE DEF parent, N
<1>2. above(0) = {}
  <2>1. Closed({0})
    BY <1>1
  <2>2. \A m \in above(0) : m \in 1..N /\ m \in {0}
    <3> HIDE DEF Closed
    <3> QED
      BY <2>1
  <2> QED
    BY <1>1, <2>2
<1>3. ASSUME NEW n \in 1..N
      PROVE  above(n) = {n} \cup above(parent(n))
  <2>1. n \in above(n)
    OBVIOUS
  <2>2. ASSUME NEW m \in above(parent(n))
        PROVE  m \in above(n)
    <3>1. ASSUME NEW A, Closed(A), n \in A
          PROVE  m \in A
      <4>1. parent(n) \in A
        BY <1>1, <3>1
      <4> QED
        BY <2>2, <3>1, <4>1
    <3>2. m \in 1..N
      BY <2>2
    <3> HIDE DEF Closed
    <3> QED
      BY <3>1, <3>2
  <2>3. ASSUME NEW m \in above(n), m # n
        PROVE  m \in above(parent(n))
    <3>1. ASSUME NEW A, Closed(A), parent(n) \in A
          PROVE  m \in A
      <4>1. Closed(A \cup {n}) /\ n \in A \cup {n}
        BY <1>1, <3>1
      <4> HIDE DEF Closed
      <4>2. m \in A \cup {n}
        BY <2>3, <4>1
      <4> QED
        BY <2>3, <4>2
    <3>2. m \in 1..N
      BY <2>3
    <3> HIDE DEF Closed
    <3> QED
      BY <3>1, <3>2
  <2> HIDE DEF above
  <2> QED
    BY <2>1, <2>2, <2>3
<1> HIDE DEF above
<1>4. ASSUME NEW n \in 0..N
      PROVE  up[n] = IF n = 0 THEN {} ELSE {n} \cup up[parent(n)]
  <2>1. CASE n = 0
    BY <1>2, <2>1
  <2>2. CASE n # 0
    <3>1. n \in 1..N /\ parent(n) \in 0..N
      BY <1>1, <2>2
    <3> QED
      BY <1>3, <2>2, <3>1
  <2> QED
    BY <2>1, <2>2
<1>5. up = [n \in 0..N |-> IF n = 0 THEN {} ELSE {n} \cup up[parent(n)]]
  BY <1>4
<1> QED
  BY <1>5 DEF N, parent

\* A branch is its tip and the branch of the tip's parent.
LEMMA BranchStep ==
  ASSUME TypeOK, RunInv
  PROVE  /\ Branch(0) = {}
         /\ \A i \in 1..Len(tree) :
              Branch(i) = {i} \cup Branch(tree[i].block.header.parent)
<1>1. PICK up :
        /\ up = [n \in 0..Len(tree) |->
                   IF n = 0 THEN {} ELSE {n} \cup up[tree[n].block.header.parent]]
        /\ \A k : Branch(k) = up[k]
  BY BranchExists, Zenon DEF Branch
<1>2. 0 \in 0..Len(tree) /\ \A i \in 1..Len(tree) : i \in 0..Len(tree) /\ i # 0
  BY DEF TypeOK
<1>3. /\ up[0] = {}
      /\ \A i \in 1..Len(tree) : up[i] = {i} \cup up[tree[i].block.header.parent]
  BY <1>1, <1>2
<1> QED
  BY <1>1, <1>3

\* Where block b runs user transaction u.
PlacesIn(b, u) ==
  {x \in DOMAIN tree[b].block.txs : tree[b].block.txs[x] = [kind |-> "User", id |-> u]}

\* The places on the branch of block i that run user transaction u.
RunsOn(i, u) == UNION {{<<b, j>> : j \in PlacesIn(b, u)} : b \in Branch(i)}

\* A block runs a transaction whose nonce its parent's state has not consumed,
\* once, and leaves it consumed.
LEMMA RunsInBlock ==
  ASSUME TypeOK, ReceiptsAligned, RunInv, NEW i \in 1..Len(tree), NEW u
  PROVE  LET p == tree[i].block.header.parent
         IN  /\ SpentAt(p) \subseteq SpentAt(i)
             /\ PlacesIn(i, u) # {} => u \notin SpentAt(p) /\ u \in SpentAt(i)
             /\ \A x, y \in PlacesIn(i, u) : x = y
<1> DEFINE b  == tree[i].block
           ex == tree[i].executed
           p  == b.header.parent
<1>1. i \in DOMAIN tree /\ i # 0
  BY DEF TypeOK
<1>2. ex.trace = b.txs /\ Admitted(ex, SpentAt(p)) /\ SpentAt(i) = ex.spent
  BY <1>1 DEF ReceiptsAligned, Aligned, RunInv, Run, SpentAt
<1> HIDE DEF b, ex
<1>3. PlacesIn(i, u) = {x \in DOMAIN b.txs : b.txs[x] = [kind |-> "User", id |-> u]}
  BY DEF PlacesIn, b
<1>4. \A x \in PlacesIn(i, u) : x \in UserAt(ex) /\ ex.trace[x].id = u
  BY <1>2, <1>3 DEF UserAt
<1> HIDE DEF p
<1>5. /\ SpentAt(p) \subseteq SpentAt(i)
      /\ PlacesIn(i, u) # {} => u \notin SpentAt(p) /\ u \in SpentAt(i)
      /\ \A x, y \in PlacesIn(i, u) : x = y
  BY <1>2, <1>4 DEF Admitted
<1> QED
  BY <1>5 DEF p, b

\* A branch runs a transaction at most once, and not at all if the state at
\* its tip has the nonce left.
OnceOn(i) ==
  \A u \in UserTx : /\ \A x, y \in RunsOn(i, u) : x = y
                    /\ RunsOn(i, u) # {} => u \in SpentAt(i)

\* What holds of the parent's branch holds of the branch one block longer.
LEMMA OnceGrows ==
  ASSUME TypeOK, ReceiptsAligned, RunInv, NEW i \in 1..Len(tree),
         OnceOn(tree[i].block.header.parent)
  PROVE  OnceOn(i)
<1> DEFINE p == tree[i].block.header.parent
<1> SUFFICES ASSUME NEW u \in UserTx
             PROVE  /\ \A x, y \in RunsOn(i, u) : x = y
                    /\ RunsOn(i, u) # {} => u \in SpentAt(i)
  BY DEF OnceOn
<1>1. /\ \A x, y \in RunsOn(p, u) : x = y
      /\ RunsOn(p, u) # {} => u \in SpentAt(p)
  BY DEF OnceOn
<1>2. Branch(i) = {i} \cup Branch(p)
  BY BranchStep
<1>3. RunsOn(i, u) = {<<i, j>> : j \in PlacesIn(i, u)} \cup RunsOn(p, u)
  BY <1>2 DEF RunsOn
<1>4. /\ SpentAt(p) \subseteq SpentAt(i)
      /\ PlacesIn(i, u) # {} => u \notin SpentAt(p) /\ u \in SpentAt(i)
      /\ \A x, y \in PlacesIn(i, u) : x = y
  BY RunsInBlock
<1> HIDE DEF p
<1> QED
  BY <1>1, <1>3, <1>4

\* So it holds of every branch.
LEMMA OnceEverywhere ==
  ASSUME TypeOK, ReceiptsAligned, RunInv
  PROVE  \A i \in 0..Len(tree) : OnceOn(i)
<1> DEFINE T == {i \in 0..Len(tree) : ~OnceOn(i)}
<1>0. DOMAIN tree = 1..Len(tree) /\ Len(tree) \in Nat
  BY DEF TypeOK
<1> SUFFICES ASSUME T # {} PROVE FALSE
  OBVIOUS
<1>1. PICK i \in T : \A k \in T : i <= k
  <2>1. T \in SUBSET Nat
    BY <1>0
  <2> HIDE DEF T
  <2> QED
    BY <2>1, LeastElement
<1>2. CASE i = 0
  <2>1. Branch(0) = {}
    BY BranchStep
  <2> QED
    BY <1>1, <1>2, <2>1 DEF OnceOn, RunsOn
<1>3. CASE i # 0
  <2>1. i \in 1..Len(tree) /\ i \in DOMAIN tree
    BY <1>0, <1>1, <1>3
  <2>2. tree[i].block.header.parent \in 0..(i - 1)
    BY <2>1 DEF RunInv
  <2>3. OnceOn(tree[i].block.header.parent)
    BY <1>0, <1>1, <2>1, <2>2
  <2> QED
    BY <1>1, <2>1, <2>3, OnceGrows
<1> QED
  BY <1>2, <1>3

(***************************************************************************)
(* No branch of the tree runs a user transaction twice: a run consumes the *)
(* nonces of its transactions on top of the state its parent left, and     *)
(* that state is the branch's, whatever siblings were built or imported in *)
(* the meantime.                                                           *)
(***************************************************************************)
THEOREM NeverReplayed == Spec => []NoReplay
<1>1. TypeOK /\ ReceiptsAligned /\ RunInv => NoReplay
  <2> SUFFICES ASSUME TypeOK, ReceiptsAligned, RunInv, NEW i \in DOMAIN tree, NEW u \in UserTx
               PROVE  Cardinality(RunsOn(i, u)) <= 1
    BY DEF NoReplay, RunsOn, PlacesIn
  <2>1. i \in 0..Len(tree)
    BY DEF TypeOK
  <2>2. \A x, y \in RunsOn(i, u) : x = y
    BY <2>1, OnceEverywhere DEF OnceOn
  <2>3. CASE RunsOn(i, u) = {}
    BY <2>3, FS_EmptySet
  <2>4. CASE RunsOn(i, u) # {}
    <3>1. PICK x : x \in RunsOn(i, u)
      BY <2>4
    <3>2. RunsOn(i, u) = {x}
      BY <2>2, <3>1
    <3> QED
      BY <3>2, FS_Singleton
  <2> QED
    BY <2>3, <2>4
<1> QED
  BY <1>1, TypeCorrect, ReceiptsAlwaysAligned, RunCorrect, PTL
-----------------------------------------------------------------------------
(* The node's own payloads *)

\* The block being built has the base fee its parent determines, and takes no
\* transaction in the Prague3 window.
JobPriced ==
  job # None =>
    /\ job.ctx.baseFee = NextBlockBaseFee(sched, HeaderAt(job.ctx.parent))
    /\ IsPrague3Active(sched, job.ctx.timestamp) => job.txs = <<>>

\* A distribution that logs what the Prague3 filter refuses, in its window.
RestrictedPayout(block) ==
  IsPrague3Active(sched, block.header.timestamp) /\ outcome.log = "restricted"

\* A payload passes every check an import makes, on the execution it was
\* built with.
Acceptable(p) ==
  /\ ValidHeader(sched, p.block.header)
  /\ ValidHeaderAgainstParent(sched, p.block.header, HeaderAt(p.block.header.parent))
  /\ ValidBlockPreExecution(sched, p.block)
  /\ Finishable(sched, ContextOf(p.block.header), p.executed)
  /\ ~RestrictedPayout(p.block) => ValidBlockPostExecution(sched, p.block, p.executed)

OwnInv == JobPriced /\ \A p \in payloads : Acceptable(p)

\* Every step keeps the block being built at its parent's price.
LEMMA PricedStep ==
  ASSUME TypeOK, ParentsKnown, JobPriced, Next
  PROVE  JobPriced'
<1>1. sched' = sched
  BY DEF Next, StartJob, JobPreExecution, JobTransaction, JobFinish, JobAbort, ImportOwn,
     ImportPeer, Import, ConsensusChecks, ImportPreExecution, ImportTransaction,
     ImportFinish, ImportConclude, ImportAbort
<1>2. tree' = tree \/ \E e : tree' = Append(tree, e)
  BY TreeStep
<1>3. CASE StartJob
  <2>1. PICK parent \in 0..Len(tree), t \in Times, pubkey \in Pubkey \cup {None} :
          job' = [stage |-> "fresh", ctx |-> NextBlockContext(parent, t, pubkey),
                  ex |-> NewExecutor(SpentAt(parent)), txs |-> <<>>]
    BY <1>3 DEF StartJob
  <2>2. /\ job'.ctx.parent = parent /\ job'.txs = <<>>
        /\ job'.ctx.baseFee = NextBlockBaseFee(sched, HeaderAt(parent))
    BY <2>1 DEF NextBlockContext
  <2>3. HeaderAt(parent)' = HeaderAt(parent)
    BY <1>2, HeaderStable
  <2>4. HeaderAt(job.ctx.parent)' = HeaderAt(parent)
    BY <2>2, <2>3 DEF HeaderAt
  <2>5. NextBlockBaseFee(sched, HeaderAt(job.ctx.parent))'
          = NextBlockBaseFee(sched, HeaderAt(parent))
    BY <1>1, <2>4 DEF NextBlockBaseFee, MaxChangeDenominator, MinimumBaseFee,
       CalcNextBlockBaseFee
  <2> QED
    BY <2>2, <2>5 DEF JobPriced
<1>4. CASE /\ job # None /\ job' # None /\ job'.ctx = job.ctx
           /\ job'.txs = job.txs \/ ~IsPrague3Active(sched, job.ctx.timestamp)
  <2>1. PICK i \in 0..Len(tree) : job.ctx.parent = i
    BY <1>4 DEF ParentsKnown
  <2>2. HeaderAt(i)' = HeaderAt(i)
    BY <1>2, HeaderStable
  <2>3. HeaderAt(job.ctx.parent)' = HeaderAt(job.ctx.parent)
    BY <1>4, <2>1, <2>2 DEF HeaderAt
  <2>4. NextBlockBaseFee(sched, HeaderAt(job.ctx.parent))'
          = NextBlockBaseFee(sched, HeaderAt(job.ctx.parent))
    BY <1>1, <2>3 DEF NextBlockBaseFee, MaxChangeDenominator, MinimumBaseFee,
       CalcNextBlockBaseFee
  <2>5. IsPrague3Active(sched, job.ctx.timestamp)'
          = IsPrague3Active(sched, job.ctx.timestamp)
    BY <1>1, <1>4
  <2> QED
    BY <1>4, <2>4, <2>5 DEF JobPriced
<1>5. CASE job' = None
  BY <1>5 DEF JobPriced
<1>6. CASE JobPreExecution \/ JobTransaction
  <2>1. CASE JobPreExecution
    <3>1. /\ job # None
          /\ job' = None \/ \E ex : job' = [job EXCEPT !.stage = "open", !.ex = ex]
      BY <2>1 DEF JobPreExecution
    <3>2. job' # None => job'.ctx = job.ctx /\ job'.txs = job.txs
      BY <3>1 DEF TypeOK
    <3> QED
      BY <1>4, <1>5, <3>1, <3>2
  <2>2. CASE JobTransaction
    <3>1. /\ job # None /\ ~IsPrague3Active(sched, job.ctx.timestamp)
          /\ \E ex, txs : job' = [job EXCEPT !.ex = ex, !.txs = txs]
      BY <2>2 DEF JobTransaction
    <3>2. job'.ctx = job.ctx
      BY <3>1 DEF TypeOK
    <3> QED
      BY <1>4, <1>5, <3>1, <3>2
  <2> QED
    BY <1>6, <2>1, <2>2
<1>7. CASE job' = job
  BY <1>4, <1>5, <1>7
<1> QED
  BY <1>3, <1>5, <1>6, <1>7 DEF Next, JobFinish, JobAbort, ImportOwn, ImportPeer, Import,
     ConsensusChecks, ImportPreExecution, ImportTransaction, ImportFinish, ImportConclude,
     ImportAbort

\* The receipts of a body that is the distribution alone, or empty.
LEMMA PayoutOnly ==
  ASSUME NEW ctx, NEW ex \in Executor, NEW block \in Block, Receipted(outcome, ex),
         block = AssembleBlock(sched, ctx, ex, <<>>), Aligned(block, ex)
  PROVE  \A i \in DOMAIN ex.receipts : ex.receipts[i].log = outcome.log
<1> DEFINE pol == CreatePolTransaction(ctx)
<1>1. block.txs = <<>> \/ block.txs = <<pol>>
  BY DEF AssembleBlock
<1>2. pol.kind = "PoL"
  BY DEF CreatePolTransaction
<1>3. ex.trace = block.txs /\ Len(ex.receipts) = Len(ex.trace) /\ ex.receipts \in Seq(Receipt)
  BY DEF Aligned, Receipted, Executor
<1> HIDE DEF pol
<1>4. \A i \in DOMAIN ex.receipts : i = 1 /\ i \in DOMAIN ex.trace /\ ex.trace[i] = pol
  <2>1. CASE block.txs = <<>>
    BY <1>3, <2>1
  <2>2. CASE block.txs = <<pol>>
    BY <1>3, <2>2
  <2> QED
    BY <1>1, <2>1, <2>2
<1>5. \A i \in DOMAIN ex.receipts : ex.receipts[i] = ReceiptOf(outcome, pol, Cumulative(ex, i - 1))
  BY <1>4 DEF Receipted
<1>6. \A g : ReceiptOf(outcome, pol, g).log = outcome.log
  BY <1>2, Zenon DEF ReceiptOf
<1> QED
  BY <1>5, <1>6, Zenon

\* A job that finishes hands over an acceptable payload.
LEMMA FinishedAcceptable ==
  ASSUME TypeOK, ParentsKnown, PipelineInv, JobExtends, RunInv, JobPriced,
         job # None, job.stage = "open",
         Finishable(sched, job.ctx, job.ex), Assemblable(sched, job.ctx, job.ex),
         NEW p, p.block = AssembleBlock(sched, job.ctx, job.ex, job.txs), p.executed = job.ex
  PROVE  Acceptable(p)
<1> DEFINE block == AssembleBlock(sched, job.ctx, job.ex, job.txs)
           h     == block.header
<1>1. job.ctx \in Context /\ job.ex \in Executor /\ job.txs \in Seq(UserTransaction)
  BY DEF TypeOK
<1>2. /\ h.parent = job.ctx.parent /\ h.number = job.ctx.number
      /\ h.timestamp = job.ctx.timestamp /\ h.baseFee = job.ctx.baseFee
      /\ h.pubkey = job.ctx.pubkey /\ h.gasUsed = job.ex.gasUsed
      /\ h.receiptsRoot = job.ex.receipts
      /\ h.requests = Requests(sched, job.ctx, job.ex)
  BY DEF AssembleBlock
<1>3. ContextOf(h).timestamp = h.timestamp
  BY DEF ContextOf
<1>4. block \in Block /\ ValidBlockPreExecution(sched, block)
  BY <1>1, AssembleType, OwnBodyValid
<1> HIDE DEF h
<1>5. ValidHeader(sched, h)
  <2>1. Requests(sched, job.ctx, job.ex) # None <=> IsPragueActive(sched, job.ctx.timestamp)
    <3>1. {i \in DOMAIN job.ex.receipts :
             IsOsakaActive(sched, job.ctx.timestamp) /\ job.ex.receipts[i].log = "deposit"}
            \in SUBSET Nat
      BY <1>1 DEF Executor
    <3> QED
      BY <3>1, ExecutorAssumption DEF Requests, RequestsHash
  <2> QED
    BY <1>2, <2>1 DEF ValidHeader, Assemblable, PreExecutable
<1>6. ValidHeaderAgainstParent(sched, h, HeaderAt(h.parent))
  BY <1>2 DEF ValidHeaderAgainstParent, JobExtends, JobPriced
<1>7. Finishable(sched, ContextOf(h), job.ex)
  BY <1>2, <1>3 DEF Finishable
<1>8. ASSUME ~RestrictedPayout(block)
      PROVE  ValidBlockPostExecution(sched, block, job.ex)
  <2>1. h.requests = Requests(sched, ContextOf(h), job.ex)
    BY <1>2, <1>3 DEF Requests
  <2>2. ASSUME IsPrague3Active(sched, h.timestamp)
        PROVE  \A i \in DOMAIN job.ex.receipts : job.ex.receipts[i].log # "restricted"
    <3>1. job.txs = <<>>
      BY <1>2, <2>2 DEF JobPriced
    <3>2. Aligned(block, job.ex)
      <4>1. block.txs = BodyOf(job.ctx, job.txs)
        BY DEF AssembleBlock, BodyOf
      <4> HIDE DEF block
      <4> QED
        BY <1>1, <1>4, <4>1, PrefixAligned DEF PipelineInv, JobInv
    <3>3. block = AssembleBlock(sched, job.ctx, job.ex, <<>>) /\ Receipted(outcome, job.ex)
      BY <3>1 DEF RunInv, Run
    <3>4. outcome.log # "restricted"
      BY <1>8, <2>2 DEF RestrictedPayout, h
    <3> HIDE DEF block
    <3> QED
      BY <1>1, <1>4, <3>2, <3>3, <3>4, PayoutOnly
  <2> QED
    BY <1>2, <2>1, <2>2 DEF ValidBlockPostExecution, h
<1> QED
  BY <1>4, <1>5, <1>6, <1>7, <1>8 DEF Acceptable, RestrictedPayout, h

\* Every step keeps the payloads acceptable: what their parents' headers say
\* does not change.
LEMMA OwnStep ==
  ASSUME TypeOK, ParentsKnown, PipelineInv, JobExtends, RunInv, OwnInv, Next
  PROVE  OwnInv'
<1>1. sched' = sched /\ outcome' = outcome
  BY DEF Next, StartJob, JobPreExecution, JobTransaction, JobFinish, JobAbort, ImportOwn,
     ImportPeer, Import, ConsensusChecks, ImportPreExecution, ImportTransaction,
     ImportFinish, ImportConclude, ImportAbort
<1>2. tree' = tree \/ \E e : tree' = Append(tree, e)
  BY TreeStep
<1>3. ASSUME NEW p \in payloads'
      PROVE  Acceptable(p) /\ p.block.header.parent \in 0..Len(tree)
  <2>1. CASE p \in payloads
    BY <2>1 DEF OwnInv, ParentsKnown
  <2>2. CASE p \notin payloads
    <3>1. /\ job # None /\ job.stage = "open"
          /\ Finishable(sched, job.ctx, job.ex)
          /\ Assemblable(sched, job.ctx, job.ex)
          /\ p.block = AssembleBlock(sched, job.ctx, job.ex, job.txs)
          /\ p.executed = job.ex
      BY <1>3, <2>2, PayloadStep
    <3>2. Acceptable(p)
      BY <3>1, FinishedAcceptable DEF OwnInv
    <3>3. p.block.header.parent = job.ctx.parent
      BY <3>1 DEF AssembleBlock
    <3> QED
      BY <3>1, <3>2, <3>3 DEF ParentsKnown
  <2> QED
    BY <2>1, <2>2
<1>4. ASSUME NEW p \in payloads'
      PROVE  Acceptable(p)'
  <2>1. PICK i \in 0..Len(tree) : p.block.header.parent = i
    BY <1>3
  <2>2. HeaderAt(i)' = HeaderAt(i)
    BY <1>2, HeaderStable
  <2>3. HeaderAt(p.block.header.parent)' = HeaderAt(p.block.header.parent)
    BY <2>1, <2>2
  <2>4. Acceptable(p)
    BY <1>3
  <2> QED
    BY <1>1, <2>3, <2>4 DEF Acceptable, RestrictedPayout
<1>5. JobPriced'
  BY PricedStep DEF OwnInv
<1> QED
  BY <1>4, <1>5 DEF OwnInv

\* The payloads of the node are acceptable, always.
LEMMA OwnCorrect == Spec => [](JobExtends /\ OwnInv)
<1>1. Init => JobExtends /\ OwnInv
  BY DEF Init, JobExtends, OwnInv, JobPriced
<1>2. TypeOK /\ ParentsKnown /\ JobExtends /\ [Next]_vars => JobExtends'
  BY JobExtendsStep
<1>3. TypeOK /\ ParentsKnown /\ PipelineInv /\ JobExtends /\ RunInv /\ OwnInv /\ [Next]_vars
        => OwnInv'
  <2>1. OwnInv /\ UNCHANGED vars => OwnInv'
    BY DEF OwnInv, JobPriced, Acceptable, RestrictedPayout, vars, HeaderAt
  <2> QED
    BY <2>1, OwnStep
<1> QED
  BY <1>1, <1>2, <1>3, TypeCorrect, PipelineCorrect, RunCorrect, PTL DEF Spec

\* Two executions of the same transactions used the same gas and left the
\* same receipts.
LEMMA SameRun ==
  ASSUME NEW a \in Executor, NEW b \in Executor,
         Receipted(outcome, a), Receipted(outcome, b),
         Len(a.trace) <= Len(b.trace),
         \A i \in 1..Len(a.trace) : a.trace[i] = b.trace[i]
  PROVE  /\ \A i \in 0..Len(a.trace) : Cumulative(a, i) = Cumulative(b, i)
         /\ \A i \in 1..Len(a.trace) : a.receipts[i] = b.receipts[i]
<1> DEFINE n == Len(a.trace)
           f == [i \in 0..n |-> Cumulative(a, i)]
           g == [i \in 0..n |-> Cumulative(b, i)]
<1>1. n \in Nat /\ DOMAIN a.trace = 1..n /\ 1..n \subseteq DOMAIN b.trace
  BY DEF Executor
<1>2. ASSUME NEW i \in 1..n, Cumulative(a, i - 1) = Cumulative(b, i - 1)
      PROVE  a.receipts[i] = b.receipts[i]
  BY <1>1, <1>2 DEF Receipted
<1>3. ASSUME NEW i \in 1..n, Cumulative(a, i - 1) = Cumulative(b, i - 1)
      PROVE  Cumulative(a, i) = Cumulative(b, i)
  BY <1>2, <1>3 DEF Cumulative
<1>4. f[0] = g[0]
  BY <1>1 DEF Cumulative
<1>5. ASSUME NEW i \in 1..n, f[i - 1] = g[i - 1]
      PROVE  f[i] = g[i]
  <2>1. i - 1 \in 0..n /\ i \in 0..n
    BY <1>1
  <2> QED
    BY <1>3, <1>5, <2>1
<1> HIDE DEF f, g
<1>6. \A i \in 0..n : f[i] = g[i]
  <2>1. GoOnAlike(f, g, n)
    BY <1>5 DEF GoOnAlike
  <2>2. SameUpTo(f, g, n)
    BY ONLY <1>1, <1>4, <2>1, SameRecursion
  <2> QED
    BY <2>2 DEF SameUpTo
<1>7. \A i \in 0..n : Cumulative(a, i) = Cumulative(b, i)
  BY <1>6 DEF f, g
<1>8. \A i \in 1..n : a.receipts[i] = b.receipts[i]
  <2>1. \A i \in 1..n : i - 1 \in 0..n
    BY <1>1
  <2> QED
    BY <1>2, <1>7, <2>1
<1> QED
  BY <1>7, <1>8

\* An import that has executed the whole body of a payload did what the job
\* that built it did.
LEMMA SameExecution ==
  ASSUME NEW block \in Block, NEW a \in Executor, NEW b \in Executor,
         Receipted(outcome, a), Receipted(outcome, b), Aligned(block, b),
         Prefix(block.txs, Len(block.txs), a)
  PROVE  a.receipts = b.receipts /\ a.gasUsed = b.gasUsed
<1>1. Aligned(block, a)
  BY PrefixAligned
<1>2. a.trace = b.trace
  BY <1>1 DEF Aligned
<1>3. /\ \A i \in 0..Len(a.trace) : Cumulative(a, i) = Cumulative(b, i)
      /\ \A i \in 1..Len(a.trace) : a.receipts[i] = b.receipts[i]
  <2>1. Len(a.trace) <= Len(b.trace) /\ \A i \in 1..Len(a.trace) : a.trace[i] = b.trace[i]
    BY <1>2 DEF Executor
  <2> QED
    BY <2>1, SameRun
<1>4. /\ a.receipts \in Seq(Receipt) /\ b.receipts \in Seq(Receipt)
      /\ Len(a.receipts) = Len(a.trace) /\ Len(b.receipts) = Len(a.trace)
      /\ Len(a.trace) \in Nat
  BY <1>2 DEF Receipted, Executor
<1>5. a.receipts = b.receipts
  BY <1>3, <1>4
<1>6. a.gasUsed = b.gasUsed
  BY <1>2, <1>3, <1>4 DEF Receipted
<1> QED
  BY <1>5, <1>6

\* What an execution of the block admitted next, another that has come as
\* far admits too.
LEMMA SameAdmission ==
  ASSUME NEW block \in Block, NEW a \in Executor, NEW b \in Executor, NEW spent,
         Run(outcome, a, spent), Run(outcome, b, spent), Aligned(block, b),
         NEW n \in Nat, n + 1 <= Len(block.txs), Prefix(block.txs, n, a)
  PROVE  Executable(a, block.txs[n + 1])
<1> DEFINE tx == block.txs[n + 1]
<1> SUFFICES ASSUME tx.kind = "User"
             PROVE  TxGasLimit[tx.id] <= GasLimit - a.gasUsed /\ tx.id \notin a.spent
  BY DEF Executable
<1>1. b.trace = block.txs /\ Len(a.trace) = n
      /\ \A i \in 1..n : a.trace[i] = block.txs[i]
  BY DEF Aligned, Prefix
<1>2. DOMAIN block.txs = 1..Len(block.txs) /\ DOMAIN a.trace = 1..n /\ Len(block.txs) \in Nat
  BY <1>1 DEF Block, Executor
<1>3. n + 1 \in UserAt(b) /\ b.trace[n + 1] = tx
  BY <1>1, <1>2 DEF UserAt
<1>4. a.gasUsed = Cumulative(b, n)
  <2>1. \A i \in 0..n : Cumulative(a, i) = Cumulative(b, i)
    BY <1>1, <1>2, SameRun DEF Run
  <2> QED
    BY <1>1, <2>1 DEF Run, Receipted
<1>5. TxGasLimit[tx.id] <= GasLimit - Cumulative(b, n)
  <2>1. TxGasLimit[b.trace[n + 1].id] <= GasLimit - Cumulative(b, (n + 1) - 1)
    BY <1>3 DEF Run, Admitted
  <2>2. (n + 1) - 1 = n
    OBVIOUS
  <2> QED
    BY <1>3, <2>1, <2>2
<1>6. tx.id \notin spent
  BY <1>3 DEF Run, Admitted
<1>7. ASSUME NEW i \in UserAt(a), a.trace[i].id = tx.id
      PROVE  FALSE
  <2>1. i \in 1..n /\ a.trace[i] = b.trace[i] /\ i \in UserAt(b)
    BY <1>1, <1>2 DEF UserAt
  <2>2. i = n + 1
    BY <1>3, <1>7, <2>1 DEF Run, Admitted
  <2> QED
    BY <2>1, <2>2
<1>8. tx.id \notin a.spent
  BY <1>6, <1>7 DEF Run, Admitted
<1> QED
  BY <1>4, <1>5, <1>8

\* A step that refuses a block has found one of the code's reasons.
LEMMA RefusalStep ==
  ASSUME TypeOK, Next, imp # None, imp' = None, verdict' = "INVALID"
  PROVE  LET block == imp.block
             h     == block.header
         IN  \/ ~(/\ ValidHeader(sched, h)
                  /\ ValidHeaderAgainstParent(sched, h, HeaderAt(h.parent))
                  /\ ValidBlockPreExecution(sched, block))
             \/ /\ imp.stage = "executing" /\ imp.next <= Len(block.txs)
                /\ ~Executable(imp.ex, block.txs[imp.next])
             \/ /\ imp.stage = "executing" /\ imp.next > Len(block.txs)
                /\ ~Finishable(sched, ContextOf(h), imp.ex)
             \/ /\ imp.stage = "executed"
                /\ ~ValidBlockPostExecution(sched, block, imp.ex)
<1> DEFINE Task == ImportTask
<1>1. imp \in Task /\ None \notin Task
  BY LifecycleAssumption DEF TypeOK, LifecycleAssumption
<1> HIDE DEF Task
<1>2. ASSUME NEW next \in Task, Continue(next)
      PROVE  FALSE
  BY <1>1, <1>2 DEF Continue
<1>3. CASE ConsensusChecks
  <2>1. [imp EXCEPT !.checked = TRUE] \in Task
    BY <1>1 DEF Task
  <2> QED
    BY <1>2, <1>3, <2>1 DEF ConsensusChecks
<1>4. CASE ImportTransaction
  <2> DEFINE tx == imp.block.txs[imp.next]
  <2>1. imp.next <= Len(imp.block.txs) /\ imp.stage = "executing"
    BY <1>4 DEF ImportTransaction
  <2>2. tx \in Transaction /\ imp.ex \in Executor /\ imp.next + 1 \in Nat \ {0}
    BY <1>1, <2>1 DEF Task, Block
  <2>3. ASSUME Executable(imp.ex, tx)
        PROVE  FALSE
    <3>1. CommitTransaction(imp.ex, tx) \in Executor
      BY <2>2, <2>3, CommitType
    <3>2. Continue([imp EXCEPT !.ex = CommitTransaction(@, tx), !.next = @ + 1])
      BY <1>4, <2>3 DEF ImportTransaction
    <3> HIDE DEF tx
    <3>3. [imp EXCEPT !.ex = CommitTransaction(@, tx), !.next = @ + 1] \in Task
      BY <1>1, <2>2, <3>1 DEF Task
    <3> QED
      BY <1>2, <3>2, <3>3
  <2> QED
    BY <2>1, <2>3
<1>5. CASE ImportFinish
  <2>1. [imp EXCEPT !.stage = "executed"] \in Task
    BY <1>1 DEF Task, Stage
  <2> QED
    BY <1>2, <1>5, <2>1 DEF ImportFinish, ImportContext
<1>6. CASE ImportConclude
  BY <1>6 DEF ImportConclude
<1>7. CASE ImportPreExecution
  <2>1. PreExecutable(sched, ImportContext)
    BY <1>7 DEF ImportPreExecution, GiveUp
  <2>2. ApplyPreExecutionChanges(sched, ImportContext, imp.ex, outcome) \in Executor
    BY <1>1, <2>1, ContextType, PreExecutionType, LifecycleAssumption
    DEF TypeOK, LifecycleAssumption, ImportContext, Block
  <2>3. Continue([imp EXCEPT !.stage = "executing",
                    !.ex = ApplyPreExecutionChanges(sched, ImportContext, @, outcome)])
    BY <1>7, <2>1 DEF ImportPreExecution
  <2>4. [imp EXCEPT !.stage = "executing",
           !.ex = ApplyPreExecutionChanges(sched, ImportContext, @, outcome)] \in Task
    BY <1>1, <2>2 DEF Task, Stage
  <2> QED
    BY <1>2, <2>3, <2>4
<1> QED
  BY <1>3, <1>4, <1>5, <1>6, <1>7 DEF Next, StartJob, JobPreExecution, JobTransaction,
     JobFinish, JobAbort, ImportOwn, ImportPeer, Import, ImportAbort, GiveUp

\* No step refuses a block the node has built, but for the exception.
LEMMA OwnRefusal ==
  ASSUME TypeOK, PipelineInv, RunInv, OwnInv, Next,
         imp # None, imp' = None, verdict' = "INVALID",
         NEW p \in payloads, p.block = imp.block
  PROVE  RestrictedPayout(imp.block)
<1> SUFFICES ASSUME ~RestrictedPayout(imp.block)
             PROVE  FALSE
  OBVIOUS
<1> DEFINE block == imp.block
           spent == SpentAt(block.header.parent)
           b     == p.executed
<1>1. block \in Block /\ imp.ex \in Executor /\ b \in Executor /\ imp.next \in Nat \ {0}
  BY DEF TypeOK
<1>2. Acceptable(p) /\ ValidBlockPreExecution(sched, block)
  BY DEF OwnInv, Acceptable
<1>3. Aligned(block, b)
  BY DEF PipelineInv, ReceiptsAligned
<1>4. Run(outcome, imp.ex, spent) /\ Run(outcome, b, spent)
  BY DEF RunInv
<1>5. block.txs \in Seq(Transaction) /\ Len(block.txs) \in Nat
  BY <1>1 DEF Block
<1>6. imp.next <= Len(block.txs) + 1
  BY DEF PipelineInv, ImportInv
<1>7. imp.stage # "fresh" => Prefix(block.txs, Executed, imp.ex)
  BY <1>2 DEF PipelineInv, ImportInv
<1>8. ASSUME imp.stage # "fresh", imp.next > Len(block.txs)
      PROVE  imp.ex.receipts = b.receipts /\ imp.ex.gasUsed = b.gasUsed
  <2>1. imp.next = Len(block.txs) + 1
    BY <1>1, <1>5, <1>6, <1>8
  <2>2. Executed = Len(block.txs)
    <3>1. IsPrague1Active(sched, block.header.timestamp) => Len(block.txs) # 0
      BY <1>2, <1>5 DEF ValidBlockPreExecution
    <3> QED
      BY <1>5, <2>1, <3>1 DEF Executed
  <2>3. Prefix(block.txs, Len(block.txs), imp.ex)
    BY <1>7, <1>8, <2>2
  <2> QED
    BY <1>1, <1>3, <1>4, <2>3, SameExecution DEF Run
<1>9. ASSUME imp.stage = "executing", imp.next <= Len(block.txs),
             ~Executable(imp.ex, block.txs[imp.next])
      PROVE  FALSE
  <2> DEFINE tx == block.txs[imp.next]
             n  == imp.next - 1
  <2>1. tx.kind = "User"
    BY <1>9 DEF Executable
  <2>2. Executed = n
    <3>1. IsPrague1Active(sched, block.header.timestamp) => block.txs[1].kind = "PoL"
      BY <1>2 DEF ValidBlockPreExecution, CreatePolTransaction
    <3> QED
      BY <2>1, <3>1 DEF Executed
  <2>3. n \in Nat /\ n + 1 = imp.next /\ Prefix(block.txs, n, imp.ex)
    BY <1>1, <1>7, <1>9, <2>2
  <2> HIDE DEF n
  <2>4. Executable(imp.ex, block.txs[n + 1])
    BY <1>1, <1>3, <1>4, <1>9, <2>3, SameAdmission
  <2> QED
    BY <1>9, <2>3, <2>4
<1>10. ASSUME imp.stage = "executing", imp.next > Len(block.txs),
              ~Finishable(sched, ContextOf(block.header), imp.ex)
       PROVE  FALSE
  <2>1. imp.ex.receipts = b.receipts
    BY <1>8, <1>10
  <2>2. Finishable(sched, ContextOf(block.header), b)
    BY <1>2 DEF Acceptable
  <2> QED
    BY <1>10, <2>1, <2>2 DEF Finishable
<1>11. ASSUME imp.stage = "executed", ~ValidBlockPostExecution(sched, block, imp.ex)
       PROVE  FALSE
  <2>1. imp.next > Len(block.txs)
    BY <1>5, <1>11 DEF PipelineInv, ImportInv
  <2>2. imp.ex.receipts = b.receipts /\ imp.ex.gasUsed = b.gasUsed
    BY <1>8, <1>11, <2>1
  <2>3. ValidBlockPostExecution(sched, block, b)
    BY <1>2 DEF Acceptable
  <2>4. Requests(sched, ContextOf(block.header), imp.ex)
          = Requests(sched, ContextOf(block.header), b)
    BY <2>2 DEF Requests
  <2> QED
    BY <1>11, <2>2, <2>3, <2>4 DEF ValidBlockPostExecution
<1>12. /\ ValidHeader(sched, block.header)
       /\ ValidHeaderAgainstParent(sched, block.header, HeaderAt(block.header.parent))
       /\ ValidBlockPreExecution(sched, block)
  BY <1>2 DEF Acceptable
<1> HIDE DEF b, spent
<1> QED
  BY <1>9, <1>10, <1>11, <1>12, RefusalStep

(***************************************************************************)
(* What default_berachain_payload builds, the executor and the consensus   *)
(* checks accept, whatever happened between: the import runs the same      *)
(* transactions on the same state with the same gas and fees.  Only a      *)
(* distribution that logs what the Prague3 filter refuses undoes it.       *)
(***************************************************************************)
THEOREM OwnPayloadsNeverRefused == Spec => OwnPayloadsAccepted
<1> DEFINE Inv == TypeOK /\ PipelineInv /\ RunInv /\ OwnInv
           A   == imp # None /\ imp' = None /\ verdict' = "INVALID" =>
                    \A p \in payloads :
                      p.block = imp.block =>
                        /\ IsPrague3Active(sched, imp.block.header.timestamp)
                        /\ outcome.log = "restricted"
<1>1. Inv /\ [Next]_vars => [A]_vars
  BY OwnRefusal DEF RestrictedPayout
<1>2. Spec => []Inv
  <2> QED
    BY TypeCorrect, PipelineCorrect, RunCorrect, OwnCorrect, PTL
<1> HIDE DEF Inv
<1>3. Spec => [][A]_vars
  BY <1>1, <1>2, PTL DEF Spec
<1> QED
  BY <1>3 DEF OwnPayloadsAccepted
=============================================================================
