------------------------ MODULE BlockEnvironmentProofs ------------------------
(***************************************************************************)
(* Proofs about BlockEnvironment, for every schedule, blob schedule, block *)
(* time and set of attributes.                                             *)
(***************************************************************************)
EXTENDS BlockEnvironment, Induction, SequenceTheorems, TLAPS

\* A sequence of anything: what a block's run holds does not matter here.
IsSeq(s) == \E S : s \in Seq(S)

\* A chain grows at its end and keeps what it has.
LEMMA Grows ==
  ASSUME NEW s, IsSeq(s), NEW e
  PROVE  /\ IsSeq(Append(s, e))
         /\ Len(s) \in Nat /\ Len(Append(s, e)) = Len(s) + 1
         /\ DOMAIN s = 1..Len(s) /\ DOMAIN Append(s, e) = 1..Len(s) + 1
         /\ \A i \in 1..Len(s) : Append(s, e)[i] = s[i]
         /\ Append(s, e)[Len(s) + 1] = e
<1>1. PICK S : s \in Seq(S)
  BY DEF IsSeq
<1>2. s \in Seq(S \cup {e})
  BY <1>1
<1>3. Append(s, e) \in Seq(S \cup {e})
  BY <1>2
<1> QED
  BY <1>2, <1>3 DEF IsSeq

-----------------------------------------------------------------------------
(* One block *)

\* What holds of a block's header, and of the environment and context of the
\* run that built it, given its parent's header.
RunsAlike(s, h, env, ctx, parent) ==
  LET data == ExecutionData(h) IN
  /\ EvmEnv(s, h) = env
  /\ EvmEnvForPayload(s, data) = env
  /\ ContextForBlock(h) = ctx
  /\ ContextForPayload(data) = ctx
  /\ h.excess = NextExcess(BlobParamsAt(s, h.timestamp), parent)
  /\ h.blobs <= BlobParamsAt(s, h.timestamp).max

\* The environment the builder derives is the one its own header determines,
\* field by field, whatever ran in it.
LEMMA AssembledRunsAlike ==
  ASSUME NEW s, NEW parent, NEW attributes, NEW ex, NEW txs,
         NEW env, env = NextEvmEnv(s, parent, attributes),
         NEW ctx, ctx = ContextForNextBlock(parent, attributes),
         NEW h, h = AssembleHeader(s, parent, env, ctx, ex, txs),
         h.blobs <= env.cfg.maxBlobs
  PROVE  /\ RunsAlike(s, h, env, ctx, parent)
         /\ h.number = parent.number + 1
         /\ h.timestamp = attributes.timestamp
         /\ h.pubkey = attributes.pubkey
<1> DEFINE data == ExecutionData(h)
           params == BlobParamsAt(s, attributes.timestamp)
<1>1. /\ h.number = parent.number + 1 /\ h.timestamp = attributes.timestamp
      /\ h.choice = attributes.choice /\ h.baseFee = NextBlockBaseFee(s, parent)
      /\ h.parent = parent.number /\ h.pubkey = attributes.pubkey
      /\ h.excess = NextExcess(params, parent)
  BY DEF AssembleHeader, NextEvmEnv, ContextForNextBlock
<1>2. env = [cfg |-> CfgEnv(s, h.timestamp), number |-> h.number,
             timestamp |-> h.timestamp, choice |-> h.choice, baseFee |-> h.baseFee,
             blob |-> [excess |-> h.excess, price |-> BlobFee(params, h.excess)]]
  BY <1>1 DEF NextEvmEnv
<1>3. EvmEnv(s, h) = env
  BY <1>1, <1>2 DEF EvmEnv
<1>4. EvmEnvForPayload(s, data) = env
  BY <1>1, <1>2 DEF EvmEnvForPayload, ExecutionData
<1>5. ContextForBlock(h) = ctx /\ ContextForPayload(data) = ctx
  BY <1>1 DEF ContextForBlock, ContextForPayload, ContextForNextBlock, ExecutionData
<1>6. h.blobs <= BlobParamsAt(s, h.timestamp).max
  BY <1>1, <1>2 DEF CfgEnv
<1> QED
  BY <1>1, <1>3, <1>4, <1>5, <1>6 DEF RunsAlike

-----------------------------------------------------------------------------
(* The chain *)

\* Positions and numbers agree, and every header has a key exactly from
\* Prague1 on: the genesis header by construction, the others because their
\* run would have failed without.
Keyed(s, h, i) ==
  /\ h.number = i
  /\ h.timestamp \in Nat
  /\ ValidProposerPubkey(s, h.timestamp, h.pubkey)

\* A pending block is the one its parent's header asks for.
PendingOfTip ==
  pending # None =>
    \E i \in 0..Len(chain) :
      /\ pending.ctx.number = i + 1
      /\ pending.ctx.timestamp = HeaderAt(i).timestamp + BlockTime
      /\ pending.ctx.pubkey = HeaderAt(i).pubkey
      /\ pending.built = PreExecutable(sched, pending.ctx)

EnvInv ==
  /\ sched \in Schedules
  /\ IsSeq(chain)
  /\ \A i \in 0..Len(chain) : Keyed(sched, HeaderAt(i), i)
  /\ \A i \in 1..Len(chain) :
       RunsAlike(sched, chain[i].header, chain[i].env, chain[i].ctx, HeaderAt(i - 1))
  /\ PendingOfTip

LEMMA EnvInvInit == Init => EnvInv
<1> SUFFICES ASSUME Init PROVE EnvInv
  OBVIOUS
<1>1. IsSeq(chain) /\ Len(chain) = 0
  <2>1. <<>> \in Seq({})
    OBVIOUS
  <2> QED
    BY <2>1 DEF Init, IsSeq
<1>2. Keyed(sched, HeaderAt(0), 0)
  <2>1. ZeroKey # None
    BY EnvironmentAssumption, ExecutorAssumption
  <2> QED
    BY <2>1 DEF HeaderAt, GenesisHeader, Keyed, ValidProposerPubkey
<1> QED
  BY <1>1, <1>2 DEF Init, EnvInv, PendingOfTip

LEMMA EnvInvNext == EnvInv /\ [Next]_vars => EnvInv'
<1> SUFFICES ASSUME EnvInv, [Next]_vars PROVE EnvInv'
  OBVIOUS
<1> USE DEF EnvInv
<1>0. Len(chain) \in Nat /\ DOMAIN chain = 1..Len(chain)
  BY Grows
<1>1. CASE Build
  <2>1. PICK t \in 1..MaxTime, choice \in OtherAttributes, pubkey \in Pubkey \cup {None},
             outcome \in PolOutcomes, body \in Bodies :
          LET attributes == [timestamp |-> t, choice |-> choice, pubkey |-> pubkey]
              block == Built(attributes, outcome, body)
          IN  /\ t > HeaderAt(Tip).timestamp
              /\ PreExecutable(sched, ExecutorContext(block.env, block.ctx))
              /\ block.header.blobs <= block.env.cfg.maxBlobs
              /\ chain' = Append(chain, block)
    BY <1>1 DEF Build
  <2> DEFINE attributes == [timestamp |-> t, choice |-> choice, pubkey |-> pubkey]
             block == Built(attributes, outcome, body)
             parent == HeaderAt(Tip)
  <2>2. /\ IsSeq(chain') /\ Len(chain') = Len(chain) + 1
        /\ \A i \in 1..Len(chain) : chain'[i] = chain[i]
        /\ chain'[Len(chain) + 1] = block
    <3>1. chain' = Append(chain, block)
      BY <2>1
    <3> HIDE DEF block
    <3> QED
      BY <3>1, Grows
  <2>3. sched' = sched /\ pending' = None
    BY <1>1 DEF Build
  <2>4. \A i \in 0..Len(chain) : HeaderAt(i)' = HeaderAt(i)
    BY <1>0, <2>2, <2>3 DEF HeaderAt, GenesisHeader
  <2>5. /\ block.env = NextEvmEnv(sched, parent, attributes)
        /\ block.ctx = ContextForNextBlock(parent, attributes)
        /\ \E ex, txs : block.header = AssembleHeader(sched, parent, block.env, block.ctx, ex, txs)
    BY DEF Built
  <2>6. /\ RunsAlike(sched, block.header, block.env, block.ctx, parent)
        /\ block.header.number = parent.number + 1
        /\ block.header.timestamp = t
        /\ block.header.pubkey = pubkey
    <3>1. block.header.blobs <= block.env.cfg.maxBlobs
      BY <2>1
    <3>2. PICK ex, txs :
            block.header = AssembleHeader(sched, parent, block.env, block.ctx, ex, txs)
      BY <2>5
    <3>3. attributes.timestamp = t /\ attributes.pubkey = pubkey
      OBVIOUS
    <3>4. /\ block.env = NextEvmEnv(sched, parent, attributes)
          /\ block.ctx = ContextForNextBlock(parent, attributes)
      BY <2>5
    <3> HIDE DEF block, parent, attributes
    <3>5. /\ RunsAlike(sched, block.header, block.env, block.ctx, parent)
          /\ block.header.number = parent.number + 1
          /\ block.header.timestamp = attributes.timestamp
          /\ block.header.pubkey = attributes.pubkey
      BY <3>1, <3>2, <3>4, AssembledRunsAlike
    <3> QED
      BY <3>3, <3>5
  <2>7. \A i : i = Len(chain) + 1 => HeaderAt(i)' = block.header
    <3> HIDE DEF block
    <3> QED
      BY <1>0, <2>2 DEF HeaderAt
  <2>8. ValidProposerPubkey(sched, t, pubkey)
    <3>1. PreExecutable(sched, ExecutorContext(block.env, block.ctx))
      BY <2>1
    <3> HIDE DEF block
    <3>2. /\ ExecutorContext(block.env, block.ctx).timestamp = t
          /\ ExecutorContext(block.env, block.ctx).pubkey = pubkey
      BY <2>5 DEF ExecutorContext, NextEvmEnv, ContextForNextBlock
    <3> QED
      BY <3>1, <3>2 DEF PreExecutable
  <2> HIDE DEF block
  <2>9. Keyed(sched, block.header, Len(chain) + 1)
    <3>1. parent.number = Len(chain)
      BY <1>0 DEF Keyed, Tip
    <3>2. t \in Nat
      BY EnvironmentAssumption
    <3> QED
      BY <2>6, <2>8, <3>1, <3>2 DEF Keyed
  <2>10. \A i \in 0..Len(chain') : Keyed(sched', HeaderAt(i)', i)
    BY <1>0, <2>2, <2>3, <2>4, <2>7, <2>9
  <2>11. \A i \in 1..Len(chain') :
           RunsAlike(sched', chain'[i].header, chain'[i].env, chain'[i].ctx, HeaderAt(i - 1)')
    BY <1>0, <2>2, <2>3, <2>4, <2>6 DEF Tip
  <2> QED
    BY <2>2, <2>3, <2>10, <2>11 DEF PendingOfTip
<1>2. CASE AskPending
  <2>1. UNCHANGED <<sched, chain>>
    BY <1>2 DEF AskPending
  <2>2. \A i : HeaderAt(i)' = HeaderAt(i)
    BY <2>1 DEF HeaderAt, GenesisHeader
  <2>3. PendingOfTip'
    <3> DEFINE parent == HeaderAt(Tip)
               attributes == BuildPendingEnv(parent)
               run == ExecutorContext(NextEvmEnv(sched, parent, attributes),
                                      ContextForNextBlock(parent, attributes))
    <3>1. pending' = [ctx |-> run, built |-> PreExecutable(sched, run)]
      BY <1>2 DEF AskPending
    <3>2. /\ run.number = parent.number + 1
          /\ run.timestamp = parent.timestamp + BlockTime
          /\ run.pubkey = parent.pubkey
      BY DEF ExecutorContext, NextEvmEnv, ContextForNextBlock, BuildPendingEnv
    <3>3. parent.number = Len(chain) /\ Tip \in 0..Len(chain)
      BY <1>0 DEF Tip, Keyed
    <3> HIDE DEF run, parent
    <3>4. /\ pending'.ctx.number = Tip + 1
          /\ pending'.ctx.timestamp = parent.timestamp + BlockTime
          /\ pending'.ctx.pubkey = parent.pubkey
          /\ pending'.built = PreExecutable(sched, pending'.ctx)
      BY <3>1, <3>2, <3>3 DEF Tip
    <3> QED
      BY <2>1, <2>2, <3>3, <3>4 DEF PendingOfTip, parent
  <2> QED
    BY <2>1, <2>2, <2>3
<1>3. CASE Read
  <2>1. UNCHANGED <<sched, chain, pending>>
    BY <1>3 DEF Read
  <2>2. \A i : HeaderAt(i)' = HeaderAt(i)
    BY <2>1 DEF HeaderAt, GenesisHeader
  <2> QED
    BY <2>1, <2>2 DEF PendingOfTip
<1>4. CASE UNCHANGED vars
  <2>1. \A i : HeaderAt(i)' = HeaderAt(i)
    BY <1>4 DEF HeaderAt, GenesisHeader, vars
  <2> QED
    BY <1>4, <2>1 DEF PendingOfTip, vars
<1> QED
  BY <1>1, <1>2, <1>3, <1>4 DEF Next

LEMMA EnvInvariant == Spec => []EnvInv
<1> QED
  BY EnvInvInit, EnvInvNext, PTL DEF Spec

(***************************************************************************)
(* Builder, payload and header determine one environment and one context   *)
(* for every block, whatever forks lie between it and its parent.          *)
(***************************************************************************)
THEOREM SameExecutionHolds == Spec => []SameExecution
<1>1. EnvInv => SameExecution
  <2> SUFFICES ASSUME EnvInv PROVE SameExecution
    OBVIOUS
  <2>1. DOMAIN chain = 1..Len(chain)
    BY Grows DEF EnvInv
  <2> QED
    BY <2>1 DEF EnvInv, SameExecution, RunsAlike
<1> QED
  BY <1>1, EnvInvariant, PTL

(***************************************************************************)
(* A pending block fails to build exactly where it would be Prague1's      *)
(* first, for every block time.                                            *)
(***************************************************************************)
THEOREM PendingKeyedHolds == Spec => []PendingKeyed
<1>1. EnvInv => PendingKeyed
  <2> SUFFICES ASSUME EnvInv, pending # None PROVE PendingKeyed
    BY DEF PendingKeyed
  <2>1. PICK i \in 0..Len(chain) :
          /\ pending.ctx.number = i + 1
          /\ pending.ctx.timestamp = HeaderAt(i).timestamp + BlockTime
          /\ pending.ctx.pubkey = HeaderAt(i).pubkey
          /\ pending.built = PreExecutable(sched, pending.ctx)
    BY DEF EnvInv, PendingOfTip
  <2>2. Keyed(sched, HeaderAt(i), i) /\ i \in Nat /\ pending.ctx.number - 1 = i
    BY <2>1, Grows DEF EnvInv
  <2> DEFINE parent == HeaderAt(i)
             t == pending.ctx.timestamp
  <2>3. IsPrague1Active(sched, parent.timestamp) => IsPrague1Active(sched, t)
    <3>1. sched["Prague1"] # Never => sched["Prague1"] \in Nat
      BY EnvironmentAssumption DEF EnvInv, Schedule, Fork
    <3> QED
      BY <2>1, <2>2, <3>1, EnvironmentAssumption
         DEF Keyed, IsPrague1Active, ActiveAt
  <2>4. IsPrague1Active(sched, parent.timestamp) <=> parent.pubkey # None
    BY <2>2 DEF Keyed, ValidProposerPubkey
  <2>5. PreExecutable(sched, pending.ctx) <=> (IsPrague1Active(sched, t) <=> parent.pubkey # None)
    BY <2>1, <2>2 DEF PreExecutable, ValidProposerPubkey
  <2> QED
    BY <2>1, <2>2, <2>3, <2>4, <2>5 DEF PendingKeyed
<1> QED
  BY <1>1, EnvInvariant, PTL

-----------------------------------------------------------------------------
(* The body of a block *)

\* What the builder's loop makes of one more transaction.
Took(run, u) ==
  LET tx == [kind |-> "User", id |-> u] IN
  IF Executable(run.ex, tx)
    THEN [ex |-> CommitTransaction(run.ex, tx), txs |-> Append(run.txs, tx)]
    ELSE run

\* RunBody's fold over the positions of a body.
Unrolled(iter, ex, body) ==
  iter = [s \in SUBSET DOMAIN body |->
            IF s = {} THEN [ex |-> ex, txs |-> <<>>]
            ELSE Took(iter[s \ {Greatest(s)}], body[Greatest(s)])]

LEMMA RunBodyUnrolled ==
  ASSUME NEW ex, NEW body
  PROVE  RunBody(ex, body) = (CHOOSE iter : Unrolled(iter, ex, body))[DOMAIN body]
  BY DEF RunBody, FoldLeft, MapThenFoldSet, Unrolled, Took, Greatest, Max

\* What an executor holds while a block runs that may start with pol.
Run(pol) ==
  [receipts: Seq(Receipt), gasUsed: Nat, spent: SUBSET UserTx,
   trace: Seq(UserTransaction \cup {pol}), hooks: Seq(Nat)]
BodyRun(pol) == [ex: Run(pol), txs: Seq(UserTransaction)]

\* One more transaction keeps the run's type.
LEMMA TookType ==
  ASSUME NEW pol, NEW run \in BodyRun(pol), NEW u \in UserTx
  PROVE  Took(run, u) \in BodyRun(pol)
<1>. DEFINE tx == [kind |-> "User", id |-> u]
            ex == run.ex
            post == CommitTransaction(ex, tx)
<1>1. /\ tx \in UserTransaction /\ ex \in Run(pol) /\ run.txs \in Seq(UserTransaction)
      /\ tx.kind = "User" /\ tx.id = u
  BY DEF BodyRun, UserTransaction
<1>2. TxGasUsed[u] \in Nat /\ TxLog[u] \in LogKind
  BY ExecutorAssumption
<1>3. /\ ex.receipts \in Seq(Receipt) /\ ex.gasUsed \in Nat /\ ex.spent \in SUBSET UserTx
      /\ ex.trace \in Seq(UserTransaction \cup {pol}) /\ ex.hooks \in Seq(Nat)
  BY <1>1 DEF Run
<1>. DEFINE gasUsed == ex.gasUsed + TxGasUsed[u]
            receipt == [kind |-> "User", success |-> TRUE, cumulativeGas |-> gasUsed,
                        log |-> TxLog[u]]
<1>4. gasUsed \in Nat /\ receipt \in Receipt
  BY <1>2, <1>3 DEF Receipt
<1>5. post = [receipts |-> Append(ex.receipts, receipt), gasUsed |-> gasUsed,
              spent |-> ex.spent \cup {u}, trace |-> Append(ex.trace, tx),
              hooks |-> Append(ex.hooks, Len(ex.receipts))]
  BY <1>1 DEF CommitTransaction
<1>6. post \in Run(pol)
  <2>. HIDE DEF receipt, gasUsed, ex, tx, post
  <2>1. /\ Append(ex.receipts, receipt) \in Seq(Receipt)
        /\ Append(ex.trace, tx) \in Seq(UserTransaction \cup {pol})
        /\ Append(ex.hooks, Len(ex.receipts)) \in Seq(Nat)
        /\ ex.spent \cup {u} \in SUBSET UserTx
    BY <1>1, <1>3, <1>4
  <2>. QED  BY <1>4, <1>5, <2>1 DEF Run
<1>7. Append(run.txs, tx) \in Seq(UserTransaction)
  <2>. HIDE DEF tx
  <2>. QED  BY <1>1
<1>. HIDE DEF tx, post, ex
<1>8. [ex |-> post, txs |-> Append(run.txs, tx)] \in BodyRun(pol)
  BY <1>6, <1>7 DEF BodyRun
<1>. QED  BY <1>8 DEF Took, tx, post, ex

\* RunBody goes through the body one transaction after the other.
LEMMA RunBodyIs ==
  ASSUME NEW pol, NEW ex \in Run(pol), NEW body \in Seq(UserTx)
  PROVE  \E f :
           /\ f[0] = [ex |-> ex, txs |-> <<>>]
           /\ \A i \in 1..Len(body) : f[i] = Took(f[i - 1], body[i])
           /\ RunBody(ex, body) = f[Len(body)]
<1>. DEFINE n == Len(body)
            D == BodyRun(pol)
            start == [ex |-> ex, txs |-> <<>>]
            step == [i \in 1..n |-> [r \in D |-> Took(r, body[i])]]
<1>1. n \in Nat /\ DOMAIN body = 1..n /\ \A i \in 1..n : body[i] \in UserTx
  OBVIOUS
<1>2. start \in D
  BY DEF BodyRun
<1>3. step \in [1..n -> [D -> D]]
  <2>1. \A i \in 1..n : \A r \in D : Took(r, body[i]) \in D
    BY <1>1, TookType
  <2>. HIDE DEF D, n
  <2>. QED  BY <2>1
<1>4. \A i \in 1..n : \A r \in D : step[i][r] = Took(r, body[i])
  OBVIOUS
<1>5. PICK g : Folds(g, n, D, start, step)
  <2>. HIDE DEF n, D, start, step
  <2>. QED  BY <1>1, <1>2, <1>3, FoldExists
<1>6. Unrolled(g, ex, body)
  <2>1. ASSUME NEW s \in SUBSET (1..n)
        PROVE  g[s] = IF s = {} THEN start
                      ELSE Took(g[s \ {Greatest(s)}], body[Greatest(s)])
    <3>1. CASE s = {}
      BY <1>5, <3>1 DEF Folds
    <3>2. CASE s # {}
      <4>1. Greatest(s) \in 1..n
        <5>. HIDE DEF n
        <5>. QED  BY <1>1, <3>2, GreatestIs
      <4>2. s \ {Greatest(s)} \in SUBSET (1..n)
        OBVIOUS
      <4>3. /\ g[s \ {Greatest(s)}] \in D
            /\ g[s] = step[Greatest(s)][g[s \ {Greatest(s)}]]
        <5>. HIDE DEF n, D, start, step
        <5>. QED  BY <1>5, <2>1, <3>2, <4>2 DEF Folds
      <4>. HIDE DEF step, D, start
      <4>. QED  BY <1>4, <3>2, <4>1, <4>3
    <3>. QED  BY <3>1, <3>2
  <2>2. g = [s \in SUBSET (1..n) |-> g[s]]
    BY <1>5 DEF Folds
  <2>3. [s \in SUBSET (1..n) |-> g[s]] =
          [s \in SUBSET (1..n) |-> IF s = {} THEN start
             ELSE Took(g[s \ {Greatest(s)}], body[Greatest(s)])]
    <3>. HIDE DEF start, n
    <3>. QED  BY <2>1, Zenon
  <2>. QED  BY <1>1, <2>2, <2>3, Zenon DEF Unrolled
<1>7. PICK h : Unrolled(h, ex, body) /\ RunBody(ex, body) = h[1..n]
  BY <1>1, <1>6, RunBodyUnrolled, Zenon
<1>. DEFINE f == [i \in 0..n |-> h[1..i]]
<1>8. \A s \in SUBSET (1..n) :
        h[s] = IF s = {} THEN start ELSE Took(h[s \ {Greatest(s)}], body[Greatest(s)])
  <2>. HIDE DEF n, start
  <2>1. h = [s \in SUBSET (1..n) |->
               IF s = {} THEN start ELSE Took(h[s \ {Greatest(s)}], body[Greatest(s)])]
    BY <1>1, <1>7, Zenon DEF Unrolled, start
  <2>. QED  BY <2>1, Zenon
<1>9. f[0] = start
  <2>1. 1..0 = {} /\ {} \in SUBSET (1..n) /\ 0 \in 0..n
    BY <1>1
  <2>2. f[0] = h[{}]
    BY <2>1
  <2>. HIDE DEF n, start, f
  <2>. QED  BY <1>8, <2>1, <2>2, Zenon
<1>10. ASSUME NEW i \in 1..n
       PROVE  f[i] = Took(f[i - 1], body[i])
  <2>1. /\ 1..i \in SUBSET (1..n) /\ 1..i # {} /\ i \in 1..i /\ i \in Nat
        /\ (1..i) \ {i} = 1..(i - 1) /\ i \in 0..n /\ i - 1 \in 0..n
    <3>. HIDE DEF n, f, step, start
    <3>1. i \in Nat /\ n \in Nat /\ 1 <= i /\ i <= n
      BY <1>1
    <3>2. i \in 0..n /\ i - 1 \in 0..n
      BY <3>1
    <3>3. 1..i \in SUBSET (1..n)
      BY <3>1
    <3>4. (1..i) \ {i} = 1..(i - 1)
      BY <3>1
    <3>5. i \in 1..i
      BY <3>1
    <3>6. 1..i # {}
      BY <3>5
    <3>. QED  BY <3>1, <3>2, <3>3, <3>4, <3>5, <3>6, Zenon
  <2>2. Greatest(1..i) = i
    <3>1. Greatest(1..i) \in 1..i /\ \A y \in 1..i : Greatest(1..i) >= y
      <4>. HIDE DEF n
      <4>. QED  BY <1>1, <2>1, GreatestIs
    <3>. QED  BY <2>1, <3>1
  <2>3. h[1..i] = Took(h[1..(i - 1)], body[i])
    <3>1. h[1..i] = Took(h[(1..i) \ {Greatest(1..i)}], body[Greatest(1..i)])
      <4>. HIDE DEF n, start
      <4>. QED  BY <1>8, <2>1, Zenon
    <3>. QED  BY <2>1, <2>2, <3>1
  <2>4. f[i] = h[1..i] /\ f[i - 1] = h[1..(i - 1)]
    BY <2>1
  <2>. QED  BY <2>3, <2>4
<1>11. RunBody(ex, body) = f[n]
  <2>1. n \in 0..n
    BY <1>1
  <2>. QED  BY <1>7, <2>1
<1>. HIDE DEF f
<1>. QED  BY <1>9, <1>10, <1>11

-----------------------------------------------------------------------------
(* What a block's receipts tell of its transactions *)

\* The gas of one receipt.
OwnGas(rs, j) == rs[j].cumulativeGas - (IF j = 1 THEN 0 ELSE rs[j - 1].cumulativeGas)

\* Receipt j is that of tx: of the PoL transaction, first and at no gas, or
\* of a user transaction.
Tells(rs, j, tx, pol, outcome) ==
  /\ rs[j].kind = tx.kind
  /\ \/ /\ j = 1 /\ tx = pol /\ rs[j].cumulativeGas = 0
        /\ rs[j].success = outcome.success /\ rs[j].log = outcome.log
     \/ /\ tx \in UserTransaction
        /\ rs[j].success = TRUE /\ rs[j].log = TxLog[tx.id]
        /\ OwnGas(rs, j) = TxGasUsed[tx.id]

\* The receipts of ex are those of txs, one for one.
RunTold(ex, txs, pol, outcome) ==
  /\ ex \in Run(pol) /\ txs \in Seq(UserTransaction \cup {pol})
  /\ Len(ex.receipts) = Len(txs)
  /\ ex.gasUsed = IF Len(txs) = 0 THEN 0 ELSE ex.receipts[Len(txs)].cumulativeGas
  /\ \A j \in 1..Len(txs) : Tells(ex.receipts, j, txs[j], pol, outcome)

\* The block's first transactions: the one the PoL call stands for.
PreTxs(s, ctx) ==
  IF IsPrague1Active(s, ctx.timestamp) THEN <<CreatePolTransaction(ctx)>> ELSE <<>>

LEMMA PreTold ==
  ASSUME NEW s, NEW ctx, NEW spent \in SUBSET UserTx, NEW outcome \in PolOutcome
  PROVE  RunTold(ApplyPreExecutionChanges(s, ctx, NewExecutor(spent), outcome), PreTxs(s, ctx),
                 CreatePolTransaction(ctx), outcome)
<1>. DEFINE pol == CreatePolTransaction(ctx)
            new == NewExecutor(spent)
            ex  == ApplyPreExecutionChanges(s, ctx, new, outcome)
<1>1. /\ new.receipts = <<>> /\ new.gasUsed = 0 /\ new.spent = spent
      /\ new.trace = <<>> /\ new.hooks = <<>> /\ new \in Run(pol)
  BY DEF NewExecutor, Run
<1>2. CASE ~IsPrague1Active(s, ctx.timestamp)
  <2>1. ex = new /\ PreTxs(s, ctx) = <<>>
    BY <1>2 DEF ApplyPreExecutionChanges, PreTxs
  <2>. HIDE DEF ex, new, pol
  <2>. QED  BY <1>1, <2>1 DEF RunTold, ex, new, pol
<1>3. CASE IsPrague1Active(s, ctx.timestamp)
  <2>. DEFINE receipt == [kind |-> "PoL", success |-> outcome.success, cumulativeGas |-> 0,
                          log |-> outcome.log]
  <2>1. receipt \in Receipt
    BY DEF Receipt, PolOutcome
  <2>2. PreTxs(s, ctx) = <<pol>> /\ pol.kind = "PoL"
    BY <1>3 DEF PreTxs, CreatePolTransaction
  <2>3. /\ ex.receipts = <<receipt>> /\ ex.gasUsed = 0 /\ ex.spent = spent
        /\ ex \in Run(pol)
    <3>1. ex = [new EXCEPT !.receipts = Append(new.receipts, receipt),
                           !.trace = Append(new.trace, pol), !.hooks = Append(new.hooks, 0)]
      BY <1>1, <1>3 DEF ApplyPreExecutionChanges
    <3>2. /\ Append(new.receipts, receipt) = <<receipt>>
          /\ Append(new.trace, pol) \in Seq(UserTransaction \cup {pol})
          /\ Append(new.hooks, 0) \in Seq(Nat)
      <4>. HIDE DEF receipt, new, pol
      <4>. QED  BY <1>1
    <3>3. <<receipt>> \in Seq(Receipt)
      <4>. HIDE DEF receipt
      <4>. QED  BY <2>1
    <3>. HIDE DEF receipt, new, ex, pol
    <3>. QED  BY <1>1, <3>1, <3>2, <3>3 DEF Run
  <2>4. /\ receipt.kind = "PoL" /\ receipt.cumulativeGas = 0
        /\ receipt.success = outcome.success /\ receipt.log = outcome.log
    OBVIOUS
  <2>. HIDE DEF receipt, new, ex, pol
  <2>5. Tells(ex.receipts, 1, pol, pol, outcome)
    BY <2>2, <2>3, <2>4 DEF Tells
  <2>6. /\ <<pol>> \in Seq(UserTransaction \cup {pol}) /\ Len(<<pol>>) = 1 /\ <<pol>>[1] = pol
        /\ Len(<<receipt>>) = 1 /\ <<receipt>>[1] = receipt
    OBVIOUS
  <2>. QED  BY <2>2, <2>3, <2>4, <2>5, <2>6 DEF RunTold, ex, pol, new
<1>. QED  BY <1>2, <1>3

\* One more receipt tells of one more transaction.
LEMMA MoreTold ==
  ASSUME NEW pol, NEW outcome, NEW ex, NEW txs, RunTold(ex, txs, pol, outcome),
         NEW u \in UserTx
  PROVE  LET tx == [kind |-> "User", id |-> u] IN
         CommitTransaction(ex, tx) \in Run(pol) =>
           RunTold(CommitTransaction(ex, tx), Append(txs, tx), pol, outcome)
<1>. DEFINE tx == [kind |-> "User", id |-> u]
            post == CommitTransaction(ex, tx)
            gasUsed == ex.gasUsed + TxGasUsed[u]
            receipt == [kind |-> "User", success |-> TRUE, cumulativeGas |-> gasUsed,
                        log |-> TxLog[u]]
            n == Len(txs)
<1>. SUFFICES ASSUME post \in Run(pol)
              PROVE  RunTold(post, Append(txs, tx), pol, outcome)
  OBVIOUS
<1>1. tx \in UserTransaction /\ tx.kind = "User" /\ tx.id = u
  BY DEF UserTransaction
<1>2. /\ receipt.kind = "User" /\ receipt.success = TRUE /\ receipt.log = TxLog[u]
      /\ receipt.cumulativeGas = gasUsed
  OBVIOUS
<1>3. post.receipts = Append(ex.receipts, receipt) /\ post.gasUsed = gasUsed
  BY <1>1 DEF CommitTransaction
<1>4. /\ ex.receipts \in Seq(Receipt) /\ ex.gasUsed \in Nat /\ TxGasUsed[u] \in Nat
      /\ txs \in Seq(UserTransaction \cup {pol}) /\ Len(ex.receipts) = n /\ n \in Nat
      /\ ex.gasUsed = IF n = 0 THEN 0 ELSE ex.receipts[n].cumulativeGas
      /\ \A j \in 1..n : Tells(ex.receipts, j, txs[j], pol, outcome)
  BY ExecutorAssumption DEF RunTold, Run
<1>. HIDE DEF tx, receipt, post, n
<1>5. /\ Append(txs, tx) \in Seq(UserTransaction \cup {pol}) /\ Len(Append(txs, tx)) = n + 1
      /\ Append(txs, tx)[n + 1] = tx /\ \A j \in 1..n : Append(txs, tx)[j] = txs[j]
  BY <1>1, <1>4 DEF n
<1>6. /\ Len(post.receipts) = n + 1 /\ post.receipts[n + 1] = receipt
      /\ \A j \in 1..n : post.receipts[j] = ex.receipts[j]
  <2>1. receipt \in Receipt
    BY <1>4, ExecutorAssumption DEF receipt, Receipt
  <2>. QED  BY <1>3, <1>4, <2>1
<1>7. Tells(post.receipts, n + 1, tx, pol, outcome)
  <2>1. OwnGas(post.receipts, n + 1) = TxGasUsed[u]
    <3>1. CASE n = 0
      <4>1. OwnGas(post.receipts, 1) = post.receipts[1].cumulativeGas - 0
        BY DEF OwnGas
      <4>. QED  BY <1>2, <1>4, <1>6, <3>1, <4>1
    <3>2. CASE n # 0
      <4>1. n \in 1..n /\ n + 1 # 1 /\ (n + 1) - 1 = n
        BY <1>4, <3>2
      <4>2. post.receipts[n].cumulativeGas = ex.gasUsed
        BY <1>4, <1>6, <3>2, <4>1
      <4>3. OwnGas(post.receipts, n + 1) = gasUsed - ex.gasUsed
        BY <1>2, <1>6, <4>1, <4>2 DEF OwnGas
      <4>. QED  BY <1>4, <4>3
    <3>. QED  BY <3>1, <3>2
  <2>. QED  BY <1>1, <1>2, <1>6, <2>1 DEF Tells
<1>8. ASSUME NEW j \in 1..n
      PROVE  Tells(post.receipts, j, txs[j], pol, outcome)
  <2>1. post.receipts[j] = ex.receipts[j] /\ (j # 1 => post.receipts[j - 1] = ex.receipts[j - 1])
    <3>1. j # 1 => j - 1 \in 1..n
      BY <1>4
    <3>. QED  BY <1>6, <3>1
  <2>2. OwnGas(post.receipts, j) = OwnGas(ex.receipts, j)
    BY <2>1 DEF OwnGas
  <2>. QED  BY <1>4, <2>1, <2>2 DEF Tells
<1>9. ASSUME NEW j \in 1..(n + 1)
      PROVE  Tells(post.receipts, j, Append(txs, tx)[j], pol, outcome)
  <2>1. j = n + 1 \/ j \in 1..n
    BY <1>4
  <2>. QED  BY <1>5, <1>7, <1>8, <2>1
<1>10. post.gasUsed = post.receipts[n + 1].cumulativeGas /\ n + 1 # 0
  BY <1>2, <1>3, <1>4, <1>6
<1>. QED  BY <1>5, <1>6, <1>9, <1>10 DEF RunTold

\* Appending goes through to the second of two sequences.
GoesThrough(s, t, e) == Append(s \o t, e) = s \o Append(t, e)

LEMMA AppendConcat ==
  ASSUME NEW S, NEW s \in Seq(S), NEW t \in Seq(S), NEW e \in S
  PROVE  GoesThrough(s, t, e)
<1>1. s \o t \in Seq(S) /\ <<e>> \in Seq(S)
  BY ConcatProperties
<1>2. Append(s \o t, e) = (s \o t) \o <<e>> /\ Append(t, e) = t \o <<e>>
  BY <1>1, AppendIsConcat
<1>3. (s \o t) \o <<e>> = s \o (t \o <<e>>)
  BY <1>1, ConcatAssociative
<1>. QED  BY <1>2, <1>3, Zenon DEF GoesThrough

\* A whole body, in the block it belongs to.
LEMMA BodyTold ==
  ASSUME NEW s, NEW ctx, NEW spent \in SUBSET UserTx, NEW outcome \in PolOutcome,
         NEW body \in Seq(UserTx)
  PROVE  LET pre == ApplyPreExecutionChanges(s, ctx, NewExecutor(spent), outcome)
             ran == RunBody(pre, body)
         IN  /\ RunTold(ran.ex, PreTxs(s, ctx) \o ran.txs, CreatePolTransaction(ctx), outcome)
             /\ ran.txs \in Seq(UserTransaction)
<1>. DEFINE pol  == CreatePolTransaction(ctx)
            pre  == ApplyPreExecutionChanges(s, ctx, NewExecutor(spent), outcome)
            txs0 == PreTxs(s, ctx)
            Told(run) == run \in BodyRun(pol) /\ RunTold(run.ex, txs0 \o run.txs, pol, outcome)
            n    == Len(body)
<1>1. RunTold(pre, txs0, pol, outcome) /\ pre \in Run(pol)
  BY PreTold DEF RunTold
<1>2. txs0 \in Seq(UserTransaction \cup {pol})
  BY <1>1 DEF RunTold
<1>3. PICK f : /\ f[0] = [ex |-> pre, txs |-> <<>>]
               /\ \A i \in 1..n : f[i] = Took(f[i - 1], body[i])
               /\ RunBody(pre, body) = f[n]
  <2>. HIDE DEF pre, pol
  <2>. QED  BY <1>1, RunBodyIs
<1>. DEFINE S == {i \in 0..n : Told(f[i])}
<1>4. n \in Nat /\ \A i \in 1..n : body[i] \in UserTx
  OBVIOUS
<1>5. 0 \in S
  <2>1. f[0].ex = pre /\ f[0].txs = <<>> /\ f[0] \in BodyRun(pol)
    BY <1>1, <1>3 DEF BodyRun
  <2>2. txs0 \o <<>> = txs0
    <3>. HIDE DEF txs0, pol
    <3>. QED  BY <1>2
  <2>3. RunTold(f[0].ex, txs0 \o f[0].txs, pol, outcome)
    <3>. HIDE DEF pre, pol, txs0
    <3>. QED  BY <1>1, <2>1, <2>2
  <2>4. Told(f[0]) /\ 0 \in 0..n
    BY <1>4, <2>1, <2>3
  <2>. HIDE DEF Told, n
  <2>. QED  BY <2>4
<1>6. ASSUME NEW run, Told(run), NEW u \in UserTx
      PROVE  Told(Took(run, u))
  <2>. DEFINE tx == [kind |-> "User", id |-> u]
  <2>1. Took(run, u) \in BodyRun(pol)
    BY <1>6, TookType
  <2>2. CASE Executable(run.ex, tx)
    <3>1. /\ Took(run, u).ex = CommitTransaction(run.ex, tx)
          /\ Took(run, u).txs = Append(run.txs, tx)
      BY <2>2 DEF Took
    <3>2. CommitTransaction(run.ex, tx) \in Run(pol)
      BY <2>1, <3>1 DEF BodyRun
    <3>3. RunTold(CommitTransaction(run.ex, tx), Append(txs0 \o run.txs, tx), pol, outcome)
      <4>. HIDE DEF pol, txs0
      <4>. QED  BY <1>6, <3>2, MoreTold
    <3>4. Append(txs0 \o run.txs, tx) = txs0 \o Append(run.txs, tx)
      <4>1. tx \in UserTransaction
        BY DEF UserTransaction
      <4>2. run.txs \in Seq(UserTransaction)
        BY <1>6 DEF BodyRun
      <4>. HIDE DEF tx, txs0, pol, Told
      <4>. DEFINE Some == UserTransaction \cup {pol}
      <4>3. txs0 \in Seq(Some) /\ run.txs \in Seq(Some) /\ tx \in Some
        BY <1>2, <4>1, <4>2
      <4>. HIDE DEF Some
      <4>4. GoesThrough(txs0, run.txs, tx)
        BY <4>3, AppendConcat
      <4>. QED  BY <4>4 DEF GoesThrough
    <3>. HIDE DEF tx, txs0, pol
    <3>. QED  BY <2>1, <3>1, <3>3, <3>4
  <2>3. CASE ~Executable(run.ex, tx)
    <3>1. Took(run, u) = run
      BY <2>3 DEF Took
    <3>. QED  BY <1>6, <3>1
  <2>. QED  BY <2>2, <2>3
<1>7. \A i \in 0..(n - 1) : i \in S => i + 1 \in S
  <2>. SUFFICES ASSUME NEW i \in 0..(n - 1), i \in S PROVE i + 1 \in S
    OBVIOUS
  <2>1. i + 1 \in 1..n /\ (i + 1) - 1 = i /\ i + 1 \in 0..n
    BY <1>4
  <2>2. f[i + 1] = Took(f[i], body[i + 1]) /\ body[i + 1] \in UserTx
    BY <1>3, <1>4, <2>1
  <2>3. Told(f[i])
    OBVIOUS
  <2>. HIDE DEF Told
  <2>. QED  BY <1>6, <2>1, <2>2, <2>3
<1>8. Told(f[n])
  <2>. HIDE DEF S, n
  <2>1. 0..n \subseteq S
    BY <1>4, <1>5, <1>7, IntervalInduction
  <2>. QED  BY <1>4, <2>1 DEF S
<1>. HIDE DEF pre, txs0, pol
<1>. QED  BY <1>3, <1>8 DEF pre, txs0, pol, BodyRun

\* A block tells of its transactions, and its answer was given at the point
\* its own PoL transaction leads to.
BlockTold(b) ==
  \E outcome :
    LET pol == CreatePolTransaction(ExecutorContext(b.env, b.ctx)) IN
    /\ RunTold(b.ex, b.txs, pol, outcome)
    /\ b.answer = Answer(PolPoint(b.env, b.ctx), outcome)

LEMMA BuiltTold ==
  ASSUME NEW attributes, NEW outcome \in PolOutcomes, NEW body \in Bodies,
         SpentAt(Tip) \in SUBSET UserTx
  PROVE  BlockTold(Built(attributes, outcome, body))
<1>. DEFINE b   == Built(attributes, outcome, body)
            ctx == ExecutorContext(b.env, b.ctx)
            ran == RunBody(ApplyPreExecutionChanges(sched, ctx, NewExecutor(SpentAt(Tip)),
                                                    outcome), body)
<1>1. outcome \in PolOutcome /\ body \in Seq(UserTx)
  BY EnvironmentAssumption
<1>2. /\ b.ex = ran.ex /\ b.answer = Answer(PolPoint(b.env, b.ctx), outcome)
      /\ b.txs = IF IsPrague1Active(sched, b.env.timestamp)
                   THEN <<CreatePolTransaction(ctx)>> \o ran.txs ELSE ran.txs
  BY DEF Built
<1>3. ctx.timestamp = b.env.timestamp
  BY DEF ExecutorContext
<1>. HIDE DEF b
<1>4. /\ RunTold(ran.ex, PreTxs(sched, ctx) \o ran.txs, CreatePolTransaction(ctx), outcome)
      /\ ran.txs \in Seq(UserTransaction)
  <2>. HIDE DEF ctx
  <2>. QED  BY <1>1, BodyTold
<1>5. b.txs = PreTxs(sched, ctx) \o ran.txs
  <2>1. CASE IsPrague1Active(sched, b.env.timestamp)
    <3>. HIDE DEF ctx, ran
    <3>. QED  BY <1>2, <1>3, <2>1 DEF PreTxs
  <2>2. CASE ~IsPrague1Active(sched, b.env.timestamp)
    <3>1. PreTxs(sched, ctx) = <<>> /\ b.txs = ran.txs
      BY <1>2, <1>3, <2>2 DEF PreTxs
    <3>. HIDE DEF ran
    <3>. QED  BY <1>4, <3>1, ConcatEmptySeq
  <2>. QED  BY <2>1, <2>2
<1>6. BlockTold(b)
  <2>. HIDE DEF ran
  <2>. QED  BY <1>2, <1>4, <1>5 DEF BlockTold
<1>. QED  BY <1>6 DEF b

\* Every block tells of its transactions, and readers are told as much.
ToldInv ==
  /\ \A i \in DOMAIN chain : BlockTold(chain[i])
  /\ ReadersTold

LEMMA ToldInit == Init => ToldInv
  BY DEF Init, ToldInv, ReadersTold

\* The state a block leaves has spent user transactions only.
LEMMA SpentType ==
  ASSUME EnvInv, ToldInv
  PROVE  SpentAt(Tip) \in SUBSET UserTx
<1>1. Len(chain) \in Nat /\ DOMAIN chain = 1..Len(chain)
  BY Grows DEF EnvInv
<1>2. CASE Tip = 0
  BY <1>2 DEF SpentAt
<1>3. CASE Tip # 0
  <2>1. Tip \in DOMAIN chain
    BY <1>1, <1>3 DEF Tip
  <2>2. chain[Tip].ex.spent \in SUBSET UserTx
    BY <2>1 DEF ToldInv, BlockTold, RunTold, Run
  <2>. QED  BY <1>3, <2>2 DEF SpentAt
<1>. QED  BY <1>2, <1>3

\* The inspector an EVM runs through, and what a traced row repeats of the
\* receipt it stands for.
Attached(evm) == IF evm.inspect THEN evm.inspector ELSE None
RowTold(row, rs, j, inspector) ==
  /\ row.success = rs[j].success /\ row.log = rs[j].log
  /\ row.success => row.gasUsed = OwnGas(rs, j)
  /\ row.inspectedBy = inspector

\* What TransactRaw makes of a block's own transaction is what its receipt
\* says of it, through the inspector that is attached.
LEMMA TransactTold ==
  ASSUME NEW b, NEW outcome, NEW j, NEW inspector, NEW evm,
         b.answer = Answer(PolPoint(b.env, b.ctx), outcome),
         Tells(b.ex.receipts, j, b.txs[j], CreatePolTransaction(ExecutorContext(b.env, b.ctx)),
               outcome),
         evm.env = b.env, Attached(evm) = inspector
  PROVE  RowTold(TransactRaw(evm, TxEnv(b.txs[j]), b.answer), b.ex.receipts, j, inspector)
<1>. USE DEF Attached, RowTold
<1>. DEFINE rs  == b.ex.receipts
            tx  == b.txs[j]
            env == TxEnv(tx)
            row == TransactRaw(evm, env, b.answer)
            pol == CreatePolTransaction(ExecutorContext(b.env, b.ctx))
<1>1. CASE /\ j = 1 /\ tx = pol /\ rs[j].cumulativeGas = 0
           /\ rs[j].success = outcome.success /\ rs[j].log = outcome.log
  <2>1. pol.kind = "PoL"
    BY DEF CreatePolTransaction
  <2>2. env.type = "PoL"
    BY <1>1, <2>1 DEF TxEnv
  <2>3. [env |-> evm.env, caller |-> env.caller, to |-> env.to, data |-> env.data] =
          PolPoint(b.env, b.ctx)
    BY <1>1 DEF PolPoint
  <2>. DEFINE call == TransactSystemCall(evm, env.caller, env.to, env.data, b.answer)
  <2>4. call.result = outcome /\ call.inspectedBy = inspector
    <3>1. AnswerAt(b.answer, PolPoint(b.env, b.ctx)) = outcome
      <4>. HIDE DEF pol
      <4>. QED  BY DEF AnswerAt, Answer
    <3>. HIDE DEF env
    <3>. QED  BY <2>3, <3>1 DEF TransactSystemCall
  <2>5. /\ row.success = call.result.success /\ row.log = call.result.log
        /\ row.success => row.gasUsed = 0
        /\ row.inspectedBy = call.inspectedBy
    <3>. HIDE DEF env
    <3>. QED  BY <2>2 DEF TransactRaw
  <2>6. OwnGas(rs, j) = 0
    <3>1. OwnGas(rs, 1) = rs[1].cumulativeGas - 0
      BY DEF OwnGas
    <3>. QED  BY <1>1, <3>1
  <2>. HIDE DEF row, call
  <2>. QED  BY <1>1, <2>4, <2>5, <2>6 DEF row
<1>2. CASE /\ tx \in UserTransaction /\ rs[j].success = TRUE /\ rs[j].log = TxLog[tx.id]
           /\ OwnGas(rs, j) = TxGasUsed[tx.id]
  <2>1. env.type = "User" /\ env.data = tx.id
    BY <1>2 DEF TxEnv, UserTransaction
  <2>2. /\ row.success = TRUE /\ row.log = TxLog[env.data] /\ row.gasUsed = TxGasUsed[env.data]
        /\ row.inspectedBy = IF evm.inspect THEN evm.inspector ELSE None
    <3>. HIDE DEF env
    <3>. QED  BY <2>1 DEF TransactRaw
  <2>. HIDE DEF row, env
  <2>. QED  BY <1>2, <2>1, <2>2 DEF row, env
<1>. QED  BY <1>1, <1>2 DEF Tells

\* A reading of a block tells what its receipts do.
LEMMA ReadTold ==
  ASSUME EnvInv, ToldInv, NEW i \in DOMAIN chain,
         ConvertReceipts(i) \/ \E inspector \in Inspector \cup {None} : Trace(i, inspector),
         chain' = chain
  PROVE  ReadersTold'
<1>. DEFINE b  == chain[i]
            rs == b.ex.receipts
<1>1. PICK outcome :
        /\ RunTold(b.ex, b.txs, CreatePolTransaction(ExecutorContext(b.env, b.ctx)), outcome)
        /\ b.answer = Answer(PolPoint(b.env, b.ctx), outcome)
  BY DEF ToldInv, BlockTold
<1>. DEFINE pol == CreatePolTransaction(ExecutorContext(b.env, b.ctx))
<1>2. /\ rs \in Seq(Receipt) /\ b.txs \in Seq(UserTransaction \cup {pol})
      /\ Len(rs) = Len(b.txs)
      /\ \A j \in 1..Len(b.txs) : Tells(rs, j, b.txs[j], pol, outcome)
  <2>. HIDE DEF pol
  <2>. QED  BY <1>1 DEF RunTold, Run, pol
<1>3. DOMAIN rs = DOMAIN b.txs /\ DOMAIN b.txs = 1..Len(b.txs)
  <2>. HIDE DEF pol
  <2>. QED  BY <1>2
<1>4. /\ EvmEnv(sched, b.header) = b.env
      /\ b.env.blob.price = BlobFee(BlobParamsAt(sched, b.header.timestamp), b.header.excess)
  <2>1. i \in 1..Len(chain)
    BY Grows DEF EnvInv
  <2>2. EvmEnv(sched, b.header) = b.env
    BY <2>1 DEF EnvInv, RunsAlike
  <2>3. EvmEnv(sched, b.header).blob.price =
          BlobFee(BlobParamsAt(sched, b.header.timestamp), b.header.excess)
    BY DEF EvmEnv
  <2>. QED  BY <2>2, <2>3
<1>. DEFINE Row(j, row) ==
              /\ row.success = rs[j].success /\ row.log = rs[j].log
              /\ row.success => row.gasUsed = OwnGas(rs, j)
              /\ report'.kind = "trace" => row.inspectedBy = report'.inspector
              /\ report'.kind = "receipts" =>
                   /\ row.type = b.txs[j].kind
                   /\ row.blobPrice \in {0, b.env.blob.price}
\* What is left to show: each row is right.
<1>5. ASSUME report'.block = i, DOMAIN report'.rows = DOMAIN b.txs,
             \A j \in DOMAIN b.txs : Row(j, report'.rows[j])
      PROVE  ReadersTold'
  BY <1>5 DEF ReadersTold, OwnGas
<1>6. ASSUME NEW inspector, Trace(i, inspector)
      PROVE  ReadersTold'
  <2>. DEFINE env == EvmEnv(sched, b.header)
              evm == IF inspector = None THEN CreateEvm(env)
                     ELSE CreateEvmWithInspector(env, inspector)
              rows == [j \in DOMAIN b.txs |-> TransactRaw(evm, TxEnv(b.txs[j]), b.answer)]
  <2>1. report' = [kind |-> "trace", block |-> i, inspector |-> inspector, rows |-> rows]
    BY <1>6 DEF Trace
  <2>2. evm.env = b.env /\ Attached(evm) = inspector
    BY <1>4 DEF CreateEvm, CreateEvmWithInspector, Attached
  <2>3. ASSUME NEW j \in DOMAIN b.txs
        PROVE  Row(j, rows[j])
    <3>1. Tells(rs, j, b.txs[j], pol, outcome)
      BY <1>2, <1>3
    <3>. DEFINE row == TransactRaw(evm, TxEnv(b.txs[j]), b.answer)
    <3>2. RowTold(row, rs, j, inspector)
      <4>. HIDE DEF evm, Row, rows
      <4>. QED  BY ONLY <1>1, <2>2, <3>1, TransactTold, Zenon
    <3>3. rows[j] = row
      OBVIOUS
    <3>4. report'.kind = "trace" /\ report'.inspector = inspector
      BY <2>1
    <3>. HIDE DEF row, rows, evm
    <3>. QED  BY <3>2, <3>3, <3>4 DEF RowTold
  <2>4. report'.block = i /\ report'.rows = rows /\ DOMAIN rows = DOMAIN b.txs
    BY <2>1
  <2>. HIDE DEF rows, Row
  <2>. QED  BY <1>5, <2>3, <2>4
<1>7. ASSUME ConvertReceipts(i)
      PROVE  ReadersTold'
  <2>. DEFINE before(j) == IF j = 1 THEN 0 ELSE rs[j - 1].cumulativeGas
              carried(j) == IF b.txs[j].kind = "User" THEN TxBlobs[b.txs[j].id] ELSE 0
              rows == [j \in DOMAIN rs |->
                         [type |-> rs[j].kind, success |-> rs[j].success,
                          log |-> rs[j].log, gasUsed |-> rs[j].cumulativeGas - before(j),
                          blobPrice |-> IF carried(j) > 0 THEN ReceiptBlobPrice(i) ELSE 0]]
  <2>1. report' = [kind |-> "receipts", block |-> i, inspector |-> None, rows |-> rows]
    BY <1>7 DEF ConvertReceipts
  <2>2. ReceiptBlobPrice(i) = b.env.blob.price
    BY <1>4 DEF ReceiptBlobPrice
  <2>3. ASSUME NEW j \in DOMAIN b.txs
        PROVE  Row(j, rows[j])
    <3>1. rs[j].kind = b.txs[j].kind
      BY <1>2, <1>3 DEF Tells
    <3>2. /\ rows[j].type = rs[j].kind /\ rows[j].success = rs[j].success
          /\ rows[j].log = rs[j].log /\ rows[j].gasUsed = rs[j].cumulativeGas - before(j)
          /\ rows[j].blobPrice \in {0, ReceiptBlobPrice(i)}
      <4>1. j \in DOMAIN rs
        BY <1>3
      <4>. HIDE DEF carried, before, rs
      <4>. QED  BY <4>1
    <3>3. rs[j].cumulativeGas - before(j) = OwnGas(rs, j)
      BY DEF OwnGas
    <3>4. report'.kind = "receipts"
      BY <2>1
    <3>. HIDE DEF rows, before, carried, rs, b
    <3>. QED  BY <2>2, <3>1, <3>2, <3>3, <3>4 DEF b
  <2>4. report'.block = i /\ report'.rows = rows /\ DOMAIN rows = DOMAIN b.txs
    BY <1>3, <2>1
  <2>. HIDE DEF rows, Row
  <2>. QED  BY <1>5, <2>3, <2>4
<1>. QED  BY <1>6, <1>7

LEMMA ToldNext == EnvInv /\ ToldInv /\ [Next]_vars => ToldInv'
<1>. SUFFICES ASSUME EnvInv, ToldInv, [Next]_vars PROVE ToldInv'
  OBVIOUS
<1>1. IsSeq(chain) /\ Len(chain) \in Nat /\ DOMAIN chain = 1..Len(chain)
  BY Grows DEF EnvInv
<1>2. CASE Build
  <2>1. PICK t \in 1..MaxTime, choice \in OtherAttributes, pubkey \in Pubkey \cup {None},
             outcome \in PolOutcomes, body \in Bodies :
          chain' = Append(chain, Built([timestamp |-> t, choice |-> choice, pubkey |-> pubkey],
                                       outcome, body))
    BY <1>2 DEF Build
  <2>. DEFINE attributes == [timestamp |-> t, choice |-> choice, pubkey |-> pubkey]
              block == Built(attributes, outcome, body)
  <2>2. BlockTold(block)
    BY BuiltTold, SpentType
  <2>3. /\ DOMAIN chain' = 1..Len(chain) + 1 /\ chain'[Len(chain) + 1] = block
        /\ \A i \in 1..Len(chain) : chain'[i] = chain[i]
    <3>. HIDE DEF block
    <3>. QED  BY <1>1, <2>1, Grows DEF block
  <2>4. report' = None
    BY <1>2 DEF Build
  <2>5. \A i \in DOMAIN chain' : BlockTold(chain'[i])
    <3>. HIDE DEF block
    <3>1. \A i \in DOMAIN chain' : i = Len(chain) + 1 \/ i \in DOMAIN chain
      BY <1>1, <2>3
    <3>. QED  BY <1>1, <2>2, <2>3, <3>1 DEF ToldInv
  <2>. QED  BY <2>4, <2>5 DEF ToldInv, ReadersTold, BlockTold
<1>3. CASE AskPending
  BY <1>3 DEF AskPending, ToldInv, ReadersTold, BlockTold
<1>4. CASE Read
  <2>1. ReadersTold'
    BY <1>4, ReadTold DEF Read
  <2>2. chain' = chain
    BY <1>4 DEF Read
  <2>. QED  BY <2>1, <2>2 DEF ToldInv, BlockTold
<1>5. CASE UNCHANGED vars
  BY <1>5 DEF vars, ToldInv, ReadersTold, BlockTold
<1>. QED  BY <1>2, <1>3, <1>4, <1>5 DEF Next

(***************************************************************************)
(* Whatever is traced, by whichever inspector, and whatever receipts are   *)
(* asked for, the rows tell what the block's own run did: a trace meets    *)
(* the answer the PoL call got, and each transaction its log and gas.      *)
(***************************************************************************)
THEOREM ReadersAlwaysTold == Spec => []ReadersTold
<1>1. EnvInv /\ ToldInv => ReadersTold
  BY DEF ToldInv
<1>. QED  BY <1>1, EnvInvInit, EnvInvNext, ToldInit, ToldNext, PTL DEF Spec
=============================================================================
