---------------------------- MODULE BlockLifecycle ----------------------------
(***************************************************************************)
(* The life of a block in one node: a payload job builds blocks on known   *)
(* parents while the engine imports blocks, the node's own payloads and    *)
(* those of other proposers, across the hardfork boundaries.               *)
(*                                                                         *)
(* tree holds the blocks the node has validated, in the order it did; a    *)
(* header names its parent by position (0 is genesis), so siblings are     *)
(* possible, as proposals of different rounds are.  job and imp are the    *)
(* one block being built and the one being imported, each advanced one     *)
(* transaction at a time and interleaved with the other.                   *)
(*                                                                         *)
(* The engine around the modelled code, which is reth's, decides when the  *)
(* consensus checks of a block run: before execution when a block was      *)
(* downloaded, after it when the block came as a payload.  ConsensusChecks *)
(* may therefore fire at any point before the post-execution checks, and   *)
(* the executor must cope with bodies no check has seen.                   *)
(***************************************************************************)
EXTENDS BlockExecutor, FiniteSets

CONSTANTS
  Schedules,       \* fork schedules to consider
  PolOutcomes,     \* answers of the distributor contract to consider
  GenesisBaseFee,
  MaxBlocks,       \* bound: validated blocks
  MaxPayloads,     \* bound: payloads built
  MaxTime,         \* bound: block timestamps
  PeerBlocks(_)    \* blocks other proposers may send, given what they know of
                   \* the network (see NetworkAt)

\* An import under way: the body up to next - 1 is executed, checked says
\* whether the consensus checks are done.
Stage == {"fresh", "executing", "executed"}

ImportTask == [stage: Stage, block: Block, next: Nat \ {0}, checked: BOOLEAN,
               ex: Executor]

ASSUME LifecycleAssumption ==
  /\ None \notin ImportTask
  /\ Schedules \subseteq {s \in Schedule : OrderedSchedule(s)}
  /\ PolOutcomes \subseteq PolOutcome
  /\ GenesisBaseFee \in Nat
  /\ MaxBlocks \in Nat /\ MaxPayloads \in Nat /\ MaxTime \in Nat

VARIABLES
  sched,     \* the schedule of this network
  outcome,   \* how the distributor contract behaves on this network
  tree,      \* validated blocks, with what executing them left behind
  job,       \* the block being built, or None
  payloads,  \* the payloads built so far
  imp,       \* the block being imported, with its stage, or None
  verdict    \* the answer to the last import that ended

vars == <<sched, outcome, tree, job, payloads, imp, verdict>>

Times == 1..MaxTime

GenesisHeader ==
  [number |-> 0, timestamp |-> 0, baseFee |-> GenesisBaseFee, gasUsed |-> 0]

HeaderAt(i) == IF i = 0 THEN GenesisHeader ELSE tree[i].block.header
SpentAt(i)  == IF i = 0 THEN {} ELSE tree[i].executed.spent

Init ==
  /\ sched \in Schedules
  /\ outcome \in PolOutcomes
  /\ tree = <<>>
  /\ job = None
  /\ payloads = {}
  /\ imp = None
  /\ verdict = "none"

-----------------------------------------------------------------------------
(* Building: default_berachain_payload around BasicBlockBuilder *)

\* next_evm_env and context_for_next_block: number and base fee from the
\* parent, time and key from the payload attributes.
NextBlockContext(parent, t, pubkey) ==
  [parent |-> parent, number |-> HeaderAt(parent).number + 1, timestamp |-> t,
   baseFee |-> NextBlockBaseFee(sched, HeaderAt(parent)), pubkey |-> pubkey]

(***************************************************************************)
(* A job starts on any known parent with any attributes: the key is not    *)
(* checked against the fork here, because the local attributes builder and *)
(* the pending-block environment bypass the Engine API's checks.           *)
(***************************************************************************)
StartJob ==
  /\ job = None
  /\ Cardinality(payloads) < MaxPayloads
  /\ \E parent \in 0..Len(tree), t \in Times, pubkey \in Pubkey \cup {None} :
       /\ t > HeaderAt(parent).timestamp
       /\ job' = [stage |-> "fresh", ctx |-> NextBlockContext(parent, t, pubkey),
                  ex |-> NewExecutor(SpentAt(parent)), txs |-> <<>>]
  /\ UNCHANGED <<sched, outcome, tree, payloads, imp, verdict>>

\* apply_pre_execution_changes of the builder; an error ends the job.
JobPreExecution ==
  /\ job # None /\ job.stage = "fresh"
  /\ job' = IF PreExecutable(sched, job.ctx)
              THEN [job EXCEPT !.stage = "open",
                      !.ex = ApplyPreExecutionChanges(sched, job.ctx, @, outcome)]
              ELSE None
  /\ UNCHANGED <<sched, outcome, tree, payloads, imp, verdict>>

\* Mutant: the loop runs in the Prague3 window as at any other time.
TransactionInAnyWindow ==
  /\ job # None /\ job.stage = "open"
  /\ \E u \in UserTx :
       LET tx == [kind |-> "User", id |-> u] IN
       /\ Executable(job.ex, tx)
       /\ job' = [job EXCEPT !.ex = CommitTransaction(@, tx),
                             !.txs = Append(@, tx)]
  /\ UNCHANGED <<sched, outcome, tree, payloads, imp, verdict>>

(***************************************************************************)
(* One accepted transaction of the loop, which the Prague3 window skips.   *)
(* A transaction the loop passes over (too much gas, used nonce) leaves    *)
(* builder and executor as they were, so only accepted ones are steps.     *)
(***************************************************************************)
JobTransaction ==
  /\ job # None /\ job.stage = "open"
  /\ ~IsPrague3Active(sched, job.ctx.timestamp)
  /\ \E u \in UserTx :
       LET tx == [kind |-> "User", id |-> u] IN
       /\ Executable(job.ex, tx)
       /\ job' = [job EXCEPT !.ex = CommitTransaction(@, tx),
                             !.txs = Append(@, tx)]
  /\ UNCHANGED <<sched, outcome, tree, payloads, imp, verdict>>

\* finish: requests, assembly and sender repair; any error ends the job.
JobFinish ==
  /\ job # None /\ job.stage = "open"
  /\ LET block   == AssembleBlock(sched, job.ctx, job.ex, job.txs)
         senders == [i \in DOMAIN job.txs |-> Signer(job.txs[i])]
     IN payloads' =
          IF /\ Finishable(sched, job.ctx, job.ex)
             /\ Assemblable(sched, job.ctx, job.ex)
             /\ SendersFixable(sched, block, senders)
            THEN payloads \cup {[block |-> block, executed |-> job.ex,
                                 senders |-> FixPolSenders(sched, block, senders)]}
            ELSE payloads
  /\ job' = None
  /\ UNCHANGED <<sched, outcome, tree, imp, verdict>>

\* The database may fail any EVM call, and the service may drop a job.
JobAbort ==
  /\ job # None
  /\ job' = None
  /\ UNCHANGED <<sched, outcome, tree, payloads, imp, verdict>>

-----------------------------------------------------------------------------
(* Importing *)

Known(block) == \E i \in DOMAIN tree : tree[i].block = block
ImportContext == ContextOf(imp.block.header)

\* Sets the import up, at most one at a time (the engine thread's order).
Import(block) ==
  /\ imp = None
  /\ Len(tree) < MaxBlocks
  /\ ~Known(block)
  /\ imp' = [stage |-> "fresh", block |-> block, next |-> 1, checked |-> FALSE,
             ex |-> NewExecutor(SpentAt(block.header.parent))]
  /\ UNCHANGED <<sched, outcome, tree, job, payloads, verdict>>

\* newPayload with a payload this node built.
ImportOwn == \E p \in payloads : Import(p.block)

\* What a proposer on top of block i knows when it fills in a header.
NetworkAt(i) ==
  [sched |-> sched, outcome |-> outcome, position |-> i, parent |-> HeaderAt(i),
   spent |-> SpentAt(i)]

(***************************************************************************)
(* newPayload or a download from another proposer, which need not run this *)
(* code: any block that decodes, on a parent the node knows.               *)
(***************************************************************************)
ImportPeer ==
  \E i \in 0..Len(tree) :
    \E block \in PeerBlocks(NetworkAt(i)) :
      /\ block \in Block /\ block.header.parent = i
      /\ Import(block)

\* The import moves on, the block is refused, or the import is given up with
\* an error that is no verdict on the block.
Continue(next) == imp' = next /\ UNCHANGED verdict
Refuse         == imp' = None /\ verdict' = "INVALID"
GiveUp         == imp' = None /\ verdict' = "ERROR"

\* validate_header, validate_header_against_parent and
\* validate_block_pre_execution.
ConsensusChecks ==
  /\ imp # None
  /\ ~imp.checked
  /\ IF /\ ValidHeader(sched, imp.block.header)
        /\ ValidHeaderAgainstParent(sched, imp.block.header,
                                    HeaderAt(imp.block.header.parent))
        /\ ValidBlockPreExecution(sched, imp.block)
       THEN Continue([imp EXCEPT !.checked = TRUE])
       ELSE Refuse
  /\ UNCHANGED <<sched, outcome, tree, job, payloads>>

\* Missing and superfluous keys and the number zero become
\* BlockExecutionError::other, an internal error, unlike the same faults when
\* the consensus checks find them first.
ImportPreExecution ==
  /\ imp # None
  /\ imp.stage = "fresh"
  /\ IF PreExecutable(sched, ImportContext)
       THEN Continue([imp EXCEPT !.stage = "executing",
                        !.ex = ApplyPreExecutionChanges(sched, ImportContext, @, outcome)])
       ELSE GiveUp
  /\ UNCHANGED <<sched, outcome, tree, job, payloads>>

\* Mutant: the PoL transaction is not committed, nor passed over.
StopAtPol ==
  /\ imp # None
  /\ imp.stage = "executing"
  /\ imp.next <= Len(imp.block.txs)
  /\ LET tx == imp.block.txs[imp.next] IN
     IF tx.kind = "PoL" THEN Continue(imp)
     ELSE IF Executable(imp.ex, tx)
       THEN Continue([imp EXCEPT !.ex = CommitTransaction(@, tx), !.next = @ + 1])
       ELSE Refuse
  /\ UNCHANGED <<sched, outcome, tree, job, payloads>>

ImportTransaction ==
  /\ imp # None
  /\ imp.stage = "executing"
  /\ imp.next <= Len(imp.block.txs)
  /\ LET tx == imp.block.txs[imp.next] IN
     IF Executable(imp.ex, tx)
       THEN Continue([imp EXCEPT !.ex = CommitTransaction(@, tx), !.next = @ + 1])
       ELSE Refuse
  /\ UNCHANGED <<sched, outcome, tree, job, payloads>>

ImportFinish ==
  /\ imp # None
  /\ imp.stage = "executing"
  /\ imp.next > Len(imp.block.txs)
  /\ IF Finishable(sched, ImportContext, imp.ex)
       THEN Continue([imp EXCEPT !.stage = "executed"])
       ELSE Refuse
  /\ UNCHANGED <<sched, outcome, tree, job, payloads>>

\* The last check, and the block joins the tree.
ImportConclude ==
  /\ imp # None
  /\ imp.stage = "executed"
  /\ imp.checked
  /\ IF ValidBlockPostExecution(sched, imp.block, imp.ex)
       THEN /\ tree' = Append(tree, [block |-> imp.block, executed |-> imp.ex])
            /\ imp' = None
            /\ verdict' = "VALID"
       ELSE Refuse /\ UNCHANGED tree
  /\ UNCHANGED <<sched, outcome, job, payloads>>

\* A database error: the block may come again.
ImportAbort ==
  /\ imp # None
  /\ GiveUp
  /\ UNCHANGED <<sched, outcome, tree, job, payloads>>

-----------------------------------------------------------------------------
Next ==
  \/ StartJob \/ JobPreExecution \/ JobTransaction \/ JobFinish \/ JobAbort
  \/ ImportOwn \/ ImportPeer \/ ConsensusChecks \/ ImportPreExecution
  \/ ImportTransaction \/ ImportFinish \/ ImportConclude \/ ImportAbort

Spec == Init /\ [][Next]_vars

\* The engine thread drives an import to its end: neither the executor's
\* loop nor a consensus check waits for anything.  Nothing obliges a job to
\* go on, a new one to start or a block to arrive.
FairSpec ==
  /\ Spec
  /\ WF_vars(ConsensusChecks)
  /\ WF_vars(ImportPreExecution)
  /\ WF_vars(ImportTransaction)
  /\ WF_vars(ImportFinish)
  /\ WF_vars(ImportConclude)

-----------------------------------------------------------------------------
(* Properties *)

(***************************************************************************)
(* The types of the node's state, one conjunct per variable: the tree of   *)
(* blocks, the payload job, the payloads and the import in progress.       *)
(***************************************************************************)
TypeOK ==
  /\ sched \in Schedules
  /\ outcome \in PolOutcomes
  /\ tree \in Seq([block: Block, executed: Executor])
  /\ job \in {None} \cup [stage: {"fresh", "open"}, ctx: Context, ex: Executor,
                          txs: Seq(UserTransaction)]
  /\ payloads \subseteq [block: Block, executed: Executor,
                          senders: Seq(UserTx \cup {SystemAddress})]
  /\ imp \in {None} \cup ImportTask
  /\ verdict \in {"none", "VALID", "INVALID", "ERROR"}

\* Receipts, state-hook indices and execution trace of a block line up with
\* its body, position by position.
Aligned(block, ex) ==
  /\ ex.trace = block.txs
  /\ Len(ex.receipts) = Len(block.txs)
  /\ Len(ex.hooks) = Len(block.txs)
  /\ \A i \in DOMAIN block.txs : /\ ex.receipts[i].kind = block.txs[i].kind
                                 /\ ex.hooks[i] = i - 1

(***************************************************************************)
(* In every validated block and every built payload the i-th receipt, the  *)
(* i-th state-hook index and the i-th executed transaction are those of    *)
(* the i-th transaction of the body, although the PoL transaction is       *)
(* executed outside the loop (executor.rs) and inserted into the body by   *)
(* the assembler.                                                          *)
(***************************************************************************)
ReceiptsAligned ==
  /\ \A i \in DOMAIN tree : Aligned(tree[i].block, tree[i].executed)
  /\ \A p \in payloads : Aligned(p.block, p.executed)

(***************************************************************************)
(* The senders of a built payload are its transactions' signers, after     *)
(* fix_pol_senders has put back the one the block builder never saw.       *)
(***************************************************************************)
SendersAligned ==
  \A p \in payloads :
    /\ Len(p.senders) = Len(p.block.txs)
    /\ \A i \in DOMAIN p.senders : p.senders[i] = Signer(p.block.txs[i])

(***************************************************************************)
(* The node never refuses a payload it built itself, with one exception    *)
(* the code does leave open: in the Prague3 window the builder drops all   *)
(* user transactions but the filter also reads the PoL receipt.            *)
(***************************************************************************)
OwnPayloadsAccepted ==
  [][imp # None /\ imp' = None /\ verdict' = "INVALID" =>
       \A p \in payloads :
         p.block = imp.block =>
           /\ IsPrague3Active(sched, imp.block.header.timestamp)
           /\ outcome.log = "restricted"]_vars

\* The gas used by the user transactions of a body.
BodyGas(txs) ==
  LET upTo[i \in 0..Len(txs)] ==
        IF i = 0 THEN 0
        ELSE upTo[i - 1] + (IF txs[i].kind = "User" THEN TxGasUsed[txs[i].id] ELSE 0)
  IN  upTo[Len(txs)]

(***************************************************************************)
(* The PoL call costs the block no gas: header and last receipt of a       *)
(* validated block count exactly the user transactions, within the limit.  *)
(***************************************************************************)
GasAccounted ==
  \A i \in DOMAIN tree :
    LET b  == tree[i].block
        rs == tree[i].executed.receipts
    IN /\ b.header.gasUsed = BodyGas(b.txs)
       /\ b.header.gasUsed <= GasLimit
       /\ rs # <<>> => rs[Len(rs)].cumulativeGas = b.header.gasUsed

\* The positions of block i and of its ancestors, genesis apart.
Branch(i) ==
  LET up[n \in 0..Len(tree)] ==
        IF n = 0 THEN {} ELSE {n} \cup up[tree[n].block.header.parent]
  IN  up[i]

(***************************************************************************)
(* No branch of the tree runs a user transaction twice, in one block or in *)
(* two, though siblings may both run it: the executor starts from the      *)
(* state its parent left and finish hands that state on.                   *)
(***************************************************************************)
NoReplay ==
  \A i \in DOMAIN tree, u \in UserTx :
    LET runs == UNION {{<<b, j>> : j \in {x \in DOMAIN tree[b].block.txs :
                                            tree[b].block.txs[x] = [kind |-> "User", id |-> u]}} :
                       b \in Branch(i)}
    IN  Cardinality(runs) <= 1

(***************************************************************************)
(* While Prague3 is active no block of the tree records a restricted log,  *)
(* whoever emitted it, although the filter runs after the execution and    *)
(* other checks before or during it.                                       *)
(***************************************************************************)
Prague3Enforced ==
  \A i \in DOMAIN tree :
    IsPrague3Active(sched, tree[i].block.header.timestamp) =>
      \A j \in DOMAIN tree[i].executed.receipts :
        tree[i].executed.receipts[j].log # "restricted"

(***************************************************************************)
(* A deposit event becomes a request exactly once Osaka is active, never   *)
(* before (the consensus layer would count it twice), wherever in the      *)
(* block it was emitted; and blocks carry requests from Prague on only.    *)
(***************************************************************************)
DepositsRequestedOnce ==
  \A i \in DOMAIN tree :
    LET h  == tree[i].block.header
        rs == tree[i].executed.receipts
    IN  /\ (h.requests = None) <=> ~IsPragueActive(sched, h.timestamp)
        /\ h.requests # None =>
             \A j \in DOMAIN rs :
               (j \in h.requests.deposits
                  <=> rs[j].log = "deposit" /\ IsOsakaActive(sched, h.timestamp))

(***************************************************************************)
(* Every import ends with an answer: no body, however malformed, leaves    *)
(* the executor or the checks without a step to take.                      *)
(***************************************************************************)
ImportsDecided == (imp # None) ~> (imp = None)

(***************************************************************************)
(* The chain and the payloads implement PolChain.                          *)
(***************************************************************************)
Abstract(e) ==
  [parent |-> e.block.header.parent, number |-> e.block.header.number,
   timestamp |-> e.block.header.timestamp, pubkey |-> e.block.header.pubkey,
   baseFee |-> e.block.header.baseFee, body |-> e.block.txs,
   executed |-> e.executed.trace]

PoL == INSTANCE PolChain WITH
  activation <- sched["Prague1"],
  ledger     <- [i \in DOMAIN tree |-> Abstract(tree[i])],
  offered    <- {Abstract(p) : p \in payloads}

ImplementsPolChain == PoL!Spec
=============================================================================
