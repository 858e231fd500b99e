---------------------------- MODULE PoolAdmission ----------------------------
(***************************************************************************)
(* Admission to the transaction pool: MinPriorityFeeValidator               *)
(* (src/pool/min_priority_fee.rs) as src/pool/mod.rs puts it around reth's *)
(* validator, with the pool and its maintenance task as the environment.   *)
(*                                                                         *)
(* Validation tasks run side by side, each on a batch; the base fee they   *)
(* read is one atomic, stored by the maintenance task as it works through  *)
(* the new heads, so it may change between two transactions of a batch.    *)
(* The pool parks what cannot pay its own pending base fee and promotes it *)
(* again, without validation, when that fee falls.                         *)
(***************************************************************************)
EXTENDS BaseFee, Sequences, FiniteSets

CONSTANTS
  None,
  Task,                \* validation tasks
  Tx,
  Info,                \* sender, fee cap and tip cap of each: see TxInfo
  Sender,
  LocalSender,         \* --txpool.locals
  NoExemptions,        \* --txpool.no-locals
  MinimumPriorityFee,  \* 0 disables the floor
  Schedules,           \* fork schedules to consider
  GenesisBaseFee,
  Batches,             \* batches a task may be given
  MaxTime,             \* bound: timestamps of heads
  MaxHeight,           \* bound: length of the chain, genesis included
  MaxLag               \* bound: heads the maintenance task may be behind

\* A legacy transaction's gas price is both its fee cap and its tip cap.
TxInfo == [sender: Sender, maxFee: Nat, maxTip: Nat]
Origin == {"Local", "External", "Private"}
Entry  == [origin: Origin, tx: Tx]
Outcome == [tx: Tx, verdict: {"floor", "valid", "invalid"}]
Header == [timestamp: Nat, gasUsed: 0..GasLimit, baseFee: Nat]

ASSUME PoolAssumption ==
  /\ None \notin Outcome
  /\ Info \in [Tx -> TxInfo]
  /\ LocalSender \subseteq Sender
  /\ NoExemptions \in BOOLEAN
  /\ MinimumPriorityFee \in Nat
  /\ Schedules \subseteq Schedule
  /\ GenesisBaseFee \in Nat
  /\ Batches \subseteq Seq(Entry)
  /\ MaxTime \in Nat /\ MaxHeight \in Nat \ {0} /\ MaxLag \in Nat

VARIABLES
  sched,    \* this network's schedule
  chain,    \* the canonical chain, genesis first
  queue,    \* new heads the maintenance task has yet to work through
  told,     \* whether the validator knows of Head(queue), the pool not yet
  baseFee,  \* MinPriorityFeeValidator.base_fee
  poolFee,  \* the pool's pending base fee
  pool,     \* the admitted transactions: origin, and whether parked
  calls,    \* the call each validation task is working on
  seen,     \* history: the base fee of a next block, for every head there has been
  window    \* history: the base fees during each call, from start to answer

vars == <<sched, chain, queue, told, baseFee, poolFee, pool, calls, seen, window>>
chainVars == <<sched, chain, queue, seen>>
feeVars == <<told, baseFee, poolFee>>

Tip(h) == h[Len(h)]

Call == [phase: {"idle", "filter", "answered"}, batch: Seq(Entry),
         slots: Seq(Outcome \cup {None}), outcomes: Seq(Outcome)]
Idle == [phase |-> "idle", batch |-> <<>>, slots |-> <<>>, outcomes |-> <<>>]

TypeOK ==
  /\ sched \in Schedules
  /\ chain \in Seq(Header) /\ Len(chain) \in 1..MaxHeight
  /\ queue \in Seq(Header) /\ told \in BOOLEAN
  /\ baseFee \in Nat /\ poolFee \in Nat
  /\ \E S \in SUBSET Tx : pool \in [S -> [origin: Origin, parked: BOOLEAN]]
  /\ calls \in [Task -> Call]
  /\ seen \subseteq Nat
  /\ window \in [Task -> SUBSET Nat]

-----------------------------------------------------------------------------
(***************************************************************************)
(* The validator.                                                          *)
(***************************************************************************)

\* LocalTransactionConfig::is_local
IsLocal(origin, sender) ==
  ~NoExemptions /\ (origin = "Local" \/ sender \in LocalSender)

\* Transaction::effective_tip_per_gas, None for a fee cap below the base fee.
EffectiveTip(tx, fee) ==
  LET room == Info[tx].maxFee - fee
      paid == IF Info[tx].maxTip < room THEN Info[tx].maxTip ELSE room
  IN  IF room < 0 THEN None ELSE paid

\* Mutant: the declared tip cap is compared, as reth's own filter does.
DeclaredTipBelowMinimum(entry, fee) ==
  /\ MinimumPriorityFee > 0
  /\ ~IsLocal(entry.origin, Info[entry.tx].sender)
  /\ Info[entry.tx].maxTip < MinimumPriorityFee

\* A transaction that cannot cover the base fee counts as paying no tip.
IsBelowMinimum(entry, fee) ==
  /\ MinimumPriorityFee > 0
  /\ ~IsLocal(entry.origin, Info[entry.tx].sender)
  /\ LET tip == EffectiveTip(entry.tx, fee)
     IN  (IF tip = None THEN 0 ELSE tip) < MinimumPriorityFee

Reject(entry) == [tx |-> entry.tx, verdict |-> "floor"]

\* The slot of a transaction: its rejection, or empty for the inner validator.
Judge(entry, fee) == IF IsBelowMinimum(entry, fee) THEN Reject(entry) ELSE None

\* How many of the first i slots are empty.
Empty(slots, i) == Cardinality({j \in 1..i : slots[j] = None})

\* The transactions whose slots are empty, in order.
ToValidate(call) ==
  [n \in 1..Empty(call.slots, Len(call.slots)) |->
     call.batch[CHOOSE i \in DOMAIN call.slots :
                  call.slots[i] = None /\ Empty(call.slots, i) = n].tx]

\* Mutant: rejections first, then the rest.
RejectionsFirst(slots, validated) ==
  LET rejected == {i \in DOMAIN slots : slots[i] # None}
      nth(n) == CHOOSE i \in rejected : Cardinality({j \in rejected : j <= i}) = n
  IN  [n \in 1..Cardinality(rejected) |-> slots[nth(n)]] \o validated

\* Mutant: the merged answer has only the rejections filled in.
SlotsUnfilled(slots, validated) == slots

\* Every empty slot takes the next of the inner validator's outcomes.
MergeOutcomes(slots, validated) ==
  [i \in DOMAIN slots |->
     IF slots[i] # None THEN slots[i] ELSE validated[Empty(slots, i)]]

-----------------------------------------------------------------------------
(***************************************************************************)
(* build_pool seeds the validator with the next block's base fee, so that  *)
(* the floor holds before the first new head.                              *)
(***************************************************************************)
Init ==
  /\ sched \in Schedules
  /\ \E used \in {0, GasLimit} :
       chain = <<[timestamp |-> 0, gasUsed |-> used, baseFee |-> GenesisBaseFee]>>
  /\ queue = <<>> /\ told = FALSE
  /\ baseFee = NextBlockBaseFee(sched, chain[1])
  /\ poolFee = NextBlockBaseFee(sched, chain[1])
  /\ pool = [tx \in {} |-> None]
  /\ calls = [k \in Task |-> Idle]
  /\ seen = {baseFee}
  /\ window = [k \in Task |-> {}]

\* A task takes up a batch; a call of validate_transaction is a batch of one.
Submit(k) ==
  /\ calls[k].phase = "idle"
  /\ \E b \in Batches :
       /\ \A i \in DOMAIN b : b[i].tx \notin DOMAIN pool
       /\ calls' = [calls EXCEPT ![k] = [phase |-> "filter", batch |-> b,
                                         slots |-> <<>>, outcomes |-> <<>>]]
  /\ window' = [window EXCEPT ![k] = {baseFee}]
  /\ UNCHANGED <<chainVars, feeVars, pool>>

\* Mutant: the fee is the pool's, which learns of a head after the validator.
FilterByPoolFee(k) ==
  LET call == calls[k]
      i == Len(call.slots) + 1
  IN  /\ call.phase = "filter" /\ i <= Len(call.batch)
      /\ calls' = [calls EXCEPT ![k] =
                     [call EXCEPT !.slots = Append(@, Judge(call.batch[i], poolFee))]]
      /\ UNCHANGED <<chainVars, feeVars, pool, window>>

\* validate_transactions' loop: one transaction against the fee of the moment.
Filter(k) ==
  LET call == calls[k]
      i == Len(call.slots) + 1
  IN  /\ call.phase = "filter" /\ i <= Len(call.batch)
      /\ calls' = [calls EXCEPT ![k] =
                     [call EXCEPT !.slots = Append(@, Judge(call.batch[i], baseFee))]]
      /\ UNCHANGED <<chainVars, feeVars, pool, window>>

\* The inner validator's answer, one outcome per transaction; ok are valid.
InnerOutcomes(txs, ok) ==
  [n \in DOMAIN txs |->
     [tx |-> txs[n], verdict |-> IF txs[n] \in ok THEN "valid" ELSE "invalid"]]

\* The inner validator answers for those that passed, and its outcomes are
\* merged with the rejections.
ValidateTransactions(k) ==
  LET call == calls[k]
      rest == ToValidate(call)
  IN  /\ call.phase = "filter" /\ Len(call.slots) = Len(call.batch)
      /\ \E ok \in SUBSET {rest[n] : n \in DOMAIN rest} :
           calls' = [calls EXCEPT ![k] =
                       [call EXCEPT !.phase = "answered",
                          !.outcomes = MergeOutcomes(call.slots, InnerOutcomes(rest, ok))]]
      /\ UNCHANGED <<chainVars, feeVars, pool, window>>

Parked(tx, fee) == Info[tx].maxFee < fee

\* The pool takes up the valid ones, by its own pending base fee; a caller
\* gives each its origin again, by its place in the answer.
AddOutcomes(k) ==
  LET outs == calls[k].outcomes
      place(tx) == CHOOSE i \in DOMAIN outs : outs[i] = [tx |-> tx, verdict |-> "valid"]
      new == {outs[i].tx : i \in {j \in DOMAIN outs : outs[j].verdict = "valid"}}
  IN  /\ calls[k].phase = "answered"
      /\ pool' = [tx \in DOMAIN pool \cup new |->
                    IF tx \in DOMAIN pool THEN pool[tx]
                    ELSE [origin |-> calls[k].batch[place(tx)].origin,
                          parked |-> Parked(tx, poolFee)]]
      /\ calls' = [calls EXCEPT ![k] = Idle]
      /\ window' = [window EXCEPT ![k] = {}]
      /\ UNCHANGED <<chainVars, feeVars>>

-----------------------------------------------------------------------------
\* Mutant: the floor of the block's own fork already binds it.
FloorOfOwnFork(parent, timestamp) ==
  AtLeast(NextBlockBaseFee(sched, parent), MinimumBaseFee(sched, timestamp))

\* The base fee of the block this node builds next on parent, whatever its
\* timestamp: BerachainEvmConfig::next_evm_env asks the same chain spec.
BlockBaseFee(parent, timestamp) == NextBlockBaseFee(sched, parent)

\* A new head, on the old one or, in a reorg, beside it.
NewHead ==
  /\ Len(queue) < MaxLag
  /\ \E n \in {Len(chain) - 1, Len(chain)} :
       /\ n \in 1..(MaxHeight - 1)
       /\ \E t \in (chain[n].timestamp + 1)..MaxTime, used \in {0, GasLimit} :
            LET h == [timestamp |-> t, gasUsed |-> used,
                      baseFee |-> BlockBaseFee(chain[n], t)]
            IN  /\ h # Tip(chain)
                /\ chain' = Append(SubSeq(chain, 1, n), h)
                /\ queue' = Append(queue, h)
                /\ seen' = seen \cup {BlockBaseFee(h, t)}
  /\ UNCHANGED <<sched, feeVars, pool, calls, window>>

\* The validator's on_new_head_block, called before the pool takes the head.
OnNewHeadBlock ==
  /\ queue # <<>> /\ ~told
  /\ told' = TRUE
  /\ baseFee' = NextBlockBaseFee(sched, Head(queue))
  /\ window' = [k \in Task |-> IF calls[k].phase = "filter"
                                 THEN window[k] \cup {baseFee'} ELSE window[k]]
  /\ UNCHANGED <<chainVars, poolFee, pool, calls>>

\* The pool takes the head: it parks and promotes, and validates nothing.
SetBlockInfo ==
  /\ queue # <<>> /\ told
  /\ told' = FALSE
  /\ queue' = Tail(queue)
  /\ poolFee' = NextBlockBaseFee(sched, Head(queue))
  /\ pool' = [tx \in DOMAIN pool |-> [pool[tx] EXCEPT !.parked = Parked(tx, poolFee')]]
  /\ UNCHANGED <<sched, chain, baseFee, calls, seen, window>>

Next ==
  \/ \E k \in Task : Submit(k) \/ Filter(k) \/ ValidateTransactions(k) \/ AddOutcomes(k)
  \/ NewHead \/ OnNewHeadBlock \/ SetBlockInfo

Spec == Init /\ [][Next]_vars

-----------------------------------------------------------------------------
(***************************************************************************)
(* Once the maintenance task has caught up, the floor, the pool and the    *)
(* block builder go by one base fee, on either side of a fork and after a  *)
(* reorg, though each derives it on its own (build_pool,                   *)
(* on_new_head_block, next_evm_env).                                       *)
(***************************************************************************)
FeesAgree ==
  queue = <<>> =>
    \A t \in 0..MaxTime :
      baseFee = BlockBaseFee(Tip(chain), t) /\ poolFee = BlockBaseFee(Tip(chain), t)

\* A batch is answered transaction by transaction in its own order, whatever
\* the floor turned down in between (merge_outcomes).
OutcomesInOrder ==
  \A k \in Task : calls[k].phase = "answered" =>
    /\ Len(calls[k].outcomes) = Len(calls[k].batch)
    /\ \A i \in DOMAIN calls[k].batch : calls[k].outcomes[i].tx = calls[k].batch[i].tx

\* The floor turns a transaction down, or lets it pass, by a base fee that
\* was current at some moment of the call, even if heads arrive meanwhile
\* (is_below_minimum's load, on_new_head_block's store).
JudgedByCurrentFee ==
  \A k \in Task : calls[k].phase = "answered" =>
    \A i \in DOMAIN calls[k].batch :
      \E fee \in window[k] :
        IsBelowMinimum(calls[k].batch[i], fee) <=> calls[k].outcomes[i].verdict = "floor"

\* The floor does not concern the entry, or it clears the floor in full at
\* one of these base fees.
Cleared(entry, fees) ==
  \/ MinimumPriorityFee = 0
  \/ IsLocal(entry.origin, Info[entry.tx].sender)
  \/ \E fee \in fees : /\ Info[entry.tx].maxFee >= fee + MinimumPriorityFee
                       /\ Info[entry.tx].maxTip >= MinimumPriorityFee

(***************************************************************************)
(* With the floor on, every transaction the pool holds that is not local   *)
(* would have paid the minimum tip in full on top of the base fee of a     *)
(* block after some head this node had: one that offers the bare base fee, *)
(* or waits, parked, for a lower one, never gets in, by whatever races and *)
(* reorgs (module comment of min_priority_fee.rs).                         *)
(***************************************************************************)
NoFreeRiders ==
  \A tx \in DOMAIN pool : Cleared([origin |-> pool[tx].origin, tx |-> tx], seen)
=============================================================================
