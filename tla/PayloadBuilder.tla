---------------------------- MODULE PayloadBuilder ----------------------------
(***************************************************************************)
(* One payload job: reth's job runs default_berachain_payload              *)
(* (src/engine/builder.rs) again and again, keeping the best payload, while *)
(* the pool it draws from changes, until the consensus client fetches the  *)
(* payload or the job is dropped.                                          *)
(*                                                                         *)
(* Each attempt walks an iterator over the pool's pending transactions,    *)
(* which offers the lowest nonce left of any sender and passes over every  *)
(* transaction of a sender once one of his is marked invalid.  A fetch     *)
(* before the first payload either waits for the running attempt or races  *)
(* it with a second one (on_missing_payload), which build_empty_payload    *)
(* starts and which, despite its name, draws from the pool as well.        *)
(*                                                                         *)
(* BlockLifecycle models the same loop as seen from the block; here the    *)
(* block is the list of its user transactions with their gas, size, blobs  *)
(* and fees, all in small units.                                           *)
(***************************************************************************)
EXTENDS Integers, Sequences, FiniteSets

CONSTANTS
  None,
  Tx,                \* transactions that may be in the pool
  Info,              \* what is known of each: see TxInfo
  Sender,
  StateNonce,        \* each sender's nonce in the parent state
  BlockGasLimit,
  ProtocolMaxBlobs,  \* max_blob_count of the block's blob parameters
  MaxRlpBlockSize,   \* MAX_RLP_BLOCK_SIZE
  SizeSlack,         \* what the size estimate allows for header and PoL (1024)
  Overhead,          \* what header and PoL transaction really take
  WithdrawalsSize,
  Networks,          \* network and configuration parameters to consider
  MaxAttempts        \* bound: attempts of the job

TxInfo ==
  [sender: Sender, nonce: Nat, gasLimit: Nat \ {0}, gasUsed: Nat, size: Nat, tip: Nat,
   blobs: Nat, sidecar: {"eip4844", "eip7594"}, valid: BOOLEAN]

Network ==
  [osaka: BOOLEAN, prague3: BOOLEAN, userMaxBlobs: Nat \cup {None}, awaitMissing: BOOLEAN]

\* A payload as the job keeps it.
Payload == [txs: Seq(Tx), fees: Nat, sidecars: Seq(Tx), size: Nat]

\* Header and PoL transaction fit into the slack: the largest header RLP is
\* about 720 bytes and a PoL transaction's about 215.
ASSUME BuilderAssumption ==
  /\ None \notin Tx \cup Payload
  /\ Info \in [Tx -> TxInfo]
  /\ \A tx \in Tx : Info[tx].gasUsed <= Info[tx].gasLimit
  /\ StateNonce \in [Sender -> Nat]
  /\ BlockGasLimit \in Nat
  /\ ProtocolMaxBlobs \in Nat \ {0}
  /\ MaxRlpBlockSize \in Nat /\ SizeSlack \in Nat
  /\ WithdrawalsSize \in Nat
  /\ Overhead \in 0..SizeSlack
  /\ Overhead + WithdrawalsSize <= MaxRlpBlockSize
  /\ Networks \subseteq Network
  /\ MaxAttempts \in Nat

VARIABLES
  net,        \* this network
  pool,       \* pending transactions
  blobStore,  \* blob transactions whose sidecar is stored
  attempt,    \* the attempts being made: "main", and "race" after an early fetch
  best,       \* the best payload so far
  cancelled,  \* the job's cancellation flag
  fetch,      \* "none", "asked" (no payload yet) or "answered"
  answer,     \* the payload the fetch was answered with, if any
  errors,     \* errors that ended attempts
  count       \* attempts made

vars == <<net, pool, blobStore, attempt, best, cancelled, fetch, answer, errors, count>>

Slot == {"main", "race"}

-----------------------------------------------------------------------------
(* The loop's state *)

\* Mutant: the PoL call is charged to the block by the executor.
AttemptChargingPol ==
  [left |-> pool, blocked |-> {}, skipBlobs |-> FALSE, txs |-> <<>>, gas |-> 0,
   executorGas |-> 1, blobCount |-> 0, size |-> 0, fees |-> 0, sidecars |-> <<>>]

\* An attempt after apply_pre_execution_changes: gas is the loop's count,
\* executorGas the executor's own.
NewAttempt ==
  [left |-> pool, blocked |-> {}, skipBlobs |-> FALSE, txs |-> <<>>, gas |-> 0,
   executorGas |-> 0, blobCount |-> 0, size |-> 0, fees |-> 0, sidecars |-> <<>>]

IsBlob(tx) == Info[tx].blobs > 0

\* What the iterator may offer next.  Once blobs are skipped, a blob
\* transaction counts as marked invalid.
Offered(at) ==
  {tx \in at.left :
     /\ Info[tx].sender \notin at.blocked
     /\ \A u \in at.left :
          Info[u].sender = Info[tx].sender =>
            /\ Info[tx].nonce <= Info[u].nonce
            /\ u = tx => ~(at.skipBlobs /\ IsBlob(tx))}

Drop(at, tx)        == [at EXCEPT !.left = @ \ {tx}]
MarkInvalid(at, tx) == [Drop(at, tx) EXCEPT !.blocked = @ \cup {Info[tx].sender}]

\* Where the sender's nonce stands after the transactions taken so far.
NextNonce(at, sender) ==
  StateNonce[sender] + Cardinality({i \in DOMAIN at.txs : Info[at.txs[i]].sender = sender})

\* The user's blob limit (EIP-7872) never goes below one.
MaxBlobs ==
  IF net.userMaxBlobs = None THEN ProtocolMaxBlobs
  ELSE LET least == IF net.userMaxBlobs < ProtocolMaxBlobs
                      THEN net.userMaxBlobs ELSE ProtocolMaxBlobs
       IN  IF least = 0 THEN 1 ELSE least

FitsGas(at, tx) == at.gas + Info[tx].gasLimit <= BlockGasLimit

\* Mutant: the estimate leaves the withdrawals out.
EstimateWithoutWithdrawals(at, tx) == at.size + Info[tx].size + SizeSlack

EstimatedSize(at, tx) == at.size + Info[tx].size + WithdrawalsSize + SizeSlack

FitsSize(at, tx) == net.osaka => EstimatedSize(at, tx) <= MaxRlpBlockSize

\* Mutant: only a full block is refused further blobs.
FitsUntilFull(at, tx) == at.blobCount < MaxBlobs

FitsBlobs(at, tx) == at.blobCount + Info[tx].blobs <= MaxBlobs

\* PeerDAS sidecars are refused under every fork.
HasSidecar(tx) == tx \in blobStore /\ Info[tx].sidecar = "eip4844"

-----------------------------------------------------------------------------
(* The steps of the loop *)

\* The iterator offers tx and the loop looks at it.
Looks(s, tx) == attempt[s] # None /\ ~net.prague3 /\ tx \in Offered(attempt[s])

\* The loop goes on with attempt s as at, or ends it.
Becomes(s, at) ==
  /\ attempt' = [attempt EXCEPT ![s] = at]
  /\ UNCHANGED <<net, pool, blobStore, best, cancelled, fetch, answer, count>>

\* The gas check comes first, before the cancellation flag is read.
SkipForGas(s) ==
  \E tx \in Tx :
    /\ Looks(s, tx) /\ ~FitsGas(attempt[s], tx)
    /\ Becomes(s, MarkInvalid(attempt[s], tx)) /\ UNCHANGED errors

SeeCancellation(s) ==
  \E tx \in Tx :
    /\ Looks(s, tx) /\ FitsGas(attempt[s], tx)
    /\ cancelled /\ s = "main"
    /\ Becomes(s, None) /\ UNCHANGED errors

\* Mutant: the flag is read only before the first transaction.
ConsidersOnceStarted(s, tx) ==
  /\ Looks(s, tx) /\ FitsGas(attempt[s], tx)
  /\ ~(cancelled /\ s = "main" /\ attempt[s].txs = <<>>)

\* Past both; the raced attempt has a flag of its own that nobody sets.
Considers(s, tx) ==
  Looks(s, tx) /\ FitsGas(attempt[s], tx) /\ ~(cancelled /\ s = "main")

SkipForSize(s) ==
  \E tx \in Tx :
    /\ Considers(s, tx) /\ ~FitsSize(attempt[s], tx)
    /\ Becomes(s, MarkInvalid(attempt[s], tx)) /\ UNCHANGED errors

SkipForBlobs(s) ==
  \E tx \in Tx :
    /\ Considers(s, tx) /\ FitsSize(attempt[s], tx)
    /\ IsBlob(tx) /\ ~(FitsBlobs(attempt[s], tx) /\ HasSidecar(tx))
    /\ Becomes(s, MarkInvalid(attempt[s], tx)) /\ UNCHANGED errors

\* The blob store cannot be read: fatal for the attempt.
BlobStoreFails(s) ==
  \E tx \in Tx :
    /\ Considers(s, tx) /\ FitsSize(attempt[s], tx)
    /\ IsBlob(tx) /\ FitsBlobs(attempt[s], tx)
    /\ Becomes(s, None) /\ errors' = errors \cup {"blob store"}

\* Mutant: a blob transaction's sidecar is left out when it fills the block.
IncludedLosingLast(at, tx) ==
  LET blobs == at.blobCount + Info[tx].blobs IN
  [left        |-> at.left \ {tx},
   blocked     |-> at.blocked,
   skipBlobs   |-> at.skipBlobs \/ (IsBlob(tx) /\ blobs = MaxBlobs),
   txs         |-> Append(at.txs, tx),
   gas         |-> at.gas + Info[tx].gasUsed,
   executorGas |-> at.executorGas + Info[tx].gasUsed,
   blobCount   |-> blobs,
   size        |-> at.size + Info[tx].size,
   fees        |-> at.fees + Info[tx].tip * Info[tx].gasUsed,
   sidecars    |-> IF IsBlob(tx) /\ blobs # MaxBlobs THEN Append(at.sidecars, tx) ELSE at.sidecars]

\* Everything the loop and the executor count after a transaction.
Included(at, tx) ==
  LET blobs == at.blobCount + Info[tx].blobs IN
  [left        |-> at.left \ {tx},
   blocked     |-> at.blocked,
   skipBlobs   |-> at.skipBlobs \/ (IsBlob(tx) /\ blobs = MaxBlobs),
   txs         |-> Append(at.txs, tx),
   gas         |-> at.gas + Info[tx].gasUsed,
   executorGas |-> at.executorGas + Info[tx].gasUsed,
   blobCount   |-> blobs,
   size        |-> at.size + Info[tx].size,
   fees        |-> at.fees + Info[tx].tip * Info[tx].gasUsed,
   sidecars    |-> IF IsBlob(tx) THEN Append(at.sidecars, tx) ELSE at.sidecars]

\* Mutant: a used nonce is an invalid transaction like any other.
UsedNonceInvalid(at, tx) ==
  IF Info[tx].valid /\ Info[tx].nonce = NextNonce(at, Info[tx].sender)
    THEN Included(at, tx) ELSE MarkInvalid(at, tx)

\* What the loop makes of the executor's verdict.  A used nonce is only
\* passed over: the sender's next one may be good.
AfterExecution(at, tx) ==
  IF Info[tx].nonce < NextNonce(at, Info[tx].sender) THEN Drop(at, tx)
  ELSE IF Info[tx].valid /\ Info[tx].nonce = NextNonce(at, Info[tx].sender)
    THEN Included(at, tx) ELSE MarkInvalid(at, tx)

\* The executor first checks the gas once more; this error is one the loop
\* does not expect, and fatal.
Execute(s) ==
  \E tx \in Tx :
    /\ Considers(s, tx) /\ FitsSize(attempt[s], tx)
    /\ IsBlob(tx) => FitsBlobs(attempt[s], tx) /\ HasSidecar(tx)
    /\ IF Info[tx].gasLimit > BlockGasLimit - attempt[s].executorGas
         THEN Becomes(s, None) /\ errors' = errors \cup {"gas"}
         ELSE Becomes(s, AfterExecution(attempt[s], tx)) /\ UNCHANGED errors

-----------------------------------------------------------------------------
(* The end of the loop *)

Exhausted(at) == net.prague3 \/ Offered(at) = {}

\* Mutants: as good a payload replaces the best one; one without fees is none.
AsGood(current, fees) == current # None => fees >= current.fees
WorthSomething(current, fees) == fees > (IF current = None THEN 0 ELSE current.fees)

\* is_better_payload: strictly more fees than the best one so far.
IsBetter(current, fees) == current # None => fees > current.fees

\* best_payload of the build arguments; the raced attempt has none.
BestKnown(s) == IF s = "main" THEN best ELSE None

SealedSize(at) == at.size + WithdrawalsSize + Overhead

PayloadOf(at) == [txs |-> at.txs, fees |-> at.fees, sidecars |-> at.sidecars, size |-> SealedSize(at)]

\* Nothing gained: BuildOutcome::Aborted.
Abort(s) ==
  /\ attempt[s] # None /\ Exhausted(attempt[s])
  /\ ~IsBetter(BestKnown(s), attempt[s].fees)
  /\ Becomes(s, None) /\ UNCHANGED errors

\* A payload (BuildOutcome::Better), unless it has turned out too large.  The
\* first payload answers a waiting fetch, which ends the job.
Finish(s) ==
  /\ attempt[s] # None /\ Exhausted(attempt[s])
  /\ IsBetter(BestKnown(s), attempt[s].fees)
  /\ IF net.osaka /\ SealedSize(attempt[s]) > MaxRlpBlockSize
       THEN /\ errors' = errors \cup {"too large"}
            /\ UNCHANGED <<best, fetch, answer, cancelled>>
       ELSE /\ best' = IF s = "main" THEN PayloadOf(attempt[s]) ELSE best
            /\ IF fetch = "asked"
                 THEN fetch' = "answered" /\ answer' = PayloadOf(attempt[s]) /\ cancelled' = TRUE
                 ELSE UNCHANGED <<fetch, answer, cancelled>>
            /\ UNCHANGED errors
  /\ attempt' = [attempt EXCEPT ![s] = None]
  /\ UNCHANGED <<net, pool, blobStore, count>>

-----------------------------------------------------------------------------
(* The job and the pool around it *)

\* Pending transactions leave no nonce out, as far as the pool knows; used
\* nonces may linger.
Gapless(txs) ==
  \A tx \in txs :
    Info[tx].nonce > StateNonce[Info[tx].sender] =>
      \E u \in txs : Info[u].sender = Info[tx].sender /\ Info[u].nonce = Info[tx].nonce - 1

Init ==
  /\ net \in Networks
  /\ pool \in {txs \in SUBSET Tx : Gapless(txs)}
  /\ blobStore = {tx \in Tx : IsBlob(tx)}
  /\ attempt = [s \in Slot |-> None]
  /\ best = None
  /\ cancelled = FALSE
  /\ fetch = "none"
  /\ answer = None
  /\ errors = {}
  /\ count = 0

\* The job's next attempt, as long as the payload has not been fetched.
Attempt ==
  /\ attempt["main"] = None /\ ~cancelled
  /\ fetch = "none"
  /\ count < MaxAttempts
  /\ attempt' = [attempt EXCEPT !["main"] = NewAttempt]
  /\ count' = count + 1
  /\ UNCHANGED <<net, pool, blobStore, best, cancelled, fetch, answer, errors>>

\* The client fetches the payload: the best one, which ends the job, or the
\* first one still to come.
Fetch ==
  /\ fetch = "none"
  /\ IF best # None
       THEN /\ fetch' = "answered" /\ answer' = best
            /\ cancelled' = TRUE
            /\ UNCHANGED attempt
       ELSE /\ fetch' = "asked"
            /\ attempt' = IF net.awaitMissing THEN attempt
                          ELSE [attempt EXCEPT !["race"] = NewAttempt]
            /\ UNCHANGED <<answer, cancelled>>
  /\ UNCHANGED <<net, pool, blobStore, best, errors, count>>

\* Every attempt a fetch was waiting for has ended without a payload.
FetchFails ==
  /\ fetch = "asked"
  /\ attempt = [s \in Slot |-> None]
  /\ fetch' = "failed" /\ cancelled' = TRUE
  /\ UNCHANGED <<net, pool, blobStore, attempt, best, answer, errors, count>>

\* The job is dropped: at its deadline, or once its fetch is answered.
Cancel ==
  /\ ~cancelled
  /\ fetch # "asked"
  /\ cancelled' = TRUE
  /\ UNCHANGED <<net, pool, blobStore, attempt, best, fetch, answer, errors, count>>

\* A new pending transaction also reaches the iterators being walked.
Arrive ==
  \E tx \in Tx \ pool :
    /\ Gapless(pool \cup {tx})
    /\ pool' = pool \cup {tx}
    /\ attempt' = [s \in Slot |->
         IF attempt[s] = None THEN None ELSE [attempt[s] EXCEPT !.left = @ \cup {tx}]]
    /\ UNCHANGED <<net, blobStore, best, cancelled, fetch, answer, errors, count>>

\* The pool prunes a sidecar, of a transaction an iterator may still hold.
LoseSidecar ==
  \E tx \in blobStore :
    /\ blobStore' = blobStore \ {tx}
    /\ UNCHANGED <<net, pool, attempt, best, cancelled, fetch, answer, errors, count>>

LoopStep(s) ==
  \/ SkipForGas(s) \/ SeeCancellation(s) \/ SkipForSize(s) \/ SkipForBlobs(s)
  \/ BlobStoreFails(s) \/ Execute(s) \/ Abort(s) \/ Finish(s)

Next ==
  \/ \E s \in Slot : LoopStep(s)
  \/ Attempt \/ Fetch \/ FetchFails \/ Cancel \/ Arrive \/ LoseSidecar

Spec == Init /\ [][Next]_vars

\* An attempt runs to its end on a thread of its own, and a waiting fetch is
\* polled; no new attempt, fetch or transaction is owed.
FairSpec == Spec /\ WF_vars(FetchFails) /\ \A s \in Slot : WF_vars(LoopStep(s))

-----------------------------------------------------------------------------
(* Properties *)

AttemptType ==
  [left: SUBSET Tx, blocked: SUBSET Sender, skipBlobs: BOOLEAN, txs: Seq(Tx), gas: Nat,
   executorGas: Nat, blobCount: Nat, size: Nat, fees: Nat, sidecars: Seq(Tx)]

(***************************************************************************)
(* The types of the job's state; a fetch holds a payload exactly when it   *)
(* has been answered, and then the job is over.  An attempt never exceeds  *)
(* the blob limit, the user's included, and skips blobs exactly at it.     *)
(***************************************************************************)
TypeOK ==
  /\ net \in Networks
  /\ pool \subseteq Tx /\ blobStore \subseteq Tx
  /\ attempt \in [Slot -> AttemptType \cup {None}]
  /\ \A s \in Slot : attempt[s] # None =>
       /\ attempt[s].blobCount <= MaxBlobs
       /\ attempt[s].skipBlobs <=> attempt[s].blobCount = MaxBlobs
  /\ best \in Payload \cup {None} /\ answer \in Payload \cup {None}
  /\ cancelled \in BOOLEAN /\ fetch \in {"none", "asked", "answered", "failed"}
  /\ fetch = "answered" <=> answer # None
  /\ fetch \in {"answered", "failed"} => cancelled
  /\ errors \subseteq {"blob store", "gas", "too large"}
  /\ count \in 0..MaxAttempts

Payloads == {best, answer} \ {None}

(***************************************************************************)
(* No limit ends an attempt.  The loop's own gas count never lets a        *)
(* transaction through that the executor has no gas for: the error would   *)
(* be fatal, and the same transaction would meet every later attempt.  And *)
(* the size estimate, which leaves 1024 bytes for header and PoL           *)
(* transaction, makes the check of the sealed block one that never fails.  *)
(***************************************************************************)
LimitsNotFatal == errors \cap {"gas", "too large"} = {}

\* The blob transactions of a list, in their order.
BlobTxs(txs) ==
  LET upTo[i \in 0..Len(txs)] ==
        IF i = 0 THEN <<>>
        ELSE IF IsBlob(txs[i]) THEN Append(upTo[i - 1], txs[i]) ELSE upTo[i - 1]
  IN  upTo[Len(txs)]

\* What the transactions of a list amount to, at w[tx] each: blobs and fees.
Total(w, txs) ==
  LET upTo[i \in 0..Len(txs)] == IF i = 0 THEN 0 ELSE upTo[i - 1] + w[txs[i]]
  IN  upTo[Len(txs)]

BlobsOf(txs) == Total([tx \in Tx |-> Info[tx].blobs], txs)
FeesOf(txs)  == Total([tx \in Tx |-> Info[tx].tip * Info[tx].gasUsed], txs)

(***************************************************************************)
(* The sidecars of a payload are those of its blob transactions, in their  *)
(* order and of the accepted format, and no more than the protocol allows. *)
(***************************************************************************)
BlobsAccounted ==
  \A p \in Payloads :
    /\ p.sidecars = BlobTxs(p.txs)
    /\ \A i \in DOMAIN p.sidecars : Info[p.sidecars[i]].sidecar = "eip4844"
    /\ BlobsOf(p.txs) <= ProtocolMaxBlobs

\* What attempt has room for, and may take if it executes.
Fits(at, tx) ==
  /\ FitsGas(at, tx) /\ FitsSize(at, tx)
  /\ IsBlob(tx) => FitsBlobs(at, tx) /\ HasSidecar(tx)

\* The transaction before which the iterator stops: it comes no later than
\* tx in its sender's order, is not in the block and has no place there.
Hides(at, u, tx) ==
  /\ u # tx /\ Info[u].sender = Info[tx].sender /\ Info[u].nonce <= Info[tx].nonce
  /\ \A i \in DOMAIN at.txs : at.txs[i] # u
  /\ ~Fits(at, u) \/ (~Info[u].valid /\ Info[u].nonce = Info[tx].nonce)

(***************************************************************************)
(* An attempt leaves out no transaction it could have taken: at the end of *)
(* the loop, whatever was skipped or marked invalid on the way, a valid    *)
(* transaction at its sender's next nonce no longer fits.  The exception   *)
(* is a sender of whom the pool still holds a transaction whose nonce is   *)
(* used (or that another replaces): when that one does not fit, it marks   *)
(* the sender invalid before anyone has looked at its nonce.               *)
(***************************************************************************)
NothingLeftOut ==
  \A s \in Slot :
    LET at == attempt[s] IN
    at # None /\ ~net.prague3 /\ Exhausted(at) =>
      \A tx \in pool :
        Info[tx].valid /\ Info[tx].nonce = NextNonce(at, Info[tx].sender) /\ Fits(at, tx)
          => \E u \in pool : Hides(at, u, tx)

(***************************************************************************)
(* Once a job is cancelled, its attempt takes no further transaction.      *)
(***************************************************************************)
CancelStops ==
  [][cancelled /\ attempt["main"] # None /\ attempt'["main"] # None =>
       attempt'["main"].txs = attempt["main"].txs]_vars

(***************************************************************************)
(* A payload is only ever replaced by one with more fees, which are the    *)
(* tips of its transactions; in the Prague3 window the first, empty one    *)
(* stays.                                                                  *)
(***************************************************************************)
PayloadsImprove ==
  [][best' # best =>
       /\ best'.fees = FeesOf(best'.txs)
       /\ best # None => best.fees < best'.fees /\ ~net.prague3]_vars

(***************************************************************************)
(* A fetch that races an attempt of its own (no await_payload_on_missing)  *)
(* is answered, were the pool empty or the transactions worthless, unless  *)
(* an attempt met an error.                                                *)
(***************************************************************************)
FetchAnswered ==
  (fetch = "asked" /\ ~net.awaitMissing) ~> (fetch = "answered" \/ errors # {})
=============================================================================
