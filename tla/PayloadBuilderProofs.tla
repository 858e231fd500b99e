-------------------------- MODULE PayloadBuilderProofs --------------------------
(***************************************************************************)
(* Two errors of default_berachain_payload that no pool can provoke: the   *)
(* executor's gas error, fatal to an attempt, and BlockTooLarge; what the  *)
(* job's state, its cancellation flag included, always satisfies; what a   *)
(* payload records of the transactions in it; and that an attempt leaves   *)
(* out only what it must.                                                  *)
(***************************************************************************)
EXTENDS PayloadBuilder, Induction, TLAPS

\* What an attempt counts.
Counts(at) ==
  /\ at.left \in SUBSET Tx
  /\ at.gas \in Nat /\ at.size \in Nat
  /\ at.executorGas = at.gas
  /\ at.gas <= BlockGasLimit
  /\ net.osaka => at.size = 0 \/ at.size + WithdrawalsSize + SizeSlack <= MaxRlpBlockSize

CountInv ==
  /\ net \in Network
  /\ pool \in SUBSET Tx
  /\ attempt \in [Slot -> AttemptType \cup {None}]
  /\ \A s \in Slot : attempt[s] # None => Counts(attempt[s])
  /\ LimitsNotFatal

\* Gas, size, tip and blobs of a transaction are natural numbers, and it uses
\* no more gas than its limit.
LEMMA InfoType ==
  ASSUME NEW tx \in Tx
  PROVE  /\ Info[tx].nonce \in Nat
         /\ Info[tx].gasUsed \in Nat /\ Info[tx].gasLimit \in Nat /\ Info[tx].size \in Nat
         /\ Info[tx].gasUsed <= Info[tx].gasLimit
         /\ Info[tx].tip \in Nat /\ Info[tx].blobs \in Nat /\ Info[tx].sender \in Sender
  BY BuilderAssumption DEF TxInfo

\* A new attempt has counted nothing.
LEMMA NewAttemptCounts ==
  ASSUME CountInv
  PROVE  NewAttempt \in AttemptType /\ Counts(NewAttempt)
  BY BuilderAssumption DEF CountInv, NewAttempt, AttemptType, Counts

\* Passing a transaction over changes no count.
LEMMA DropCounts ==
  ASSUME NEW at \in AttemptType, Counts(at), NEW tx \in Tx
  PROVE  /\ Drop(at, tx) \in AttemptType /\ Counts(Drop(at, tx))
         /\ MarkInvalid(at, tx) \in AttemptType /\ Counts(MarkInvalid(at, tx))
  BY InfoType DEF Drop, MarkInvalid, AttemptType, Counts

\* Taking one that fits keeps the counts within their limits.
LEMMA IncludedCounts ==
  ASSUME net \in Network, NEW at \in AttemptType, Counts(at), NEW tx \in Tx,
         FitsGas(at, tx), FitsSize(at, tx)
  PROVE  Included(at, tx) \in AttemptType /\ Counts(Included(at, tx))
<1>. DEFINE i == Included(at, tx)
<1>1. Info[tx].tip * Info[tx].gasUsed \in Nat
  BY InfoType
<1>2. i \in AttemptType
  <2>1. Append(at.txs, tx) \in Seq(Tx) /\ Append(at.sidecars, tx) \in Seq(Tx)
    BY DEF AttemptType
  <2>2. /\ at.left \ {tx} \in SUBSET Tx /\ at.blocked \in SUBSET Sender
        /\ at.sidecars \in Seq(Tx)
    BY DEF AttemptType
  <2>3. /\ at.gas + Info[tx].gasUsed \in Nat /\ at.executorGas + Info[tx].gasUsed \in Nat
        /\ at.blobCount + Info[tx].blobs \in Nat /\ at.size + Info[tx].size \in Nat
    <3>1. at.gas \in Nat /\ at.executorGas \in Nat /\ at.blobCount \in Nat /\ at.size \in Nat
      BY DEF AttemptType
    <3>. QED  BY <3>1, InfoType
  <2>5. at.fees + Info[tx].tip * Info[tx].gasUsed \in Nat
    <3>1. at.fees \in Nat
      BY DEF AttemptType
    <3>2. \A a, b \in Nat : a + b \in Nat
      OBVIOUS
    <3>. QED  BY <1>1, <3>1, <3>2
  <2>4. (at.skipBlobs \/ (IsBlob(tx) /\ at.blobCount + Info[tx].blobs = MaxBlobs)) \in BOOLEAN
    OBVIOUS
  <2>. QED  BY <2>1, <2>2, <2>3, <2>4, <2>5 DEF Included, AttemptType
<1>3. /\ i.size = at.size + Info[tx].size /\ i.gas = at.gas + Info[tx].gasUsed
      /\ i.executorGas = at.executorGas + Info[tx].gasUsed /\ i.left \in SUBSET Tx
  BY DEF Included, AttemptType
<1>4. Counts(i)
  <2>1. i.gas <= BlockGasLimit /\ i.executorGas = i.gas
    BY <1>3, InfoType, BuilderAssumption DEF Counts, FitsGas
  <2>2. net.osaka => i.size + WithdrawalsSize + SizeSlack <= MaxRlpBlockSize
    BY <1>3, InfoType, BuilderAssumption DEF Counts, FitsSize, EstimatedSize
  <2>3. i.size \in Nat /\ i.gas \in Nat
    BY <1>3, InfoType DEF Counts
  <2>. HIDE DEF i
  <2>. QED  BY <1>3, <2>1, <2>2, <2>3 DEF Counts
<1>. QED  BY <1>2, <1>4

\* Replacing attempt s by one within its limits, or by none.
LEMMA BecomesKeeps ==
  ASSUME CountInv, NEW s \in Slot, NEW at \in AttemptType \cup {None},
         at # None => Counts(at), Becomes(s, at), UNCHANGED errors
  PROVE  CountInv'
  BY DEF CountInv, Becomes, Counts, LimitsNotFatal

\* Every step of the loop keeps the invariant: the two gas counts stay equal
\* and no error of a limit is recorded.
LEMMA LoopKeeps ==
  ASSUME CountInv, NEW s \in Slot, LoopStep(s)
  PROVE  CountInv'
<1>1. ASSUME NEW tx \in Tx, Looks(s, tx)
      PROVE  attempt[s] \in AttemptType /\ Counts(attempt[s])
  BY <1>1 DEF Looks, CountInv
<1>2. CASE SkipForGas(s)
  <2>1. PICK tx \in Tx : Looks(s, tx) /\ Becomes(s, MarkInvalid(attempt[s], tx)) /\ UNCHANGED errors
    BY <1>2 DEF SkipForGas
  <2>. QED  BY <2>1, <1>1, DropCounts, BecomesKeeps
<1>3. CASE SeeCancellation(s)
  BY <1>3, BecomesKeeps DEF SeeCancellation
<1>4. CASE SkipForSize(s)
  <2>1. PICK tx \in Tx : Looks(s, tx) /\ Becomes(s, MarkInvalid(attempt[s], tx)) /\ UNCHANGED errors
    BY <1>4 DEF SkipForSize, Considers
  <2>. QED  BY <2>1, <1>1, DropCounts, BecomesKeeps
<1>5. CASE SkipForBlobs(s)
  <2>1. PICK tx \in Tx : Looks(s, tx) /\ Becomes(s, MarkInvalid(attempt[s], tx)) /\ UNCHANGED errors
    BY <1>5 DEF SkipForBlobs, Considers
  <2>. QED  BY <2>1, <1>1, DropCounts, BecomesKeeps
<1>6. CASE BlobStoreFails(s)
  <2>1. Becomes(s, None) /\ errors' = errors \cup {"blob store"}
    BY <1>6 DEF BlobStoreFails
  <2>. QED  BY <2>1 DEF CountInv, Becomes, Counts, LimitsNotFatal
<1>7. CASE Execute(s)
  <2>1. PICK tx \in Tx :
          /\ Looks(s, tx) /\ FitsGas(attempt[s], tx) /\ FitsSize(attempt[s], tx)
          /\ IF Info[tx].gasLimit > BlockGasLimit - attempt[s].executorGas
               THEN Becomes(s, None) /\ errors' = errors \cup {"gas"}
               ELSE Becomes(s, AfterExecution(attempt[s], tx)) /\ UNCHANGED errors
    BY <1>7 DEF Execute, Considers
  <2>2. attempt[s] \in AttemptType /\ Counts(attempt[s])
    BY <1>1, <2>1
  <2>3. ~(Info[tx].gasLimit > BlockGasLimit - attempt[s].executorGas)
    BY <2>1, <2>2, InfoType, BuilderAssumption DEF Counts, FitsGas
  <2>4. Becomes(s, AfterExecution(attempt[s], tx)) /\ UNCHANGED errors
    BY <2>1, <2>3
  <2>5. AfterExecution(attempt[s], tx) \in
          {Drop(attempt[s], tx), Included(attempt[s], tx), MarkInvalid(attempt[s], tx)}
    BY DEF AfterExecution
  <2>6. net \in Network
    BY DEF CountInv
  <2>. QED  BY <2>1, <2>2, <2>4, <2>5, <2>6, DropCounts, IncludedCounts, BecomesKeeps
<1>8. CASE Abort(s)
  BY <1>8, BecomesKeeps DEF Abort
<1>9. CASE Finish(s)
  <2>1. attempt[s] \in AttemptType /\ Counts(attempt[s])
    BY <1>9 DEF Finish, CountInv
  <2>2. ~(net.osaka /\ SealedSize(attempt[s]) > MaxRlpBlockSize)
    BY <2>1, BuilderAssumption DEF SealedSize, Counts
  <2>3. errors' = errors /\ attempt' = [attempt EXCEPT ![s] = None] /\ UNCHANGED <<net, pool>>
    BY <1>9, <2>2 DEF Finish
  <2>. QED  BY <2>3 DEF CountInv, Counts, LimitsNotFatal
<1>. QED  BY <1>2, <1>3, <1>4, <1>5, <1>6, <1>7, <1>8, <1>9 DEF LoopStep

LEMMA CountInit == Init => CountInv
  BY BuilderAssumption
  DEF Init, CountInv, Counts, LimitsNotFatal

\* And so does every other step.
LEMMA CountStep ==
  ASSUME CountInv, [Next]_vars
  PROVE  CountInv'
<1>1. CASE \E s \in Slot : LoopStep(s)
  BY <1>1, LoopKeeps
<1>2. CASE Attempt
  BY <1>2, NewAttemptCounts DEF Attempt, CountInv, Counts, LimitsNotFatal
<1>3. CASE Fetch
  <2>1. attempt' = attempt \/ attempt' = [attempt EXCEPT !["race"] = NewAttempt]
    BY <1>3 DEF Fetch
  <2>2. UNCHANGED <<net, pool, errors>>
    BY <1>3 DEF Fetch
  <2>. QED  BY <2>1, <2>2, NewAttemptCounts
            DEF CountInv, Counts, LimitsNotFatal
<1>4. CASE FetchFails
  BY <1>4 DEF FetchFails, CountInv, Counts, LimitsNotFatal
<1>5. CASE Cancel
  BY <1>5 DEF Cancel, CountInv, Counts, LimitsNotFatal
<1>6. CASE Arrive
  <2>1. PICK tx \in Tx :
          /\ pool' = pool \cup {tx}
          /\ attempt' = [s \in Slot |->
               IF attempt[s] = None THEN None ELSE [attempt[s] EXCEPT !.left = @ \cup {tx}]]
          /\ UNCHANGED <<net, errors>>
    BY <1>6 DEF Arrive
  <2>2. ASSUME NEW s \in Slot, attempt[s] # None
        PROVE  attempt'[s] \in AttemptType /\ Counts(attempt'[s])
    <3>1. attempt[s] \in AttemptType /\ Counts(attempt[s])
      BY <2>2 DEF CountInv
    <3>. QED  BY <2>1, <2>2, <3>1 DEF AttemptType, Counts
  <2>3. ASSUME NEW s \in Slot, attempt[s] = None
        PROVE  attempt'[s] = None
    BY <2>1, <2>3
  <2>. QED  BY <2>1, <2>2, <2>3 DEF CountInv, Counts, LimitsNotFatal
<1>7. CASE LoseSidecar
  BY <1>7 DEF LoseSidecar, CountInv, Counts, LimitsNotFatal
<1>8. CASE UNCHANGED vars
  BY <1>8 DEF vars, CountInv, Counts, LimitsNotFatal
<1>. QED  BY <1>1, <1>2, <1>3, <1>4, <1>5, <1>6, <1>7, <1>8 DEF Next

(***************************************************************************)
(* Whatever the pool offers, in whatever order, no attempt ever asks the   *)
(* executor for gas it does not have, and none seals a block that Osaka's  *)
(* size limit refuses, as long as header and PoL transaction fit into the  *)
(* 1024 bytes the estimate sets aside.                                     *)
(***************************************************************************)
THEOREM NoFatalLimits == Spec => []LimitsNotFatal
<1>1. Init => CountInv
  BY CountInit
<1>2. CountInv /\ [Next]_vars => CountInv'
  BY CountStep
<1>3. CountInv => LimitsNotFatal
  BY DEF CountInv
<1>. QED  BY <1>1, <1>2, <1>3, PTL DEF Spec

-----------------------------------------------------------------------------
(* The job's state *)

\* The blobs of an attempt: within the limit, and skipped exactly at it.
BlobsCounted(at) == at.blobCount <= MaxBlobs /\ (at.skipBlobs <=> at.blobCount = MaxBlobs)

AttemptsCounted == \A s \in Slot : attempt[s] # None => BlobsCounted(attempt[s])

\* What the job remembers besides its attempts.
Memory ==
  /\ net \in Networks
  /\ blobStore \subseteq Tx
  /\ best \in Payload \cup {None} /\ answer \in Payload \cup {None}
  /\ cancelled \in BOOLEAN /\ fetch \in {"none", "asked", "answered", "failed"}
  /\ fetch = "answered" <=> answer # None
  /\ fetch \in {"answered", "failed"} => cancelled
  /\ errors \subseteq {"blob store", "gas", "too large"}
  /\ count \in 0..MaxAttempts

JobState == AttemptsCounted /\ Memory

LEMMA MaxBlobsPositive ==
  ASSUME net \in Network
  PROVE  MaxBlobs \in Nat \ {0}
  BY BuilderAssumption DEF MaxBlobs, Network

LEMMA NewAttemptBlobs ==
  ASSUME net \in Network
  PROVE  BlobsCounted(NewAttempt)
  BY MaxBlobsPositive DEF BlobsCounted, NewAttempt

\* Once blobs are skipped no blob transaction fits, so the flag keeps up with
\* the count.
LEMMA IncludedBlobs ==
  ASSUME net \in Network, NEW at \in AttemptType, BlobsCounted(at), NEW tx \in Tx,
         IsBlob(tx) => FitsBlobs(at, tx)
  PROVE  BlobsCounted(Included(at, tx))
<1>. DEFINE i    == Included(at, tx)
            sum  == at.blobCount + Info[tx].blobs
            full == sum = MaxBlobs
<1>1. i.blobCount = sum /\ i.skipBlobs = (at.skipBlobs \/ (IsBlob(tx) /\ full))
  BY DEF Included
<1>2. at.blobCount \in Nat /\ Info[tx].blobs \in Nat /\ MaxBlobs \in Nat
  BY InfoType, MaxBlobsPositive DEF AttemptType
<1>3. sum <= MaxBlobs
  BY <1>2 DEF IsBlob, FitsBlobs, BlobsCounted
<1>4. at.blobCount = MaxBlobs => full
  BY <1>2, <1>3
<1>5. ~IsBlob(tx) => (full <=> at.blobCount = MaxBlobs)
  BY <1>2 DEF IsBlob
<1>6. i.skipBlobs <=> full
  <2>. HIDE DEF i, full
  <2>. QED  BY <1>1, <1>4, <1>5, Zenon DEF BlobsCounted
<1>. QED  BY <1>1, <1>3, <1>6 DEF BlobsCounted

LEMMA DropBlobs ==
  ASSUME NEW at \in AttemptType, BlobsCounted(at), NEW tx \in Tx
  PROVE  BlobsCounted(Drop(at, tx)) /\ BlobsCounted(MarkInvalid(at, tx))
  BY DEF Drop, MarkInvalid, AttemptType, BlobsCounted

\* A sealed attempt is a payload.
LEMMA SealedType ==
  ASSUME NEW at \in AttemptType
  PROVE  PayloadOf(at) \in Payload /\ PayloadOf(at) # None
<1>1. SealedSize(at) \in Nat
  BY BuilderAssumption DEF SealedSize, AttemptType
<1>2. PayloadOf(at) \in Payload
  BY <1>1 DEF PayloadOf, Payload, AttemptType
<1>. QED  BY <1>2, BuilderAssumption

\* Attempts that count blobs as they did, or none.
LEMMA CountedKept ==
  ASSUME AttemptsCounted, net' = net,
         \A s \in Slot : attempt'[s] # None =>
           /\ attempt[s] # None
           /\ attempt'[s].blobCount = attempt[s].blobCount
           /\ attempt'[s].skipBlobs <=> attempt[s].skipBlobs
  PROVE  AttemptsCounted'
<1>1. MaxBlobs' = MaxBlobs
  BY DEF MaxBlobs
<1>. QED  BY <1>1 DEF AttemptsCounted, BlobsCounted

\* Attempt s replaced by one that counts right, or by none.
LEMMA CountedAnew ==
  ASSUME CountInv, AttemptsCounted, net' = net, NEW s \in Slot, NEW at,
         at # None => BlobsCounted(at), attempt' = [attempt EXCEPT ![s] = at]
  PROVE  AttemptsCounted'
<1>1. MaxBlobs' = MaxBlobs
  BY DEF MaxBlobs
<1>2. attempt \in [Slot -> AttemptType \cup {None}]
  BY DEF CountInv
<1>3. \A r \in Slot : attempt'[r] = IF r = s THEN at ELSE attempt[r]
  BY <1>2
<1>. QED  BY <1>1, <1>3 DEF AttemptsCounted, BlobsCounted

LEMMA BecomesState ==
  ASSUME CountInv, JobState, NEW s \in Slot, NEW at, at # None => BlobsCounted(at), Becomes(s, at),
         errors' \subseteq {"blob store", "gas", "too large"}
  PROVE  JobState'
<1>1. AttemptsCounted'
  BY CountedAnew DEF JobState, Becomes
<1>2. Memory'
  BY DEF JobState, Becomes, Memory
<1>. QED  BY <1>1, <1>2 DEF JobState

\* Every step of the loop keeps the job's state.
LEMMA LoopState ==
  ASSUME CountInv, JobState, NEW s \in Slot, LoopStep(s)
  PROVE  JobState'
<1>. DEFINE Errors == {"blob store", "gas", "too large"}
<1>1. /\ net \in Network /\ errors \subseteq Errors
      /\ attempt[s] # None => attempt[s] \in AttemptType /\ BlobsCounted(attempt[s])
  BY DEF CountInv, JobState, AttemptsCounted, Memory
<1>2. CASE SkipForGas(s) \/ SkipForSize(s) \/ SkipForBlobs(s)
  <2>1. PICK tx \in Tx : Looks(s, tx) /\ Becomes(s, MarkInvalid(attempt[s], tx)) /\ UNCHANGED errors
    BY <1>2 DEF SkipForGas, SkipForSize, SkipForBlobs, Considers
  <2>. QED  BY <1>1, <2>1, DropBlobs, BecomesState DEF Looks
<1>3. CASE SeeCancellation(s) \/ BlobStoreFails(s) \/ Abort(s)
  <2>1. Becomes(s, None) /\ errors' \subseteq Errors
    BY <1>1, <1>3 DEF SeeCancellation, BlobStoreFails, Abort
  <2>. QED  BY <2>1, BecomesState
<1>4. CASE Execute(s)
  <2>1. PICK tx \in Tx :
          /\ Looks(s, tx)
          /\ IsBlob(tx) => FitsBlobs(attempt[s], tx)
          /\ \/ Becomes(s, None) /\ errors' = errors \cup {"gas"}
             \/ Becomes(s, AfterExecution(attempt[s], tx)) /\ UNCHANGED errors
    BY <1>4 DEF Execute, Considers
  <2>2. attempt[s] \in AttemptType /\ BlobsCounted(attempt[s])
    BY <1>1, <2>1 DEF Looks
  <2>3. AfterExecution(attempt[s], tx) \in
          {Drop(attempt[s], tx), Included(attempt[s], tx), MarkInvalid(attempt[s], tx)}
    BY DEF AfterExecution
  <2>4. BlobsCounted(AfterExecution(attempt[s], tx))
    BY <1>1, <2>1, <2>2, <2>3, DropBlobs, IncludedBlobs
  <2>5. errors' \subseteq Errors
    BY <1>1, <2>1
  <2>. QED  BY <2>1, <2>4, <2>5, BecomesState
<1>5. CASE Finish(s)
  <2>1. attempt[s] \in AttemptType
    BY <1>1, <1>5 DEF Finish
  <2>2. PayloadOf(attempt[s]) \in Payload /\ PayloadOf(attempt[s]) # None
    BY <2>1, SealedType
  <2>3. /\ errors' \subseteq Errors /\ UNCHANGED <<net, pool, blobStore, count>>
        /\ best' \in {best, PayloadOf(attempt[s])}
        /\ \/ UNCHANGED <<fetch, answer, cancelled>>
           \/ fetch' = "answered" /\ answer' = PayloadOf(attempt[s]) /\ cancelled' = TRUE
        /\ attempt' = [attempt EXCEPT ![s] = None]
    BY <1>1, <1>5 DEF Finish
  <2>4. AttemptsCounted'
    BY <2>3, CountedAnew DEF JobState
  <2>5. Memory'
    <3>1. CASE UNCHANGED <<fetch, answer, cancelled>>
      BY <2>2, <2>3, <3>1 DEF JobState, Memory
    <3>2. CASE fetch' = "answered" /\ answer' = PayloadOf(attempt[s]) /\ cancelled' = TRUE
      BY <2>2, <2>3, <3>2 DEF JobState, Memory
    <3>. QED  BY <2>3, <3>1, <3>2
  <2>. QED  BY <2>4, <2>5 DEF JobState
<1>. QED  BY <1>2, <1>3, <1>4, <1>5 DEF LoopStep

LEMMA StateStep ==
  ASSUME CountInv, JobState, [Next]_vars
  PROVE  JobState'
<1>0. net \in Network /\ attempt \in [Slot -> AttemptType \cup {None}]
  BY DEF CountInv
<1>1. CASE \E s \in Slot : LoopStep(s)
  BY <1>1, LoopState
<1>2. CASE Attempt
  <2>1. AttemptsCounted'
    BY <1>0, <1>2, NewAttemptBlobs, CountedAnew DEF Attempt, JobState, Slot
  <2>2. count' \in 0..MaxAttempts
    <3>1. count \in 0..MaxAttempts /\ count < MaxAttempts /\ count' = count + 1
      BY <1>2 DEF Attempt, JobState, Memory
    <3>2. MaxAttempts \in Nat
      BY BuilderAssumption
    <3>. QED  BY <3>1, <3>2
  <2>3. Memory'
    BY <1>2, <2>2 DEF Attempt, JobState, Memory
  <2>. QED  BY <2>1, <2>3 DEF JobState
<1>3. CASE Fetch
  <2>1. CASE attempt' = attempt
    <3>1. AttemptsCounted'
      BY <1>3, <2>1, CountedKept DEF Fetch, JobState
    <3>2. Memory'
      BY <1>3 DEF Fetch, JobState, Memory
    <3>. QED  BY <3>1, <3>2 DEF JobState
  <2>2. CASE attempt' = [attempt EXCEPT !["race"] = NewAttempt]
    <3>1. AttemptsCounted'
      BY <1>0, <1>3, <2>2, NewAttemptBlobs, CountedAnew DEF Fetch, JobState, Slot
    <3>2. Memory'
      BY <1>3 DEF Fetch, JobState, Memory
    <3>. QED  BY <3>1, <3>2 DEF JobState
  <2>. QED  BY <1>3, <2>1, <2>2 DEF Fetch
<1>4. CASE FetchFails \/ Cancel \/ LoseSidecar \/ UNCHANGED vars
  <2>1. UNCHANGED <<net, attempt>>
    BY <1>4 DEF FetchFails, Cancel, LoseSidecar, vars
  <2>2. AttemptsCounted'
    BY <2>1, CountedKept DEF JobState
  <2>3. Memory'
    BY <1>4 DEF FetchFails, Cancel, LoseSidecar, vars, JobState, Memory
  <2>. QED  BY <2>2, <2>3 DEF JobState
<1>5. CASE Arrive
  <2>1. \A r \in Slot : attempt'[r] # None =>
          /\ attempt[r] # None
          /\ attempt'[r].blobCount = attempt[r].blobCount
          /\ attempt'[r].skipBlobs <=> attempt[r].skipBlobs
    BY <1>0, <1>5 DEF Arrive, AttemptType
  <2>2. AttemptsCounted'
    BY <1>5, <2>1, CountedKept DEF Arrive, JobState
  <2>3. UNCHANGED <<net, blobStore, best, cancelled, fetch, answer, errors, count>>
    BY <1>5 DEF Arrive
  <2>4. Memory'
    BY <2>3 DEF JobState, Memory
  <2>. QED  BY <2>2, <2>4 DEF JobState
<1>. QED  BY <1>1, <1>2, <1>3, <1>4, <1>5 DEF Next

LEMMA StateInit == Init => JobState
<1>1. Init => AttemptsCounted
  BY DEF Init, AttemptsCounted
<1>2. 0 \in 0..MaxAttempts
  BY BuilderAssumption
<1>3. Init => Memory
  BY <1>2 DEF Init, Memory
<1>. QED  BY <1>1, <1>3 DEF JobState

(***************************************************************************)
(* The job's state keeps its types, for any pool and any limits: a fetch   *)
(* has a payload exactly when it was answered, which ends the job, and an  *)
(* attempt stops taking blobs exactly at the user's limit.                 *)
(***************************************************************************)
THEOREM TypeCorrect == Spec => []TypeOK
<1>1. Init => JobState
  BY StateInit
<1>2. CountInv /\ JobState /\ [Next]_vars => JobState'
  BY StateStep
<1>3. CountInv /\ JobState => TypeOK
  BY DEF CountInv, JobState, AttemptsCounted, Memory, BlobsCounted, TypeOK
<1>. QED  BY <1>1, <1>2, <1>3, CountInit, CountStep, PTL DEF Spec

(***************************************************************************)
(* The job's attempt takes no further transaction once the job is          *)
(* cancelled, whichever step of the loop or of a raced attempt comes next: *)
(* the flag is read after the gas check, but before anything is executed.  *)
(***************************************************************************)
THEOREM CancellationStops == Spec => CancelStops
<1>. DEFINE Stops ==
       cancelled /\ attempt["main"] # None /\ attempt'["main"] # None =>
         attempt'["main"].txs = attempt["main"].txs
<1>1. CountInv /\ [Next]_vars => Stops
  <2>. SUFFICES ASSUME CountInv, [Next]_vars, cancelled,
                       attempt["main"] # None, attempt'["main"] # None
                PROVE  attempt'["main"].txs = attempt["main"].txs
    OBVIOUS
  <2>1. /\ attempt \in [Slot -> AttemptType \cup {None}]
        /\ "main" \in Slot /\ attempt["main"] \in AttemptType
    BY DEF CountInv, Slot
  <2>2. \A tx : MarkInvalid(attempt["main"], tx).txs = attempt["main"].txs
    BY <2>1 DEF MarkInvalid, Drop, AttemptType
  <2>3. ASSUME NEW s \in Slot, LoopStep(s)
        PROVE  attempt'["main"].txs = attempt["main"].txs
    <3>1. CASE s # "main"
      BY <2>1, <2>3, <3>1 DEF LoopStep, SkipForGas, SeeCancellation, SkipForSize, SkipForBlobs,
         BlobStoreFails, Execute, Abort, Finish, Becomes
    <3>2. CASE s = "main"
      <4>1. attempt'["main"] = None \/ \E tx : attempt'["main"] = MarkInvalid(attempt["main"], tx)
        BY <2>1, <2>3, <3>2 DEF LoopStep, SkipForGas, SeeCancellation, SkipForSize, SkipForBlobs,
           BlobStoreFails, Execute, Considers, Abort, Finish, Becomes
      <4>. QED  BY <2>2, <4>1
    <3>. QED  BY <3>1, <3>2
  <2>4. CASE Attempt \/ Fetch \/ FetchFails \/ Cancel \/ LoseSidecar \/ UNCHANGED vars
    <3>1. attempt'["main"] = attempt["main"]
      BY <2>1, <2>4 DEF Attempt, Fetch, FetchFails, Cancel, LoseSidecar, vars
    <3>. QED  BY <3>1
  <2>5. CASE Arrive
    BY <2>1, <2>5 DEF Arrive, AttemptType
  <2>. QED  BY <2>3, <2>4, <2>5 DEF Next
<1>2. CountInv /\ [Next]_vars => [Stops]_vars
  BY <1>1
<1>. QED  BY <1>2, CountInit, CountStep, PTL DEF Spec, CancelStops

-----------------------------------------------------------------------------
(* What an attempt has gathered *)

\* How Total and BlobTxs go on from one transaction to the next.
TotalSteps(w, txs) == [i \in 1..Len(txs) |-> [x \in Nat |-> x + w[txs[i]]]]

BlobSteps(txs) ==
  [i \in 1..Len(txs) |-> [x \in Seq(Tx) |-> IF IsBlob(txs[i]) THEN Append(x, txs[i]) ELSE x]]

LEMMA TotalIs ==
  ASSUME NEW w \in [Tx -> Nat], NEW txs \in Seq(Tx)
  PROVE  \E f :
           /\ Solves(f, Len(txs), Nat, 0, TotalSteps(w, txs))
           /\ Total(w, txs) = f[Len(txs)]
<1>. DEFINE n == Len(txs)
            step == TotalSteps(w, txs)
            Sums(f) == f = [i \in 0..n |-> IF i = 0 THEN 0 ELSE f[i - 1] + w[txs[i]]]
<1>1. n \in Nat /\ \A i \in 1..n : txs[i] \in Tx /\ w[txs[i]] \in Nat
  OBVIOUS
<1>2. step \in [1..n -> [Nat -> Nat]]
  BY <1>1 DEF TotalSteps
<1>3. \A i \in 1..n : \A x \in Nat : step[i][x] = x + w[txs[i]]
  BY DEF TotalSteps
<1>4. ASSUME NEW f, Sums(f)
      PROVE  Follows(f, n, Nat, 0, step)
  <2>1. f[0] = 0 /\ \A i \in 1..n : f[i] = f[i - 1] + w[txs[i]]
    BY <1>1, <1>4
  <2>. HIDE DEF Sums, step
  <2>. QED  BY <1>3, <2>1 DEF Follows
<1>5. PICK f : Solves(f, n, Nat, 0, step)
  <2>. HIDE DEF n, step, Sums
  <2>. QED  BY <1>1, <1>2, RecursionExists
<1>6. Sums(f)
  <2>1. f[0] = 0 /\ \A i \in 1..n : f[i] = f[i - 1] + w[txs[i]]
    <3>1. \A i \in 1..n : f[i - 1] \in Nat
      <4>. HIDE DEF n, step, Sums
      <4>. QED  BY <1>1, <1>5 DEF Solves
    <3>. HIDE DEF step
    <3>. QED  BY <1>3, <1>5, <3>1 DEF Follows, Solves
  <2>. QED  BY <1>1, <1>5, <2>1 DEF Solves
<1>7. PICK g : Sums(g) /\ Total(w, txs) = g[n]
  BY <1>6, Zenon DEF Total
<1>8. Follows(g, n, Nat, 0, step)
  BY <1>4, <1>7
<1>. HIDE DEF n, step, Sums
<1>9. n \in 0..n /\ \A i \in 0..n : f[i] = g[i]
  BY <1>1, <1>5, <1>8, RecursionUnique
<1>. QED  BY <1>5, <1>7, <1>9 DEF n, step

\* A total of natural numbers is one, and grows by what is appended.
LEMMA TotalAppend ==
  ASSUME NEW w \in [Tx -> Nat], NEW txs \in Seq(Tx), NEW tx \in Tx
  PROVE  /\ Total(w, txs) \in Nat
         /\ Total(w, Append(txs, tx)) = Total(w, txs) + w[tx]
<1>. DEFINE n     == Len(txs)
            more  == Append(txs, tx)
            step  == TotalSteps(w, txs)
            after == TotalSteps(w, more)
<1>1. n \in Nat /\ more \in Seq(Tx) /\ Len(more) = n + 1
  OBVIOUS
<1>2. \A i \in 1..n : after[i] = step[i]
  BY <1>1 DEF TotalSteps
<1>3. \A x \in Nat : after[Len(more)][x] = x + w[tx]
  BY <1>1 DEF TotalSteps
<1>4. PICK f : Solves(f, n, Nat, 0, step) /\ Total(w, txs) = f[n]
  BY TotalIs
<1>5. PICK g :
        Solves(g, Len(more), Nat, 0, after) /\ Total(w, more) = g[Len(more)]
  <2>. HIDE DEF more
  <2>. QED  BY <1>1, TotalIs
<1>. HIDE DEF n, more, step, after
<1>6. Follows(g, n, Nat, 0, step)
  <2>1. /\ g[0] = 0
        /\ \A i \in 1..Len(more) : g[i - 1] \in Nat => g[i] = after[i][g[i - 1]]
    BY <1>5 DEF Follows, Solves
  <2>2. \A i \in 1..n : i \in 1..Len(more)
    BY <1>1
  <2>3. \A i \in 1..n : g[i - 1] \in Nat => g[i] = step[i][g[i - 1]]
    BY <1>2, <2>1, <2>2
  <2>. QED  BY <2>1, <2>3 DEF Follows
<1>7. f[n] = g[n] /\ f[n] \in Nat
  <2>1. n \in Nat
    BY <1>1
  <2>2. 0 \in Nat /\ Solves(f, n, Nat, 0, step)
    BY <1>1, <1>4
  <2>3. \A i \in 0..n : f[i] = g[i]
    BY <1>6, <2>1, <2>2, RecursionUnique
  <2>. QED  BY <2>1, <2>2, <2>3 DEF Solves
<1>8. g[Len(more)] = after[Len(more)][f[n]]
  BY <1>1, <1>5, <1>7 DEF Follows, Solves
<1>. QED  BY <1>3, <1>4, <1>5, <1>7, <1>8 DEF more

LEMMA TotalEmpty ==
  ASSUME NEW w \in [Tx -> Nat]
  PROVE  Total(w, <<>>) = 0
<1>1. <<>> \in Seq(Tx) /\ Len(<<>>) = 0
  OBVIOUS
<1>. QED  BY <1>1, TotalIs DEF Follows, Solves

LEMMA BlobTxsIs ==
  ASSUME NEW txs \in Seq(Tx)
  PROVE  \E f :
           /\ Solves(f, Len(txs), Seq(Tx), <<>>, BlobSteps(txs))
           /\ BlobTxs(txs) = f[Len(txs)]
<1>. DEFINE n == Len(txs)
            step == BlobSteps(txs)
            with(x, i) == IF IsBlob(txs[i]) THEN Append(x, txs[i]) ELSE x
            Selects(f) == f = [i \in 0..n |->
              IF i = 0 THEN <<>>
              ELSE IF IsBlob(txs[i]) THEN Append(f[i - 1], txs[i]) ELSE f[i - 1]]
<1>1. n \in Nat /\ (\A i \in 1..n : txs[i] \in Tx) /\ <<>> \in Seq(Tx)
  OBVIOUS
<1>2. step \in [1..n -> [Seq(Tx) -> Seq(Tx)]]
  BY <1>1 DEF BlobSteps
<1>3. \A i \in 1..n : \A x \in Seq(Tx) : step[i][x] = with(x, i)
  BY DEF BlobSteps
<1>4. ASSUME NEW f, Selects(f)
      PROVE  Follows(f, n, Seq(Tx), <<>>, step)
  <2>1. f[0] = <<>>
    BY <1>1, <1>4
  <2>2. ASSUME NEW i \in 1..n
        PROVE  f[i] = with(f[i - 1], i)
    <3>1. i \in 0..n /\ i # 0
      BY <1>1
    <3>. QED  BY <1>4, <3>1, Zenon
  <2>. HIDE DEF Selects, step, with
  <2>. QED  BY <1>3, <2>1, <2>2 DEF Follows
<1>5. PICK f : Solves(f, n, Seq(Tx), <<>>, step)
  <2>. HIDE DEF n, step, Selects, with
  <2>. QED  BY <1>1, <1>2, RecursionExists
<1>6. Selects(f)
  <2>1. f[0] = <<>> /\ \A i \in 1..n : f[i] = with(f[i - 1], i)
    <3>1. \A i \in 1..n : f[i - 1] \in Seq(Tx)
      BY <1>1, <1>5 DEF Solves
    <3>. HIDE DEF step, with
    <3>. QED  BY <1>3, <1>5, <3>1 DEF Follows, Solves
  <2>2. ASSUME NEW i \in 0..n
        PROVE  f[i] = IF i = 0 THEN <<>> ELSE with(f[i - 1], i)
    <3>1. i # 0 => i \in 1..n
      OBVIOUS
    <3>. HIDE DEF with
    <3>. QED  BY <2>1, <3>1
  <2>3. f = [i \in 0..n |-> f[i]]
    BY <1>5 DEF Solves
  <2>4. [i \in 0..n |-> f[i]] = [i \in 0..n |-> IF i = 0 THEN <<>> ELSE with(f[i - 1], i)]
    <3>. HIDE DEF with
    <3>. QED  BY <2>2, Zenon
  <2>. QED  BY <2>3, <2>4, Zenon
<1>7. PICK g : Selects(g) /\ BlobTxs(txs) = g[n]
  BY <1>6, Zenon DEF BlobTxs
<1>8. Follows(g, n, Seq(Tx), <<>>, step)
  BY <1>4, <1>7
<1>. HIDE DEF n, step, Selects
<1>9. n \in 0..n /\ \A i \in 0..n : f[i] = g[i]
  BY <1>1, <1>5, <1>8, RecursionUnique
<1>. QED  BY <1>5, <1>7, <1>9 DEF n, step

\* The blob transactions of a list are transactions, and grow with it.
LEMMA BlobTxsAppend ==
  ASSUME NEW txs \in Seq(Tx), NEW tx \in Tx
  PROVE  /\ BlobTxs(txs) \in Seq(Tx)
         /\ BlobTxs(Append(txs, tx)) =
              IF IsBlob(tx) THEN Append(BlobTxs(txs), tx) ELSE BlobTxs(txs)
<1>. DEFINE n     == Len(txs)
            more  == Append(txs, tx)
            step  == BlobSteps(txs)
            after == BlobSteps(more)
<1>1. n \in Nat /\ more \in Seq(Tx) /\ Len(more) = n + 1 /\ <<>> \in Seq(Tx)
  OBVIOUS
<1>2. \A i \in 1..n : after[i] = step[i]
  BY <1>1 DEF BlobSteps
<1>3. \A x \in Seq(Tx) : after[Len(more)][x] = IF IsBlob(tx) THEN Append(x, tx) ELSE x
  BY <1>1 DEF BlobSteps
<1>4. PICK f :
        Solves(f, n, Seq(Tx), <<>>, step) /\ BlobTxs(txs) = f[n]
  BY BlobTxsIs
<1>5. PICK g :
        Solves(g, Len(more), Seq(Tx), <<>>, after) /\ BlobTxs(more) = g[Len(more)]
  <2>. HIDE DEF more
  <2>. QED  BY <1>1, BlobTxsIs
<1>. HIDE DEF n, more, step, after
<1>6. Follows(g, n, Seq(Tx), <<>>, step)
  <2>1. /\ g[0] = <<>>
        /\ \A i \in 1..Len(more) : g[i - 1] \in Seq(Tx) => g[i] = after[i][g[i - 1]]
    BY <1>5 DEF Follows, Solves
  <2>2. \A i \in 1..n : i \in 1..Len(more)
    BY <1>1
  <2>3. \A i \in 1..n : g[i - 1] \in Seq(Tx) => g[i] = step[i][g[i - 1]]
    BY <1>2, <2>1, <2>2
  <2>. QED  BY <2>1, <2>3 DEF Follows
<1>7. f[n] = g[n] /\ f[n] \in Seq(Tx)
  <2>1. n \in Nat
    BY <1>1
  <2>2. <<>> \in Seq(Tx) /\ Solves(f, n, Seq(Tx), <<>>, step)
    BY <1>1, <1>4
  <2>3. \A i \in 0..n : f[i] = g[i]
    BY <1>6, <2>1, <2>2, RecursionUnique
  <2>. QED  BY <2>1, <2>2, <2>3 DEF Solves
<1>8. g[Len(more)] = after[Len(more)][f[n]]
  BY <1>1, <1>5, <1>7 DEF Follows, Solves
<1>. QED  BY <1>3, <1>4, <1>5, <1>7, <1>8 DEF more

LEMMA BlobTxsEmpty == BlobTxs(<<>>) = <<>>
<1>1. <<>> \in Seq(Tx) /\ Len(<<>>) = 0
  OBVIOUS
<1>. QED  BY <1>1, BlobTxsIs DEF Follows, Solves

-----------------------------------------------------------------------------
(* The transactions an attempt has dealt with *)

\* What taking, dropping or marking the offered transaction makes of at.
Advances(at, tx, post) ==
  \/ /\ post = MarkInvalid(at, tx)
     /\ Fits(at, tx) => /\ Info[tx].nonce >= NextNonce(at, Info[tx].sender)
                        /\ Info[tx].valid => Info[tx].nonce # NextNonce(at, Info[tx].sender)
  \/ post = Drop(at, tx) /\ Info[tx].nonce < NextNonce(at, Info[tx].sender)
  \/ /\ post = Included(at, tx) /\ Fits(at, tx)
     /\ Info[tx].valid /\ Info[tx].nonce = NextNonce(at, Info[tx].sender)

\* The counts of an attempt are those of what it has taken.
Tallied(at) ==
  /\ at.fees = FeesOf(at.txs) /\ at.blobCount = BlobsOf(at.txs)
  /\ at.sidecars = BlobTxs(at.txs)
  /\ \A i \in DOMAIN at.sidecars : Info[at.sidecars[i]].sidecar = "eip4844"
  /\ net.prague3 => at.txs = <<>>

\* What a payload records is right.
Recorded(p) ==
  /\ p.fees = FeesOf(p.txs) /\ p.sidecars = BlobTxs(p.txs)
  /\ \A i \in DOMAIN p.sidecars : Info[p.sidecars[i]].sidecar = "eip4844"
  /\ BlobsOf(p.txs) <= ProtocolMaxBlobs
  /\ net.prague3 => p.txs = <<>>

GatherInv ==
  /\ \A s \in Slot : attempt[s] # None => Tallied(attempt[s])
  /\ \A p \in Payloads : Recorded(p)

\* A transaction that is neither left nor taken, and that at has no use for.
Refused(at, u) ==
  /\ u \in pool \ at.left /\ \A i \in DOMAIN at.txs : at.txs[i] # u
  /\ Info[u].nonce <= NextNonce(at, Info[u].sender)
  /\ Fits(at, u) => ~Info[u].valid /\ Info[u].nonce = NextNonce(at, Info[u].sender)

(***************************************************************************)
(* What the pool offered is behind its sender's nonce, unless the sender   *)
(* is blocked, and a blocked sender has a transaction that was refused.    *)
(***************************************************************************)
Settled(at) ==
  /\ at.left \subseteq pool
  /\ \A i \in DOMAIN at.txs : at.txs[i] \in pool \ at.left
  /\ \A tx \in pool \ at.left :
       Info[tx].nonce < NextNonce(at, Info[tx].sender) \/ Info[tx].sender \in at.blocked
  /\ \A sender \in at.blocked : \E u \in pool : Info[u].sender = sender /\ Refused(at, u)

SettledInv ==
  /\ Gapless(pool)
  /\ \A s \in Slot : attempt[s] # None => Settled(attempt[s])

\* A nonce is a natural number, and taking a transaction raises its sender's
\* and nobody else's.
TakenOf(txs, sender) == {i \in DOMAIN txs : Info[txs[i]].sender = sender}

LEMMA NextNonceType ==
  ASSUME NEW at, at.txs \in Seq(Tx), NEW sender \in Sender
  PROVE  NextNonce(at, sender) \in Nat /\ StateNonce[sender] <= NextNonce(at, sender)
<1>1. IsFiniteSet(TakenOf(at.txs, sender))
  <2>1. 1 \in Int /\ Len(at.txs) \in Int
    OBVIOUS
  <2>2. IsFiniteSet(1..Len(at.txs))
    BY <2>1, FS_Interval
  <2>3. TakenOf(at.txs, sender) \subseteq 1..Len(at.txs)
    BY DEF TakenOf
  <2>. QED  BY <2>2, <2>3, FS_Subset
<1>2. Cardinality(TakenOf(at.txs, sender)) \in Nat
  BY <1>1, FS_CardinalityType
<1>. QED  BY <1>2, BuilderAssumption DEF NextNonce, TakenOf

LEMMA NextNonceGrows ==
  ASSUME NEW at, NEW post, at.txs \in Seq(Tx), NEW tx \in Tx, NEW sender \in Sender,
         post.txs = Append(at.txs, tx)
  PROVE  NextNonce(post, sender) =
           NextNonce(at, sender) + (IF Info[tx].sender = sender THEN 1 ELSE 0)
<1>. DEFINE n == Len(at.txs)
            a == TakenOf(at.txs, sender)
            b == TakenOf(post.txs, sender)
<1>1. /\ n \in Nat /\ DOMAIN at.txs = 1..n /\ DOMAIN post.txs = 1..(n + 1)
      /\ post.txs[n + 1] = tx /\ \A i \in 1..n : post.txs[i] = at.txs[i]
  OBVIOUS
<1>2. IsFiniteSet(a) /\ n + 1 \notin a
  <2>1. a \subseteq 1..n /\ 1 \in Int /\ n \in Int /\ n + 1 \notin 1..n
    BY <1>1 DEF TakenOf
  <2>. HIDE DEF a, n
  <2>2. IsFiniteSet(1..n)
    BY <2>1, FS_Interval
  <2>. QED  BY <2>1, <2>2, FS_Subset
<1>3. b = IF Info[tx].sender = sender THEN a \cup {n + 1} ELSE a
  BY <1>1 DEF TakenOf
<1>4. Cardinality(a) \in Nat /\ Cardinality(a \cup {n + 1}) = Cardinality(a) + 1
  BY <1>2, FS_CardinalityType, FS_AddElement
<1>5. StateNonce[sender] \in Nat
  BY BuilderAssumption
<1>6. NextNonce(at, sender) = StateNonce[sender] + Cardinality(a)
  BY DEF NextNonce, TakenOf
<1>7. NextNonce(post, sender) = StateNonce[sender] + Cardinality(b)
  BY DEF NextNonce, TakenOf
<1>. HIDE DEF a, b, n
<1>8. CASE Info[tx].sender = sender
  <2>1. Cardinality(b) = Cardinality(a) + 1
    BY <1>3, <1>4, <1>8
  <2>. QED  BY ONLY <1>4, <1>5, <1>6, <1>7, <1>8, <2>1
<1>9. CASE Info[tx].sender # sender
  <2>1. Cardinality(b) = Cardinality(a)
    BY <1>3, <1>9
  <2>. QED  BY ONLY <1>4, <1>5, <1>6, <1>7, <1>9, <2>1
<1>. QED  BY <1>8, <1>9

\* Each attempt is new, or is the one it was, with what the pool has received,
\* or has dealt with a transaction it was offered.
LEMMA AttemptStep ==
  ASSUME CountInv, Next, NEW s \in Slot, attempt'[s] # None
  PROVE  LET at == attempt[s] IN
         \/ attempt'[s] = NewAttempt /\ pool' = pool
         \/ at # None /\ attempt'[s] = at /\ pool' = pool
         \/ /\ at # None
            /\ \E tx \in Tx \ pool :
                 pool' = pool \cup {tx} /\ attempt'[s] = [at EXCEPT !.left = @ \cup {tx}]
         \/ /\ at # None /\ ~net.prague3
            /\ UNCHANGED <<pool, blobStore>>
            /\ \E tx \in Offered(at) : Advances(at, tx, attempt'[s])
<1>0. attempt \in [Slot -> AttemptType \cup {None}] /\ net \in Network
  BY DEF CountInv
<1>1. ASSUME NEW r \in Slot, LoopStep(r)
      PROVE  \/ attempt[s] # None /\ attempt'[s] = attempt[s] /\ pool' = pool
             \/ /\ attempt[s] # None /\ ~net.prague3
                /\ UNCHANGED <<pool, blobStore>>
                /\ \E tx \in Offered(attempt[s]) : Advances(attempt[s], tx, attempt'[s])
  <2>1. UNCHANGED <<pool, blobStore>> /\ \E at : attempt' = [attempt EXCEPT ![r] = at]
    BY <1>1 DEF LoopStep, SkipForGas, SeeCancellation, SkipForSize, SkipForBlobs,
       BlobStoreFails, Execute, Abort, Finish, Becomes
  <2>2. CASE r # s
    BY <1>0, <2>1, <2>2
  <2>3. CASE r = s
    <3>1. CASE SkipForGas(s) \/ SkipForSize(s) \/ SkipForBlobs(s)
      <4>1. PICK tx \in Tx : /\ Looks(s, tx) /\ ~Fits(attempt[s], tx)
                             /\ Becomes(s, MarkInvalid(attempt[s], tx))
        BY <3>1 DEF SkipForGas, SkipForSize, SkipForBlobs, Considers, Fits
      <4>2. /\ attempt[s] # None /\ ~net.prague3 /\ tx \in Offered(attempt[s])
            /\ attempt'[s] = MarkInvalid(attempt[s], tx)
        BY <1>0, <4>1 DEF Looks, Becomes
      <4>. QED  BY <2>1, <4>1, <4>2 DEF Advances
    <3>2. CASE SeeCancellation(s) \/ BlobStoreFails(s) \/ Abort(s) \/ Finish(s)
      <4>1. attempt'[s] = None
        BY <1>0, <3>2 DEF SeeCancellation, BlobStoreFails, Abort, Finish, Becomes
      <4>. QED  BY <4>1
    <3>3. CASE Execute(s)
      <4>1. PICK tx \in Tx :
              /\ Looks(s, tx) /\ Fits(attempt[s], tx)
              /\ \/ Becomes(s, None)
                 \/ Becomes(s, AfterExecution(attempt[s], tx))
        BY <3>3 DEF Execute, Considers, Fits
      <4>2. /\ attempt[s] \in AttemptType /\ attempt[s] # None /\ ~net.prague3
            /\ tx \in Offered(attempt[s])
            /\ attempt'[s] = AfterExecution(attempt[s], tx)
        BY <1>0, <4>1 DEF Looks, Becomes
      <4>3. Advances(attempt[s], tx, AfterExecution(attempt[s], tx))
        <5>. DEFINE next  == NextNonce(attempt[s], Info[tx].sender)
                    nonce == Info[tx].nonce
        <5>1. nonce \in Nat /\ next \in Nat
          BY <4>2, NextNonceType, InfoType DEF AttemptType
        <5>. HIDE DEF next, nonce
        <5>2. nonce < next \/ nonce >= next
          BY <5>1
        <5>. QED  BY <4>1, <5>1, <5>2 DEF AfterExecution, Advances, next, nonce
      <4>. QED  BY <2>1, <4>2, <4>3
    <3>. QED  BY <1>1, <2>3, <3>1, <3>2, <3>3 DEF LoopStep
  <2>. QED  BY <2>2, <2>3
<1>2. CASE Attempt \/ Fetch
  BY <1>0, <1>2 DEF Attempt, Fetch
<1>3. CASE FetchFails \/ Cancel \/ LoseSidecar
  BY <1>3 DEF FetchFails, Cancel, LoseSidecar
<1>4. CASE Arrive
  BY <1>0, <1>4 DEF Arrive
<1>. QED  BY <1>1, <1>2, <1>3, <1>4 DEF Next

-----------------------------------------------------------------------------
(* The payload's record *)

\* What a list of transactions pays and carries, and what one more adds.
LEMMA RecordEmpty ==
  FeesOf(<<>>) = 0 /\ BlobsOf(<<>>) = 0 /\ BlobTxs(<<>>) = <<>>
<1>. DEFINE fees == [tx \in Tx |-> Info[tx].tip * Info[tx].gasUsed]
            blobs == [tx \in Tx |-> Info[tx].blobs]
<1>1. \A tx \in Tx : Info[tx].tip * Info[tx].gasUsed \in Nat /\ Info[tx].blobs \in Nat
  BY InfoType
<1>2. fees \in [Tx -> Nat] /\ blobs \in [Tx -> Nat]
  BY <1>1
<1>3. FeesOf(<<>>) = Total(fees, <<>>) /\ BlobsOf(<<>>) = Total(blobs, <<>>)
  BY DEF FeesOf, BlobsOf
<1>. HIDE DEF fees, blobs
<1>. QED  BY <1>2, <1>3, TotalEmpty, BlobTxsEmpty

LEMMA RecordAppend ==
  ASSUME NEW txs \in Seq(Tx), NEW tx \in Tx
  PROVE  /\ FeesOf(Append(txs, tx)) = FeesOf(txs) + Info[tx].tip * Info[tx].gasUsed
         /\ BlobsOf(Append(txs, tx)) = BlobsOf(txs) + Info[tx].blobs
<1>. DEFINE fees == [t \in Tx |-> Info[t].tip * Info[t].gasUsed]
            blobs == [t \in Tx |-> Info[t].blobs]
<1>1. \A t \in Tx : Info[t].tip * Info[t].gasUsed \in Nat /\ Info[t].blobs \in Nat
  BY InfoType
<1>2. /\ fees \in [Tx -> Nat] /\ blobs \in [Tx -> Nat]
      /\ fees[tx] = Info[tx].tip * Info[tx].gasUsed /\ blobs[tx] = Info[tx].blobs
  BY <1>1
<1>3. \A list : FeesOf(list) = Total(fees, list) /\ BlobsOf(list) = Total(blobs, list)
  BY DEF FeesOf, BlobsOf
<1>. HIDE DEF fees, blobs
<1>4. Total(fees, Append(txs, tx)) = Total(fees, txs) + fees[tx]
  BY <1>2, TotalAppend
<1>5. Total(blobs, Append(txs, tx)) = Total(blobs, txs) + blobs[tx]
  BY <1>2, TotalAppend
<1>6. FeesOf(Append(txs, tx)) = FeesOf(txs) + Info[tx].tip * Info[tx].gasUsed
  BY <1>2, <1>3, <1>4, Zenon
<1>7. BlobsOf(Append(txs, tx)) = BlobsOf(txs) + Info[tx].blobs
  BY <1>2, <1>3, <1>5, Zenon
<1>. QED  BY <1>6, <1>7

\* An attempt keeps the record of what it takes.
LEMMA TalliedStep ==
  ASSUME CountInv, GatherInv, Next, NEW s \in Slot, attempt'[s] # None
  PROVE  Tallied(attempt'[s])
<1>. DEFINE at   == attempt[s]
            post == attempt'[s]
            same == /\ post.txs = at.txs /\ post.fees = at.fees
                    /\ post.blobCount = at.blobCount /\ post.sidecars = at.sidecars
<1>1. at # None => Tallied(at) /\ at \in AttemptType
  BY DEF GatherInv, CountInv
<1>2. CASE post = NewAttempt
  <2>1. /\ post.txs = <<>> /\ post.fees = 0 /\ post.blobCount = 0 /\ post.sidecars = <<>>
    BY <1>2 DEF NewAttempt
  <2>. HIDE DEF post
  <2>. QED  BY <2>1, RecordEmpty DEF Tallied, post
<1>3. CASE at # None /\ same
  BY <1>1, <1>3 DEF Tallied
<1>4. ASSUME at # None, NEW tx \in Tx, ~net.prague3, post = Included(at, tx), Fits(at, tx)
      PROVE  Tallied(post)
  <2>1. /\ at.txs \in Seq(Tx) /\ at.sidecars \in Seq(Tx) /\ Tallied(at)
    BY <1>1, <1>4 DEF AttemptType
  <2>2. /\ post.txs = Append(at.txs, tx)
        /\ post.fees = at.fees + Info[tx].tip * Info[tx].gasUsed
        /\ post.blobCount = at.blobCount + Info[tx].blobs
        /\ post.sidecars = IF IsBlob(tx) THEN Append(at.sidecars, tx) ELSE at.sidecars
    BY <1>4 DEF Included
  <2>. HIDE DEF at, post
  <2>3. post.fees = FeesOf(post.txs)
    BY <2>1, <2>2, RecordAppend DEF Tallied
  <2>4. post.blobCount = BlobsOf(post.txs)
    BY <2>1, <2>2, RecordAppend DEF Tallied
  <2>5. post.sidecars = BlobTxs(post.txs)
    BY <2>1, <2>2, BlobTxsAppend DEF Tallied
  <2>6. \A i \in DOMAIN post.sidecars : Info[post.sidecars[i]].sidecar = "eip4844"
    <3>1. IsBlob(tx) => Info[tx].sidecar = "eip4844"
      BY <1>4 DEF Fits, HasSidecar
    <3>2. \A i \in DOMAIN at.sidecars : Info[at.sidecars[i]].sidecar = "eip4844"
      BY <2>1 DEF Tallied
    <3>3. CASE IsBlob(tx)
      <4>1. post.sidecars = Append(at.sidecars, tx)
        BY <2>2, <3>3
      <4>2. \A i \in DOMAIN post.sidecars :
              post.sidecars[i] = tx \/ (i \in DOMAIN at.sidecars /\ post.sidecars[i] = at.sidecars[i])
        BY <2>1, <4>1
      <4>. QED  BY <3>1, <3>2, <3>3, <4>2
    <3>. QED  BY <2>2, <3>2, <3>3
  <2>. QED  BY <1>4, <2>3, <2>4, <2>5, <2>6 DEF Tallied, post
<1>5. ASSUME at # None, NEW tx \in Tx, post \in {MarkInvalid(at, tx), Drop(at, tx)}
      PROVE  same
  BY <1>1, <1>5 DEF MarkInvalid, Drop, AttemptType
<1>6. ASSUME at # None, NEW tx, post = [at EXCEPT !.left = @ \cup {tx}]
      PROVE  same
  BY <1>1, <1>6 DEF AttemptType
<1>7. \A tx \in Offered(at) : at # None => tx \in Tx
  BY <1>1 DEF Offered, AttemptType
<1>. HIDE DEF at, post, same
<1>8. post = at => same
  BY DEF same
<1>. QED  BY <1>2, <1>3, <1>4, <1>5, <1>6, <1>7, <1>8, AttemptStep DEF Advances, at, post

\* A payload is one the job has, or seals an attempt that has ended.
LEMMA PayloadsStep ==
  ASSUME Next, NEW p \in Payloads'
  PROVE  p \in Payloads \/ \E s \in Slot : attempt[s] # None /\ p = PayloadOf(attempt[s])
<1>1. ASSUME NEW s \in Slot, LoopStep(s)
      PROVE  p \in Payloads \/ (attempt[s] # None /\ p = PayloadOf(attempt[s]))
  BY <1>1 DEF LoopStep, SkipForGas, SeeCancellation, SkipForSize, SkipForBlobs, BlobStoreFails,
     Execute, Abort, Finish, Becomes, Payloads
<1>. QED  BY <1>1 DEF Next, Attempt, Fetch, FetchFails, Cancel, Arrive, LoseSidecar, Payloads

\* The protocol allows what the user does.
LEMMA WithinProtocol ==
  ASSUME net \in Network
  PROVE  MaxBlobs <= ProtocolMaxBlobs
  BY BuilderAssumption DEF MaxBlobs, Network

LEMMA GatherStep ==
  ASSUME CountInv, JobState, GatherInv, Next
  PROVE  GatherInv'
<1>1. net' = net /\ net \in Network
  BY DEF CountInv, Next, LoopStep, SkipForGas, SeeCancellation, SkipForSize, SkipForBlobs,
     BlobStoreFails, Execute, Abort, Finish, Becomes, Attempt, Fetch, FetchFails, Cancel,
     Arrive, LoseSidecar
<1>2. ASSUME NEW s \in Slot, attempt[s] # None
      PROVE  Recorded(PayloadOf(attempt[s]))
  <2>. DEFINE at == attempt[s]
              p  == PayloadOf(at)
  <2>1. Tallied(at) /\ at \in AttemptType /\ at.blobCount <= MaxBlobs
    BY <1>2 DEF GatherInv, CountInv, JobState, AttemptsCounted, BlobsCounted
  <2>2. at.blobCount <= ProtocolMaxBlobs
    <3>1. at.blobCount \in Nat /\ MaxBlobs \in Nat /\ ProtocolMaxBlobs \in Nat
      BY <1>1, <2>1, MaxBlobsPositive, BuilderAssumption DEF AttemptType
    <3>. HIDE DEF at
    <3>. QED  BY <1>1, <2>1, <3>1, WithinProtocol
  <2>3. p.txs = at.txs /\ p.fees = at.fees /\ p.sidecars = at.sidecars
    BY DEF PayloadOf
  <2>. HIDE DEF at, p
  <2>. QED  BY <2>1, <2>2, <2>3 DEF Tallied, Recorded, at, p
<1>3. ASSUME NEW p \in Payloads'
      PROVE  Recorded(p)'
  <2>1. Recorded(p)
    BY <1>2, PayloadsStep DEF GatherInv
  <2>. QED  BY <1>1, <2>1 DEF Recorded
<1>4. ASSUME NEW s \in Slot, attempt'[s] # None
      PROVE  Tallied(attempt[s])'
  <2>1. Tallied(attempt'[s])
    BY <1>4, TalliedStep
  <2>. QED  BY <1>1, <2>1 DEF Tallied
<1>. QED  BY <1>3, <1>4 DEF GatherInv

LEMMA GatherCorrect == Spec => [](CountInv /\ JobState /\ GatherInv)
<1>1. Init => CountInv /\ JobState /\ GatherInv
  <2>1. Init => GatherInv
    BY DEF Init, GatherInv, Payloads
  <2>. QED  BY <2>1, CountInit, StateInit
<1>2. CountInv /\ JobState /\ GatherInv /\ [Next]_vars => (CountInv /\ JobState /\ GatherInv)'
  <2>1. GatherInv /\ UNCHANGED vars => GatherInv'
    BY DEF GatherInv, vars, Tallied, Recorded, Payloads
  <2>. QED  BY <2>1, CountStep, StateStep, GatherStep
<1>. QED  BY <1>1, <1>2, PTL DEF Spec

(***************************************************************************)
(* The sidecars of every payload are those of its blob transactions, one   *)
(* for one and in their order, all of the accepted format, and its blobs   *)
(* are within the protocol's limit, whatever sidecars the pool lost while  *)
(* the payload was built.                                                  *)
(***************************************************************************)
THEOREM BlobsAlwaysAccounted == Spec => []BlobsAccounted
<1>1. GatherInv => BlobsAccounted
  BY DEF GatherInv, Recorded, BlobsAccounted
<1>. QED  BY <1>1, GatherCorrect, PTL

(***************************************************************************)
(* The job replaces its best payload only by one that pays more, whose     *)
(* fees are the tips of its transactions, and never in the Prague3 window, *)
(* where all payloads are empty.                                           *)
(***************************************************************************)
THEOREM PayloadsOnlyImprove == Spec => PayloadsImprove
<1>. DEFINE Inv  == CountInv /\ JobState /\ GatherInv
            Step == best' # best =>
                      /\ best'.fees = FeesOf(best'.txs)
                      /\ best # None => best.fees < best'.fees /\ ~net.prague3
<1>1. Inv /\ [Next]_vars => [Step]_vars
  <2>. SUFFICES ASSUME Inv, Next, best' # best
                PROVE  Step
    OBVIOUS
  <2>1. /\ attempt["main"] # None /\ best' = PayloadOf(attempt["main"])
        /\ IsBetter(best, attempt["main"].fees)
    BY DEF Next, LoopStep, SkipForGas, SeeCancellation, SkipForSize, SkipForBlobs,
       BlobStoreFails, Execute, Abort, Finish, BestKnown, Becomes, Attempt, Fetch, FetchFails,
       Cancel, Arrive, LoseSidecar
  <2>2. Tallied(attempt["main"]) /\ "main" \in Slot
    BY <2>1 DEF GatherInv, Slot
  <2>3. best'.fees = attempt["main"].fees /\ best'.txs = attempt["main"].txs
    BY <2>1 DEF PayloadOf
  <2>4. ASSUME best # None
        PROVE  best.fees < best'.fees /\ ~net.prague3
    <3>1. best \in Payload /\ best.fees \in Nat
      BY <2>4 DEF JobState, Memory, Payload
    <3>2. attempt["main"].fees > best.fees
      BY <2>1, <2>4 DEF IsBetter
    <3>3. attempt["main"].fees \in Nat
      BY <2>1, <2>2 DEF CountInv, AttemptType
    <3>4. net.prague3 => attempt["main"].fees = 0
      BY <2>2, RecordEmpty DEF Tallied
    <3>. QED  BY <2>3, <3>1, <3>2, <3>3, <3>4
  <2>. QED  BY <2>2, <2>3, <2>4 DEF Tallied
<1>. HIDE DEF Inv, Step
<1>2. Spec => []Inv
  BY GatherCorrect DEF Inv
<1>3. Spec => [][Step]_vars
  BY <1>1, <1>2, PTL DEF Spec
<1>. QED  BY <1>3 DEF PayloadsImprove, Step

-----------------------------------------------------------------------------
(* The order of the pool *)

\* Below a nonce the pool holds, down to its sender's, it holds every nonce.
LEMMA GaplessBelow ==
  ASSUME NEW txs \in SUBSET Tx, Gapless(txs), NEW u \in txs, NEW m \in Nat,
         StateNonce[Info[u].sender] <= m, m <= Info[u].nonce
  PROVE  \E v \in txs : Info[v].sender = Info[u].sender /\ Info[v].nonce = m
<1>. DEFINE top == Info[u].nonce
            n   == top - m
            at(v, d) == Info[v].sender = Info[u].sender /\ Info[v].nonce = top - d
            S   == {d \in 0..n : \E v \in txs : at(v, d)}
<1>1. top \in Nat /\ n \in Nat /\ StateNonce[Info[u].sender] \in Nat
  BY InfoType, BuilderAssumption
<1>2. 0 \in S
  BY <1>1
<1>3. \A d \in 0..(n - 1) : d \in S => d + 1 \in S
  <2>. SUFFICES ASSUME NEW d \in 0..(n - 1), d \in S
                PROVE  \E v \in txs : at(v, d + 1)
    BY <1>1
  <2>1. PICK v \in txs : at(v, d)
    OBVIOUS
  <2>2. Info[v].nonce > StateNonce[Info[v].sender]
    BY <1>1, <2>1
  <2>3. PICK w \in txs : Info[w].sender = Info[v].sender /\ Info[w].nonce = Info[v].nonce - 1
    BY <2>2 DEF Gapless
  <2>. QED  BY <1>1, <2>1, <2>3
<1>4. n \in S
  <2>. HIDE DEF S, n
  <2>1. 0..n \subseteq S
    BY <1>1, <1>2, <1>3, IntervalInduction
  <2>. QED  BY <1>1, <2>1
<1>. QED  BY <1>1, <1>4

\* The iterator offers no nonce ahead of its sender's: the one between them
\* would have been offered before.
LEMMA OfferedInOrder ==
  ASSUME pool \in SUBSET Tx, Gapless(pool), NEW at \in AttemptType, Settled(at),
         NEW tx \in Offered(at)
  PROVE  Info[tx].nonce <= NextNonce(at, Info[tx].sender)
<1>. DEFINE sender == Info[tx].sender
            next   == NextNonce(at, sender)
<1>1. /\ tx \in at.left /\ tx \in pool /\ tx \in Tx /\ sender \notin at.blocked
      /\ \A u \in at.left : Info[u].sender = sender => Info[tx].nonce <= Info[u].nonce
  BY DEF Offered, Settled, AttemptType
<1>2. Info[tx].nonce \in Nat /\ next \in Nat /\ StateNonce[sender] \in Nat
  BY <1>1, InfoType, NextNonceType, BuilderAssumption DEF AttemptType
<1>. SUFFICES ASSUME next < Info[tx].nonce
              PROVE  FALSE
  BY <1>2
<1>3. StateNonce[sender] <= next
  BY <1>1, InfoType, NextNonceType DEF AttemptType
<1>4. PICK v \in pool : Info[v].sender = sender /\ Info[v].nonce = next
  BY <1>1, <1>2, <1>3, GaplessBelow
<1>5. v \notin at.left
  BY <1>1, <1>2, <1>4
<1>6. Info[v].nonce < next \/ sender \in at.blocked
  BY <1>4, <1>5 DEF Settled
<1>. QED  BY <1>1, <1>2, <1>4, <1>6

\* Once refused, a transaction stays so, whatever else is taken: neither the
\* room nor its sender's nonce comes back.
LEMMA RefusedStays ==
  ASSUME CountInv, JobState, NEW at \in AttemptType, NEW tx \in at.left, NEW u \in Tx,
         Info[u].sender # Info[tx].sender, Refused(at, u)
  PROVE  Refused(Included(at, tx), u)
<1>. DEFINE post == Included(at, tx)
<1>1. /\ post.left = at.left \ {tx} /\ post.txs = Append(at.txs, tx)
      /\ post.gas = at.gas + Info[tx].gasUsed /\ post.size = at.size + Info[tx].size
      /\ post.blobCount = at.blobCount + Info[tx].blobs
  BY DEF Included
<1>2. /\ tx \in Tx /\ at.txs \in Seq(Tx)
      /\ at.gas \in Nat /\ at.size \in Nat /\ at.blobCount \in Nat
  BY DEF AttemptType
<1>3. net \in Network /\ MaxBlobs \in Nat
  BY MaxBlobsPositive DEF CountInv
<1>. HIDE DEF post
<1>4. Fits(post, u) => Fits(at, u)
  <2>1. /\ Info[tx].gasUsed \in Nat /\ Info[tx].size \in Nat /\ Info[tx].blobs \in Nat
        /\ Info[u].gasLimit \in Nat /\ Info[u].size \in Nat /\ Info[u].blobs \in Nat
        /\ at.gas \in Nat /\ at.size \in Nat /\ at.blobCount \in Nat
    BY <1>2, InfoType
  <2>2. /\ post.gas = at.gas + Info[tx].gasUsed
        /\ post.size = at.size + Info[tx].size
        /\ post.blobCount = at.blobCount + Info[tx].blobs
    BY <1>1
  <2>3. FitsGas(post, u) => FitsGas(at, u)
    <3>1. BlockGasLimit \in Nat
      BY BuilderAssumption
    <3>. QED  BY ONLY <2>1, <2>2, <3>1 DEF FitsGas
  <2>4. FitsSize(post, u) => FitsSize(at, u)
    <3>1. WithdrawalsSize \in Nat /\ SizeSlack \in Nat /\ MaxRlpBlockSize \in Nat
      BY BuilderAssumption
    <3>2. EstimatedSize(at, u) <= EstimatedSize(post, u)
      BY ONLY <2>1, <2>2, <3>1 DEF EstimatedSize
    <3>3. EstimatedSize(at, u) \in Int /\ EstimatedSize(post, u) \in Int
      BY ONLY <2>1, <2>2, <3>1 DEF EstimatedSize
    <3>. QED  BY ONLY <3>1, <3>2, <3>3 DEF FitsSize
  <2>5. FitsBlobs(post, u) => FitsBlobs(at, u)
    BY ONLY <1>3, <2>1, <2>2 DEF FitsBlobs
  <2>. QED  BY <2>3, <2>4, <2>5 DEF Fits
<1>5. NextNonce(post, Info[u].sender) = NextNonce(at, Info[u].sender)
  <2>1. NextNonce(at, Info[u].sender) \in Nat /\ Info[u].sender \in Sender
    BY <1>2, NextNonceType, InfoType
  <2>2. NextNonce(post, Info[u].sender) =
          NextNonce(at, Info[u].sender) + (IF Info[tx].sender = Info[u].sender THEN 1 ELSE 0)
    BY <1>1, <1>2, <2>1, NextNonceGrows
  <2>. QED  BY <2>1, <2>2
<1>6. u # tx
  OBVIOUS
<1>7. \A i \in DOMAIN post.txs : post.txs[i] # u
  <2>1. \A i \in DOMAIN at.txs : at.txs[i] # u
    BY DEF Refused
  <2>2. \A i \in DOMAIN post.txs :
          post.txs[i] = tx \/ (i \in DOMAIN at.txs /\ post.txs[i] = at.txs[i])
    BY <1>1, <1>2
  <2>. QED  BY <1>6, <2>1, <2>2
<1>8. u \in pool \ post.left
  BY <1>1 DEF Refused
<1>. QED  BY <1>4, <1>5, <1>7, <1>8 DEF Refused, post

\* Dealing with the transaction it was offered keeps an attempt settled.
LEMMA AdvanceSettles ==
  ASSUME CountInv, JobState, Gapless(pool), NEW at \in AttemptType, Settled(at),
         NEW tx \in Offered(at), NEW post, Advances(at, tx, post)
  PROVE  Settled(post)
<1>. DEFINE sender == Info[tx].sender
            next   == NextNonce(at, sender)
<1>1. /\ tx \in at.left /\ tx \in pool /\ tx \in Tx /\ sender \in Sender /\ sender \notin at.blocked
      /\ at.left \subseteq pool /\ at.txs \in Seq(Tx) /\ pool \in SUBSET Tx
      /\ at.blocked \in SUBSET Sender
  BY InfoType DEF Offered, Settled, AttemptType, CountInv
<1>2. Info[tx].nonce \in Nat /\ next \in Nat
  BY <1>1, InfoType, NextNonceType
<1>3. Info[tx].nonce <= next
  BY <1>1, OfferedInOrder
<1>4. \A i \in DOMAIN at.txs : at.txs[i] # tx
  BY <1>1 DEF Settled
\* Passed over, the attempt counts as before, only with less left.
<1>5. ASSUME NEW passed, passed.left = at.left \ {tx}, passed.txs = at.txs,
             passed.gas = at.gas, passed.size = at.size, passed.blobCount = at.blobCount
      PROVE  /\ \A u : Fits(passed, u) <=> Fits(at, u)
             /\ \A s : NextNonce(passed, s) = NextNonce(at, s)
             /\ \A u : Refused(at, u) => Refused(passed, u)
  <2>1. \A u : Fits(passed, u) <=> Fits(at, u)
    BY <1>5 DEF Fits, FitsGas, FitsSize, FitsBlobs, EstimatedSize
  <2>2. \A s : NextNonce(passed, s) = NextNonce(at, s)
    BY <1>5 DEF NextNonce
  <2>3. \A u : Refused(at, u) => Refused(passed, u)
    BY <1>5, <2>1, <2>2 DEF Refused
  <2>. QED  BY <2>1, <2>2, <2>3
<1>6. CASE /\ post = MarkInvalid(at, tx)
           /\ Fits(at, tx) => /\ Info[tx].nonce >= next
                              /\ Info[tx].valid => Info[tx].nonce # next
  <2>1. /\ post.left = at.left \ {tx} /\ post.txs = at.txs /\ post.gas = at.gas
        /\ post.size = at.size /\ post.blobCount = at.blobCount
        /\ post.blocked = at.blocked \cup {sender}
    BY <1>6 DEF MarkInvalid, Drop, AttemptType
  <2>2. /\ \A u : Fits(post, u) <=> Fits(at, u)
        /\ \A s : NextNonce(post, s) = NextNonce(at, s)
        /\ \A u : Refused(at, u) => Refused(post, u)
    BY <1>5, <2>1
  <2>3. Fits(at, tx) => ~Info[tx].valid /\ Info[tx].nonce = next
    <3>. HIDE DEF next, sender
    <3>. QED  BY <1>2, <1>3, <1>6 DEF sender
  <2>4. Refused(post, tx)
    BY <1>1, <1>3, <1>4, <2>1, <2>2, <2>3 DEF Refused
  <2>5. post.left \subseteq pool /\ \A i \in DOMAIN post.txs : post.txs[i] \in pool \ post.left
    BY <1>1, <2>1 DEF Settled
  <2>6. \A u \in pool \ post.left :
          Info[u].nonce < NextNonce(post, Info[u].sender) \/ Info[u].sender \in post.blocked
    BY <2>1, <2>2 DEF Settled
  <2>7. \A s \in post.blocked : \E u \in pool : Info[u].sender = s /\ Refused(post, u)
    BY <1>1, <2>1, <2>2, <2>4 DEF Settled
  <2>. QED  BY <2>5, <2>6, <2>7 DEF Settled
<1>7. CASE post = Drop(at, tx) /\ Info[tx].nonce < next
  <2>1. /\ post.left = at.left \ {tx} /\ post.txs = at.txs /\ post.gas = at.gas
        /\ post.size = at.size /\ post.blobCount = at.blobCount
        /\ post.blocked = at.blocked
    BY <1>7 DEF Drop, AttemptType
  <2>2. /\ \A s : NextNonce(post, s) = NextNonce(at, s)
        /\ \A u : Refused(at, u) => Refused(post, u)
    BY <1>5, <2>1
  <2>. QED  BY <1>1, <1>7, <2>1, <2>2 DEF Settled
<1>8. CASE post = Included(at, tx) /\ Fits(at, tx) /\ Info[tx].nonce = next
  <2>1. /\ post.left = at.left \ {tx} /\ post.txs = Append(at.txs, tx)
        /\ post.blocked = at.blocked
    BY <1>8 DEF Included
  <2>2. \A s \in Sender :
          NextNonce(post, s) = NextNonce(at, s) + (IF Info[tx].sender = s THEN 1 ELSE 0)
    <3>. SUFFICES ASSUME NEW s \in Sender
                  PROVE  NextNonce(post, s) =
                           NextNonce(at, s) + (IF Info[tx].sender = s THEN 1 ELSE 0)
      OBVIOUS
    <3>. QED  BY <1>1, <2>1, NextNonceGrows
  <2>3. \A s \in Sender : NextNonce(at, s) \in Nat
    BY <1>1, NextNonceType
  <2>4. \A u \in pool : u \in Tx /\ Info[u].nonce \in Nat /\ Info[u].sender \in Sender
    BY <1>1, InfoType
  <2>5. post.left \subseteq pool /\ \A i \in DOMAIN post.txs : post.txs[i] \in pool \ post.left
    <3>1. \A i \in DOMAIN post.txs :
            post.txs[i] = tx \/ (i \in DOMAIN at.txs /\ post.txs[i] = at.txs[i])
      BY <1>1, <2>1
    <3>. QED  BY <1>1, <2>1, <3>1 DEF Settled
  <2>6. \A u \in pool \ post.left :
          Info[u].nonce < NextNonce(post, Info[u].sender) \/ Info[u].sender \in post.blocked
    <3>. SUFFICES ASSUME NEW u \in pool \ post.left, Info[u].sender \notin post.blocked
                  PROVE  Info[u].nonce < NextNonce(post, Info[u].sender)
      OBVIOUS
    <3>1. CASE u = tx
      <4>1. NextNonce(post, sender) = next + 1
        BY <1>1, <2>2
      <4>. HIDE DEF next
      <4>. QED  BY <1>2, <1>8, <3>1, <4>1
    <3>2. CASE u # tx
      <4>1. Info[u].nonce < NextNonce(at, Info[u].sender)
        BY <2>1, <3>2 DEF Settled
      <4>2. NextNonce(at, Info[u].sender) <= NextNonce(post, Info[u].sender)
        BY <2>2, <2>3, <2>4
      <4>3. NextNonce(post, Info[u].sender) \in Nat
        BY <2>2, <2>3, <2>4
      <4>. QED  BY <2>3, <2>4, <4>1, <4>2, <4>3
    <3>. QED  BY <3>1, <3>2
  <2>7. \A s \in post.blocked : \E u \in pool : Info[u].sender = s /\ Refused(post, u)
    <3>. SUFFICES ASSUME NEW s \in at.blocked
                  PROVE  \E u \in pool : Info[u].sender = s /\ Refused(post, u)
      BY <2>1
    <3>1. PICK u \in pool : Info[u].sender = s /\ Refused(at, u)
      BY DEF Settled
    <3>2. Info[u].sender # Info[tx].sender
      BY <1>1, <3>1
    <3>. QED  BY <1>1, <1>8, <2>4, <3>1, <3>2, RefusedStays
  <2>. QED  BY <2>5, <2>6, <2>7 DEF Settled
<1>. QED  BY <1>6, <1>7, <1>8 DEF Advances

LEMMA SettledStep ==
  ASSUME CountInv, JobState, SettledInv, Next
  PROVE  SettledInv'
<1>1. net' = net /\ blobStore' \subseteq blobStore
  BY DEF Next, LoopStep, SkipForGas, SeeCancellation, SkipForSize, SkipForBlobs,
     BlobStoreFails, Execute, Abort, Finish, Becomes, Attempt, Fetch, FetchFails, Cancel,
     Arrive, LoseSidecar
<1>2. Gapless(pool')
  BY DEF SettledInv, Next, LoopStep, SkipForGas, SeeCancellation, SkipForSize, SkipForBlobs,
     BlobStoreFails, Execute, Abort, Finish, Becomes, Attempt, Fetch, FetchFails, Cancel,
     Arrive, LoseSidecar
\* What the pool loses or receives makes nothing fit.
<1>3. ASSUME NEW s \in Slot
      PROVE  /\ \A u : Fits(attempt[s], u)' => Fits(attempt'[s], u)
             /\ \A x : NextNonce(attempt[s], x)' = NextNonce(attempt'[s], x)
  <2>1. MaxBlobs' = MaxBlobs
    BY <1>1 DEF MaxBlobs
  <2>2. \A u : Fits(attempt[s], u)' => Fits(attempt'[s], u)
    BY <1>1, <2>1 DEF Fits, FitsGas, FitsSize, FitsBlobs, EstimatedSize, HasSidecar
  <2>. QED  BY <2>2 DEF NextNonce
<1>4. ASSUME NEW s \in Slot, pool' = pool, Settled(attempt'[s])
      PROVE  Settled(attempt[s])'
  <2>1. \A u : Refused(attempt'[s], u) => Refused(attempt[s], u)'
    BY <1>3, <1>4 DEF Refused
  <2>. QED  BY <1>3, <1>4, <2>1 DEF Settled
<1>5. ASSUME NEW s \in Slot, attempt'[s] # None
      PROVE  Settled(attempt[s])'
  <2>1. attempt[s] # None => Settled(attempt[s]) /\ attempt[s] \in AttemptType
    BY DEF SettledInv, CountInv
  <2>2. CASE attempt'[s] = NewAttempt /\ pool' = pool
    <3>1. Settled(NewAttempt)
      BY DEF Settled, NewAttempt
    <3>. QED  BY <1>4, <2>2, <3>1
  <2>3. CASE attempt[s] # None /\ attempt'[s] = attempt[s] /\ pool' = pool
    BY <1>4, <2>1, <2>3
  <2>4. CASE /\ attempt[s] # None
             /\ \E tx \in Tx \ pool :
                  /\ pool' = pool \cup {tx}
                  /\ attempt'[s] = [attempt[s] EXCEPT !.left = @ \cup {tx}]
    <3>1. PICK tx \in Tx \ pool :
            /\ pool' = pool \cup {tx}
            /\ attempt'[s] = [attempt[s] EXCEPT !.left = @ \cup {tx}]
      BY <2>4
    <3>. DEFINE at   == attempt[s]
                post == attempt'[s]
    <3>2. /\ post.left = at.left \cup {tx} /\ post.txs = at.txs /\ post.gas = at.gas
          /\ post.size = at.size /\ post.blobCount = at.blobCount /\ post.blocked = at.blocked
      BY <2>1, <2>4, <3>1 DEF AttemptType
    <3>3. pool' \ post.left = pool \ at.left
      BY <2>1, <2>4, <3>1, <3>2 DEF Settled
    <3>4. /\ \A u : Fits(post, u) => Fits(at, u)
          /\ \A x : NextNonce(post, x) = NextNonce(at, x)
      BY <3>2 DEF Fits, FitsGas, FitsSize, FitsBlobs, EstimatedSize, NextNonce
    <3>5. \A u : Refused(at, u) => Refused(attempt[s], u)'
      BY <1>3, <3>2, <3>3, <3>4 DEF Refused
    <3>. QED  BY <1>3, <2>1, <2>4, <3>1, <3>2, <3>3, <3>4, <3>5 DEF Settled
  <2>5. CASE /\ attempt[s] # None /\ pool' = pool
             /\ \E tx \in Offered(attempt[s]) : Advances(attempt[s], tx, attempt'[s])
    <3>1. Settled(attempt'[s])
      BY <2>1, <2>5, AdvanceSettles DEF SettledInv
    <3>. QED  BY <1>4, <2>5, <3>1
  <2>. QED  BY <1>5, <2>2, <2>3, <2>4, <2>5, AttemptStep
<1>. QED  BY <1>2, <1>5 DEF SettledInv, Gapless

LEMMA SettledCorrect == Spec => [](CountInv /\ JobState /\ SettledInv)
<1>1. Init => CountInv /\ JobState /\ SettledInv
  <2>1. Init => SettledInv
    BY DEF Init, SettledInv
  <2>. QED  BY <2>1, CountInit, StateInit
<1>2. CountInv /\ JobState /\ SettledInv /\ [Next]_vars => (CountInv /\ JobState /\ SettledInv)'
  <2>1. SettledInv /\ UNCHANGED vars => SettledInv'
    BY DEF SettledInv, vars, Settled, Refused, Gapless, NextNonce, Fits, FitsGas, FitsSize,
       FitsBlobs, EstimatedSize, HasSidecar, MaxBlobs
  <2>. QED  BY <2>1, CountStep, StateStep, SettledStep
<1>. QED  BY <1>1, <1>2, PTL DEF Spec

(***************************************************************************)
(* When an attempt is through with the pool, a valid transaction at its    *)
(* sender's next nonce is left out only for want of room, or because of a  *)
(* transaction of the same sender that has no place in the block and that  *)
(* the iterator stopped at.                                                *)
(***************************************************************************)
THEOREM NothingIsLeftOut == Spec => []NothingLeftOut
<1>1. CountInv /\ JobState /\ SettledInv => NothingLeftOut
  <2>. SUFFICES ASSUME CountInv, JobState, SettledInv, NEW s \in Slot,
                       attempt[s] # None, ~net.prague3, Exhausted(attempt[s]),
                       NEW tx \in pool, Info[tx].valid,
                       Info[tx].nonce = NextNonce(attempt[s], Info[tx].sender),
                       Fits(attempt[s], tx)
                PROVE  \E u \in pool : Hides(attempt[s], u, tx)
    BY DEF NothingLeftOut
  <2>. DEFINE at     == attempt[s]
              sender == Info[tx].sender
              mine   == {u \in at.left : Info[u].sender = sender}
              nonces == {Info[u].nonce : u \in mine}
  <2>1. /\ at \in AttemptType /\ Settled(at) /\ BlobsCounted(at) /\ Offered(at) = {}
        /\ at.left \subseteq pool /\ pool \in SUBSET Tx /\ net \in Network
    BY DEF CountInv, JobState, AttemptsCounted, SettledInv, Settled, Exhausted
  <2>2. \A u \in pool : u \in Tx /\ Info[u].nonce \in Nat /\ Info[u].blobs \in Nat
    BY <2>1, InfoType
\* A blocked sender has a transaction that was refused.
  <2>3. ASSUME sender \in at.blocked
        PROVE  \E u \in pool : Hides(at, u, tx)
    <3>1. PICK u \in pool : Info[u].sender = sender /\ Refused(at, u)
      BY <2>1, <2>3 DEF Settled
    <3>2. u # tx /\ Info[u].nonce <= Info[tx].nonce
      BY <3>1 DEF Refused
    <3>3. ~Fits(at, u) \/ (~Info[u].valid /\ Info[u].nonce = Info[tx].nonce)
      BY <3>1 DEF Refused
    <3>. QED  BY <3>1, <3>2, <3>3 DEF Refused, Hides
\* Otherwise the iterator has stopped at his least nonce left, a blob
\* transaction for which the blobs are used up.
  <2>4. ASSUME sender \notin at.blocked
        PROVE  \E u \in pool : Hides(at, u, tx)
    <3>1. tx \in mine
      <4>1. ~(Info[tx].nonce < NextNonce(at, sender))
        BY <2>2
      <4>. QED  BY <2>1, <2>4, <4>1 DEF Settled
    <3>2. PICK u \in mine : \A v \in mine : Info[u].nonce <= Info[v].nonce
      <4>1. nonces \in SUBSET Nat /\ nonces # {}
        BY <2>1, <2>2, <3>1
      <4>2. \E m \in nonces : \A k \in nonces : m <= k
        <5>. HIDE DEF nonces
        <5>. QED  BY <4>1, LeastElement
      <4>. QED  BY <4>2
    <3>3. at.skipBlobs /\ IsBlob(u)
      <4>1. u \notin Offered(at) /\ u \in at.left /\ Info[u].sender = sender
        BY <2>1, <3>2
      <4>. QED  BY <2>4, <3>2, <4>1 DEF Offered
    <3>4. ~Fits(at, u)
      <4>1. at.blobCount = MaxBlobs /\ at.blobCount \in Nat /\ Info[u].blobs \in Nat
        BY <2>1, <2>2, <3>2, <3>3 DEF BlobsCounted, AttemptType
      <4>2. Info[u].blobs > 0
        BY <3>3 DEF IsBlob
      <4>. HIDE DEF at
      <4>3. ~FitsBlobs(at, u)
        BY <4>1, <4>2 DEF FitsBlobs
      <4>. QED  BY <3>3, <4>3 DEF Fits
    <3>5. u # tx /\ u \in pool /\ Info[u].sender = sender /\ Info[u].nonce <= Info[tx].nonce
      BY <2>1, <3>1, <3>2, <3>4
    <3>6. \A i \in DOMAIN at.txs : at.txs[i] # u
      BY <2>1, <3>2 DEF Settled
    <3>. QED  BY <3>4, <3>5, <3>6 DEF Hides
  <2>. QED  BY <2>3, <2>4
<1>. QED  BY <1>1, SettledCorrect, PTL
=============================================================================
