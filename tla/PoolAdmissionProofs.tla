------------------------- MODULE PoolAdmissionProofs -------------------------
(***************************************************************************)
(* Proofs about PoolAdmission, for every set of transactions, batches,     *)
(* tasks and schedules, and however far the maintenance task lags behind.  *)
(***************************************************************************)
EXTENDS PoolAdmission, Induction, SequenceTheorems

-----------------------------------------------------------------------------
(* The base fee *)

\* calc_next_block_base_fee of natural numbers is a natural number: the rule
\* moves the fee by a share of it and stops at zero.
LEMMA CalcFeeType ==
  ASSUME NEW gasUsed \in Nat, NEW fee \in Nat, NEW denominator \in Nat \ {0}
  PROVE  CalcNextBlockBaseFee(gasUsed, GasLimit, fee, denominator) \in Nat
<1> DEFINE target == GasLimit \div Elasticity
           share(excess) == (fee * excess) \div (target * denominator)
<1>1. target \in Nat \ {0}
  BY FeeAssumption DEF FeeAssumption
<1>2. \A excess \in Int : share(excess) \in Int
  <2> HIDE DEF target
  <2>1. \A excess \in Int : fee * excess \in Int
    OBVIOUS
  <2> QED
    BY <1>1, <2>1, ShareType
<1>3. CASE gasUsed = target
  BY <1>3 DEF CalcNextBlockBaseFee
<1>4. CASE gasUsed > target
  <2>1. share(gasUsed - target) \in Int
    BY <1>1, <1>2
  <2>2. CalcNextBlockBaseFee(gasUsed, GasLimit, fee, denominator)
          = fee + AtLeast(1, share(gasUsed - target))
    BY <1>1, <1>4 DEF CalcNextBlockBaseFee
  <2> QED
    BY <2>1, <2>2 DEF AtLeast
<1>5. CASE gasUsed < target
  <2>1. share(target - gasUsed) \in Int
    BY <1>1, <1>2
  <2>2. CalcNextBlockBaseFee(gasUsed, GasLimit, fee, denominator)
          = AtLeast(0, fee - share(target - gasUsed))
    BY <1>1, <1>5 DEF CalcNextBlockBaseFee
  <2> QED
    BY <2>1, <2>2 DEF AtLeast
<1> QED
  BY <1>1, <1>3, <1>4, <1>5

\* next_block_base_fee of a well-typed parent is a natural number, under
\* every fork's floor.
LEMMA NextFeeType ==
  ASSUME NEW s, NEW parent, parent.gasUsed \in Nat, parent.baseFee \in Nat
  PROVE  NextBlockBaseFee(s, parent) \in Nat
<1>1. MaxChangeDenominator(s, parent.timestamp) \in Nat \ {0}
  BY FeeAssumption DEF FeeAssumption, MaxChangeDenominator
<1>2. MinimumBaseFee(s, parent.timestamp) \in Nat
  BY FeeAssumption DEF FeeAssumption, MinimumBaseFee
<1> QED
  BY <1>1, <1>2, CalcFeeType DEF NextBlockBaseFee, AtLeast

-----------------------------------------------------------------------------
(* The floor. *)

\* A transaction the floor lets through at a base fee has cleared it: the
\* tip that is compared is the one paid, not the one declared.
LEMMA PassedIsCleared ==
  ASSUME TypeOK, NEW entry \in Entry, baseFee \in seen, ~IsBelowMinimum(entry, baseFee)
  PROVE  Cleared(entry, seen)
<1> DEFINE fee == baseFee
           tip == EffectiveTip(entry.tx, fee)
           cap == Info[entry.tx].maxFee
<1>1. /\ entry.tx \in Tx /\ fee \in Nat /\ MinimumPriorityFee \in Nat
      /\ cap \in Nat /\ Info[entry.tx].maxTip \in Nat
  BY PoolAssumption DEF TypeOK, Entry, PoolAssumption, TxInfo
<1>2. SUFFICES ASSUME MinimumPriorityFee > 0, ~IsLocal(entry.origin, Info[entry.tx].sender)
               PROVE  cap >= fee + MinimumPriorityFee /\ Info[entry.tx].maxTip >= MinimumPriorityFee
  BY <1>1 DEF Cleared
<1>3. ~((IF tip = None THEN 0 ELSE tip) < MinimumPriorityFee)
  BY <1>2 DEF IsBelowMinimum
<1>4. tip # None
  BY <1>1, <1>2, <1>3
<1>5. cap - fee >= 0
  BY <1>1, <1>4 DEF EffectiveTip
<1>6. tip = IF Info[entry.tx].maxTip < cap - fee THEN Info[entry.tx].maxTip ELSE cap - fee
  BY <1>1, <1>5 DEF EffectiveTip
<1> QED
  BY <1>1, <1>3, <1>4, <1>5, <1>6

-----------------------------------------------------------------------------
(* The empty slots of a batch. *)

\* The number of empty slots up to a position is a natural number.
LEMMA EmptyType ==
  ASSUME NEW slots, NEW i \in Nat
  PROVE  /\ IsFiniteSet({j \in 1..i : slots[j] = None})
         /\ Empty(slots, i) \in Nat
<1>1. IsFiniteSet(1..i)
  BY FS_Interval
<1>2. IsFiniteSet({j \in 1..i : slots[j] = None})
  BY <1>1, FS_Subset
<1> QED
  BY <1>2, FS_CardinalityType DEF Empty

\* It grows from one empty slot to the next, and never falls.
LEMMA EmptyGrows ==
  ASSUME NEW slots, NEW i \in Nat, NEW k \in Nat, i < k
  PROVE  /\ Empty(slots, i) <= Empty(slots, k)
         /\ slots[k] = None => Empty(slots, i) < Empty(slots, k)
<1> DEFINE upTo(n) == {j \in 1..n : slots[j] = None}
<1>1. upTo(i) \in SUBSET upTo(k)
  OBVIOUS
<1>2. IsFiniteSet(upTo(k)) /\ Empty(slots, i) \in Nat /\ Empty(slots, k) \in Nat
  BY EmptyType
<1>3. Cardinality(upTo(i)) <= Cardinality(upTo(k))
      /\ (Cardinality(upTo(k)) = Cardinality(upTo(i)) => upTo(k) = upTo(i))
  BY <1>1, <1>2, FS_Subset
<1>4. ASSUME slots[k] = None PROVE upTo(k) # upTo(i)
  <2>1. k \in upTo(k) /\ k \notin upTo(i)
    BY <1>4
  <2> QED
    BY <2>1
<1> QED
  BY <1>2, <1>3, <1>4 DEF Empty

(***************************************************************************)
(* merge_outcomes gives every empty slot the outcome of the transaction    *)
(* that left it empty: the position it takes from the inner validator's    *)
(* answer is the one at which ToValidate put it.                           *)
(***************************************************************************)
LEMMA MergeKeepsOrder ==
  ASSUME NEW call, call.slots \in Seq(Outcome \cup {None}), NEW ok,
         NEW i \in DOMAIN call.slots, call.slots[i] = None
  PROVE  LET merged == MergeOutcomes(call.slots, InnerOutcomes(ToValidate(call), ok))
         IN  \E v \in {"valid", "invalid"} :
               merged[i] = [tx |-> call.batch[i].tx, verdict |-> v]
<1> DEFINE slots == call.slots
           n == Empty(slots, i)
           rest == ToValidate(call)
<1>1. DOMAIN slots = 1..Len(slots) /\ Len(slots) \in Nat /\ i \in 1..Len(slots)
  OBVIOUS
<1>2. n \in Nat /\ Empty(slots, Len(slots)) \in Nat /\ Empty(slots, i - 1) \in Nat
  <2>1. i \in Nat /\ i - 1 \in Nat
    BY <1>1
  <2> QED
    BY <1>1, <2>1, EmptyType
<1>3. n >= 1
  <2>1. i - 1 \in Nat /\ i \in Nat /\ i - 1 < i
    BY <1>1
  <2>2. Empty(slots, i - 1) < n
    BY <2>1, EmptyGrows
  <2> QED
    BY <1>2, <2>2
<1>4. n <= Empty(slots, Len(slots))
  BY <1>1, <1>2, EmptyGrows
<1>5. \A k \in DOMAIN slots : slots[k] = None /\ Empty(slots, k) = n => k = i
  <2> SUFFICES ASSUME NEW k \in 1..Len(slots), slots[k] = None, Empty(slots, k) = n
               PROVE  k = i
    BY <1>1
  <2>1. k \in Nat /\ i \in Nat
    BY <1>1
  <2>2. CASE k < i
    BY <1>2, <2>1, <2>2, EmptyGrows
  <2>3. CASE i < k
    BY <1>2, <2>1, <2>3, EmptyGrows
  <2> QED
    BY <2>1, <2>2, <2>3
<1>6. (CHOOSE k \in DOMAIN slots : slots[k] = None /\ Empty(slots, k) = n) = i
  BY <1>5
<1>7. n \in DOMAIN rest /\ rest[n] = call.batch[i].tx
  <2>1. n \in 1..Empty(slots, Len(slots))
    BY <1>2, <1>3, <1>4
  <2> DEFINE place(m) == CHOOSE k \in DOMAIN slots : slots[k] = None /\ Empty(slots, k) = m
  <2>2. rest = [m \in 1..Empty(slots, Len(slots)) |-> call.batch[place(m)].tx]
    BY DEF ToValidate
  <2>3. place(n) = i
    BY <1>6
  <2> HIDE DEF rest, place, n, slots
  <2> QED
    BY <2>1, <2>2, <2>3
<1>8. MergeOutcomes(slots, InnerOutcomes(rest, ok))[i] = InnerOutcomes(rest, ok)[n]
  BY DEF MergeOutcomes
<1>9. InnerOutcomes(rest, ok)[n]
        = [tx |-> rest[n], verdict |-> IF rest[n] \in ok THEN "valid" ELSE "invalid"]
  BY <1>7 DEF InnerOutcomes
<1> QED
  BY <1>7, <1>8, <1>9

-----------------------------------------------------------------------------
(***************************************************************************)
(* The inductive invariant: what is known of the base fees, of a call      *)
(* under way, and of the pool.                                             *)
(***************************************************************************)
FeeInv ==
  /\ baseFee \in seen
  /\ \A i \in 1..Len(queue) : NextBlockBaseFee(sched, queue[i]) \in seen
  /\ told => queue # <<>> /\ baseFee = NextBlockBaseFee(sched, queue[1])
  /\ queue # <<>> => queue[Len(queue)] = Tip(chain)
  /\ queue = <<>> => /\ baseFee = NextBlockBaseFee(sched, Tip(chain))
                     /\ poolFee = NextBlockBaseFee(sched, Tip(chain))

SlotsInv(call, fees) ==
  /\ Len(call.slots) <= Len(call.batch)
  /\ \A i \in 1..Len(call.slots) :
       \/ call.slots[i] = None /\ Cleared(call.batch[i], fees)
       \/ call.slots[i] # None /\ call.slots[i] = Reject(call.batch[i])

OutcomesInv(call, fees) ==
  call.phase = "answered" =>
    /\ Len(call.outcomes) = Len(call.batch)
    /\ \A i \in 1..Len(call.batch) :
         /\ call.outcomes[i].tx = call.batch[i].tx
         /\ call.outcomes[i].verdict = "valid" => Cleared(call.batch[i], fees)

CallInv(call, fees) == SlotsInv(call, fees) /\ OutcomesInv(call, fees)

PoolInv ==
  /\ TypeOK /\ FeeInv /\ NoFreeRiders
  /\ \A k \in Task : CallInv(calls[k], seen)

\* What has cleared the floor at some base fees has at more of them.
LEMMA ClearedStays ==
  ASSUME NEW S, NEW T, S \subseteq T
  PROVE  /\ \A entry : Cleared(entry, S) => Cleared(entry, T)
         /\ \A call : CallInv(call, S) => CallInv(call, T)
BY DEF Cleared, CallInv, SlotsInv, OutcomesInv

\* A step that gives one task a call in order keeps every call in order.
LEMMA OneCall ==
  ASSUME NEW k \in Task, NEW c \in Call, calls \in [Task -> Call],
         \A j \in Task : CallInv(calls[j], seen), CallInv(c, seen),
         calls' = [calls EXCEPT ![k] = c], seen' = seen
  PROVE  calls' \in [Task -> Call] /\ \A j \in Task : CallInv(calls'[j], seen')
OBVIOUS

\* A node that has just been built knows the next block's base fee.
LEMMA InitPool == Init => PoolInv
<1> SUFFICES ASSUME Init PROVE PoolInv
  OBVIOUS
<1>1. chain \in Seq(Header) /\ Len(chain) = 1 /\ Tip(chain) = chain[1] /\ chain[1] \in Header
  <2>1. 0 \in 0..GasLimit /\ GasLimit \in 0..GasLimit
    BY FeeAssumption DEF FeeAssumption
  <2> QED
    BY <2>1, PoolAssumption DEF Init, PoolAssumption, Header, Tip
<1>2. NextBlockBaseFee(sched, chain[1]) \in Nat
  <2>1. chain[1].gasUsed \in Nat /\ chain[1].baseFee \in Nat
    BY <1>1, FeeAssumption DEF Header, FeeAssumption
  <2> QED
    BY <2>1, NextFeeType
<1>3. Idle \in Call /\ CallInv(Idle, seen)
  BY DEF Idle, Call, CallInv, SlotsInv, OutcomesInv
<1>4. TypeOK
  <2>1. pool \in [{} -> [origin: Origin, parked: BOOLEAN]] /\ {} \in SUBSET Tx
    BY DEF Init
  <2>2. \E S \in SUBSET Tx : pool \in [S -> [origin: Origin, parked: BOOLEAN]]
    BY <2>1
  <2>3. calls \in [Task -> Call] /\ window \in [Task -> SUBSET Nat]
    BY <1>3 DEF Init
  <2>4. queue \in Seq(Header)
    BY DEF Init
  <2>5. sched \in Schedules /\ told \in BOOLEAN /\ baseFee \in Nat /\ poolFee \in Nat
    BY <1>2 DEF Init
  <2>6. seen \subseteq Nat
    BY <2>5 DEF Init
  <2>7. Len(chain) \in 1..MaxHeight
    BY <1>1, PoolAssumption DEF PoolAssumption
  <2> QED
    BY <1>1, <2>2, <2>3, <2>4, <2>5, <2>6, <2>7 DEF TypeOK
<1>5. FeeInv
  BY <1>1 DEF Init, FeeInv
<1>6. NoFreeRiders
  BY DEF Init, NoFreeRiders
<1> QED
  BY <1>3, <1>4, <1>5, <1>6 DEF PoolInv, Init

-----------------------------------------------------------------------------
(* The steps. *)

\* Taking up a batch keeps the invariant.
LEMMA SubmitStep ==
  ASSUME PoolInv, NEW k \in Task, Submit(k)
  PROVE  PoolInv'
<1> PICK b \in Batches :
      calls' = [calls EXCEPT ![k] = [phase |-> "filter", batch |-> b,
                                     slots |-> <<>>, outcomes |-> <<>>]]
  BY DEF Submit
<1> DEFINE c == [phase |-> "filter", batch |-> b, slots |-> <<>>, outcomes |-> <<>>]
<1>1. b \in Seq(Entry)
  BY PoolAssumption DEF PoolAssumption
<1>2. c \in Call /\ CallInv(c, seen)
  BY <1>1 DEF Call, CallInv, SlotsInv, OutcomesInv
<1> HIDE DEF c
<1>3. UNCHANGED <<sched, chain, queue, seen, told, baseFee, poolFee, pool>>
  BY DEF Submit, chainVars, feeVars
<1>4. calls' \in [Task -> Call] /\ \A j \in Task : CallInv(calls'[j], seen')
  BY <1>2, <1>3, OneCall DEF PoolInv, TypeOK, c
<1>5. window' \in [Task -> SUBSET Nat]
  BY DEF Submit, PoolInv, TypeOK
<1> QED
  BY <1>3, <1>4, <1>5 DEF PoolInv, TypeOK, FeeInv, NoFreeRiders, Tip

\* Judging the next transaction of a batch keeps it.
LEMMA FilterStep ==
  ASSUME PoolInv, NEW k \in Task, Filter(k)
  PROVE  PoolInv'
<1> DEFINE call == calls[k]
           i == Len(call.slots) + 1
           slot == Judge(call.batch[i], baseFee)
           c == [call EXCEPT !.slots = Append(@, slot)]
<1>1. call \in Call /\ CallInv(call, seen) /\ baseFee \in seen
  BY DEF PoolInv, TypeOK, FeeInv
<1>2. /\ call.phase = "filter" /\ i <= Len(call.batch)
      /\ calls' = [calls EXCEPT ![k] = c]
      /\ UNCHANGED <<sched, chain, queue, seen, told, baseFee, poolFee, pool, window>>
  BY DEF Filter, chainVars, feeVars
<1>3. /\ call.slots \in Seq(Outcome \cup {None}) /\ call.batch \in Seq(Entry)
      /\ call.outcomes \in Seq(Outcome)
  BY <1>1 DEF Call
<1>4. call.batch[i] \in Entry
  BY <1>2, <1>3
<1>5. /\ slot \in Outcome \cup {None}
      /\ \/ slot = None /\ Cleared(call.batch[i], seen)
         \/ slot # None /\ slot = Reject(call.batch[i])
  <2>1. Reject(call.batch[i]) \in Outcome /\ Reject(call.batch[i]) # None
    BY <1>4, PoolAssumption DEF Reject, Outcome, Entry, PoolAssumption
  <2>2. CASE IsBelowMinimum(call.batch[i], baseFee)
    BY <2>1, <2>2 DEF Judge
  <2>3. CASE ~IsBelowMinimum(call.batch[i], baseFee)
    BY <1>1, <1>4, <2>3, PassedIsCleared DEF Judge, PoolInv
  <2> QED
    BY <2>2, <2>3
<1> HIDE DEF slot
<1>6. /\ c.slots = Append(call.slots, slot) /\ c.batch = call.batch
      /\ c.phase = "filter" /\ c.outcomes = call.outcomes
      /\ c \in Call
  <2>1. Append(call.slots, slot) \in Seq(Outcome \cup {None})
    BY <1>3, <1>5
  <2> QED
    BY <1>1, <1>2, <2>1 DEF Call
<1>7. SlotsInv(c, seen)
  <2>1. Len(c.slots) = i /\ c.slots[i] = slot
        /\ \A j \in 1..Len(call.slots) : c.slots[j] = call.slots[j]
    BY <1>3, <1>5, <1>6, AppendProperties
  <2>2. \A j \in 1..i : j \in 1..Len(call.slots) \/ j = i
    BY <1>3
  <2> HIDE DEF c, i
  <2>3. SlotsInv(call, seen)
    BY <1>1 DEF CallInv
  <2> QED
    BY <1>2, <1>5, <1>6, <2>1, <2>2, <2>3 DEF SlotsInv
<1>8. OutcomesInv(c, seen)
  BY <1>6 DEF OutcomesInv
<1> HIDE DEF c
<1>9. calls' \in [Task -> Call] /\ \A j \in Task : CallInv(calls'[j], seen')
  BY <1>2, <1>6, <1>7, <1>8, OneCall DEF PoolInv, TypeOK, CallInv
<1> QED
  BY <1>2, <1>9 DEF PoolInv, TypeOK, FeeInv, NoFreeRiders, Tip

\* The inner validator's answer, merged with the rejections, keeps it.
LEMMA ValidateStep ==
  ASSUME PoolInv, NEW k \in Task, ValidateTransactions(k)
  PROVE  PoolInv'
<1> DEFINE call == calls[k]
           rest == ToValidate(call)
<1> PICK ok \in SUBSET {rest[n] : n \in DOMAIN rest} :
      calls' = [calls EXCEPT ![k] =
        [call EXCEPT !.phase = "answered",
                     !.outcomes = MergeOutcomes(call.slots, InnerOutcomes(rest, ok))]]
  BY DEF ValidateTransactions
<1> DEFINE outs == MergeOutcomes(call.slots, InnerOutcomes(rest, ok))
           c == [call EXCEPT !.phase = "answered", !.outcomes = outs]
<1>1. call \in Call /\ SlotsInv(call, seen)
  BY DEF PoolInv, TypeOK, CallInv
<1>2. /\ Len(call.slots) = Len(call.batch)
      /\ UNCHANGED <<sched, chain, queue, seen, told, baseFee, poolFee, pool, window>>
  BY DEF ValidateTransactions, chainVars, feeVars
<1>3. call.slots \in Seq(Outcome \cup {None}) /\ call.batch \in Seq(Entry)
  BY <1>1 DEF Call
<1>4. DOMAIN call.slots = 1..Len(call.batch) /\ Len(call.batch) \in Nat
  BY <1>2, <1>3
<1>5. ASSUME NEW i \in 1..Len(call.batch)
      PROVE  /\ outs[i] \in Outcome /\ outs[i].tx = call.batch[i].tx
             /\ outs[i].verdict = "valid" => Cleared(call.batch[i], seen)
  <2>1. call.batch[i] \in Entry /\ i \in 1..Len(call.slots)
    BY <1>2, <1>3
  <2>2. CASE call.slots[i] = None
    <3>1. \E v \in {"valid", "invalid"} : outs[i] = [tx |-> call.batch[i].tx, verdict |-> v]
      <4>1. i \in DOMAIN call.slots
        BY <1>4
      <4>. QED  BY ONLY <1>3, <2>2, <4>1, MergeKeepsOrder
    <3>2. Cleared(call.batch[i], seen)
      BY <1>1, <2>1, <2>2 DEF SlotsInv
    <3> QED
      BY <2>1, <3>1, <3>2 DEF Outcome, Entry
  <2>3. CASE call.slots[i] # None
    <3>1. outs[i] = call.slots[i]
      BY <1>4, <2>3 DEF MergeOutcomes
    <3>2. call.slots[i] = Reject(call.batch[i])
      BY <1>1, <2>1, <2>3 DEF SlotsInv
    <3> QED
      BY <2>1, <3>1, <3>2 DEF Outcome, Entry, Reject
  <2> QED
    BY <2>2, <2>3
<1>6. DOMAIN outs = 1..Len(call.batch) /\ outs = [i \in 1..Len(call.batch) |-> outs[i]]
  BY <1>4 DEF MergeOutcomes
<1> HIDE DEF outs
<1>7. outs \in Seq(Outcome) /\ Len(outs) = Len(call.batch)
  <2>1. outs \in [1..Len(call.batch) -> Outcome]
    BY <1>5, <1>6
  <2> QED
    BY <1>4, <2>1
<1>8. /\ c \in Call /\ c.slots = call.slots /\ c.batch = call.batch /\ c.outcomes = outs
  BY <1>1, <1>7 DEF Call
<1>9. calls' = [calls EXCEPT ![k] = c]
  BY DEF outs
<1> HIDE DEF c
<1>10. CallInv(c, seen)
  BY <1>1, <1>5, <1>7, <1>8 DEF CallInv, SlotsInv, OutcomesInv
<1>11. calls' \in [Task -> Call] /\ \A j \in Task : CallInv(calls'[j], seen')
  BY <1>2, <1>8, <1>9, <1>10, OneCall DEF PoolInv, TypeOK
<1> QED
  BY <1>2, <1>11 DEF PoolInv, TypeOK, FeeInv, NoFreeRiders, Tip

\* What the pool takes up has cleared the floor.
LEMMA AddStep ==
  ASSUME PoolInv, NEW k \in Task, AddOutcomes(k)
  PROVE  PoolInv'
<1> DEFINE outs == calls[k].outcomes
           batch == calls[k].batch
           place(tx) == CHOOSE i \in DOMAIN outs : outs[i] = [tx |-> tx, verdict |-> "valid"]
           new == {outs[i].tx : i \in {j \in DOMAIN outs : outs[j].verdict = "valid"}}
<1>1. /\ calls[k].phase = "answered" /\ calls[k] \in Call
      /\ CallInv(calls[k], seen) /\ calls \in [Task -> Call]
  BY DEF PoolInv, TypeOK, AddOutcomes
<1>2. /\ calls' = [calls EXCEPT ![k] = Idle]
      /\ UNCHANGED <<sched, chain, queue, seen, told, baseFee, poolFee>>
  BY DEF AddOutcomes, chainVars, feeVars
<1>3. pool' = [tx \in DOMAIN pool \cup new |->
                 IF tx \in DOMAIN pool THEN pool[tx]
                 ELSE [origin |-> batch[place(tx)].origin, parked |-> Parked(tx, poolFee)]]
  BY DEF AddOutcomes
<1>4. outs \in Seq(Outcome) /\ batch \in Seq(Entry) /\ Len(outs) = Len(batch)
  BY <1>1 DEF Call, CallInv, OutcomesInv
<1>5. DOMAIN outs = 1..Len(batch) /\ DOMAIN batch = 1..Len(batch)
  BY <1>4
<1>6. ASSUME NEW tx \in new
      PROVE  /\ tx \in Tx /\ batch[place(tx)].origin \in Origin
             /\ Cleared([origin |-> batch[place(tx)].origin, tx |-> tx], seen)
  <2>1. PICK i \in DOMAIN outs : outs[i].tx = tx /\ outs[i].verdict = "valid"
    OBVIOUS
  <2>2. outs[i] \in Outcome
    BY <1>4
  <2>3. tx \in Tx /\ outs[i] = [tx |-> tx, verdict |-> "valid"]
    BY <2>1, <2>2 DEF Outcome
  <2>4. place(tx) \in DOMAIN outs /\ outs[place(tx)] = [tx |-> tx, verdict |-> "valid"]
    BY <2>3
  <2> DEFINE p == place(tx)
  <2> HIDE DEF place
  <2>5. outs[p].tx = tx /\ outs[p].verdict = "valid" /\ p \in 1..Len(batch)
    BY <1>5, <2>4
  <2>6. batch[p] \in Entry
    BY <1>4, <2>5
  <2>7. batch[p].tx = tx /\ Cleared(batch[p], seen)
    BY <1>1, <2>5 DEF CallInv, OutcomesInv
  <2>8. batch[p].origin \in Origin /\ batch[p] = [origin |-> batch[p].origin, tx |-> tx]
    BY <2>6, <2>7 DEF Entry
  <2> QED
    BY <2>3, <2>7, <2>8
<1> HIDE DEF new, place
<1>7. NoFreeRiders'
  <2> SUFFICES ASSUME NEW tx \in DOMAIN pool'
               PROVE  Cleared([origin |-> pool'[tx].origin, tx |-> tx], seen)
    BY <1>2 DEF NoFreeRiders
  <2>1. CASE tx \in DOMAIN pool
    BY <1>3, <2>1 DEF PoolInv, NoFreeRiders
  <2>2. CASE tx \in new /\ tx \notin DOMAIN pool
    <3>1. pool'[tx].origin = batch[place(tx)].origin
      BY <1>3, <2>2
    <3> QED
      BY <1>6, <2>2, <3>1
  <2> QED
    BY <1>3, <2>1, <2>2
<1>8. \E S \in SUBSET Tx : pool' \in [S -> [origin: Origin, parked: BOOLEAN]]
  <2>1. PICK S \in SUBSET Tx : pool \in [S -> [origin: Origin, parked: BOOLEAN]]
    BY DEF PoolInv, TypeOK
  <2>2. ASSUME NEW tx \in S \cup new
        PROVE  (IF tx \in S THEN pool[tx]
                ELSE [origin |-> batch[place(tx)].origin, parked |-> Parked(tx, poolFee)])
               \in [origin: Origin, parked: BOOLEAN]
    <3>1. Parked(tx, poolFee) \in BOOLEAN
      BY DEF Parked
    <3> QED
      BY <1>6, <2>1, <3>1
  <2>3. DOMAIN pool = S /\ S \cup new \in SUBSET Tx
    BY <1>6, <2>1
  <2> QED
    BY <1>3, <2>2, <2>3
<1>9. Idle \in Call /\ CallInv(Idle, seen)
  BY DEF Idle, Call, CallInv, SlotsInv, OutcomesInv
<1>10. calls' \in [Task -> Call] /\ \A j \in Task : CallInv(calls'[j], seen')
  BY <1>1, <1>2, <1>9, OneCall DEF PoolInv
<1>11. window' \in [Task -> SUBSET Nat]
  BY DEF AddOutcomes, PoolInv, TypeOK
<1> QED
  BY <1>2, <1>7, <1>8, <1>10, <1>11 DEF PoolInv, TypeOK, FeeInv, Tip

\* The next block's base fee of a header is a natural number.
LEMMA HeadFeeType ==
  ASSUME NEW s, NEW h \in Header
  PROVE  NextBlockBaseFee(s, h) \in Nat
<1>1. h.gasUsed \in Nat /\ h.baseFee \in Nat
  BY FeeAssumption DEF Header, FeeAssumption
<1> QED
  BY <1>1, NextFeeType

\* A new head is queued behind the ones the node has not worked through.
LEMMA HeadStep ==
  ASSUME PoolInv, NewHead
  PROVE  PoolInv'
<1> PICK n \in {Len(chain) - 1, Len(chain)} :
      /\ n \in 1..(MaxHeight - 1)
      /\ \E t \in (chain[n].timestamp + 1)..MaxTime, used \in {0, GasLimit} :
           LET h == [timestamp |-> t, gasUsed |-> used, baseFee |-> BlockBaseFee(chain[n], t)]
           IN  /\ chain' = Append(SubSeq(chain, 1, n), h)
               /\ queue' = Append(queue, h)
               /\ seen' = seen \cup {BlockBaseFee(h, t)}
  BY DEF NewHead
<1> PICK t \in (chain[n].timestamp + 1)..MaxTime, used \in {0, GasLimit} :
           LET h == [timestamp |-> t, gasUsed |-> used, baseFee |-> BlockBaseFee(chain[n], t)]
           IN  /\ chain' = Append(SubSeq(chain, 1, n), h)
               /\ queue' = Append(queue, h)
               /\ seen' = seen \cup {BlockBaseFee(h, t)}
  OBVIOUS
<1> DEFINE h == [timestamp |-> t, gasUsed |-> used, baseFee |-> BlockBaseFee(chain[n], t)]
<1>1. UNCHANGED <<sched, told, baseFee, poolFee, pool, calls, window>>
  BY DEF NewHead, feeVars
<1>2. TypeOK /\ FeeInv /\ NoFreeRiders /\ \A k \in Task : CallInv(calls[k], seen)
  BY DEF PoolInv
<1>3. chain \in Seq(Header) /\ Len(chain) \in 1..MaxHeight /\ queue \in Seq(Header)
      /\ MaxHeight \in Nat
  BY <1>2, PoolAssumption DEF TypeOK, PoolAssumption
<1>4. n \in 1..Len(chain) /\ n + 1 \in 1..MaxHeight
  BY <1>3
<1>5. h \in Header
  <2>1. chain[n] \in Header
    BY <1>3, <1>4
  <2>2. BlockBaseFee(chain[n], t) \in Nat
    BY <2>1, HeadFeeType DEF BlockBaseFee
  <2>3. used \in 0..GasLimit
    BY FeeAssumption DEF FeeAssumption
  <2>4. t \in Nat
    BY <2>1, PoolAssumption DEF Header, PoolAssumption
  <2> QED
    BY <2>2, <2>3, <2>4 DEF Header
<1>6. /\ chain' = Append(SubSeq(chain, 1, n), h)
      /\ queue' = Append(queue, h)
      /\ seen' = seen \cup {NextBlockBaseFee(sched, h)}
  BY DEF BlockBaseFee
<1> HIDE DEF h
<1>7. chain' \in Seq(Header) /\ Len(chain') = n + 1 /\ Tip(chain') = h
  <2>1. SubSeq(chain, 1, n) \in Seq(Header) /\ Len(SubSeq(chain, 1, n)) = n
    BY <1>3, <1>4
  <2> QED
    BY <1>5, <1>6, <2>1, AppendProperties DEF Tip
<1>8. /\ queue' \in Seq(Header) /\ queue' # <<>> /\ Len(queue') = Len(queue) + 1
      /\ \A i \in 1..Len(queue) : queue'[i] = queue[i]
      /\ queue'[Len(queue')] = h
  BY <1>3, <1>5, <1>6, AppendProperties
<1>9. seen' \subseteq Nat /\ seen \subseteq seen'
  <2>1. NextBlockBaseFee(sched, h) \in Nat
    BY <1>5, HeadFeeType
  <2> QED
    BY <1>2, <1>6, <2>1 DEF TypeOK
<1>10. FeeInv'
  <2>1. baseFee \in seen'
    BY <1>2, <1>9 DEF FeeInv
  <2>2. \A i \in 1..Len(queue') : NextBlockBaseFee(sched, queue'[i]) \in seen'
    <3>1. \A i \in 1..Len(queue') : i \in 1..Len(queue) \/ i = Len(queue')
      BY <1>3, <1>8
    <3> QED
      BY <1>2, <1>6, <1>8, <3>1 DEF FeeInv
  <2>3. told => baseFee = NextBlockBaseFee(sched, queue'[1])
    <3> SUFFICES ASSUME told PROVE baseFee = NextBlockBaseFee(sched, queue'[1])
      OBVIOUS
    <3>1. queue # <<>> /\ baseFee = NextBlockBaseFee(sched, queue[1])
      BY <1>2 DEF FeeInv
    <3>2. 1 \in 1..Len(queue)
      BY <1>3, <3>1
    <3> QED
      BY <1>8, <3>1, <3>2
  <2> QED
    BY <1>1, <1>7, <1>8, <2>1, <2>2, <2>3 DEF FeeInv
<1>11. NoFreeRiders' /\ \A k \in Task : CallInv(calls[k], seen')
  BY <1>1, <1>2, <1>9, ClearedStays DEF NoFreeRiders
<1> QED
  BY <1>1, <1>2, <1>4, <1>7, <1>8, <1>9, <1>10, <1>11 DEF PoolInv, TypeOK

\* The validator learns of the head at the front of the queue.
LEMMA OnNewHeadStep ==
  ASSUME PoolInv, OnNewHeadBlock
  PROVE  PoolInv'
<1>1. /\ queue # <<>> /\ told' = TRUE /\ baseFee' = NextBlockBaseFee(sched, Head(queue))
      /\ UNCHANGED <<sched, chain, queue, seen, poolFee, pool, calls>>
  BY DEF OnNewHeadBlock, chainVars
<1>2. TypeOK /\ FeeInv /\ NoFreeRiders
  BY DEF PoolInv
<1>3. queue \in Seq(Header) /\ Head(queue) = queue[1] /\ 1 \in 1..Len(queue)
      /\ Head(queue) \in Header
  BY <1>1, <1>2 DEF TypeOK
<1>4. baseFee' \in Nat
  BY <1>1, <1>3, HeadFeeType
<1>5. window' \in [Task -> SUBSET Nat]
  BY <1>2, <1>4 DEF OnNewHeadBlock, TypeOK
<1>6. FeeInv'
  BY <1>1, <1>2, <1>3 DEF FeeInv
<1> QED
  BY <1>1, <1>4, <1>5, <1>6 DEF PoolInv, TypeOK, NoFreeRiders

\* The pool takes the head the validator knows already.
LEMMA SetBlockInfoStep ==
  ASSUME PoolInv, SetBlockInfo
  PROVE  PoolInv'
<1>1. /\ queue # <<>> /\ told /\ told' = FALSE /\ queue' = Tail(queue)
      /\ poolFee' = NextBlockBaseFee(sched, Head(queue))
      /\ pool' = [tx \in DOMAIN pool |-> [pool[tx] EXCEPT !.parked = Parked(tx, poolFee')]]
      /\ UNCHANGED <<sched, chain, baseFee, calls, seen, window>>
  BY DEF SetBlockInfo
<1>2. TypeOK /\ FeeInv /\ NoFreeRiders
  BY DEF PoolInv
<1>3. /\ queue \in Seq(Header) /\ Head(queue) = queue[1] /\ Head(queue) \in Header
      /\ Tail(queue) \in Seq(Header) /\ Len(Tail(queue)) = Len(queue) - 1
      /\ \A i \in 1..Len(Tail(queue)) : Tail(queue)[i] = queue[i + 1]
  BY <1>1, <1>2, HeadTailProperties DEF TypeOK
<1>4. poolFee' \in Nat
  BY <1>1, <1>3, HeadFeeType
<1>5. \A i \in 1..Len(queue') : i + 1 \in 1..Len(queue) /\ queue'[i] = queue[i + 1]
  BY <1>1, <1>3
<1>6. queue' # <<>> => /\ Len(queue') \in 1..Len(queue')
                      /\ Len(queue') + 1 = Len(queue)
  BY <1>1, <1>3
<1>7. queue' = <<>> => queue[1] = Tip(chain)
  <2> SUFFICES ASSUME queue' = <<>> PROVE queue[1] = Tip(chain)
    OBVIOUS
  <2>1. Len(queue) = 1
    <3>1. Tail(queue) = <<>>
      BY <1>1
    <3> DEFINE rest == Tail(queue)
    <3>2. Len(rest) = 0
      <4>1. rest = <<>>
        BY <3>1
      <4> HIDE DEF rest
      <4> QED
        BY <4>1
    <3>3. Len(queue) \in Nat /\ Len(Tail(queue)) = Len(queue) - 1
      BY <1>3
    <3> QED
      BY <3>2, <3>3
  <2> QED
    BY <1>1, <1>2, <2>1 DEF FeeInv
<1>8. FeeInv'
  <2>1. \A i \in 1..Len(queue') : NextBlockBaseFee(sched, queue'[i]) \in seen
    BY <1>2, <1>5 DEF FeeInv
  <2>2. queue' # <<>> => queue'[Len(queue')] = Tip(chain)
    BY <1>1, <1>2, <1>5, <1>6 DEF FeeInv
  <2>3. baseFee = NextBlockBaseFee(sched, queue[1])
    BY <1>1, <1>2 DEF FeeInv
  <2>4. queue' = <<>> => /\ baseFee = NextBlockBaseFee(sched, Tip(chain))
                        /\ poolFee' = NextBlockBaseFee(sched, Tip(chain))
    BY <1>1, <1>3, <1>7, <2>3
  <2>5. baseFee \in seen
    BY <1>2 DEF FeeInv
  <2> QED
    BY <1>1, <2>1, <2>2, <2>4, <2>5 DEF FeeInv, Tip
<1>9. \E S \in SUBSET Tx : pool' \in [S -> [origin: Origin, parked: BOOLEAN]]
  <2>1. PICK S \in SUBSET Tx : pool \in [S -> [origin: Origin, parked: BOOLEAN]]
    BY <1>2 DEF TypeOK
  <2>2. ASSUME NEW tx \in S
        PROVE  [pool[tx] EXCEPT !.parked = Parked(tx, poolFee')]
                 \in [origin: Origin, parked: BOOLEAN]
    <3>1. Parked(tx, poolFee') \in BOOLEAN
      BY DEF Parked
    <3>2. pool[tx] \in [origin: Origin, parked: BOOLEAN]
      BY <2>1
    <3> QED
      BY <3>1, <3>2
  <2> QED
    BY <1>1, <2>1, <2>2
<1>10. NoFreeRiders'
  <2>1. \E S \in SUBSET Tx : pool \in [S -> [origin: Origin, parked: BOOLEAN]]
    BY <1>2 DEF TypeOK
  <2>2. DOMAIN pool' = DOMAIN pool /\ \A tx \in DOMAIN pool : pool'[tx].origin = pool[tx].origin
    BY <1>1, <2>1
  <2> QED
    BY <1>1, <1>2, <2>2 DEF NoFreeRiders
<1> QED
  BY <1>1, <1>2, <1>3, <1>4, <1>8, <1>9, <1>10 DEF PoolInv, TypeOK

-----------------------------------------------------------------------------
(* The invariant, and what follows from it. *)

\* The pool's invariant holds in every reachable state.
THEOREM PoolCorrect == Spec => []PoolInv
<1>1. Init => PoolInv
  BY InitPool
<1>2. PoolInv /\ [Next]_vars => PoolInv'
  <2> SUFFICES ASSUME PoolInv, [Next]_vars PROVE PoolInv'
    OBVIOUS
  <2>1. CASE UNCHANGED vars
    BY <2>1 DEF vars, PoolInv, TypeOK, FeeInv, NoFreeRiders, Tip
  <2>2. ASSUME NEW k \in Task,
               Submit(k) \/ Filter(k) \/ ValidateTransactions(k) \/ AddOutcomes(k)
        PROVE  PoolInv'
    BY <2>2, SubmitStep, FilterStep, ValidateStep, AddStep
  <2>3. CASE NewHead
    BY <2>3, HeadStep
  <2>4. CASE OnNewHeadBlock
    BY <2>4, OnNewHeadStep
  <2>5. CASE SetBlockInfo
    BY <2>5, SetBlockInfoStep
  <2> QED
    BY <2>1, <2>2, <2>3, <2>4, <2>5 DEF Next
<1> QED
  BY <1>1, <1>2, PTL DEF Spec

(***************************************************************************)
(* Floor, pool and block builder go by one base fee whenever the           *)
(* maintenance task has caught up, for every schedule and however far it   *)
(* had fallen behind.                                                      *)
(***************************************************************************)
THEOREM FeesAlwaysAgree == Spec => []FeesAgree
<1>1. PoolInv => FeesAgree
  BY DEF PoolInv, FeeInv, FeesAgree, BlockBaseFee
<1> QED
  BY <1>1, PoolCorrect, PTL

(***************************************************************************)
(* A batch of any length is answered in its own order, whichever of its    *)
(* transactions the floor turns down.                                      *)
(***************************************************************************)
THEOREM OutcomesAlwaysInOrder == Spec => []OutcomesInOrder
<1>1. PoolInv => OutcomesInOrder
  <2> SUFFICES ASSUME PoolInv, NEW k \in Task, calls[k].phase = "answered"
               PROVE  /\ Len(calls[k].outcomes) = Len(calls[k].batch)
                      /\ \A i \in DOMAIN calls[k].batch :
                           calls[k].outcomes[i].tx = calls[k].batch[i].tx
    BY DEF OutcomesInOrder
  <2>1. DOMAIN calls[k].batch = 1..Len(calls[k].batch)
    BY DEF PoolInv, TypeOK, Call
  <2> QED
    BY <2>1 DEF PoolInv, CallInv, OutcomesInv
<1> QED
  BY <1>1, PoolCorrect, PTL

(***************************************************************************)
(* Nothing enters the pool that did not clear the floor at some head, or   *)
(* was exempt from it, under every interleaving of validation and heads.   *)
(***************************************************************************)
THEOREM FloorHolds == Spec => []NoFreeRiders
<1>1. PoolInv => NoFreeRiders
  BY DEF PoolInv
<1> QED
  BY <1>1, PoolCorrect, PTL
(***************************************************************************)
(* The state keeps its types: no slot is lost between batch, slots and     *)
(* answer, and base fees stay natural numbers.                             *)
(***************************************************************************)
THEOREM TypeCorrect == Spec => []TypeOK
<1>1. PoolInv => TypeOK
  BY DEF PoolInv
<1> QED
  BY <1>1, PoolCorrect, PTL

-----------------------------------------------------------------------------
(* The fee a transaction is judged by. *)

(***************************************************************************)
(* Each slot filled was judged by a fee of the call's time, the fee of the *)
(* moment is one of them while the loop runs, and the answer repeats what  *)
(* the slots said.                                                         *)
(***************************************************************************)
JudgedInv(call, fees) ==
  /\ call.phase = "filter" =>
       \A i \in 1..Len(call.slots) :
         \E fee \in fees : call.slots[i] = Judge(call.batch[i], fee)
  /\ call.phase = "answered" =>
       \A i \in 1..Len(call.batch) :
         \E fee \in fees :
           IsBelowMinimum(call.batch[i], fee) <=> call.outcomes[i].verdict = "floor"

WindowInv ==
  \A k \in Task : /\ JudgedInv(calls[k], window[k])
                  /\ calls[k].phase = "filter" => baseFee \in window[k]

\* A step of one task's call, at a base fee that stands still.
LEMMA OneJudged ==
  ASSUME WindowInv, NEW k \in Task, UNCHANGED baseFee,
         \A j \in Task \ {k} : calls'[j] = calls[j] /\ window'[j] = window[j],
         JudgedInv(calls'[k], window'[k]),
         calls'[k].phase = "filter" => baseFee \in window'[k]
  PROVE  WindowInv'
BY DEF WindowInv

\* A step of one task keeps the invariant.
LEMMA TaskJudged ==
  ASSUME PoolInv, WindowInv, NEW k \in Task,
         Submit(k) \/ Filter(k) \/ ValidateTransactions(k) \/ AddOutcomes(k)
  PROVE  WindowInv'
<1> DEFINE call == calls[k]
<1>1. /\ calls \in [Task -> Call] /\ window \in [Task -> SUBSET Nat] /\ call \in Call
      /\ call.slots \in Seq(Outcome \cup {None}) /\ call.batch \in Seq(Entry)
  BY DEF PoolInv, TypeOK, Call
<1>2. JudgedInv(call, window[k]) /\ (call.phase = "filter" => baseFee \in window[k])
  BY DEF WindowInv
<1>3. CASE Submit(k)
  <2>1. PICK b : calls' = [calls EXCEPT ![k] = [phase |-> "filter", batch |-> b,
                                                slots |-> <<>>, outcomes |-> <<>>]]
    BY <1>3 DEF Submit
  <2>2. window' = [window EXCEPT ![k] = {baseFee}] /\ UNCHANGED baseFee
    BY <1>3 DEF Submit, feeVars
  <2>3. JudgedInv(calls'[k], window'[k])
    BY <1>1, <2>1 DEF JudgedInv
  <2> QED
    BY <1>1, <2>1, <2>2, <2>3, OneJudged
<1>4. CASE Filter(k)
  <2> DEFINE i == Len(call.slots) + 1
             slot == Judge(call.batch[i], baseFee)
  <2>1. /\ call.phase = "filter" /\ UNCHANGED <<baseFee, window>>
        /\ calls' = [calls EXCEPT ![k] = [call EXCEPT !.slots = Append(@, slot)]]
    BY <1>4 DEF Filter, feeVars
  <2>2. /\ calls'[k].phase = "filter" /\ calls'[k].batch = call.batch
        /\ calls'[k].slots = Append(call.slots, slot)
    BY <1>1, <2>1 DEF Call
  <2> HIDE DEF slot
  <2>3. \A j \in 1..Len(calls'[k].slots) :
          \/ j \in 1..Len(call.slots) /\ calls'[k].slots[j] = call.slots[j]
          \/ j = i /\ calls'[k].slots[j] = slot
    <3> DEFINE S == Outcome \cup {None, slot}
    <3>1. call.slots \in Seq(S) /\ slot \in S
      BY <1>1
    <3> HIDE DEF S
    <3> QED
      BY <2>2, <3>1
  <2>4. JudgedInv(calls'[k], window'[k])
    BY <1>2, <2>1, <2>2, <2>3 DEF JudgedInv, slot
  <2> QED
    BY <1>1, <1>2, <2>1, <2>2, <2>4, OneJudged
<1>5. CASE ValidateTransactions(k)
  <2> DEFINE rest == ToValidate(call)
  <2>1. PICK ok \in SUBSET {rest[n] : n \in DOMAIN rest} :
          calls' = [calls EXCEPT ![k] =
            [call EXCEPT !.phase = "answered",
                         !.outcomes = MergeOutcomes(call.slots, InnerOutcomes(rest, ok))]]
    BY <1>5 DEF ValidateTransactions
  <2> DEFINE outs == MergeOutcomes(call.slots, InnerOutcomes(rest, ok))
  <2>2. /\ call.phase = "filter" /\ Len(call.slots) = Len(call.batch)
        /\ UNCHANGED <<baseFee, window>>
    BY <1>5 DEF ValidateTransactions, feeVars
  <2>3. /\ calls'[k].phase = "answered" /\ calls'[k].batch = call.batch
        /\ calls'[k].outcomes = outs
    BY <1>1, <2>1 DEF Call
  <2>4. ASSUME NEW i \in 1..Len(call.batch)
        PROVE  \E fee \in window[k] :
                 IsBelowMinimum(call.batch[i], fee) <=> outs[i].verdict = "floor"
    <3>1. i \in DOMAIN call.slots /\ call.batch[i] \in Entry
      BY <1>1, <2>2
    <3>2. PICK fee \in window[k] : call.slots[i] = Judge(call.batch[i], fee)
      BY <1>2, <2>2 DEF JudgedInv
    <3>3. Reject(call.batch[i]).verdict = "floor" /\ Reject(call.batch[i]) # None
      BY <3>1, PoolAssumption DEF Reject, Outcome, Entry, PoolAssumption
    <3>4. CASE IsBelowMinimum(call.batch[i], fee)
      <4>1. call.slots[i] = Reject(call.batch[i])
        BY <3>2, <3>4 DEF Judge
      <4>2. outs[i] = call.slots[i]
        BY <3>1, <3>3, <4>1 DEF MergeOutcomes
      <4> QED
        BY <3>3, <3>4, <4>1, <4>2
    <3>5. CASE ~IsBelowMinimum(call.batch[i], fee)
      <4>1. call.slots[i] = None
        BY <3>2, <3>5 DEF Judge
      <4>2. \E v \in {"valid", "invalid"} : outs[i] = [tx |-> call.batch[i].tx, verdict |-> v]
        BY <1>1, <3>1, <4>1, MergeKeepsOrder
      <4> HIDE DEF outs
      <4>3. outs[i].verdict # "floor"
        BY <4>2
      <4> QED
        BY <3>5, <4>3
    <3> QED
      BY <3>4, <3>5
  <2> HIDE DEF outs
  <2>5. JudgedInv(calls'[k], window'[k])
    BY <2>2, <2>3, <2>4 DEF JudgedInv
  <2> QED
    BY <1>1, <2>1, <2>2, <2>3, <2>5, OneJudged
<1>6. CASE AddOutcomes(k)
  <2>1. /\ calls' = [calls EXCEPT ![k] = Idle] /\ window' = [window EXCEPT ![k] = {}]
        /\ UNCHANGED baseFee
    BY <1>6 DEF AddOutcomes, feeVars
  <2>2. JudgedInv(calls'[k], window'[k]) /\ calls'[k].phase # "filter"
    BY <1>1, <2>1 DEF JudgedInv, Idle
  <2> QED
    BY <1>1, <2>1, <2>2, OneJudged
<1> QED
  BY <1>3, <1>4, <1>5, <1>6

\* A new head joins the window of every loop under way, and of no call
\* already answered.
LEMMA HeadJudged ==
  ASSUME PoolInv, WindowInv, OnNewHeadBlock
  PROVE  WindowInv'
<1>1. /\ UNCHANGED calls
      /\ \A k \in Task : window'[k] = IF calls[k].phase = "filter"
                                        THEN window[k] \cup {baseFee'} ELSE window[k]
  BY DEF OnNewHeadBlock
<1>2. \A k \in Task : JudgedInv(calls[k], window'[k])
  BY <1>1 DEF WindowInv, JudgedInv
<1> QED
  BY <1>1, <1>2 DEF WindowInv

(***************************************************************************)
(* A verdict of the floor is one at a base fee the validator held at some  *)
(* moment of the call, for any number of tasks and of heads in between.    *)
(***************************************************************************)
THEOREM AlwaysJudgedByCurrentFee == Spec => []JudgedByCurrentFee
<1>1. Init => WindowInv
  BY DEF Init, Idle, WindowInv, JudgedInv
<1>2. PoolInv /\ WindowInv /\ [Next]_vars => WindowInv'
  <2> SUFFICES ASSUME PoolInv, WindowInv, [Next]_vars PROVE WindowInv'
    OBVIOUS
  <2>1. ASSUME NEW k \in Task,
               Submit(k) \/ Filter(k) \/ ValidateTransactions(k) \/ AddOutcomes(k)
        PROVE  WindowInv'
    BY <2>1, TaskJudged
  <2>2. CASE OnNewHeadBlock
    BY <2>2, HeadJudged
  <2>3. CASE NewHead \/ SetBlockInfo \/ UNCHANGED vars
    <3>1. UNCHANGED <<calls, window, baseFee>>
      BY <2>3 DEF NewHead, SetBlockInfo, vars, feeVars
    <3> QED
      BY <3>1 DEF WindowInv
  <2> QED
    BY <2>1, <2>2, <2>3 DEF Next
<1>3. PoolInv /\ WindowInv => JudgedByCurrentFee
  <2> SUFFICES ASSUME PoolInv, WindowInv, NEW k \in Task, calls[k].phase = "answered",
                      NEW i \in DOMAIN calls[k].batch
               PROVE  \E fee \in window[k] :
                        IsBelowMinimum(calls[k].batch[i], fee)
                          <=> calls[k].outcomes[i].verdict = "floor"
    BY DEF JudgedByCurrentFee
  <2>1. i \in 1..Len(calls[k].batch)
    BY DEF PoolInv, TypeOK, Call
  <2> QED
    BY <2>1 DEF WindowInv, JudgedInv
<1> QED
  BY <1>1, <1>2, <1>3, PoolCorrect, PTL DEF Spec
=============================================================================
