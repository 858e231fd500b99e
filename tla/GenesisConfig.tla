---------------------------- MODULE GenesisConfig ----------------------------
(***************************************************************************)
(* From a genesis file to a chain specification: the parser of the         *)
(* "berachain" section (src/genesis/mod.rs) and From<Genesis> for          *)
(* BerachainChainSpec (src/chainspec/mod.rs), which panics on a file it    *)
(* does not accept.                                                        *)
(*                                                                         *)
(* A genesis file is a record of the fields the code reads; Never is an    *)
(* absent field.  The thirteen block-activated forks before Cancun are     *)
(* treated alike by the code and kept as the set of the block numbers they *)
(* are given, the five BPO forks as whether any is configured.             *)
(***************************************************************************)
EXTENDS Hardforks, SequencesExt

ASSUME NeverAssumption == Never \notin Nat

OptionalTime == Nat \cup {Never}

Section ==
  [prague1: {Never} \cup [time: Nat, denominator: Nat, minimumBaseFee: Nat, distributor: BOOLEAN],
   prague2: {Never} \cup [time: Nat, minimumBaseFee: Nat],
   prague3: OptionalTime,
   prague4: OptionalTime,
   osaka1:  {Never} \cup [time: Nat, minimumBaseFee: Nat, minimumBlobBaseFee: Nat]]

Genesis ==
  [timestamp: Nat, preCancunBlocks: SUBSET Nat, shanghai: OptionalTime,
   cancun: OptionalTime, prague: OptionalTime, osaka: OptionalTime,
   totalDifficulty: OptionalTime, mergeNetsplitBlock: OptionalTime, bpo: BOOLEAN,
   berachain: {Never} \cup Section]

\* Time at which a configured fork of the section activates.
TimeOf(fork) == IF fork = Never THEN Never ELSE fork.time

-----------------------------------------------------------------------------
(***************************************************************************)
(* BerachainGenesisConfig::try_from of a section that is there (a genesis  *)
(* file without one is an Ethereum genesis).                               *)
(***************************************************************************)
Parses(section) ==
  /\ section.prague1 # Never
  /\ section.prague1.denominator # 0
  /\ section.prague1.distributor
  /\ section.prague2 # Never
  /\ section.prague1.time <= section.prague2.time
  /\ section.osaka1 # Never =>
       section.osaka1.minimumBaseFee # 0 /\ section.osaka1.minimumBlobBaseFee # 0

\* What must hold from block 0 on: Cancun and everything before it, and the merge.
CancunAtGenesis(g) ==
  /\ g.cancun = 0
  /\ \A b \in g.preCancunBlocks : b = 0
  /\ g.shanghai \in {Never, 0}
  /\ g.totalDifficulty = 0
  /\ g.mergeNetsplitBlock \in {Never, 0}
  /\ ~g.bpo

\* Mutant: Osaka is compared with Prague2 only.
OsakaAfterPrague2(section) == section.prague2.time

\* The fork an Osaka time is compared with: the last one configured before it.
OsakaPredecessor(section) ==
  IF section.prague4 # Never THEN section.prague4
  ELSE IF section.prague3 # Never THEN section.prague3
  ELSE section.prague2.time

\* The comparisons of From<Genesis>, each of a fork with its predecessor.
ForksInOrder(g) ==
  LET b == g.berachain IN
  /\ g.prague # Never /\ g.prague <= b.prague1.time
  /\ b.prague1.time <= b.prague2.time
  /\ b.prague3 # Never => b.prague2.time <= b.prague3
  /\ b.prague4 # Never => b.prague3 # Never /\ b.prague3 <= b.prague4
  /\ g.osaka # Never => OsakaPredecessor(b) <= g.osaka
  /\ b.osaka1 # Never => g.osaka # Never /\ g.osaka <= b.osaka1.time

\* Loading a file: a Berachain network, an Ethereum one, or a panic.
Load(g) ==
  IF g.berachain = Never THEN "ethereum"
  ELSE IF Parses(g.berachain) /\ CancunAtGenesis(g) /\ ForksInOrder(g) THEN "berachain"
  ELSE "panic"

-----------------------------------------------------------------------------
(* The chain specification of an accepted file *)

\* The forks of a Berachain network, where they are looked up by name.
ScheduleOf(g) ==
  [f \in Fork |->
     CASE f = "Prague"  -> g.prague
       [] f = "Prague1" -> TimeOf(g.berachain.prague1)
       [] f = "Prague2" -> TimeOf(g.berachain.prague2)
       [] f = "Prague3" -> g.berachain.prague3
       [] f = "Prague4" -> g.berachain.prague4
       [] f = "Osaka"   -> g.osaka
       [] f = "Osaka1"  -> TimeOf(g.berachain.osaka1)]

\* Mutant: Osaka is pushed with the other Ethereum forks.
EthereumForksFirst == <<"Prague", "Osaka", "Prague1", "Prague2", "Prague3", "Prague4", "Osaka1">>

\* The order in which the configurable forks are pushed to the list of
\* hardforks, after Shanghai and Cancun at time 0.
PushOrder == <<"Prague", "Prague1", "Prague2", "Prague3", "Prague4", "Osaka", "Osaka1">>

\* The times of the list, which forks_iter walks in this order: each fork is
\* pushed if it is configured.
ForkTimes(g) ==
  FoldLeft(LAMBDA times, f :
             IF ScheduleOf(g)[f] = Never THEN times ELSE Append(times, ScheduleOf(g)[f]),
           <<0, 0>>, PushOrder)

\* Mutant: the header of the inner, Ethereum chain specification.
InnerGenesisHash(g) ==
  [timestamp |-> g.timestamp,
   pubkey    |-> FALSE,
   requests  |-> IsPragueActive(ScheduleOf(g), g.timestamp)]

\* The genesis header carries a (zero) key exactly when Prague1 is active in
\* it, and a requests hash exactly when Prague is.
GenesisHash(g) ==
  [timestamp |-> g.timestamp,
   pubkey    |-> g.berachain.prague1.time <= g.timestamp,
   requests  |-> IsPragueActive(ScheduleOf(g), g.timestamp)]

-----------------------------------------------------------------------------
(***************************************************************************)
(* EIP-2124 fork identifiers (fork_id).  A fork hash is the genesis hash   *)
(* with the fork times folded into it, kept as those two.                  *)
(***************************************************************************)

\* Forks up to the genesis time are part of the genesis hash.  The walk
\* stops at the first fork that is not active at the head; one of the same
\* time as the one before it is folded in only once.
ForkId(g, head) ==
  FoldLeft(LAMBDA id, t :
             LET forks   == id.hash.forks
                 applied == IF forks = <<>> THEN 0 ELSE Last(forks)
             IN  CASE id.next # 0 \/ t <= g.timestamp -> id
                   [] id.next = 0 /\ t > g.timestamp /\ head < t -> [id EXCEPT !.next = t]
                   [] OTHER -> IF t = applied THEN id
                               ELSE [id EXCEPT !.hash.forks = Append(forks, t)],
           [hash |-> [genesis |-> GenesisHash(g), forks |-> <<>>], next |-> 0],
           ForkTimes(g))

\* The identifier once every fork of the list is active (latest_fork_id):
\* that of the head which satisfies the last one.
LatestForkId(g) == ForkId(g, Last(ForkTimes(g)))
=============================================================================
