----------------------------- MODULE ForkNetwork -----------------------------
(***************************************************************************)
(* Nodes of a network whose hardforks are announced by replacing the       *)
(* genesis file: each node is started on a file, follows the chain past    *)
(* fork times (and back, in a reorganisation), is stopped, given a new     *)
(* file and started again, while its peers do the same at other times.     *)
(*                                                                         *)
(* A node announces a fork identifier to its peers and checks theirs       *)
(* (EIP-2124).  The identifier announced at startup is the one fork_id     *)
(* computes; later the fork filter, created by fork_filter at startup and  *)
(* told of every new head, supplies it.  The filter itself is a library's. *)
(***************************************************************************)
EXTENDS GenesisConfig

CONSTANTS
  Node,
  InitialFiles,  \* genesis files the nodes are first installed with
  Releases(_),   \* files that may replace a given one
  MaxTime        \* bound: head timestamps

\* What GenesisHash returns.
GenesisHashes == [timestamp: Nat, pubkey: BOOLEAN, requests: BOOLEAN]

ASSUME NetworkAssumption ==
  /\ InitialFiles \subseteq Genesis /\ MaxTime \in Nat
  /\ Never \notin Genesis \cup GenesisHashes

VARIABLES
  file,    \* the genesis file on each node's disk
  mode,    \* "stopped", or what loading the file has made of the node
  loaded,  \* the file a running node was started on
  stored,  \* the genesis hash in its database, or Never
  head,    \* the timestamp of its head block
  filter,  \* its fork filter
  status   \* the fork identifier it announces

vars == <<file, mode, loaded, stored, head, filter, status>>

Fees(g) == INSTANCE BaseFee WITH
  GasLimit <- 30000000, Elasticity <- 2, LondonDenominator <- 8,
  Prague1Denominator   <- g.berachain.prague1.denominator,
  Prague1MinimumBaseFee <- g.berachain.prague1.minimumBaseFee,
  Prague2MinimumBaseFee <- g.berachain.prague2.minimumBaseFee,
  Osaka1MinimumBaseFee  <-
    IF g.berachain.osaka1 = Never THEN 0 ELSE g.berachain.osaka1.minimumBaseFee

-----------------------------------------------------------------------------
(***************************************************************************)
(* The fork filter: the forks after genesis as an ordered set, and around  *)
(* a head, those passed and those to come.                                 *)
(***************************************************************************)
\* Mutant: created with the default head.
FilterAtGenesis(g, t) ==
  [genesis |-> GenesisHash(g),
   forks   |-> {x \in ToSet(ForkTimes(g)) : x > g.timestamp},
   head    |-> 0]

NewFilter(g, t) ==
  [genesis |-> GenesisHash(g),
   forks   |-> {x \in ToSet(ForkTimes(g)) : x > g.timestamp},
   head    |-> t]

\* A set of times as a list: at position i, the one with i - 1 before it.
Ordered(times) ==
  [i \in 1..Cardinality(times) |->
     CHOOSE x \in times : Cardinality({y \in times : y < x}) = i - 1]
Past(f)        == Ordered({x \in f.forks : x <= f.head})
Future(f)      == Ordered({x \in f.forks : x > f.head})
HashOf(f, times) == [genesis |-> f.genesis, forks |-> times]

\* ForkFilter::current.
Current(f) ==
  [hash |-> HashOf(f, Past(f)),
   next |-> IF Future(f) = <<>> THEN 0 ELSE Head(Future(f))]

\* ForkFilter::validate: the same forks passed and no unknown one reached
\* here, or a remote that is behind and knows of the next fork, or ahead.
Accepts(f, id) ==
  \/ id.hash = Current(f).hash /\ (id.next = 0 \/ f.head < id.next)
  \/ \E n \in 0..(Len(Past(f)) - 1) :
       /\ id.hash = HashOf(f, SubSeq(Past(f), 1, n))
       /\ id.next = Past(f)[n + 1]
  \/ \E n \in 1..Len(Future(f)) :
       id.hash = HashOf(f, Past(f) \o SubSeq(Future(f), 1, n))

\* Mutant: a fork is current only after its own second.
CurrentForkAfter(times, t) ==
  LET later == {i \in DOMAIN times : t <= times[i]} IN
  IF later = {} \/ Min(later) = 1 THEN Len(times) ELSE Min(later) - 1

\* Index of the current fork: the one before the first that is still to
\* come; the last one where there is no such fork (or none before it).
CurrentForkIndex(times, t) ==
  LET later == {i \in DOMAIN times : t < times[i]} IN
  IF later = {} \/ Min(later) = 1 THEN Len(times) ELSE Min(later) - 1

\* eth_config: current and next fork among the sorted, distinct fork times.
EthConfig(g, t) ==
  LET times == Ordered(ToSet(ForkTimes(g)))
      i     == CurrentForkIndex(times, t)
  IN  [current |-> times[i], next |-> IF i < Len(times) THEN times[i + 1] ELSE 0]

-----------------------------------------------------------------------------
Init ==
  /\ file \in [Node -> InitialFiles]
  /\ mode = [n \in Node |-> "stopped"]
  /\ loaded = [n \in Node |-> Never]
  /\ stored = [n \in Node |-> Never]
  /\ head = [n \in Node |-> Never]
  /\ filter = [n \in Node |-> Never]
  /\ status = [n \in Node |-> Never]

\* The identifier announced at startup.
Announced(g, t) == ForkId(g, t)

\* Startup.  A file of another genesis than the database's is refused.
Start(n) ==
  LET g == file[n]
      t == IF head[n] = Never THEN g.timestamp ELSE head[n]
  IN
  /\ mode[n] = "stopped"
  /\ mode' = [mode EXCEPT ![n] =
       IF Load(g) = "berachain" /\ stored[n] # Never /\ stored[n] # GenesisHash(g)
         THEN "refused" ELSE Load(g)]
  /\ loaded' = [loaded EXCEPT ![n] = g]
  /\ IF mode'[n] = "berachain"
       THEN /\ stored' = [stored EXCEPT ![n] = GenesisHash(g)]
            /\ head' = [head EXCEPT ![n] = t]
            /\ filter' = [filter EXCEPT ![n] = NewFilter(g, t)]
            /\ status' = [status EXCEPT ![n] = Announced(g, t)]
       ELSE UNCHANGED <<stored, head, filter, status>>
  /\ UNCHANGED file

\* A new head, ahead of the old one or, after a reorganisation, behind it.
\* The network layer announces the filter's identifier when it changes.
NewHead(n) ==
  /\ mode[n] = "berachain"
  /\ \E t \in loaded[n].timestamp..MaxTime :
       /\ t # head[n]
       /\ head' = [head EXCEPT ![n] = t]
       /\ filter' = [filter EXCEPT ![n].head = t]
       /\ status' = [status EXCEPT ![n] =
            IF Current(filter'[n]) # Current(filter[n]) THEN Current(filter'[n]) ELSE @]
  /\ UNCHANGED <<file, mode, loaded, stored>>

Stop(n) ==
  /\ mode[n] # "stopped"
  /\ mode' = [mode EXCEPT ![n] = "stopped"]
  /\ loaded' = [loaded EXCEPT ![n] = Never]
  /\ filter' = [filter EXCEPT ![n] = Never]
  /\ status' = [status EXCEPT ![n] = Never]
  /\ UNCHANGED <<file, stored, head>>

\* A new release; a running node does not read it until it is restarted.
Upgrade(n) ==
  /\ \E g \in Releases(file[n]) : g \in Genesis /\ file' = [file EXCEPT ![n] = g]
  /\ UNCHANGED <<mode, loaded, stored, head, filter, status>>

Next == \E n \in Node : Start(n) \/ NewHead(n) \/ Stop(n) \/ Upgrade(n)

Spec == Init /\ [][Next]_vars

-----------------------------------------------------------------------------
(* Properties *)

(***************************************************************************)
(* What makes a genesis file acceptable, fork by fork and not along the    *)
(* chain of comparisons From<Genesis> makes: any two configured forks are  *)
(* in order, and the forks another one needs are there.                    *)
(***************************************************************************)
Acceptable(g) ==
  LET s == ScheduleOf(g) IN
  /\ CancunAtGenesis(g)
  /\ g.berachain.prague1 # Never /\ g.berachain.prague2 # Never
  /\ s["Prague"] # Never
  /\ s["Prague4"] # Never => s["Prague3"] # Never
  /\ s["Osaka1"] # Never => s["Osaka"] # Never
  /\ \A i, j \in DOMAIN PushOrder :
       i < j /\ s[PushOrder[i]] # Never /\ s[PushOrder[j]] # Never =>
         s[PushOrder[i]] <= s[PushOrder[j]]
  /\ g.berachain.prague1.denominator # 0 /\ g.berachain.prague1.distributor
  /\ g.berachain.osaka1 # Never =>
       g.berachain.osaka1.minimumBaseFee # 0 /\ g.berachain.osaka1.minimumBlobBaseFee # 0

(***************************************************************************)
(* From<Genesis> panics on exactly the files that are not acceptable.      *)
(***************************************************************************)
AcceptanceExact ==
  \A n \in Node :
    /\ mode[n] = "panic" => ~Acceptable(loaded[n])
    /\ mode[n] \in {"berachain", "refused"} => Acceptable(loaded[n])

Running == {n \in Node : mode[n] = "berachain"}

ForkIdType == [hash: [genesis: GenesisHashes, forks: Seq(Nat)], next: Nat]

(***************************************************************************)
(* The types of a node's state; what a process holds in memory it holds    *)
(* exactly while it runs.                                                  *)
(***************************************************************************)
TypeOK ==
  /\ file \in [Node -> Genesis]
  /\ mode \in [Node -> {"stopped", "panic", "refused", "ethereum", "berachain"}]
  /\ \A n \in Node :
       /\ loaded[n] = Never <=> mode[n] = "stopped"
       /\ loaded[n] # Never => loaded[n] \in Genesis
       /\ head[n] = Never <=> stored[n] = Never
       /\ n \in Running => /\ head[n] \in Nat /\ loaded[n].timestamp <= head[n]
                           /\ filter[n].head = head[n]
                           /\ stored[n] = GenesisHash(loaded[n])
                           /\ status[n] \in ForkIdType
       /\ n \notin Running => filter[n] = Never /\ status[n] = Never

(***************************************************************************)
(* What a node announces is the identifier fork_id gives its head, however *)
(* it got there: a restart, new heads across fork times or a               *)
(* reorganisation back over them.  Past the last fork it is the latest     *)
(* identifier.                                                             *)
(***************************************************************************)
StatusCurrent ==
  \A n \in Running :
    /\ status[n] = ForkId(loaded[n], head[n])
    /\ (\A i \in DOMAIN ForkTimes(loaded[n]) : ForkTimes(loaded[n])[i] <= head[n]) =>
         status[n] = LatestForkId(loaded[n])

SameGenesis(g, h) ==
  /\ g.timestamp = h.timestamp
  /\ \A f \in {"Prague", "Prague1"} :
       ActiveAt(ScheduleOf(g), f, g.timestamp) <=> ActiveAt(ScheduleOf(h), f, h.timestamp)

ForksUpTo(g, t) == {x \in ToSet(ForkTimes(g)) : g.timestamp < x /\ x <= t}

AgreeUpTo(n, m, t) ==
  /\ SameGenesis(loaded[n], loaded[m])
  /\ ForksUpTo(loaded[n], t) = ForksUpTo(loaded[m], t)

(***************************************************************************)
(* Nodes that agree on the forks up to the later of their heads keep each  *)
(* other as peers, one behind the other or not, one upgraded early or not; *)
(* nodes that have both passed a fork they disagree on do not.  (Between   *)
(* the two lies a fork only one head has reached: an identifier names no   *)
(* more than the next fork.)                                               *)
(***************************************************************************)
PeersAgree ==
  \A n, m \in Running :
    LET peers == Accepts(filter[n], status[m]) /\ Accepts(filter[m], status[n]) IN
    /\ AgreeUpTo(n, m, Max({head[n], head[m]})) => peers
    /\ ~AgreeUpTo(n, m, Min({head[n], head[m]})) => ~peers

(***************************************************************************)
(* eth_config (src/rpc/config.rs): the fork it calls current has the hash  *)
(* the node announces, and the one it calls next is the announced one.     *)
(***************************************************************************)
ConfigAgrees ==
  \A n \in Running :
    LET config == EthConfig(loaded[n], head[n]) IN
    /\ config.current <= head[n]
    /\ ForkId(loaded[n], config.current).hash = status[n].hash
    /\ config.next = status[n].next

(***************************************************************************)
(* "Osaka1 hardfork: Raises the minimum base fee floor": the floor never   *)
(* drops when Osaka1 activates.                                            *)
(***************************************************************************)
Osaka1RaisesFloor ==
  \A n \in Running :
    LET s == ScheduleOf(loaded[n]) IN
    \A t, u \in 0..MaxTime :
      t < u /\ ~IsOsaka1Active(s, t) /\ IsOsaka1Active(s, u) =>
        Fees(loaded[n])!MinimumBaseFee(s, t) <= Fees(loaded[n])!MinimumBaseFee(s, u)
=============================================================================
