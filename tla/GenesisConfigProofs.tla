------------------------- MODULE GenesisConfigProofs -------------------------
(***************************************************************************)
(* What From<Genesis> guarantees of every genesis file it lets through,    *)
(* and of a network of nodes started on such files: which identifier each  *)
(* announces, what eth_config reports, and who keeps whom as a peer.       *)
(*                                                                         *)
(* Fork times are treated as sets and the program's lists as their         *)
(* enumerations: fork_id, the fork filter and eth_config each come to a    *)
(* statement about the forks passed at a head and the one that comes next, *)
(* and the properties follow from comparing those.                         *)
(***************************************************************************)
EXTENDS ForkNetwork, Induction, SequenceTheorems, TLAPS

(***************************************************************************)
(* The chain of comparisons From<Genesis> makes, one fork with the one     *)
(* before it, orders every schedule it lets through as the rest of the     *)
(* node assumes: see Hardforks.                                            *)
(***************************************************************************)
THEOREM AcceptedOrdered ==
  ASSUME NEW g \in Genesis, Load(g) = "berachain"
  PROVE  OrderedSchedule(ScheduleOf(g)) /\ ScheduleOf(g) \in Schedule
<1>1. OrderedSchedule(ScheduleOf(g))
  BY NeverAssumption DEF Load, Parses, ForksInOrder, OsakaPredecessor, OrderedSchedule,
     NotBefore, ScheduleOf, Fork, TimeOf, Genesis, Section, OptionalTime
<1>2. ScheduleOf(g) \in Schedule
  BY NeverAssumption DEF Load, Parses, ScheduleOf, Schedule, Fork, TimeOf, Genesis, Section, OptionalTime
<1>. QED  BY <1>1, <1>2

\* Comparing neighbours is comparing every pair (AcceptanceExact, file by file).
LEMMA LoadExact ==
  ASSUME NEW g \in Genesis, g.berachain # Never
  PROVE  Load(g) = "berachain" <=> Acceptable(g)
<1>. DEFINE s == ScheduleOf(g)
            b == g.berachain
            InOrder(x, y) == x # Never /\ y # Never => x <= y
<1>1. /\ s["Prague"] = g.prague /\ s["Prague1"] = TimeOf(b.prague1)
      /\ s["Prague2"] = TimeOf(b.prague2) /\ s["Prague3"] = b.prague3
      /\ s["Prague4"] = b.prague4 /\ s["Osaka"] = g.osaka /\ s["Osaka1"] = TimeOf(b.osaka1)
  BY DEF ScheduleOf, Fork
<1>2. /\ PushOrder[1] = "Prague" /\ PushOrder[2] = "Prague1" /\ PushOrder[3] = "Prague2"
      /\ PushOrder[4] = "Prague3" /\ PushOrder[5] = "Prague4" /\ PushOrder[6] = "Osaka"
      /\ PushOrder[7] = "Osaka1" /\ DOMAIN PushOrder = 1..7
  BY DEF PushOrder
<1>3. ASSUME Load(g) = "berachain"
      PROVE  Acceptable(g)
  <2>1. \A i, j \in 1..7 : i < j => InOrder(s[PushOrder[i]], s[PushOrder[j]])
    BY <1>1, <1>2, <1>3, NeverAssumption
    DEF Load, Parses, ForksInOrder, OsakaPredecessor, TimeOf, Genesis, Section, OptionalTime
  <2>. QED  BY <1>1, <1>2, <1>3, <2>1, NeverAssumption
            DEF Load, Parses, ForksInOrder, TimeOf, Acceptable, Genesis, Section,
                OptionalTime
<1>4. ASSUME Acceptable(g)
      PROVE  Load(g) = "berachain"
  <2>1. /\ InOrder(s["Prague"], s["Prague1"]) /\ InOrder(s["Prague1"], s["Prague2"])
        /\ InOrder(s["Prague2"], s["Prague3"]) /\ InOrder(s["Prague3"], s["Prague4"])
        /\ InOrder(s["Prague4"], s["Osaka"]) /\ InOrder(s["Prague3"], s["Osaka"])
        /\ InOrder(s["Prague2"], s["Osaka"]) /\ InOrder(s["Osaka"], s["Osaka1"])
    BY <1>2, <1>4 DEF Acceptable
  <2>. QED  BY <1>1, <1>4, <2>1, NeverAssumption
            DEF Load, Parses, ForksInOrder, OsakaPredecessor, TimeOf, Acceptable, Genesis,
                Section, OptionalTime
<1>. QED  BY <1>3, <1>4

Mode == {"stopped", "panic", "refused", "ethereum", "berachain"}

\* What a process remembers of the file it was started on.
LoadedInv ==
  /\ file \in [Node -> Genesis]
  /\ mode \in [Node -> Mode]
  /\ loaded \in [Node -> Genesis \cup {Never}]
  /\ \A n \in Node :
       /\ mode[n] = "panic" =>
            loaded[n] \in Genesis /\ Load(loaded[n]) = "panic"
       /\ mode[n] \in {"berachain", "refused"} =>
            loaded[n] \in Genesis /\ Load(loaded[n]) = "berachain"

\* Every step keeps what the processes remember true of their files.
LEMMA LoadedStep ==
  ASSUME LoadedInv, [Next]_vars
  PROVE  LoadedInv'
<1>1. ASSUME NEW n \in Node, Start(n)
      PROVE  LoadedInv'
  <2>1. file[n] \in Genesis /\ Load(file[n]) \in {"ethereum", "berachain", "panic"}
    BY DEF LoadedInv, Load
  <2>. QED  BY <1>1, <2>1 DEF LoadedInv, Start, Mode
<1>2. ASSUME NEW n \in Node, NewHead(n)
      PROVE  LoadedInv'
  BY <1>2 DEF LoadedInv, NewHead
<1>3. ASSUME NEW n \in Node, Stop(n)
      PROVE  LoadedInv'
  BY <1>3 DEF LoadedInv, Stop, Mode
<1>4. ASSUME NEW n \in Node, Upgrade(n)
      PROVE  LoadedInv'
  BY <1>4 DEF LoadedInv, Upgrade
<1>5. CASE UNCHANGED vars
  BY <1>5 DEF LoadedInv, vars
<1>. QED  BY <1>1, <1>2, <1>3, <1>4, <1>5 DEF Next

(***************************************************************************)
(* Whatever files the nodes are installed with and upgraded to, loading    *)
(* one panics exactly when it is not acceptable.                           *)
(***************************************************************************)
THEOREM AcceptanceCorrect == Spec => []AcceptanceExact
<1>1. Init => LoadedInv
  BY NetworkAssumption DEF Init, LoadedInv, Mode
<1>2. LoadedInv /\ [Next]_vars => LoadedInv'
  BY LoadedStep
<1>3. LoadedInv => AcceptanceExact
  <2>. SUFFICES ASSUME LoadedInv, NEW n \in Node
                PROVE  /\ mode[n] = "panic" => ~Acceptable(loaded[n])
                       /\ mode[n] \in {"berachain", "refused"} => Acceptable(loaded[n])
    BY DEF AcceptanceExact
  <2>1. ASSUME mode[n] = "panic" PROVE ~Acceptable(loaded[n])
    <3>1. loaded[n] \in Genesis /\ Load(loaded[n]) = "panic"
      BY <2>1 DEF LoadedInv
    <3>2. loaded[n].berachain # Never
      BY <3>1 DEF Load
    <3>. QED  BY <3>1, <3>2, LoadExact
  <2>2. ASSUME mode[n] \in {"berachain", "refused"} PROVE Acceptable(loaded[n])
    <3>1. loaded[n] \in Genesis /\ Load(loaded[n]) = "berachain"
      BY <2>2 DEF LoadedInv
    <3>2. loaded[n].berachain # Never
      BY <3>1 DEF Load
    <3>. QED  BY <3>1, <3>2, LoadExact
  <2>. QED  BY <2>1, <2>2
<1>. QED  BY <1>1, <1>2, <1>3, PTL DEF Spec

-----------------------------------------------------------------------------
(* Sets of times as lists *)

\* e lists the times of S in order, each once.
Enumerates(e, S) ==
  /\ e \in Seq(Nat)
  /\ \A i, j \in 1..Len(e) : i < j => e[i] < e[j]
  /\ S = {e[i] : i \in 1..Len(e)}

\* What it is to be such a list, element by element.
LEMMA EnumerationIs ==
  ASSUME NEW S, NEW e, Enumerates(e, S)
  PROVE  /\ e \in Seq(Nat) /\ Len(e) \in Nat
         /\ \A i \in 1..Len(e) : e[i] \in Nat /\ e[i] \in S
         /\ \A i, j \in 1..Len(e) : i < j => e[i] < e[j]
         /\ \A x \in S : x \in Nat /\ \E i \in 1..Len(e) : x = e[i]
<1>1. e \in Seq(Nat) /\ Len(e) \in Nat
  BY DEF Enumerates
<1>2. \A i \in 1..Len(e) : e[i] \in Nat
  BY <1>1
<1>. QED  BY <1>1, <1>2 DEF Enumerates

\* Two lists of the same times agree where the first has an element.
LEMMA EnumerationPrefix ==
  ASSUME NEW S, NEW e, Enumerates(e, S), NEW f, Enumerates(f, S)
  PROVE  \A i \in 1..Len(e) : i \in 1..Len(f) /\ e[i] = f[i]
<1>. DEFINE Bad == {i \in 1..Len(e) : ~(i \in 1..Len(f) /\ e[i] = f[i])}
<1>1. /\ Len(e) \in Nat /\ Len(f) \in Nat
      /\ \A i \in 1..Len(e) : e[i] \in Nat
      /\ \A i \in 1..Len(f) : f[i] \in Nat
      /\ \A i, j \in 1..Len(e) : i < j => e[i] < e[j]
      /\ \A i, j \in 1..Len(f) : i < j => f[i] < f[j]
  BY EnumerationIs
<1>1a. /\ \A i \in 1..Len(e) : \E j \in 1..Len(f) : e[i] = f[j]
       /\ \A j \in 1..Len(f) : \E i \in 1..Len(e) : e[i] = f[j]
  <2>1. \A i \in 1..Len(e) : \E j \in 1..Len(f) : e[i] = f[j]
    <3>1. \A i \in 1..Len(e) : e[i] \in S
      BY EnumerationIs
    <3>2. \A x \in S : \E i \in 1..Len(f) : x = f[i]
      BY EnumerationIs
    <3>. QED  BY <3>1, <3>2
  <2>2. \A j \in 1..Len(f) : \E i \in 1..Len(e) : e[i] = f[j]
    <3>1. \A i \in 1..Len(f) : f[i] \in S
      BY EnumerationIs
    <3>2. \A x \in S : \E i \in 1..Len(e) : x = e[i]
      BY EnumerationIs
    <3>. QED  BY <3>1, <3>2
  <2>. QED  BY <2>1, <2>2
<1>. SUFFICES ASSUME Bad # {} PROVE FALSE
  OBVIOUS
<1>2. PICK i \in Bad : \A k \in Bad : i <= k
  <2>1. Bad \in SUBSET Nat
    OBVIOUS
  <2>. HIDE DEF Bad
  <2>. QED  BY <2>1, LeastElement
<1>3. i \in 1..Len(e) /\ \A k \in 1..(i - 1) : k \in 1..Len(e) /\ k \in 1..Len(f) /\ e[k] = f[k]
  <2>1. i \in 1..Len(e)
    OBVIOUS
  <2>. SUFFICES ASSUME NEW k \in 1..(i - 1)
                PROVE  k \in 1..Len(e) /\ k \in 1..Len(f) /\ e[k] = f[k]
    BY <2>1
  <2>2. k \in 1..Len(e) /\ ~(i <= k)
    BY <1>1, <2>1
  <2>. QED  BY <1>2, <2>2
<1>4. PICK j \in 1..Len(f) : e[i] = f[j]
  BY <1>1a, <1>3
<1>4a. i \in Nat /\ j \in Nat
  BY <1>1, <1>3
<1>. HIDE DEF Bad
<1>5. ~(j < i)
  <2>. SUFFICES ASSUME j < i PROVE FALSE
    OBVIOUS
  <2>1. j \in 1..(i - 1)
    BY <1>1, <1>3
  <2>2. e[j] = f[j] /\ e[j] < e[i] /\ e[i] \in Nat
    BY <1>1, <1>3, <2>1
  <2>. QED  BY <1>4, <2>2
<1>6. i \in 1..Len(f) /\ f[i] <= f[j]
  <2>1. i \in 1..Len(f) /\ (i < j \/ i = j)
    BY <1>1, <1>3, <1>4a, <1>5
  <2>2. f[i] \in Nat /\ f[j] \in Nat
    BY <1>1, <2>1
  <2>. QED  BY <1>1, <2>1, <2>2
<1>7. PICK m \in 1..Len(e) : e[m] = f[i]
  BY <1>1a, <1>6
<1>7a. m \in Nat /\ e[i] \in Nat /\ e[m] \in Nat /\ f[i] \in Nat /\ f[j] \in Nat
  BY <1>1, <1>3, <1>6
<1>8. ~(m < i)
  <2>. SUFFICES ASSUME m < i PROVE FALSE
    OBVIOUS
  <2>1. m \in 1..(i - 1)
    BY <1>1, <1>3
  <2>2. e[m] = f[m] /\ f[m] < f[i] /\ f[i] \in Nat
    BY <1>1, <1>3, <1>6, <2>1
  <2>. QED  BY <1>7, <2>2
<1>9. e[i] <= e[m]
  <2>1. i < m \/ i = m
    BY <1>1, <1>3, <1>4a, <1>7a, <1>8
  <2>. QED  BY <1>1, <1>3, <1>7a, <2>1
<1>10. e[i] = f[i]
  BY <1>4, <1>6, <1>7, <1>7a, <1>9
<1>. QED  BY <1>2, <1>6, <1>10 DEF Bad

\* A set of times has one list only.
LEMMA EnumerationUnique ==
  ASSUME NEW S, NEW e, Enumerates(e, S), NEW f, Enumerates(f, S)
  PROVE  e = f
<1>1. \A i \in 1..Len(e) : i \in 1..Len(f) /\ e[i] = f[i]
  BY EnumerationPrefix
<1>2. \A i \in 1..Len(f) : i \in 1..Len(e)
  BY EnumerationPrefix
<1>3. e \in Seq(Nat) /\ f \in Seq(Nat)
  BY DEF Enumerates
<1>4. Len(e) = Len(f)
  <2>1. Len(e) \in Nat /\ Len(f) \in Nat
    BY <1>3
  <2>2. Len(e) <= Len(f)
    BY <1>1, <2>1
  <2>3. Len(f) <= Len(e)
    BY <1>2, <2>1
  <2>. QED  BY <2>1, <2>2, <2>3
<1>. QED  BY <1>1, <1>3, <1>4, SeqEqual

\* The list grows at its end by what is later than everything in it.
LEMMA EnumerationAppend ==
  ASSUME NEW S, NEW e, Enumerates(e, S), NEW t \in Nat, \A x \in S : x < t
  PROVE  Enumerates(Append(e, t), S \cup {t})
<1>. DEFINE f == Append(e, t)
<1>1. /\ e \in Seq(Nat) /\ Len(e) \in Nat /\ f \in Seq(Nat) /\ Len(f) = Len(e) + 1
      /\ \A i \in 1..Len(e) : f[i] = e[i]
      /\ f[Len(e) + 1] = t
  BY DEF Enumerates
<1>2. /\ \A i \in 1..Len(e) : e[i] \in S /\ e[i] \in Nat
      /\ \A x \in S : \E i \in 1..Len(e) : x = e[i]
      /\ \A i, j \in 1..Len(e) : i < j => e[i] < e[j]
  BY DEF Enumerates
<1>. HIDE DEF f
<1>3. \A i \in 1..Len(f) : i \in 1..Len(e) \/ i = Len(e) + 1
  BY <1>1
<1>4. ASSUME NEW i \in 1..Len(f), NEW j \in 1..Len(f), i < j PROVE f[i] < f[j]
  <2>1. i \in 1..Len(e)
    BY <1>1, <1>4
  <2>. QED  BY <1>1, <1>2, <1>3, <1>4, <2>1
<1>5. S \cup {t} = {f[i] : i \in 1..Len(f)}
  <2>1. \A i \in 1..Len(e) : i \in 1..Len(f)
    BY <1>1
  <2>2. Len(e) + 1 \in 1..Len(f)
    BY <1>1
  <2>3. ASSUME NEW x \in S PROVE x \in {f[i] : i \in 1..Len(f)}
    <3>1. PICK i \in 1..Len(e) : x = e[i]
      BY <1>2
    <3>. QED  BY <1>1, <2>1, <3>1
  <2>4. t \in {f[i] : i \in 1..Len(f)}
    BY <1>1, <2>2
  <2>5. ASSUME NEW i \in 1..Len(f) PROVE f[i] \in S \cup {t}
    BY <1>1, <1>2, <1>3
  <2>. QED  BY <2>3, <2>4, <2>5
<1>6. Enumerates(f, S \cup {t})
  BY <1>1, <1>4, <1>5 DEF Enumerates
<1>. QED  BY <1>6 DEF f

\* Every bounded set of times has a list.
LEMMA EnumerationExists ==
  ASSUME NEW n \in Nat, NEW S \in SUBSET (0..n)
  PROVE  \E e : Enumerates(e, S)
<1>. DEFINE T == {k \in 0..n : \A R \in SUBSET (0..k) : \E e : Enumerates(e, R)}
<1>0. Enumerates(<<>>, {})
  BY DEF Enumerates
<1>1. 0 \in T
  <2>. SUFFICES ASSUME NEW R \in SUBSET (0..0) PROVE \E e : Enumerates(e, R)
    OBVIOUS
  <2>1. R = {} \/ R = {} \cup {0}
    <3>1. \A x \in R : x = 0
      OBVIOUS
    <3>. QED  BY <3>1
  <2>2. Enumerates(Append(<<>>, 0), {} \cup {0})
    <3>. DEFINE none == {}
    <3>1. \A x \in none : x < 0
      OBVIOUS
    <3>. HIDE DEF none
    <3>2. Enumerates(Append(<<>>, 0), none \cup {0})
      BY <1>0, <3>1, EnumerationAppend DEF none
    <3>. QED  BY <3>2 DEF none
  <2>. QED  BY <1>0, <2>1, <2>2
<1>2. \A k \in 0..(n - 1) : k \in T => k + 1 \in T
  <2>. SUFFICES ASSUME NEW k \in 0..(n - 1), k \in T, NEW R \in SUBSET (0..(k + 1))
                PROVE  \E e : Enumerates(e, R)
    OBVIOUS
  <2>. DEFINE top == k + 1
  <2>1. R \ {top} \in SUBSET (0..k) /\ top \in Nat /\ \A x \in R \ {top} : x < top
    OBVIOUS
  <2>. HIDE DEF top
  <2>2. PICK e : Enumerates(e, R \ {top})
    BY <2>1
  <2>3. CASE top \in R
    <3>1. Enumerates(Append(e, top), (R \ {top}) \cup {top})
      BY <2>1, <2>2, EnumerationAppend
    <3>2. (R \ {top}) \cup {top} = R
      BY <2>3
    <3>. QED  BY <3>1, <3>2
  <2>4. CASE top \notin R
    <3>1. R \ {top} = R
      BY <2>4
    <3>. QED  BY <2>2, <3>1
  <2>. QED  BY <2>3, <2>4
<1>3. n \in T
  <2>. HIDE DEF T
  <2>1. 0..n \subseteq T
    BY <1>1, <1>2, IntervalInduction
  <2>. QED  BY <2>1
<1>. QED  BY <1>3

\* What the first k elements of a list come to.
Firsts(e, k) == {e[i] : i \in 1..k}

\* The elements are distinct, so the first k of them are k.
LEMMA FirstsCounted ==
  ASSUME NEW S, NEW e, Enumerates(e, S), NEW k \in 0..Len(e)
  PROVE  IsFiniteSet(Firsts(e, k)) /\ Cardinality(Firsts(e, k)) = k
<1>. DEFINE n == Len(e)
            T == {i \in 0..n : IsFiniteSet(Firsts(e, i)) /\ Cardinality(Firsts(e, i)) = i}
<1>1. n \in Nat /\ \A i, j \in 1..n : i < j => e[i] < e[j] /\ e[i] \in Nat /\ e[j] \in Nat
  BY EnumerationIs
<1>2. 0 \in T
  <2>1. Firsts(e, 0) = {}
    BY DEF Firsts
  <2>. QED  BY <1>1, <2>1, FS_EmptySet
<1>3. \A i \in 0..(n - 1) : i \in T => i + 1 \in T
  <2>. SUFFICES ASSUME NEW i \in 0..(n - 1), i \in T PROVE i + 1 \in T
    OBVIOUS
  <2>. DEFINE x == e[i + 1]
  <2>1. i + 1 \in 0..n /\ i + 1 \in 1..n /\ i \in Nat
    BY <1>1
  <2>2. Firsts(e, i + 1) = Firsts(e, i) \cup {x}
    <3>1. \A j \in 1..(i + 1) : j \in 1..i \/ j = i + 1
      BY <2>1
    <3>2. 1..i \subseteq 1..(i + 1) /\ i + 1 \in 1..(i + 1)
      BY <2>1
    <3>. QED  BY <3>1, <3>2 DEF Firsts
  <2>3. x \notin Firsts(e, i)
    <3>1. \A j \in 1..i : j \in 1..n /\ j < i + 1
      BY <1>1, <2>1
    <3>2. \A j \in 1..i : e[j] < x /\ e[j] \in Nat /\ x \in Nat
      BY <1>1, <2>1, <3>1
    <3>3. \A j \in 1..i : e[j] # x
      <4>. HIDE DEF x
      <4>. QED  BY <3>2
    <3>. QED  BY <3>3 DEF Firsts
  <2>4. IsFiniteSet(Firsts(e, i)) /\ Cardinality(Firsts(e, i)) = i
    OBVIOUS
  <2>. HIDE DEF x
  <2>5. IsFiniteSet(Firsts(e, i) \cup {x}) /\ Cardinality(Firsts(e, i) \cup {x}) = i + 1
    BY <2>3, <2>4, FS_AddElement
  <2>. QED  BY <2>1, <2>2, <2>5
<1>4. k \in T
  <2>. HIDE DEF T, n
  <2>1. 0..n \subseteq T
    BY <1>1, <1>2, <1>3, IntervalInduction
  <2>. QED  BY <2>1 DEF n
<1>. QED  BY <1>4

\* Before an element come those at the positions before its own.
LEMMA FirstsBelow ==
  ASSUME NEW S, NEW e, Enumerates(e, S), NEW i \in 1..Len(e)
  PROVE  {y \in S : y < e[i]} = Firsts(e, i - 1)
<1>1. /\ Len(e) \in Nat
      /\ \A j \in 1..Len(e) : e[j] \in Nat /\ e[j] \in S
      /\ \A j, k \in 1..Len(e) : j < k => e[j] < e[k]
      /\ \A x \in S : x \in Nat /\ \E j \in 1..Len(e) : x = e[j]
  BY EnumerationIs
<1>2. ASSUME NEW y \in S, y < e[i] PROVE y \in Firsts(e, i - 1)
  <2>1. PICK j \in 1..Len(e) : y = e[j]
    BY <1>1
  <2>2. j \in Nat /\ i \in Nat /\ e[i] \in Nat /\ e[j] \in Nat /\ e[j] < e[i]
    BY <1>1, <1>2, <2>1
  <2>3. ~(i < j) /\ i # j
    <3>1. i < j => e[i] < e[j]
      BY <1>1
    <3>. QED  BY <2>2, <3>1
  <2>4. j \in 1..(i - 1)
    BY <2>2, <2>3
  <2>. QED  BY <2>1, <2>4 DEF Firsts
<1>3. ASSUME NEW j \in 1..(i - 1) PROVE e[j] \in S /\ e[j] < e[i]
  <2>1. j \in 1..Len(e) /\ j < i
    BY <1>1
  <2>. QED  BY <1>1, <2>1
<1>. QED  BY <1>2, <1>3 DEF Firsts

\* Ordered is the list of its set.
LEMMA OrderedIs ==
  ASSUME NEW S, NEW e, Enumerates(e, S)
  PROVE  Ordered(S) = e
<1>1. /\ e \in Seq(Nat) /\ Len(e) \in Nat
      /\ \A j \in 1..Len(e) : e[j] \in Nat /\ e[j] \in S
      /\ \A x \in S : \E j \in 1..Len(e) : x = e[j]
  BY EnumerationIs
<1>2. Cardinality(S) = Len(e)
  <2>1. S = Firsts(e, Len(e)) /\ Len(e) \in 0..Len(e)
    BY <1>1 DEF Enumerates, Firsts
  <2>. QED  BY <2>1, FirstsCounted
<1>3. \A j \in 1..Len(e) : Cardinality({y \in S : y < e[j]}) = j - 1
  <2>. SUFFICES ASSUME NEW j \in 1..Len(e) PROVE Cardinality({y \in S : y < e[j]}) = j - 1
    OBVIOUS
  <2>1. j - 1 \in 0..Len(e)
    BY <1>1
  <2>2. {y \in S : y < e[j]} = Firsts(e, j - 1)
    BY FirstsBelow
  <2>. DEFINE k == j - 1
  <2>3. k \in 0..Len(e) => Cardinality(Firsts(e, k)) = k
    <3>. HIDE DEF k
    <3>. QED  BY FirstsCounted
  <2>. QED  BY <2>1, <2>2, <2>3
<1>4. ASSUME NEW i \in 1..Len(e)
      PROVE  (CHOOSE x \in S : Cardinality({y \in S : y < x}) = i - 1) = e[i]
  <2>1. e[i] \in S /\ Cardinality({y \in S : y < e[i]}) = i - 1
    BY <1>1, <1>3
  <2>. DEFINE c == CHOOSE x \in S : Cardinality({y \in S : y < x}) = i - 1
  <2>2. c \in S /\ Cardinality({y \in S : y < c}) = i - 1
    BY <2>1
  <2>. HIDE DEF c
  <2>3. PICK j \in 1..Len(e) : c = e[j]
    BY <1>1, <2>2
  <2>4. j - 1 = i - 1 /\ i \in Nat /\ j \in Nat
    <3>1. i \in Nat /\ j \in Nat
      BY <1>1
    <3>2. Cardinality({y \in S : y < e[j]}) = j - 1
      BY <1>3
    <3>. QED  BY ONLY <2>2, <2>3, <3>1, <3>2
  <2>5. i = j
    BY <2>4
  <2>. QED  BY <2>3, <2>5 DEF c
<1>5. Ordered(S) = [i \in 1..Len(e) |-> e[i]]
  BY <1>2, <1>4 DEF Ordered
<1>6. e = [i \in 1..Len(e) |-> e[i]]
  BY <1>1
<1>. QED  BY <1>5, <1>6

-----------------------------------------------------------------------------
(* The list of forks *)

\* One fork pushed to the list, if it is configured.
Pushed(g, times, f) ==
  IF ScheduleOf(g)[f] = Never THEN times ELSE Append(times, ScheduleOf(g)[f])

\* ForkTimes' fold over the positions of PushOrder.
TimesUnrolled(iter, g, order) ==
  iter = [s \in SUBSET DOMAIN order |->
            IF s = {} THEN <<0, 0>>
            ELSE Pushed(g, iter[s \ {Greatest(s)}], order[Greatest(s)])]

\* The fold of the list of forks, as the recursive function it stands for.
LEMMA ForkTimesUnrolled ==
  ASSUME NEW g
  PROVE  ForkTimes(g) = (CHOOSE iter : TimesUnrolled(iter, g, PushOrder))[DOMAIN PushOrder]
BY DEF ForkTimes, FoldLeft, MapThenFoldSet, TimesUnrolled, Pushed, Greatest, Max

\* ForkTimes pushes the forks one after the other.
LEMMA ForkTimesIs ==
  ASSUME NEW g, ScheduleOf(g) \in Schedule
  PROVE  \E f : /\ f[0] = <<0, 0>>
                /\ \A i \in 1..7 : f[i] = Pushed(g, f[i - 1], PushOrder[i])
                /\ ForkTimes(g) = f[7]
<1>. DEFINE n == 7
            order == PushOrder
            D == Seq(Nat)
            start == <<0, 0>>
            step == [i \in 1..n |-> [r \in D |-> Pushed(g, r, order[i])]]
<1>1. n \in Nat /\ DOMAIN order = 1..n /\ \A i \in 1..n : order[i] \in Fork
  BY DEF PushOrder, Fork
<1>2. start \in D
  OBVIOUS
<1>. HIDE DEF n, order
<1>3. \A i \in 1..n : \A r \in D : Pushed(g, r, order[i]) \in D
  <2>. SUFFICES ASSUME NEW i \in 1..n, NEW r \in D PROVE Pushed(g, r, order[i]) \in D
    OBVIOUS
  <2>1. ScheduleOf(g)[order[i]] \in Nat \cup {Never}
    BY <1>1 DEF Schedule
  <2>. QED  BY <2>1 DEF Pushed
<1>4. step \in [1..n -> [D -> D]]
  <2>. HIDE DEF D
  <2>. QED  BY <1>3
<1>5. \A i \in 1..n : \A r \in D : step[i][r] = Pushed(g, r, order[i])
  OBVIOUS
<1>. HIDE DEF D, start, step
<1>6. PICK h : Folds(h, n, D, start, step)
  BY <1>1, <1>2, <1>4, FoldExists
<1>7. TimesUnrolled(h, g, order)
  <2>1. ASSUME NEW s \in SUBSET (1..n)
        PROVE  h[s] = IF s = {} THEN start
                      ELSE Pushed(g, h[s \ {Greatest(s)}], order[Greatest(s)])
    <3>1. CASE s = {}
      BY <1>6, <3>1 DEF Folds
    <3>2. CASE s # {}
      <4>1. Greatest(s) \in 1..n
        BY <1>1, <3>2, GreatestIs
      <4>2. s \ {Greatest(s)} \in SUBSET (1..n)
        OBVIOUS
      <4>3. /\ h[s \ {Greatest(s)}] \in D
            /\ h[s] = step[Greatest(s)][h[s \ {Greatest(s)}]]
        BY <1>6, <2>1, <3>2, <4>2 DEF Folds
      <4>. QED  BY <1>5, <3>2, <4>1, <4>3
    <3>. QED  BY <3>1, <3>2
  <2>2. h = [s \in SUBSET (1..n) |-> h[s]]
    BY <1>6 DEF Folds
  <2>3. [s \in SUBSET (1..n) |-> h[s]] =
          [s \in SUBSET (1..n) |-> IF s = {} THEN start
             ELSE Pushed(g, h[s \ {Greatest(s)}], order[Greatest(s)])]
    BY <2>1, Zenon
  <2>. QED  BY <1>1, <2>2, <2>3, Zenon DEF TimesUnrolled, start
<1>8. PICK k : TimesUnrolled(k, g, order) /\ ForkTimes(g) = k[1..n]
  BY <1>1, <1>7, ForkTimesUnrolled, Zenon DEF order
<1>9. \A s \in SUBSET (1..n) :
        k[s] = IF s = {} THEN start ELSE Pushed(g, k[s \ {Greatest(s)}], order[Greatest(s)])
  <2>1. k = [s \in SUBSET (1..n) |-> IF s = {} THEN start
               ELSE Pushed(g, k[s \ {Greatest(s)}], order[Greatest(s)])]
    BY <1>1, <1>8, Zenon DEF TimesUnrolled, start
  <2>. QED  BY <2>1, Zenon
<1>. DEFINE f == [i \in 0..n |-> k[1..i]]
<1>10. f[0] = start
  <2>1. 1..0 = {} /\ {} \in SUBSET (1..n) /\ 0 \in 0..n
    BY <1>1
  <2>2. f[0] = k[{}]
    BY <2>1
  <2>. HIDE DEF f
  <2>. QED  BY <1>9, <2>1, <2>2, Zenon
<1>11. ASSUME NEW i \in 1..n
       PROVE  f[i] = Pushed(g, f[i - 1], order[i])
  <2>1. /\ Greatest(1..i) = i
        /\ 1..i \in SUBSET (1..n) /\ 1..i # {} /\ (1..i) \ {i} = 1..(i - 1)
        /\ i \in 0..n /\ i - 1 \in 0..n
    BY <1>1, IntervalUnfolds
  <2>2. k[1..i] = Pushed(g, k[(1..i) \ {Greatest(1..i)}], order[Greatest(1..i)])
    BY <1>9, <2>1, Zenon
  <2>3. k[1..i] = Pushed(g, k[1..(i - 1)], order[i])
    BY <2>1, <2>2
  <2>4. f[i] = k[1..i] /\ f[i - 1] = k[1..(i - 1)]
    BY <2>1
  <2>. HIDE DEF f
  <2>. QED  BY <2>3, <2>4
<1>12. ForkTimes(g) = f[n]
  <2>1. n \in 0..n
    BY <1>1
  <2>. QED  BY <1>8, <2>1
<1>. HIDE DEF f
<1>13. /\ f[0] = <<0, 0>>
       /\ \A i \in 1..7 : f[i] = Pushed(g, f[i - 1], PushOrder[i])
       /\ ForkTimes(g) = f[7]
  BY <1>10, <1>11, <1>12 DEF n, order, start
<1>. QED  BY <1>13

\* A list of fork times that begins at zero, each no earlier than the last.
InTimeOrder(ts) ==
  /\ ts \in Seq(Nat) /\ 1 <= Len(ts) /\ ts[1] = 0
  /\ \A i, j \in 1..Len(ts) : i < j => ts[i] <= ts[j]

\* No time of the list is after t.
UpTo(ts, t) == \A k \in 1..Len(ts) : ts[k] <= t

\* A time that is not before any of the list keeps it in order.
LEMMA PushedInOrder ==
  ASSUME NEW ts, InTimeOrder(ts), NEW t \in Nat, UpTo(ts, t)
  PROVE  InTimeOrder(Append(ts, t)) /\ \A u \in Nat : t <= u => UpTo(Append(ts, t), u)
<1>. DEFINE us == Append(ts, t)
<1>1. /\ ts \in Seq(Nat) /\ Len(ts) \in Nat /\ 1 <= Len(ts) /\ ts[1] = 0
      /\ us \in Seq(Nat) /\ Len(us) = Len(ts) + 1 /\ us[Len(ts) + 1] = t
      /\ \A k \in 1..Len(ts) : us[k] = ts[k]
  BY DEF InTimeOrder
<1>2. /\ \A k \in 1..Len(ts) : ts[k] \in Nat /\ ts[k] <= t
      /\ \A i, j \in 1..Len(ts) : i < j => ts[i] <= ts[j]
  BY <1>1 DEF InTimeOrder, UpTo
<1>. HIDE DEF us
<1>3. \A k \in 1..Len(us) : k \in 1..Len(ts) \/ k = Len(ts) + 1
  BY <1>1
<1>4. \A k \in 1..Len(us) : us[k] \in Nat /\ us[k] <= t
  BY <1>1, <1>2, <1>3
<1>5. ASSUME NEW i \in 1..Len(us), NEW j \in 1..Len(us), i < j PROVE us[i] <= us[j]
  <2>1. i \in 1..Len(ts)
    BY <1>1, <1>5
  <2>2. CASE j = Len(ts) + 1
    BY <1>1, <1>4, <2>2
  <2>3. CASE j \in 1..Len(ts)
    BY <1>1, <1>2, <1>5, <2>1, <2>3
  <2>. QED  BY <1>3, <2>2, <2>3
<1>6. 1 \in 1..Len(ts) /\ 1 <= Len(us)
  BY <1>1
<1>7. InTimeOrder(us)
  BY <1>1, <1>5, <1>6 DEF InTimeOrder
<1>8. ASSUME NEW u \in Nat, t <= u PROVE UpTo(us, u)
  <2>. SUFFICES ASSUME NEW k \in 1..Len(us) PROVE us[k] <= u
    BY DEF UpTo
  <2>1. us[k] \in Nat /\ us[k] <= t
    BY <1>4
  <2>. QED  BY <1>8, <2>1
<1>. QED  BY <1>7, <1>8 DEF us

\* An accepted file's forks are listed in time order, since they are pushed
\* in the order the loader has compared them in.
LEMMA ForkTimesInOrder ==
  ASSUME NEW g \in Genesis, Load(g) = "berachain"
  PROVE  InTimeOrder(ForkTimes(g))
<1>. DEFINE s == ScheduleOf(g)
            time(i) == s[PushOrder[i]]
            Later(ts, i) == \A j \in 1..7 : i < j /\ time(j) # Never => UpTo(ts, time(j))
<1>1. s \in Schedule /\ Acceptable(g)
  <2>1. g.berachain # Never
    BY DEF Load
  <2>. QED  BY <2>1, AcceptedOrdered, LoadExact
<1>2. \A i \in 1..7 : time(i) \in Nat \cup {Never}
  BY <1>1 DEF PushOrder, Schedule, Fork
<1>3. \A i, j \in 1..7 : i < j /\ time(i) # Never /\ time(j) # Never => time(i) <= time(j)
  <2>1. DOMAIN PushOrder = 1..7
    BY DEF PushOrder
  <2>. QED  BY <1>1, <2>1 DEF Acceptable
<1>4. PICK f : /\ f[0] = <<0, 0>>
               /\ \A i \in 1..7 : f[i] = Pushed(g, f[i - 1], PushOrder[i])
               /\ ForkTimes(g) = f[7]
  BY <1>1, ForkTimesIs
<1>. DEFINE S == {i \in 0..7 : InTimeOrder(f[i]) /\ Later(f[i], i)}
<1>5. 0 \in S
  <2>. DEFINE z == <<0, 0>>
  <2>1. z \in Seq(Nat) /\ Len(z) = 2 /\ \A k \in 1..2 : z[k] = 0
    OBVIOUS
  <2>. HIDE DEF z
  <2>2. InTimeOrder(z)
    BY <2>1 DEF InTimeOrder
  <2>3. \A t \in Nat : UpTo(z, t)
    BY <2>1 DEF UpTo
  <2>4. Later(z, 0)
    <3>. HIDE DEF time
    <3>. QED  BY <1>2, <2>3
  <2>. QED  BY <1>4, <2>2, <2>4 DEF z
<1>6. \A i \in 0..6 : i \in S => i + 1 \in S
  <2>. SUFFICES ASSUME NEW i \in 0..6, i \in S PROVE i + 1 \in S
    OBVIOUS
  <2>. DEFINE p == i + 1
              ts == f[i]
  <2>0. p \in 1..7 /\ p \in 0..7 /\ p - 1 = i /\ i \in Nat /\ \A j \in 1..7 : p < j => i < j
    OBVIOUS
  <2>1. InTimeOrder(ts) /\ Later(ts, i)
    OBVIOUS
  <2>2. f[p] = Pushed(g, ts, PushOrder[p])
    BY <1>4, <2>0
  <2>. HIDE DEF p, ts
  <2>3. CASE time(p) = Never
    <3>1. f[p] = ts
      BY <2>2, <2>3 DEF Pushed
    <3>2. Later(ts, p)
      <4>. HIDE DEF time
      <4>. QED  BY <2>0, <2>1
    <3>. HIDE DEF Later
    <3>. QED  BY <2>0, <2>1, <3>1, <3>2 DEF p
  <2>4. CASE time(p) # Never
    <3>1. f[p] = Append(ts, time(p))
      BY <2>2, <2>4 DEF Pushed
    <3>. HIDE DEF time, s
    <3>2. time(p) \in Nat /\ i < p
      BY <1>2, <2>0, <2>4 DEF p
    <3>3. UpTo(ts, time(p))
      BY <2>0, <2>1, <2>4, <3>2
    <3>4. /\ InTimeOrder(Append(ts, time(p)))
          /\ \A u \in Nat : time(p) <= u => UpTo(Append(ts, time(p)), u)
      BY <2>1, <3>2, <3>3, PushedInOrder
    <3>5. Later(Append(ts, time(p)), p)
      <4>. SUFFICES ASSUME NEW j \in 1..7, p < j, time(j) # Never
                    PROVE  UpTo(Append(ts, time(p)), time(j))
        OBVIOUS
      <4>1. time(j) \in Nat /\ time(p) <= time(j)
        BY <1>2, <1>3, <2>0, <2>4
      <4>. QED  BY <3>4, <4>1
    <3>. HIDE DEF Later
    <3>. QED  BY <2>0, <3>1, <3>4, <3>5 DEF p
  <2>. QED  BY <2>3, <2>4
<1>7. 7 \in S
  <2>. HIDE DEF S
  <2>1. 0..7 \subseteq S
    <3>. DEFINE n == 7
    <3>1. n \in Nat /\ n - 1 = 6
      OBVIOUS
    <3>. HIDE DEF n
    <3>2. 0..n \subseteq S
      BY <1>5, <1>6, <3>1, IntervalInduction
    <3>. QED  BY <3>2 DEF n
  <2>. QED  BY <2>1
<1>. QED  BY <1>4, <1>7

\* The last fork of the list is the latest.
LEMMA LastTimeIs ==
  ASSUME NEW ts, InTimeOrder(ts)
  PROVE  /\ Len(ts) \in Nat /\ Len(ts) \in 1..Len(ts) /\ DOMAIN ts = 1..Len(ts)
         /\ \A i \in 1..Len(ts) : ts[i] \in Nat /\ ts[i] <= ts[Len(ts)]
<1>1. Len(ts) \in Nat /\ Len(ts) \in 1..Len(ts) /\ DOMAIN ts = 1..Len(ts)
      /\ \A i \in 1..Len(ts) : ts[i] \in Nat
  BY DEF InTimeOrder
<1>. DEFINE n == Len(ts)
<1>2. /\ n \in Nat /\ n \in 1..n
      /\ \A i \in 1..n : ts[i] \in Nat
      /\ \A i, j \in 1..n : i < j => ts[i] <= ts[j]
  BY <1>1 DEF InTimeOrder
<1>. HIDE DEF n
<1>3. ASSUME NEW i \in 1..n PROVE ts[i] <= ts[n]
  <2>1. i < n \/ i = n
    BY <1>2
  <2>. QED  BY <1>2, <2>1
<1>. QED  BY <1>1, <1>3 DEF n

-----------------------------------------------------------------------------
(* Fork identifiers *)

\* What the walk makes of the identifier at one more fork time.
Walked(g, head_, id, t) ==
  LET forks   == id.hash.forks
      applied == IF forks = <<>> THEN 0 ELSE Last(forks)
  IN  CASE id.next # 0 \/ t <= g.timestamp -> id
        [] id.next = 0 /\ t > g.timestamp /\ head_ < t -> [id EXCEPT !.next = t]
        [] OTHER -> IF t = applied THEN id
                    ELSE [id EXCEPT !.hash.forks = Append(forks, t)]

\* An identifier put together, and those of one genesis hash.
IdOf(genesis, forks, next) == [hash |-> [genesis |-> genesis, forks |-> forks], next |-> next]

Ids(genesis) == [hash: [genesis: {genesis}, forks: Seq(Nat)], next: Nat]

\* The walk, case by case.
LEMMA WalkedIs ==
  ASSUME NEW g, g.timestamp \in Nat, NEW u \in Nat, NEW gh, NEW e \in Seq(Nat), NEW x \in Nat,
         NEW t \in Nat
  PROVE  Walked(g, u, IdOf(gh, e, x), t) =
           IF x # 0 \/ t <= g.timestamp THEN IdOf(gh, e, x)
           ELSE IF u < t THEN IdOf(gh, e, t)
           ELSE IF t = (IF e = <<>> THEN 0 ELSE e[Len(e)]) THEN IdOf(gh, e, x)
           ELSE IdOf(gh, Append(e, t), x)
<1>. DEFINE id == IdOf(gh, e, x)
            applied == IF e = <<>> THEN 0 ELSE e[Len(e)]
<1>1. id.next = x /\ id.hash.forks = e /\ id.hash.genesis = gh
  BY DEF IdOf
<1>2. Walked(g, u, id, t) =
        CASE x # 0 \/ t <= g.timestamp -> id
          [] x = 0 /\ t > g.timestamp /\ u < t -> [id EXCEPT !.next = t]
          [] OTHER -> IF t = applied THEN id
                      ELSE [id EXCEPT !.hash.forks = Append(e, t)]
  <2>. HIDE DEF id
  <2>. QED  BY <1>1 DEF Walked, Last
<1>3. /\ [id EXCEPT !.next = t] = IdOf(gh, e, t)
      /\ [id EXCEPT !.hash.forks = Append(e, t)] = IdOf(gh, Append(e, t), x)
  <2>1. [id EXCEPT !.next = t] = IdOf(gh, e, t)
    BY DEF IdOf
  <2>. DEFINE hash == [genesis |-> gh, forks |-> e]
  <2>2. \A y : [hash EXCEPT !.forks = y] = [genesis |-> gh, forks |-> y]
    OBVIOUS
  <2>3. id = [hash |-> hash, next |-> x]
    BY DEF IdOf
  <2>. HIDE DEF hash, id
  <2>4. id.hash = hash /\ id.next = x
    BY <2>3
  <2>5. \A y : [id EXCEPT !.hash.forks = y] = [hash |-> [hash EXCEPT !.forks = y], next |-> x]
    BY <2>3
  <2>. QED  BY <2>1, <2>2, <2>5 DEF IdOf
<1>. HIDE DEF id, applied
<1>4. Walked(g, u, id, t) =
        IF x # 0 \/ t <= g.timestamp THEN id
        ELSE IF u < t THEN IdOf(gh, e, t)
        ELSE IF t = applied THEN id ELSE IdOf(gh, Append(e, t), x)
  <2>1. CASE x # 0 \/ t <= g.timestamp
    BY <1>2, <2>1
  <2>2. CASE ~(x # 0 \/ t <= g.timestamp) /\ u < t
    BY <1>2, <1>3, <2>2
  <2>3. CASE ~(x # 0 \/ t <= g.timestamp) /\ ~(u < t)
    BY <1>2, <1>3, <2>3
  <2>. QED  BY <2>1, <2>2, <2>3
<1>. QED  BY <1>4 DEF id, applied

\* The walk yields identifiers of the same genesis hash.
LEMMA WalkedType ==
  ASSUME NEW g, g.timestamp \in Nat, NEW u \in Nat, NEW gh, NEW id \in Ids(gh), NEW t \in Nat
  PROVE  Walked(g, u, id, t) \in Ids(gh)
<1>. DEFINE e == id.hash.forks
            x == id.next
<1>1. e \in Seq(Nat) /\ x \in Nat /\ id = IdOf(gh, e, x)
  BY DEF Ids, IdOf
<1>2. \A y \in Nat : \A d \in Seq(Nat) : IdOf(gh, d, y) \in Ids(gh)
  BY DEF Ids, IdOf
<1>. HIDE DEF e, x
<1>3. Append(e, t) \in Seq(Nat)
  BY <1>1
<1>4. Walked(g, u, IdOf(gh, e, x), t) \in Ids(gh)
  <2>. DEFINE w == Walked(g, u, IdOf(gh, e, x), t)
  <2>1. w = IdOf(gh, e, x) \/ w = IdOf(gh, e, t) \/ w = IdOf(gh, Append(e, t), x)
    BY <1>1, WalkedIs
  <2>. HIDE DEF w
  <2>2. w \in Ids(gh)
    BY <1>1, <1>2, <1>3, <2>1
  <2>. QED  BY <2>2 DEF w
<1>. QED  BY <1>1, <1>4

\* ForkId's fold over the positions of the list of forks.
IdUnrolled(iter, g, u, ts) ==
  iter = [s \in SUBSET DOMAIN ts |->
            IF s = {} THEN IdOf(GenesisHash(g), <<>>, 0)
            ELSE Walked(g, u, iter[s \ {Greatest(s)}], ts[Greatest(s)])]

\* The fold of fork_id, as the recursive function it stands for.
LEMMA ForkIdUnrolled ==
  ASSUME NEW g, NEW u
  PROVE  ForkId(g, u) = (CHOOSE iter : IdUnrolled(iter, g, u, ForkTimes(g)))[DOMAIN ForkTimes(g)]
BY DEF ForkId, FoldLeft, MapThenFoldSet, IdUnrolled, Walked, IdOf, Greatest, Max

\* ForkId walks the list one fork after the other.
LEMMA ForkIdIs ==
  ASSUME NEW g, g.timestamp \in Nat, NEW u \in Nat, ForkTimes(g) \in Seq(Nat)
  PROVE  \E f : /\ f[0] = IdOf(GenesisHash(g), <<>>, 0)
                /\ \A i \in 1..Len(ForkTimes(g)) : f[i] = Walked(g, u, f[i - 1], ForkTimes(g)[i])
                /\ ForkId(g, u) = f[Len(ForkTimes(g))]
<1>. DEFINE ts == ForkTimes(g)
            n == Len(ts)
            gh == GenesisHash(g)
            D == Ids(gh)
            start == IdOf(gh, <<>>, 0)
            step == [i \in 1..n |-> [r \in D |-> Walked(g, u, r, ts[i])]]
<1>. HIDE DEF ts, gh
<1>1. n \in Nat /\ DOMAIN ts = 1..n /\ \A i \in 1..n : ts[i] \in Nat
  BY DEF ts
<1>2. start \in D
  BY DEF Ids, IdOf
<1>. HIDE DEF n
<1>3. \A i \in 1..n : \A r \in D : Walked(g, u, r, ts[i]) \in D
  BY <1>1, WalkedType
<1>4. step \in [1..n -> [D -> D]]
  <2>. HIDE DEF D
  <2>. QED  BY <1>3
<1>5. \A i \in 1..n : \A r \in D : step[i][r] = Walked(g, u, r, ts[i])
  OBVIOUS
<1>. HIDE DEF D, start, step
<1>6. PICK h : Folds(h, n, D, start, step)
  BY <1>1, <1>2, <1>4, FoldExists
<1>7. IdUnrolled(h, g, u, ts)
  <2>1. ASSUME NEW s \in SUBSET (1..n)
        PROVE  h[s] = IF s = {} THEN start
                      ELSE Walked(g, u, h[s \ {Greatest(s)}], ts[Greatest(s)])
    <3>1. CASE s = {}
      BY <1>6, <3>1 DEF Folds
    <3>2. CASE s # {}
      <4>1. Greatest(s) \in 1..n
        BY <1>1, <3>2, GreatestIs
      <4>2. s \ {Greatest(s)} \in SUBSET (1..n)
        OBVIOUS
      <4>3. /\ h[s \ {Greatest(s)}] \in D
            /\ h[s] = step[Greatest(s)][h[s \ {Greatest(s)}]]
        BY <1>6, <2>1, <3>2, <4>2 DEF Folds
      <4>. QED  BY <1>5, <3>2, <4>1, <4>3
    <3>. QED  BY <3>1, <3>2
  <2>2. h = [s \in SUBSET (1..n) |-> h[s]]
    BY <1>6 DEF Folds
  <2>3. [s \in SUBSET (1..n) |-> h[s]] =
          [s \in SUBSET (1..n) |-> IF s = {} THEN start
             ELSE Walked(g, u, h[s \ {Greatest(s)}], ts[Greatest(s)])]
    BY <2>1, Zenon
  <2>. QED  BY <1>1, <2>2, <2>3, Zenon DEF IdUnrolled, start, gh
<1>8. PICK k : IdUnrolled(k, g, u, ts) /\ ForkId(g, u) = k[1..n]
  BY <1>1, <1>7, ForkIdUnrolled, Zenon DEF ts
<1>9. \A s \in SUBSET (1..n) :
        k[s] = IF s = {} THEN start ELSE Walked(g, u, k[s \ {Greatest(s)}], ts[Greatest(s)])
  <2>1. k = [s \in SUBSET (1..n) |-> IF s = {} THEN start
               ELSE Walked(g, u, k[s \ {Greatest(s)}], ts[Greatest(s)])]
    BY <1>1, <1>8, Zenon DEF IdUnrolled, start, gh
  <2>. QED  BY <2>1, Zenon
<1>. DEFINE f == [i \in 0..n |-> k[1..i]]
<1>10. f[0] = start
  <2>1. 1..0 = {} /\ {} \in SUBSET (1..n) /\ 0 \in 0..n
    BY <1>1
  <2>2. f[0] = k[{}]
    BY <2>1
  <2>. HIDE DEF f
  <2>. QED  BY <1>9, <2>1, <2>2, Zenon
<1>11. ASSUME NEW i \in 1..n
       PROVE  f[i] = Walked(g, u, f[i - 1], ts[i])
  <2>1. /\ Greatest(1..i) = i
        /\ 1..i \in SUBSET (1..n) /\ 1..i # {} /\ (1..i) \ {i} = 1..(i - 1)
        /\ i \in 0..n /\ i - 1 \in 0..n
    BY <1>1, IntervalUnfolds
  <2>2. k[1..i] = Walked(g, u, k[(1..i) \ {Greatest(1..i)}], ts[Greatest(1..i)])
    BY <1>9, <2>1, Zenon
  <2>3. k[1..i] = Walked(g, u, k[1..(i - 1)], ts[i])
    BY <2>1, <2>2
  <2>4. f[i] = k[1..i] /\ f[i - 1] = k[1..(i - 1)]
    BY <2>1
  <2>. HIDE DEF f
  <2>. QED  BY <2>3, <2>4
<1>12. ForkId(g, u) = f[n]
  <2>1. n \in 0..n
    BY <1>1
  <2>. QED  BY <1>8, <2>1
<1>. HIDE DEF f
<1>13. /\ f[0] = IdOf(GenesisHash(g), <<>>, 0)
       /\ \A i \in 1..Len(ForkTimes(g)) : f[i] = Walked(g, u, f[i - 1], ForkTimes(g)[i])
       /\ ForkId(g, u) = f[Len(ForkTimes(g))]
  BY <1>10, <1>11, <1>12 DEF n, ts, gh, start
<1>. QED  BY <1>13

\* The forks of S passed at t, and the one that comes next, or 0.
Passed(S, t) == {x \in S : x <= t}

IsNext(y, S, t) ==
  /\ y \in Nat
  /\ y = 0 => \A x \in S : x <= t
  /\ y # 0 => y \in S /\ t < y /\ \A x \in S : t < x => y <= x

\* The times after genesis among the first i.
ForksAmong(ts, i, genesis) == {ts[k] : k \in {j \in 1..i : ts[j] > genesis}}

\* The last element of a list is the greatest.
LEMMA LastIsGreatest ==
  ASSUME NEW S, NEW e, Enumerates(e, S), e # <<>>
  PROVE  e[Len(e)] \in S /\ \A x \in S : x <= e[Len(e)]
<1>1. /\ e \in Seq(Nat) /\ Len(e) \in Nat
      /\ \A i \in 1..Len(e) : e[i] \in Nat /\ e[i] \in S
      /\ \A i, j \in 1..Len(e) : i < j => e[i] < e[j]
      /\ \A x \in S : x \in Nat /\ \E i \in 1..Len(e) : x = e[i]
  BY EnumerationIs
<1>2. Len(e) \in 1..Len(e)
  BY <1>1
<1>3. ASSUME NEW x \in S PROVE x <= e[Len(e)]
  <2>1. PICK i \in 1..Len(e) : x = e[i]
    BY <1>1
  <2>2. i = Len(e) \/ i < Len(e)
    BY <1>1
  <2>. QED  BY <1>1, <1>2, <2>1, <2>2
<1>. QED  BY <1>1, <1>2, <1>3

\* One more fork time, no earlier than those before it: where it is before
\* genesis or a next fork is known, nothing changes; one to come is the next;
\* one passed joins the list unless it is its last already.
LEMMA WalkedOn ==
  ASSUME NEW g, g.timestamp \in Nat, NEW u \in Nat, NEW gh, NEW t \in Nat,
         NEW S \in SUBSET Nat, \A x \in S : g.timestamp < x /\ x <= t,
         NEW e, Enumerates(e, Passed(S, u)), NEW y, IsNext(y, S, u),
         NEW R, R = IF t > g.timestamp THEN S \cup {t} ELSE S
  PROVE  \E d, z : /\ Walked(g, u, IdOf(gh, e, y), t) = IdOf(gh, d, z)
                   /\ Enumerates(d, Passed(R, u)) /\ IsNext(z, R, u)
<1>. DEFINE w == Walked(g, u, IdOf(gh, e, y), t)
            applied == IF e = <<>> THEN 0 ELSE e[Len(e)]
<1>1. e \in Seq(Nat) /\ y \in Nat
  BY DEF Enumerates, IsNext
<1>2. w = IF y # 0 \/ t <= g.timestamp THEN IdOf(gh, e, y)
          ELSE IF u < t THEN IdOf(gh, e, t)
          ELSE IF t = applied THEN IdOf(gh, e, y) ELSE IdOf(gh, Append(e, t), y)
  BY <1>1, WalkedIs
<1>. HIDE DEF w, applied
<1>3. CASE t <= g.timestamp
  <2>1. R = S /\ w = IdOf(gh, e, y)
    BY <1>2, <1>3
  <2>. QED  BY <2>1 DEF w
<1>4. CASE t > g.timestamp /\ y # 0
  <2>1. R = S \cup {t} /\ w = IdOf(gh, e, y)
    BY <1>2, <1>4
  <2>2. y \in S /\ u < y /\ y <= t
    BY <1>4 DEF IsNext
  <2>3. Passed(R, u) = Passed(S, u)
    BY <1>1, <2>1, <2>2 DEF Passed
  <2>4. IsNext(y, R, u)
    BY <2>1, <2>2 DEF IsNext
  <2>. QED  BY <2>1, <2>3, <2>4 DEF w
<1>5. CASE t > g.timestamp /\ y = 0 /\ u < t
  <2>1. R = S \cup {t} /\ w = IdOf(gh, e, t)
    BY <1>2, <1>5
  <2>2. \A x \in S : x <= u
    BY <1>5 DEF IsNext
  <2>3. Passed(R, u) = Passed(S, u)
    BY <1>5, <2>1 DEF Passed
  <2>4. IsNext(t, R, u)
    BY <1>5, <2>1, <2>2 DEF IsNext
  <2>. QED  BY <2>1, <2>3, <2>4 DEF w
<1>6. CASE t > g.timestamp /\ y = 0 /\ ~(u < t)
  <2>1. /\ R = S \cup {t} /\ t <= u
        /\ w = IF t = applied THEN IdOf(gh, e, 0) ELSE IdOf(gh, Append(e, t), 0)
    BY <1>2, <1>6
  <2>2. Passed(R, u) = Passed(S, u) \cup {t}
    BY <2>1 DEF Passed
  <2>3. IsNext(0, R, u)
    BY <1>6, <2>1 DEF IsNext
  <2>4. CASE t = applied
    <3>1. t \in Passed(S, u)
      <4>1. e # <<>>
        BY <1>6, <2>4 DEF applied
      <4>. QED  BY <2>4, <4>1, LastIsGreatest DEF applied
    <3>2. Passed(R, u) = Passed(S, u)
      BY <2>2, <3>1
    <3>. QED  BY <2>1, <2>3, <2>4, <3>2 DEF w
  <2>5. CASE t # applied
    <3>1. \A x \in Passed(S, u) : x < t
      <4>. SUFFICES ASSUME NEW x \in Passed(S, u) PROVE x < t
        OBVIOUS
      <4>1. x \in S /\ x \in Nat /\ x <= t
        BY DEF Passed
      <4>2. \E i \in 1..Len(e) : x = e[i]
        BY EnumerationIs
      <4>3. e # <<>>
        BY <4>2
      <4>4. applied = e[Len(e)] /\ applied \in Passed(S, u) /\ x <= applied
        BY <4>3, LastIsGreatest DEF applied
      <4>5. applied \in Nat /\ applied <= t
        BY <4>4 DEF Passed
      <4>. QED  BY <2>5, <4>1, <4>4, <4>5
    <3>2. Enumerates(Append(e, t), Passed(R, u))
      BY <2>2, <3>1, EnumerationAppend
    <3>3. w = IdOf(gh, Append(e, t), 0)
      BY <2>1, <2>5
    <3>. QED  BY <2>3, <3>2, <3>3 DEF w
  <2>. QED  BY <2>4, <2>5
<1>7. t <= g.timestamp \/ t > g.timestamp
  OBVIOUS
<1>. QED  BY <1>3, <1>4, <1>5, <1>6, <1>7, Zenon

\* The forks after genesis, as a set.
ForksOf(g) == {x \in ToSet(ForkTimes(g)) : x > g.timestamp}

\* fork_id, as a whole: the forks passed, in order and each once, and the
\* first one to come.
IdentifiesForks(id, g, u) ==
  \E e, y : /\ id = IdOf(GenesisHash(g), e, y)
            /\ Enumerates(e, Passed(ForksOf(g), u)) /\ IsNext(y, ForksOf(g), u)

\* What fork_id returns, by the loop invariant that it is right about the
\* forks walked so far.
LEMMA ForkIdentifies ==
  ASSUME NEW g \in Genesis, Load(g) = "berachain", NEW u \in Nat
  PROVE  IdentifiesForks(ForkId(g, u), g, u)
<1>. DEFINE ts == ForkTimes(g)
            n == Len(ts)
            gh == GenesisHash(g)
            S(i) == ForksAmong(ts, i, g.timestamp)
            Good(id, i) == \E e, y : /\ id = IdOf(gh, e, y)
                                     /\ Enumerates(e, Passed(S(i), u)) /\ IsNext(y, S(i), u)
<1>1. InTimeOrder(ts) /\ g.timestamp \in Nat
  BY ForkTimesInOrder DEF Genesis
<1>2. PICK f : /\ f[0] = IdOf(gh, <<>>, 0)
               /\ \A i \in 1..n : f[i] = Walked(g, u, f[i - 1], ts[i])
               /\ ForkId(g, u) = f[n]
  BY <1>1, ForkIdIs DEF InTimeOrder
<1>. HIDE DEF ts, gh
<1>3. /\ n \in Nat /\ \A i \in 1..n : ts[i] \in Nat
      /\ \A i, j \in 1..n : i < j => ts[i] <= ts[j]
      /\ ts \in Seq(Nat)
  BY <1>1 DEF InTimeOrder
<1>. HIDE DEF n
<1>. DEFINE T == {i \in 0..n : Good(f[i], i)}
<1>4. 0 \in T
  <2>1. S(0) = {} /\ Passed({}, u) = {}
    BY DEF ForksAmong, Passed
  <2>2. Enumerates(<<>>, {}) /\ IsNext(0, {}, u)
    BY DEF Enumerates, IsNext
  <2>3. Good(f[0], 0)
    BY <1>2, <2>1, <2>2
  <2>. HIDE DEF Good
  <2>. QED  BY <1>3, <2>3
<1>5. \A i \in 0..(n - 1) : i \in T => i + 1 \in T
  <2>. SUFFICES ASSUME NEW i \in 0..(n - 1), i \in T PROVE i + 1 \in T
    OBVIOUS
  <2>. DEFINE p == i + 1
              t == ts[p]
  <2>1. p \in 1..n /\ p \in 0..n /\ p - 1 = i /\ i \in Nat /\ \A k \in 1..i : k \in 1..n /\ k < p
    BY <1>3
  <2>2. PICK e, y : /\ f[i] = IdOf(gh, e, y)
                    /\ Enumerates(e, Passed(S(i), u)) /\ IsNext(y, S(i), u)
    OBVIOUS
  <2>3. \A k \in 1..p : k \in 1..i \/ k = p
    BY <2>1
  <2>4. \A k \in 1..i : k \in 1..p
    BY <2>1
  <2>5. p \in 1..p
    BY <2>1
  <2>6. f[p] = Walked(g, u, IdOf(gh, e, y), t)
    BY <1>2, <2>1, <2>2
  <2>. HIDE DEF p
  <2>7. t \in Nat
    BY <1>3, <2>1
  <2>8. S(i) \in SUBSET Nat /\ \A x \in S(i) : g.timestamp < x /\ x <= t
    BY <1>1, <1>3, <2>1 DEF ForksAmong
  <2>9. S(p) = IF t > g.timestamp THEN S(i) \cup {t} ELSE S(i)
    BY <2>3, <2>4, <2>5 DEF ForksAmong
  <2>. HIDE DEF t, S
  <2>10. \E d, z : /\ Walked(g, u, IdOf(gh, e, y), t) = IdOf(gh, d, z)
                   /\ Enumerates(d, Passed(S(p), u)) /\ IsNext(z, S(p), u)
    BY <1>1, <2>2, <2>7, <2>8, <2>9, WalkedOn
  <2>11. Good(f[p], p)
    BY <2>6, <2>10
  <2>. HIDE DEF Good
  <2>. QED  BY <2>1, <2>11 DEF p
<1>6. Good(ForkId(g, u), n)
  <2>1. n \in T
    <3>. HIDE DEF T
    <3>1. 0..n \subseteq T
      BY <1>3, <1>4, <1>5, IntervalInduction
    <3>2. n \in 0..n
      BY <1>3
    <3>. QED  BY <3>1, <3>2
  <2>. HIDE DEF Good
  <2>. QED  BY <1>2, <2>1
<1>7. S(n) = ForksOf(g)
  BY <1>3 DEF ForksAmong, ForksOf, ToSet, n, ts
<1>. HIDE DEF S
<1>. QED  BY <1>6, <1>7 DEF IdentifiesForks, gh

-----------------------------------------------------------------------------
(* The fork filter *)

\* The forks of S still to come at t.
ToCome(S, t) == {x \in S : x > t}

\* The forks of a file are bounded, so they and their parts have lists.
LEMMA ForksBounded ==
  ASSUME NEW g \in Genesis, Load(g) = "berachain"
  PROVE  /\ \A x \in ForksOf(g) : x \in Nat /\ g.timestamp < x
         /\ \E n \in Nat : ToSet(ForkTimes(g)) \in SUBSET (0..n)
<1>. DEFINE ts == ForkTimes(g)
<1>1. InTimeOrder(ts) /\ g.timestamp \in Nat
  BY ForkTimesInOrder DEF Genesis
<1>. HIDE DEF ts
<1>2. /\ Len(ts) \in Nat /\ Len(ts) \in 1..Len(ts)
      /\ \A i \in 1..Len(ts) : ts[i] \in Nat /\ ts[i] <= ts[Len(ts)]
      /\ ToSet(ts) = {ts[i] : i \in 1..Len(ts)}
  BY <1>1, LastTimeIs DEF ToSet
<1>4. ts[Len(ts)] \in Nat /\ ToSet(ts) \in SUBSET (0..ts[Len(ts)])
  BY <1>2
<1>5. \A x \in ForksOf(g) : x \in Nat /\ g.timestamp < x
  BY <1>1, <1>2 DEF ForksOf, ts
<1>. QED  BY <1>4, <1>5 DEF ts

\* The forks passed, the forks to come and all of them have lists.
LEMMA ListsExist ==
  ASSUME NEW g \in Genesis, Load(g) = "berachain", NEW t
  PROVE  /\ \E e : Enumerates(e, Passed(ForksOf(g), t))
         /\ \E e : Enumerates(e, ToCome(ForksOf(g), t))
         /\ \E e : Enumerates(e, ToSet(ForkTimes(g)))
<1>1. PICK n \in Nat : ToSet(ForkTimes(g)) \in SUBSET (0..n)
  BY ForksBounded
<1>2. Passed(ForksOf(g), t) \in SUBSET (0..n) /\ ToCome(ForksOf(g), t) \in SUBSET (0..n)
  BY <1>1 DEF Passed, ToCome, ForksOf
<1>. QED  BY <1>1, <1>2, EnumerationExists

\* What a filter keeps: its forks in two lists, around its head.
LEMMA FilterLists ==
  ASSUME NEW g \in Genesis, Load(g) = "berachain", NEW t
  PROVE  /\ Enumerates(Past(NewFilter(g, t)), Passed(ForksOf(g), t))
         /\ Enumerates(Future(NewFilter(g, t)), ToCome(ForksOf(g), t))
<1>. DEFINE f == NewFilter(g, t)
<1>1. f.forks = ForksOf(g) /\ f.head = t
  BY DEF NewFilter, ForksOf
<1>. HIDE DEF f
<1>2. Past(f) = Ordered(Passed(ForksOf(g), t)) /\ Future(f) = Ordered(ToCome(ForksOf(g), t))
  BY <1>1 DEF Past, Future, Passed, ToCome
<1>. QED  BY <1>2, ListsExist, OrderedIs DEF f

\* There is one next fork.
LEMMA NextUnique ==
  ASSUME NEW S \in SUBSET Nat, NEW t \in Nat, NEW y, IsNext(y, S, t), NEW z, IsNext(z, S, t)
  PROVE  y = z
<1>1. y \in Nat /\ z \in Nat /\ \A x \in S : x \in Nat
  BY DEF IsNext
<1>2. CASE y = 0
  BY <1>1, <1>2 DEF IsNext
<1>3. CASE z = 0
  BY <1>1, <1>3 DEF IsNext
<1>4. CASE y # 0 /\ z # 0
  <2>1. y <= z /\ z <= y
    BY <1>4 DEF IsNext
  <2>. QED  BY <1>1, <2>1
<1>. QED  BY <1>2, <1>3, <1>4

\* A file and a head have one identifier.
LEMMA IdentifierUnique ==
  ASSUME NEW g \in Genesis, Load(g) = "berachain", NEW t \in Nat,
         NEW a, IdentifiesForks(a, g, t), NEW b, IdentifiesForks(b, g, t)
  PROVE  a = b
<1>1. PICK e, y : /\ a = IdOf(GenesisHash(g), e, y)
                  /\ Enumerates(e, Passed(ForksOf(g), t)) /\ IsNext(y, ForksOf(g), t)
  BY DEF IdentifiesForks
<1>2. PICK d, z : /\ b = IdOf(GenesisHash(g), d, z)
                  /\ Enumerates(d, Passed(ForksOf(g), t)) /\ IsNext(z, ForksOf(g), t)
  BY DEF IdentifiesForks
<1>3. e = d
  BY <1>1, <1>2, EnumerationUnique
<1>4. ForksOf(g) \in SUBSET Nat
  BY ForksBounded
<1>5. y = z
  BY <1>1, <1>2, <1>4, NextUnique
<1>. QED  BY <1>1, <1>2, <1>3, <1>5

\* ForkFilter::current names what fork_id names.
LEMMA CurrentIs ==
  ASSUME NEW g \in Genesis, Load(g) = "berachain", NEW t \in Nat
  PROVE  Current(NewFilter(g, t)) = ForkId(g, t)
<1>. DEFINE f == NewFilter(g, t)
            S == ForksOf(g)
            y == IF Future(f) = <<>> THEN 0 ELSE Head(Future(f))
<1>1. /\ Enumerates(Past(f), Passed(S, t)) /\ Enumerates(Future(f), ToCome(S, t))
      /\ \A x \in S : x \in Nat /\ g.timestamp < x
  BY FilterLists, ForksBounded
<1>2. f.genesis = GenesisHash(g) /\ g.timestamp \in Nat
  BY DEF NewFilter, Genesis
<1>. HIDE DEF f
<1>3. Current(f) = IdOf(GenesisHash(g), Past(f), y)
  BY <1>2 DEF Current, HashOf, IdOf
<1>4. IsNext(y, S, t)
  <2>1. /\ Future(f) \in Seq(Nat) /\ Len(Future(f)) \in Nat
        /\ \A i \in 1..Len(Future(f)) : Future(f)[i] \in Nat /\ Future(f)[i] \in ToCome(S, t)
        /\ \A i, j \in 1..Len(Future(f)) : i < j => Future(f)[i] < Future(f)[j]
        /\ \A x \in ToCome(S, t) : \E i \in 1..Len(Future(f)) : x = Future(f)[i]
    BY <1>1, EnumerationIs
  <2>2. CASE Future(f) = <<>>
    <3>1. ToCome(S, t) = {}
      BY <2>1, <2>2
    <3>2. \A x \in S : x <= t
      BY <1>1, <3>1 DEF ToCome
    <3>. QED  BY <2>2, <3>2 DEF IsNext
  <2>3. CASE Future(f) # <<>>
    <3>1. y = Future(f)[1] /\ 1 \in 1..Len(Future(f))
      BY <2>1, <2>3
    <3>. HIDE DEF y
    <3>2. y \in S /\ y > t /\ y \in Nat
      BY <2>1, <3>1 DEF ToCome
    <3>3. ASSUME NEW x \in S, t < x PROVE y <= x
      <4>1. x \in ToCome(S, t)
        BY <3>3 DEF ToCome
      <4>2. PICK i \in 1..Len(Future(f)) : x = Future(f)[i]
        BY <2>1, <4>1
      <4>3. i = 1 \/ 1 < i
        BY <2>1
      <4>. QED  BY <2>1, <3>1, <4>2, <4>3
    <3>. QED  BY <3>2, <3>3 DEF IsNext
  <2>. QED  BY <2>2, <2>3
<1>5. IdentifiesForks(Current(f), g, t)
  <2>. HIDE DEF y
  <2>. QED  BY <1>1, <1>3, <1>4 DEF IdentifiesForks
<1>. QED  BY <1>5, ForkIdentifies, IdentifierUnique DEF f

-----------------------------------------------------------------------------
(* What a node holds *)

\* A genesis hash is a record with the genesis time of its file.
LEMMA GenesisHashType ==
  ASSUME NEW g \in Genesis
  PROVE  GenesisHash(g) \in GenesisHashes /\ GenesisHash(g).timestamp = g.timestamp
BY DEF GenesisHash, GenesisHashes, Genesis, IsPragueActive, ActiveAt

\* A node at rest holds nothing in memory; a running one the filter and the
\* identifier of its file and head.  The database is of one genesis, and its
\* head no earlier than that.
NodeInv(n) ==
  /\ loaded[n] = Never <=> mode[n] = "stopped"
  /\ head[n] = Never <=> stored[n] = Never
  /\ stored[n] # Never => stored[n].timestamp <= head[n]
  /\ mode[n] = "berachain" =>
       /\ head[n] # Never
       /\ stored[n] = GenesisHash(loaded[n])
       /\ filter[n] = NewFilter(loaded[n], head[n])
       /\ status[n] = ForkId(loaded[n], head[n])
  /\ mode[n] # "berachain" => filter[n] = Never /\ status[n] = Never

NetworkInv ==
  /\ LoadedInv
  /\ head \in [Node -> Nat \cup {Never}]
  /\ stored \in [Node -> GenesisHashes \cup {Never}]
  /\ DOMAIN filter = Node /\ DOMAIN status = Node
  /\ \A n \in Node : NodeInv(n)

\* No node runs at first.
LEMMA NetworkInit == Init => NetworkInv
<1>. SUFFICES ASSUME Init PROVE NetworkInv
  OBVIOUS
<1>1. LoadedInv
  BY NetworkAssumption DEF Init, LoadedInv, Mode
<1>. QED  BY <1>1 DEF Init, NetworkInv, NodeInv

\* A start finds the head no earlier than the genesis, since it has refused
\* every file of another genesis hash.
LEMMA StartKeeps ==
  ASSUME NetworkInv, NEW n \in Node, Start(n), LoadedInv'
  PROVE  NetworkInv'
<1>. DEFINE g == file[n]
            t == IF head[n] = Never THEN g.timestamp ELSE head[n]
<1>1. /\ g \in Genesis /\ g.timestamp \in Nat /\ GenesisHash(g) \in GenesisHashes
      /\ GenesisHash(g).timestamp = g.timestamp
      /\ g # Never /\ GenesisHash(g) # Never
  <2>1. g \in Genesis
    BY DEF NetworkInv, LoadedInv
  <2>2. g.timestamp \in Nat
    BY <2>1 DEF Genesis
  <2>. QED  BY <2>1, <2>2, GenesisHashType, NetworkAssumption
<1>2. mode[n] = "stopped" /\ loaded' = [loaded EXCEPT ![n] = g] /\ NodeInv(n)
  BY DEF Start, NetworkInv
<1>3. mode' = [mode EXCEPT ![n] = IF Load(g) = "berachain" /\ stored[n] # Never /\ stored[n] # GenesisHash(g)
                                    THEN "refused" ELSE Load(g)]
  BY DEF Start
<1>4. mode \in [Node -> Mode] /\ loaded \in [Node -> Genesis \cup {Never}]
  BY DEF NetworkInv, LoadedInv
<1>5. /\ mode'[n] # "stopped" /\ loaded'[n] = g
      /\ \A m \in Node \ {n} : mode'[m] = mode[m] /\ loaded'[m] = loaded[m]
  <2>1. Load(g) # "stopped"
    BY DEF Load
  <2>. QED  BY <1>2, <1>3, <1>4, <2>1
<1>. HIDE DEF g
<1>6. CASE mode'[n] = "berachain"
  <2>1. /\ stored' = [stored EXCEPT ![n] = GenesisHash(g)]
        /\ head' = [head EXCEPT ![n] = t]
        /\ filter' = [filter EXCEPT ![n] = NewFilter(g, t)]
        /\ status' = [status EXCEPT ![n] = ForkId(g, t)]
    BY <1>6 DEF Start, Announced, g
  <2>2. stored[n] = Never \/ stored[n] = GenesisHash(g)
    BY <1>3, <1>4, <1>6
  <2>3. t \in Nat /\ g.timestamp <= t /\ t # Never
    <3>1. head[n] \in Nat \cup {Never} /\ stored[n] \in GenesisHashes \cup {Never}
      BY DEF NetworkInv
    <3>. QED  BY <1>1, <1>2, <2>2, <3>1, NeverAssumption DEF NodeInv
  <2>. HIDE DEF t
  <2>4. head' \in [Node -> Nat \cup {Never}] /\ stored' \in [Node -> GenesisHashes \cup {Never}]
        /\ DOMAIN filter' = Node /\ DOMAIN status' = Node
    BY <1>1, <2>1, <2>3 DEF NetworkInv
  <2>5. /\ head'[n] = t /\ stored'[n] = GenesisHash(g)
        /\ filter'[n] = NewFilter(g, t) /\ status'[n] = ForkId(g, t)
    BY <2>1 DEF NetworkInv
  <2>6. \A m \in Node \ {n} : head'[m] = head[m] /\ stored'[m] = stored[m]
                              /\ filter'[m] = filter[m] /\ status'[m] = status[m]
    BY <2>1 DEF NetworkInv
  <2>7. NodeInv(n)'
    BY <1>1, <1>5, <1>6, <2>3, <2>5 DEF NodeInv
  <2>8. ASSUME NEW m \in Node \ {n} PROVE NodeInv(m)'
    <3>1. NodeInv(m)
      BY DEF NetworkInv
    <3>. QED  BY <1>5, <2>6, <3>1 DEF NodeInv
  <2>. QED  BY <2>4, <2>7, <2>8 DEF NetworkInv
<1>7. CASE mode'[n] # "berachain"
  <2>1. UNCHANGED <<stored, head, filter, status>>
    BY <1>7 DEF Start
  <2>2. NodeInv(n)'
    BY <1>1, <1>2, <1>5, <1>7, <2>1 DEF NodeInv
  <2>3. ASSUME NEW m \in Node \ {n} PROVE NodeInv(m)'
    <3>1. NodeInv(m)
      BY DEF NetworkInv
    <3>. QED  BY <1>5, <2>1, <3>1 DEF NodeInv
  <2>. QED  BY <2>1, <2>2, <2>3 DEF NetworkInv
<1>. QED  BY <1>6, <1>7

\* A new head moves the filter, and its identifier is announced where it
\* changes: the announced one is always the filter's.
LEMMA NewHeadKeeps ==
  ASSUME NetworkInv, NEW n \in Node, NewHead(n), LoadedInv'
  PROVE  NetworkInv'
<1>. DEFINE g == loaded[n]
<1>1. mode[n] = "berachain" /\ NodeInv(n) /\ g \in Genesis /\ Load(g) = "berachain"
  BY DEF NewHead, NetworkInv, LoadedInv
<1>2. PICK t \in g.timestamp..MaxTime :
        /\ head' = [head EXCEPT ![n] = t]
        /\ filter' = [filter EXCEPT ![n].head = t]
        /\ status' = [status EXCEPT ![n] =
             IF Current(filter'[n]) # Current(filter[n]) THEN Current(filter'[n]) ELSE @]
  BY DEF NewHead
<1>3. /\ UNCHANGED <<file, mode, loaded, stored>>
      /\ g.timestamp \in Nat /\ t \in Nat /\ g.timestamp <= t /\ t # Never
      /\ head[n] \in Nat
  <2>1. g.timestamp \in Nat /\ MaxTime \in Nat
    BY <1>1, NetworkAssumption DEF Genesis
  <2>2. head[n] \in Nat
    BY <1>1 DEF NetworkInv, NodeInv
  <2>. QED  BY <2>1, <2>2, NeverAssumption DEF NewHead
<1>4. filter'[n] = NewFilter(g, t) /\ filter[n] = NewFilter(g, head[n])
  <2>1. filter[n] = NewFilter(g, head[n])
    BY <1>1 DEF NodeInv
  <2>2. filter'[n] = [filter[n] EXCEPT !.head = t]
    BY <1>2 DEF NetworkInv
  <2>3. [NewFilter(g, head[n]) EXCEPT !.head = t] = NewFilter(g, t)
    <3>1. \A hash, forks, u : [[genesis |-> hash, forks |-> forks, head |-> u] EXCEPT !.head = t]
                                = [genesis |-> hash, forks |-> forks, head |-> t]
      OBVIOUS
    <3>. QED  BY <3>1, Zenon DEF NewFilter
  <2>. QED  BY <2>1, <2>2, <2>3
<1>. HIDE DEF g
<1>5. status'[n] = ForkId(g, t)
  <2>1. status'[n] = IF Current(filter'[n]) # Current(filter[n]) THEN Current(filter'[n])
                     ELSE status[n]
    BY <1>2 DEF NetworkInv
  <2>2. status[n] = ForkId(g, head[n])
    BY <1>1 DEF NodeInv, g
  <2>3. Current(filter'[n]) = ForkId(g, t) /\ Current(filter[n]) = ForkId(g, head[n])
    BY <1>1, <1>3, <1>4, CurrentIs
  <2>. QED  BY <2>1, <2>2, <2>3
<1>6. head' \in [Node -> Nat \cup {Never}] /\ DOMAIN filter' = Node /\ DOMAIN status' = Node
      /\ head'[n] = t
  BY <1>2, <1>3 DEF NetworkInv
<1>7. \A m \in Node \ {n} : head'[m] = head[m] /\ filter'[m] = filter[m] /\ status'[m] = status[m]
  BY <1>2 DEF NetworkInv
<1>8. NodeInv(n)'
  <2>1. stored[n] # Never /\ stored[n].timestamp = g.timestamp
    <3>1. stored[n] = GenesisHash(g)
      BY <1>1 DEF NodeInv, g
    <3>. QED  BY <1>1, <3>1, GenesisHashType, NetworkAssumption
  <2>. QED  BY <1>1, <1>3, <1>4, <1>5, <1>6, <2>1 DEF NodeInv, g
<1>9. ASSUME NEW m \in Node \ {n} PROVE NodeInv(m)'
  <2>1. NodeInv(m)
    BY DEF NetworkInv
  <2>. QED  BY <1>3, <1>7, <2>1 DEF NodeInv
<1>10. stored' \in [Node -> GenesisHashes \cup {Never}]
  BY <1>3 DEF NetworkInv
<1>. QED  BY <1>6, <1>8, <1>9, <1>10 DEF NetworkInv

\* A stop leaves the database only.
LEMMA StopKeeps ==
  ASSUME NetworkInv, NEW n \in Node, Stop(n), LoadedInv'
  PROVE  NetworkInv'
<1>1. /\ mode' = [mode EXCEPT ![n] = "stopped"] /\ loaded' = [loaded EXCEPT ![n] = Never]
      /\ filter' = [filter EXCEPT ![n] = Never] /\ status' = [status EXCEPT ![n] = Never]
      /\ UNCHANGED <<file, stored, head>>
  BY DEF Stop
<1>2. DOMAIN mode = Node /\ DOMAIN loaded = Node /\ DOMAIN filter = Node /\ DOMAIN status = Node
  BY DEF NetworkInv, LoadedInv
<1>3. ASSUME NEW m \in Node PROVE NodeInv(m)'
  <2>1. NodeInv(m)
    BY DEF NetworkInv
  <2>. QED  BY <1>1, <1>2, <2>1 DEF NodeInv
<1>. QED  BY <1>1, <1>2, <1>3 DEF NetworkInv

\* Every step keeps the invariant.
LEMMA NetworkNext ==
  ASSUME NetworkInv, [Next]_vars
  PROVE  NetworkInv'
<1>1. LoadedInv'
  BY LoadedStep DEF NetworkInv
<1>2. ASSUME NEW n \in Node, Upgrade(n) PROVE NetworkInv'
  BY <1>1, <1>2 DEF Upgrade, NetworkInv, NodeInv
<1>3. CASE UNCHANGED vars
  BY <1>1, <1>3 DEF vars, NetworkInv, NodeInv
<1>. QED  BY <1>1, <1>2, <1>3, StartKeeps, NewHeadKeeps, StopKeeps DEF Next

\* The invariant holds in every reachable state.
LEMMA NetworkInvariant == Spec => []NetworkInv
<1>1. NetworkInv /\ [Next]_vars => NetworkInv'
  BY NetworkNext
<1>. QED  BY <1>1, NetworkInit, PTL DEF Spec

(***************************************************************************)
(* The state of a network keeps its types, for any nodes, files and        *)
(* releases: what a process holds it holds exactly while it runs, its head *)
(* is not before its genesis, and its filter is at its head.               *)
(***************************************************************************)
THEOREM TypeCorrect == Spec => []TypeOK
<1>1. NetworkInv => TypeOK
  <2>. SUFFICES ASSUME NetworkInv PROVE TypeOK
    OBVIOUS
  <2>1. file \in [Node -> Genesis] /\ mode \in [Node -> {"stopped", "panic", "refused", "ethereum", "berachain"}]
        /\ loaded \in [Node -> Genesis \cup {Never}]
    BY DEF NetworkInv, LoadedInv, Mode
  <2>2. ASSUME NEW n \in Node, n \in Running
        PROVE  /\ head[n] \in Nat /\ loaded[n].timestamp <= head[n]
               /\ filter[n].head = head[n]
               /\ stored[n] = GenesisHash(loaded[n])
               /\ status[n] \in ForkIdType
    <3>1. mode[n] = "berachain" /\ NodeInv(n) /\ loaded[n] \in Genesis /\ Load(loaded[n]) = "berachain"
      BY <2>2 DEF Running, NetworkInv, LoadedInv
    <3>2. head[n] \in Nat
      BY <3>1 DEF NetworkInv, NodeInv
    <3>3. GenesisHash(loaded[n]) \in GenesisHashes /\ GenesisHash(loaded[n]).timestamp = loaded[n].timestamp
      BY <3>1, GenesisHashType
    <3>4. stored[n] = GenesisHash(loaded[n]) /\ stored[n] # Never
      BY <3>1, <3>3, NetworkAssumption DEF NodeInv
    <3>5. filter[n].head = head[n]
      BY <3>1 DEF NodeInv, NewFilter
    <3>6. status[n] \in ForkIdType
      <4>1. IdentifiesForks(status[n], loaded[n], head[n])
        BY <3>1, <3>2, ForkIdentifies DEF NodeInv
      <4>2. PICK e, y : /\ status[n] = IdOf(GenesisHash(loaded[n]), e, y)
                        /\ e \in Seq(Nat) /\ y \in Nat
        BY <4>1 DEF IdentifiesForks, Enumerates, IsNext
      <4>. QED  BY <3>3, <4>2 DEF IdOf, ForkIdType
    <3>7. loaded[n].timestamp <= head[n]
      BY <3>1, <3>3, <3>4 DEF NodeInv
    <3>. QED  BY <3>2, <3>4, <3>5, <3>6, <3>7
  <2>3. ASSUME NEW n \in Node
        PROVE  /\ loaded[n] = Never <=> mode[n] = "stopped"
               /\ loaded[n] # Never => loaded[n] \in Genesis
               /\ head[n] = Never <=> stored[n] = Never
               /\ n \notin Running => filter[n] = Never /\ status[n] = Never
    BY <2>1 DEF NetworkInv, NodeInv, Running
  <2>. QED  BY <2>1, <2>2, <2>3 DEF TypeOK
<1>. QED  BY <1>1, NetworkInvariant, PTL

-----------------------------------------------------------------------------
(* What a node announces and reports *)

\* What the invariant says of a running node, put together.
LEMMA RunningIs ==
  ASSUME NetworkInv, NEW n \in Running
  PROVE  /\ loaded[n] \in Genesis /\ Load(loaded[n]) = "berachain"
         /\ loaded[n].timestamp \in Nat /\ head[n] \in Nat /\ loaded[n].timestamp <= head[n]
         /\ filter[n] = NewFilter(loaded[n], head[n])
         /\ status[n] = ForkId(loaded[n], head[n])
<1>1. n \in Node /\ mode[n] = "berachain" /\ NodeInv(n) /\ loaded[n] \in Genesis /\ Load(loaded[n]) = "berachain"
  BY DEF Running, NetworkInv, LoadedInv
<1>2. loaded[n].timestamp \in Nat /\ head[n] \in Nat
  BY <1>1 DEF NetworkInv, NodeInv, Genesis
<1>3. GenesisHash(loaded[n]) # Never /\ GenesisHash(loaded[n]).timestamp = loaded[n].timestamp
  BY <1>1, GenesisHashType, NetworkAssumption
<1>4. loaded[n].timestamp <= head[n]
  BY <1>1, <1>3 DEF NodeInv
<1>. QED  BY <1>1, <1>2, <1>4 DEF NodeInv

\* Past the last fork nothing changes any more.
LEMMA LatestIs ==
  ASSUME NEW g \in Genesis, Load(g) = "berachain", NEW u \in Nat,
         \A i \in DOMAIN ForkTimes(g) : ForkTimes(g)[i] <= u
  PROVE  ForkId(g, u) = LatestForkId(g)
<1>. DEFINE ts == ForkTimes(g)
            S == ForksOf(g)
            l == Last(ts)
<1>1. InTimeOrder(ts)
  BY ForkTimesInOrder
<1>2. /\ Len(ts) \in Nat /\ Len(ts) \in 1..Len(ts) /\ DOMAIN ts = 1..Len(ts)
      /\ \A i \in 1..Len(ts) : ts[i] \in Nat /\ ts[i] <= ts[Len(ts)]
  <2>. HIDE DEF ts
  <2>. QED  BY <1>1, LastTimeIs
<1>3. /\ \A i \in 1..Len(ts) : ts[i] <= u
      /\ l = ts[Len(ts)]
  BY <1>2 DEF Last
<1>4. l \in Nat /\ \A x \in S : x \in Nat /\ x <= u /\ x <= l
  <2>1. \A x \in S : \E i \in 1..Len(ts) : x = ts[i]
    BY <1>2 DEF ForksOf, ToSet
  <2>. HIDE DEF ts, S, l
  <2>. QED  BY <1>2, <1>3, <2>1
<1>5. PICK e, y : /\ ForkId(g, l) = IdOf(GenesisHash(g), e, y)
                  /\ Enumerates(e, Passed(S, l)) /\ IsNext(y, S, l)
  <2>1. IdentifiesForks(ForkId(g, l), g, l)
    <3>. HIDE DEF l
    <3>. QED  BY <1>4, ForkIdentifies
  <2>. QED  BY <2>1 DEF IdentifiesForks
<1>. HIDE DEF l, S, ts
<1>6. Passed(S, l) = Passed(S, u)
  BY <1>4 DEF Passed
<1>7. IsNext(y, S, u)
  <2>1. y \in Nat /\ y = 0
    <3>1. y # 0 => y \in S /\ l < y
      BY <1>5 DEF IsNext
    <3>2. y \in Nat
      BY <1>5 DEF IsNext
    <3>3. y \in S => y <= l
      BY <1>4
    <3>. QED  BY <1>4, <3>1, <3>2, <3>3
  <2>. QED  BY <1>4, <2>1 DEF IsNext
<1>8. IdentifiesForks(ForkId(g, l), g, u)
  BY <1>5, <1>6, <1>7 DEF IdentifiesForks, S
<1>9. ForkId(g, l) = ForkId(g, u)
  BY <1>8, ForkIdentifies, IdentifierUnique
<1>. QED  BY <1>9 DEF LatestForkId, l, ts

(***************************************************************************)
(* What a node announces is always the identifier fork_id gives its head,  *)
(* after any starts, heads and reorganisations, and past its last fork the *)
(* latest one: the filter and the walk over the fork list agree for lists  *)
(* of any times.                                                           *)
(***************************************************************************)
THEOREM StatusAlwaysCurrent == Spec => []StatusCurrent
<1>1. NetworkInv => StatusCurrent
  <2>. SUFFICES ASSUME NetworkInv, NEW n \in Running
                PROVE  /\ status[n] = ForkId(loaded[n], head[n])
                       /\ (\A i \in DOMAIN ForkTimes(loaded[n]) : ForkTimes(loaded[n])[i] <= head[n])
                            => status[n] = LatestForkId(loaded[n])
    BY DEF StatusCurrent
  <2>1. status[n] = ForkId(loaded[n], head[n])
    BY RunningIs
  <2>2. ASSUME \A i \in DOMAIN ForkTimes(loaded[n]) : ForkTimes(loaded[n])[i] <= head[n]
        PROVE  status[n] = LatestForkId(loaded[n])
    BY <2>1, <2>2, RunningIs, LatestIs
  <2>. QED  BY <2>1, <2>2
<1>. QED  BY <1>1, NetworkInvariant, PTL

\* The current fork of a list that begins at zero is its last one up to t;
\* the one after it, or zero, is the next.
LEMMA CurrentForkIs ==
  ASSUME NEW S, NEW e, Enumerates(e, S), 0 \in S, NEW t \in Nat
  PROVE  LET i == CurrentForkIndex(e, t) IN
         /\ i \in 1..Len(e) /\ e[i] <= t /\ \A x \in S : x <= t => x <= e[i]
         /\ i < Len(e) => e[i + 1] > t /\ e[i + 1] \in S /\ \A x \in S : t < x => e[i + 1] <= x
         /\ ~(i < Len(e)) => \A x \in S : x <= t
<1>. DEFINE later == {i \in DOMAIN e : t < e[i]}
            i == CurrentForkIndex(e, t)
<1>1. /\ e \in Seq(Nat) /\ Len(e) \in Nat /\ DOMAIN e = 1..Len(e)
      /\ \A j \in 1..Len(e) : e[j] \in Nat /\ e[j] \in S
      /\ \A j, k \in 1..Len(e) : j < k => e[j] < e[k]
      /\ \A x \in S : x \in Nat /\ \E j \in 1..Len(e) : x = e[j]
  BY EnumerationIs
<1>2. 1 \in 1..Len(e) /\ e[1] = 0
  <2>1. PICK j \in 1..Len(e) : e[j] = 0
    BY <1>1
  <2>2. 1 \in 1..Len(e) /\ (j = 1 \/ 1 < j)
    BY <1>1
  <2>. QED  BY <1>1, <2>1, <2>2
<1>3. i = IF later = {} \/ Min(later) = 1 THEN Len(e) ELSE Min(later) - 1
  BY DEF CurrentForkIndex
<1>. HIDE DEF i
<1>4. CASE later = {}
  <2>1. i = Len(e) /\ i \in 1..Len(e)
    BY <1>1, <1>2, <1>3, <1>4
  <2>2. \A j \in 1..Len(e) : e[j] <= t
    BY <1>1, <1>4
  <2>3. \A x \in S : x <= t
    BY <1>1, <2>2
  <2>5. \A x \in S : x <= e[i]
    <3>1. e # <<>>
      BY <1>1, <1>2
    <3>. QED  BY <2>1, <3>1, LastIsGreatest
  <2>6. ~(i < Len(e))
    BY <1>1, <2>1
  <2>. QED  BY <2>1, <2>2, <2>3, <2>5, <2>6 DEF i
<1>5. CASE later # {}
  <2>. DEFINE m == Min(later)
  <2>1. m \in later /\ \A k \in later : m <= k
    <3>1. later \in SUBSET Nat
      BY <1>1
    <3>2. \E k \in later : \A j \in later : k <= j
      <4>. HIDE DEF later
      <4>. QED  BY <1>5, <3>1, LeastElement
    <3>. HIDE DEF later
    <3>. QED  BY <3>2 DEF Min
  <2>. HIDE DEF m
  <2>2. m \in 1..Len(e) /\ t < e[m] /\ m # 1
    BY <1>1, <1>2, <2>1
  <2>. DEFINE p == m - 1
  <2>3. i = p /\ p \in 1..Len(e) /\ p + 1 = m /\ p < Len(e) /\ p \in Nat /\ m \in Nat
    <3>1. i = m - 1
      BY <1>3, <1>5, <2>2 DEF m
    <3>. QED  BY <1>1, <2>2, <3>1
  <2>. HIDE DEF p
  <2>4. e[p] <= t
    <3>1. p \notin later
      <4>1. ~(m <= p)
        BY <2>3
      <4>. HIDE DEF later
      <4>. QED  BY <2>1, <4>1
    <3>. QED  BY <1>1, <2>3, <3>1
  <2>5. ASSUME NEW x \in S, x <= t PROVE x <= e[p]
    <3>1. PICK k \in 1..Len(e) : x = e[k]
      BY <1>1
    <3>2. k < m
      <4>1. k = m \/ m < k => e[m] <= e[k]
        BY <1>1, <2>2
      <4>. QED  BY <1>1, <2>2, <2>3, <2>5, <3>1, <4>1
    <3>3. k = p \/ k < p
      BY <2>3, <3>2
    <3>. QED  BY <1>1, <2>3, <3>1, <3>3
  <2>6. ASSUME NEW x \in S, t < x PROVE e[m] <= x
    <3>1. PICK k \in 1..Len(e) : x = e[k]
      BY <1>1
    <3>2. k \in later
      BY <1>1, <2>6, <3>1
    <3>3. m <= k
      <4>. HIDE DEF later
      <4>. QED  BY <2>1, <3>2
    <3>4. m = k \/ m < k
      BY <2>2, <3>3
    <3>. QED  BY <1>1, <2>2, <3>1, <3>4
  <2>7. /\ i \in 1..Len(e) /\ e[i] <= t /\ i < Len(e) /\ i + 1 = m
        /\ e[m] > t /\ e[m] \in S
    BY <1>1, <2>2, <2>3, <2>4
  <2>. QED  BY <2>3, <2>5, <2>6, <2>7 DEF i
<1>. QED  BY <1>4, <1>5

\* The identifier of the current fork's time passes the forks the head has.
LEMMA ConfigIs ==
  ASSUME NEW g \in Genesis, Load(g) = "berachain", NEW t \in Nat, g.timestamp <= t
  PROVE  LET config == EthConfig(g, t) IN
         /\ config.current <= t
         /\ ForkId(g, config.current).hash = ForkId(g, t).hash
         /\ config.next = ForkId(g, t).next
<1>. DEFINE S == ToSet(ForkTimes(g))
            F == ForksOf(g)
            gh == GenesisHash(g)
            gt == g.timestamp
<1>1. PICK e : Enumerates(e, S)
  BY ListsExist
<1>2. 0 \in S
  <2>1. InTimeOrder(ForkTimes(g))
    BY ForkTimesInOrder
  <2>. QED  BY <2>1, LastTimeIs DEF InTimeOrder, ToSet
<1>3. /\ gt \in Nat /\ F = {x \in S : x > gt}
      /\ \A x \in F : x \in Nat /\ gt < x /\ x \in S
      /\ \A x \in S : x \in Nat
  BY <1>1, ForksBounded, EnumerationIs DEF Genesis, ForksOf
<1>. DEFINE i == CurrentForkIndex(e, t)
            c == e[i]
            y == IF i < Len(e) THEN e[i + 1] ELSE 0
<1>4. EthConfig(g, t) = [current |-> c, next |-> y]
  BY <1>1, OrderedIs DEF EthConfig
<1>. HIDE DEF S, F, gh, gt
<1>5. /\ i \in 1..Len(e) /\ c <= t /\ \A x \in S : x <= t => x <= c
      /\ i < Len(e) => e[i + 1] > t /\ e[i + 1] \in S /\ \A x \in S : t < x => e[i + 1] <= x
      /\ ~(i < Len(e)) => \A x \in S : x <= t
  BY <1>1, <1>2, CurrentForkIs
<1>6. c \in Nat /\ c \in S
  BY <1>1, <1>5, EnumerationIs
<1>7. /\ y = 0 => \A x \in S : x <= t
      /\ y # 0 => y \in S /\ t < y /\ \A x \in S : t < x => y <= x
      /\ y \in Nat
  <2>1. CASE i < Len(e)
    <3>1. y = e[i + 1] /\ y > t /\ y \in S /\ y \in Nat /\ \A x \in S : t < x => y <= x
      BY <1>3, <1>5, <2>1
    <3>. HIDE DEF y
    <3>. QED  BY <3>1
  <2>2. CASE ~(i < Len(e))
    BY <1>5, <2>2
  <2>. QED  BY <2>1, <2>2
<1>. HIDE DEF i, c, y
<1>8. IsNext(y, F, t)
  BY <1>3, <1>7 DEF IsNext, gt
<1>9. PICK d, z : /\ ForkId(g, t) = IdOf(gh, d, z)
                  /\ Enumerates(d, Passed(F, t)) /\ IsNext(z, F, t)
  BY ForkIdentifies DEF IdentifiesForks, F, gh
<1>10. F \in SUBSET Nat
  BY <1>3
<1>11. z = y
  BY <1>8, <1>9, <1>10, NextUnique
<1>12. PICK d2, z2 : /\ ForkId(g, c) = IdOf(gh, d2, z2)
                     /\ Enumerates(d2, Passed(F, c)) /\ IsNext(z2, F, c)
  BY <1>6, ForkIdentifies DEF IdentifiesForks, F, gh
<1>13. Passed(F, c) = Passed(F, t)
  <2>1. \A x \in F : x <= c <=> x <= t
    <3>1. /\ c \in Nat /\ c <= t /\ \A x \in S : x <= t => x <= c
          /\ \A x \in F : x \in Nat /\ x \in S
      BY <1>3, <1>5, <1>6
    <3>. QED  BY <3>1
  <2>. QED  BY <2>1 DEF Passed
<1>14. d2 = d
  BY <1>9, <1>12, <1>13, EnumerationUnique
<1>15. /\ c <= t /\ ForkId(g, c).hash = ForkId(g, t).hash
       /\ y = ForkId(g, t).next
  BY <1>5, <1>9, <1>11, <1>12, <1>14 DEF IdOf
<1>. QED  BY <1>4, <1>15

(***************************************************************************)
(* eth_config always agrees with the fork identifier: the fork it calls    *)
(* current has the announced hash, and the next one is the announced one,  *)
(* for fork lists of any times and heads anywhere among them.              *)
(***************************************************************************)
THEOREM ConfigAlwaysAgrees == Spec => []ConfigAgrees
<1>1. NetworkInv => ConfigAgrees
  <2>. SUFFICES ASSUME NetworkInv, NEW n \in Running
                PROVE  LET config == EthConfig(loaded[n], head[n]) IN
                       /\ config.current <= head[n]
                       /\ ForkId(loaded[n], config.current).hash = status[n].hash
                       /\ config.next = status[n].next
    BY DEF ConfigAgrees
  <2>. QED  BY RunningIs, ConfigIs
<1>. QED  BY <1>1, NetworkInvariant, PTL

-----------------------------------------------------------------------------
(* Peers *)

\* The list of what the first elements of a list come to.
LEMMA EnumerationCut ==
  ASSUME NEW S, NEW e, Enumerates(e, S), NEW n \in 0..Len(e)
  PROVE  Enumerates(SubSeq(e, 1, n), Firsts(e, n))
<1>. DEFINE d == SubSeq(e, 1, n)
<1>1. /\ Len(e) \in Nat /\ n \in Nat /\ n \in Int /\ 1 \in Int
      /\ \A i \in 1..Len(e) : e[i] \in Nat
      /\ \A i, j \in 1..Len(e) : i < j => e[i] < e[j]
  BY EnumerationIs
<1>2. \A i \in 1..n : e[i] \in Nat /\ i \in 1..Len(e)
  BY <1>1
<1>3. /\ d \in Seq(Nat) /\ Len(d) = IF 1 <= n THEN n - 1 + 1 ELSE 0
      /\ \A i \in 1..(n - 1 + 1) : d[i] = e[1 + i - 1]
  BY <1>1, <1>2, SubSeqProperties
<1>. HIDE DEF d
<1>4. d \in Seq(Nat) /\ Len(d) = n /\ \A i \in 1..n : d[i] = e[i]
  BY <1>1, <1>3
<1>5. \A i, j \in 1..Len(d) : i < j => d[i] < d[j]
  BY <1>1, <1>2, <1>4
<1>6. Firsts(e, n) = {d[i] : i \in 1..Len(d)}
  BY <1>4 DEF Firsts
<1>7. Enumerates(d, Firsts(e, n))
  BY <1>4, <1>5, <1>6 DEF Enumerates
<1>. QED  BY <1>7 DEF d

\* Two lists, one of earlier times than the other, make a list.
LEMMA EnumerationConcat ==
  ASSUME NEW S, NEW e, Enumerates(e, S), NEW T, NEW d, Enumerates(d, T),
         \A x \in S : \A y \in T : x < y
  PROVE  Enumerates(e \o d, S \cup T)
<1>. DEFINE f == e \o d
            k == Len(e)
            m == Len(d)
<1>1. /\ e \in Seq(Nat) /\ d \in Seq(Nat) /\ k \in Nat /\ m \in Nat
      /\ \A i \in 1..k : e[i] \in Nat /\ e[i] \in S
      /\ \A i \in 1..m : d[i] \in Nat /\ d[i] \in T
      /\ \A i, j \in 1..k : i < j => e[i] < e[j]
      /\ \A i, j \in 1..m : i < j => d[i] < d[j]
      /\ \A x \in S : \E i \in 1..k : x = e[i]
      /\ \A x \in T : \E i \in 1..m : x = d[i]
  BY EnumerationIs
<1>2. /\ f \in Seq(Nat) /\ Len(f) = k + m
      /\ \A i \in 1..(k + m) : f[i] = IF i <= k THEN e[i] ELSE d[i - k]
  BY <1>1, ConcatProperties
<1>. HIDE DEF f, k, m
<1>3. /\ \A i \in 1..k : i \in 1..(k + m) /\ f[i] = e[i]
      /\ \A i \in 1..m : i + k \in 1..(k + m) /\ f[i + k] = d[i]
      /\ \A i \in 1..(k + m) : i \in 1..k \/ (i - k \in 1..m /\ f[i] = d[i - k])
  <2>1. \A i \in 1..m : i + k \in 1..(k + m) /\ ~(i + k <= k) /\ i + k - k = i
    BY <1>1
  <2>2. ASSUME NEW i \in 1..m PROVE f[i + k] = d[i]
    <3>. DEFINE p == i + k
    <3>1. p \in 1..(k + m) /\ ~(p <= k) /\ p - k = i
      BY <1>1
    <3>. HIDE DEF p
    <3>2. f[p] = d[p - k]
      BY <1>2, <3>1
    <3>. QED  BY <3>1, <3>2 DEF p
  <2>3. \A i \in 1..k : i \in 1..(k + m) /\ i <= k
    BY <1>1
  <2>4. \A i \in 1..(k + m) : i \in 1..k \/ (i - k \in 1..m /\ ~(i <= k))
    BY <1>1
  <2>. QED  BY <1>2, <2>1, <2>2, <2>3, <2>4
<1>4. ASSUME NEW i \in 1..(k + m), NEW j \in 1..(k + m), i < j
      PROVE  f[i] < f[j]
  <2>0. i \in Nat /\ j \in Nat
    BY <1>1
  <2>1. CASE j \in 1..k
    <3>1. i \in 1..k
      BY <1>1, <1>4, <2>0, <2>1
    <3>. QED  BY <1>1, <1>3, <1>4, <2>1, <3>1
  <2>2. CASE j - k \in 1..m /\ f[j] = d[j - k] /\ i \in 1..k
    BY <1>1, <1>3, <2>2
  <2>3. CASE j - k \in 1..m /\ f[j] = d[j - k] /\ i - k \in 1..m /\ f[i] = d[i - k]
    <3>1. i - k < j - k
      BY <1>1, <1>4, <2>0
    <3>. QED  BY <1>1, <2>3, <3>1
  <2>. QED  BY <1>3, <2>1, <2>2, <2>3
<1>5. S \cup T = {f[i] : i \in 1..(k + m)}
  <2>1. ASSUME NEW x \in S PROVE x \in {f[i] : i \in 1..(k + m)}
    BY <1>1, <1>3
  <2>2. ASSUME NEW x \in T PROVE x \in {f[i] : i \in 1..(k + m)}
    <3>1. PICK i \in 1..m : x = d[i]
      BY <1>1
    <3>. QED  BY <1>3, <3>1
  <2>3. ASSUME NEW i \in 1..(k + m) PROVE f[i] \in S \cup T
    BY <1>1, <1>3
  <2>. QED  BY <2>1, <2>2, <2>3
<1>6. Enumerates(f, S \cup T)
  BY <1>2, <1>4, <1>5 DEF Enumerates
<1>. QED  BY <1>6 DEF f

\* Lists are the same exactly when their sets are.
LEMMA EnumerationsEqual ==
  ASSUME NEW S, NEW e, Enumerates(e, S), NEW T, NEW d, Enumerates(d, T)
  PROVE  e = d <=> S = T
<1>1. e = d => S = T
  BY DEF Enumerates
<1>. QED  BY <1>1, EnumerationUnique

\* The fork at position n + 1 of a filter's list of the past, and a
\* remote's list cut before it.
LEMMA BehindIs ==
  ASSUME NEW S, NEW e, Enumerates(e, S), NEW T, NEW d, Enumerates(d, T), NEW y
  PROVE  (\E n \in 0..(Len(e) - 1) : d = SubSeq(e, 1, n) /\ y = e[n + 1]) <=>
           y \in S /\ T = {x \in S : x < y}
<1>1. /\ Len(e) \in Nat
      /\ \A i \in 1..Len(e) : e[i] \in S
      /\ \A x \in S : \E i \in 1..Len(e) : x = e[i]
  <2>1. Len(e) \in Nat /\ \A i \in 1..Len(e) : e[i] \in S
    BY EnumerationIs
  <2>2. \A x \in S : \E i \in 1..Len(e) : x = e[i]
    BY EnumerationIs
  <2>. QED  BY <2>1, <2>2
<1>2. ASSUME NEW i \in 1..Len(e)
      PROVE  d = SubSeq(e, 1, i - 1) <=> T = {x \in S : x < e[i]}
  <2>. DEFINE n == i - 1
  <2>1. n \in 0..Len(e)
    BY <1>1
  <2>2. {x \in S : x < e[i]} = Firsts(e, n)
    BY FirstsBelow
  <2>. DEFINE c == SubSeq(e, 1, n)
              F == Firsts(e, n)
  <2>. HIDE DEF n
  <2>3. Enumerates(c, F)
    BY <2>1, EnumerationCut
  <2>4. d = c <=> T = F
    <3>. HIDE DEF c, F
    <3>. QED  BY <2>3, EnumerationsEqual
  <2>. QED  BY <2>2, <2>4 DEF n
<1>3. ASSUME NEW n \in 0..(Len(e) - 1), d = SubSeq(e, 1, n), y = e[n + 1]
      PROVE  y \in S /\ T = {x \in S : x < y}
  <2>. DEFINE i == n + 1
  <2>1. i \in 1..Len(e) /\ i - 1 = n
    BY <1>1
  <2>2. y = e[i]
    BY <1>3
  <2>. HIDE DEF i
  <2>. QED  BY <1>1, <1>2, <1>3, <2>1, <2>2
<1>4. ASSUME y \in S, T = {x \in S : x < y}
      PROVE  \E n \in 0..(Len(e) - 1) : d = SubSeq(e, 1, n) /\ y = e[n + 1]
  <2>1. PICK i \in 1..Len(e) : y = e[i]
    BY <1>1, <1>4
  <2>. DEFINE n == i - 1
  <2>2. n \in 0..(Len(e) - 1) /\ n + 1 = i
    BY <1>1
  <2>3. d = SubSeq(e, 1, n)
    BY <1>2, <1>4, <2>1
  <2>. HIDE DEF n
  <2>. QED  BY <2>1, <2>2, <2>3
<1>. QED  BY <1>3, <1>4

\* A filter's list of the past, with its list of the future up to a fork.
Ahead(p, e, d) == \E n \in 1..Len(e) : d = p \o SubSeq(e, 1, n)
AheadOf(S, t, T) == \E z \in ToCome(S, t) : T = Passed(S, z)

\* A remote's list is ahead exactly when its set is.
LEMMA AheadIs ==
  ASSUME NEW S \in SUBSET Nat, NEW t \in Nat,
         NEW p, Enumerates(p, Passed(S, t)), NEW e, Enumerates(e, ToCome(S, t)),
         NEW T, NEW d, Enumerates(d, T)
  PROVE  Ahead(p, e, d) <=> AheadOf(S, t, T)
<1>1. /\ Len(e) \in Nat
      /\ \A i \in 1..Len(e) : e[i] \in ToCome(S, t) /\ e[i] \in Nat
      /\ \A x \in ToCome(S, t) : \E i \in 1..Len(e) : x = e[i]
  BY EnumerationIs
<1>2. ASSUME NEW n \in 1..Len(e)
      PROVE  d = p \o SubSeq(e, 1, n) <=> T = Passed(S, e[n])
  <2>. DEFINE z == e[n]
  <2>1. n \in 0..Len(e) /\ n \in 1..n /\ n \in Nat
    BY <1>1
  <2>2. Enumerates(SubSeq(e, 1, n), Firsts(e, n))
    BY <2>1, EnumerationCut
  <2>3. {x \in ToCome(S, t) : x < z} = Firsts(e, n - 1)
    BY FirstsBelow
  <2>4. Firsts(e, n) = Firsts(e, n - 1) \cup {z}
    <3>1. \A i \in 1..n : i \in 1..(n - 1) \/ i = n
      BY <2>1
    <3>2. \A i \in 1..(n - 1) : i \in 1..n
      BY <2>1
    <3>. QED  BY <2>1, <3>1, <3>2 DEF Firsts
  <2>5. z \in ToCome(S, t) /\ z \in Nat
    BY <1>1
  <2>. HIDE DEF z
  <2>6. z \in S /\ t < z
    BY <2>5 DEF ToCome
  <2>7. \A x \in S : x \in Nat /\ (x <= z <=> x <= t \/ (x > t /\ x < z) \/ x = z)
    BY <2>5, <2>6
  <2>8. Passed(S, t) \cup Firsts(e, n) = Passed(S, z)
    <3>1. Firsts(e, n) = {x \in S : x > t /\ x < z} \cup {z}
      BY <2>3, <2>4 DEF ToCome
    <3>. QED  BY <2>6, <2>7, <3>1 DEF Passed
  <2>9. \A x \in Passed(S, t) : \A y \in Firsts(e, n) : x < y
    <3>1. \A y \in Firsts(e, n) : y \in ToCome(S, t)
      BY <2>3, <2>4, <2>5
    <3>2. ASSUME NEW x \in Passed(S, t), NEW y \in ToCome(S, t) PROVE x < y
      <4>1. x \in Nat /\ y \in Nat /\ x <= t /\ t < y
        BY DEF Passed, ToCome
      <4>. QED  BY <4>1
    <3>. QED  BY <3>1, <3>2
  <2>. DEFINE c == p \o SubSeq(e, 1, n)
              F == Passed(S, z)
  <2>10. Enumerates(c, F)
    BY <2>2, <2>8, <2>9, EnumerationConcat
  <2>11. d = c <=> T = F
    <3>. HIDE DEF c, F
    <3>. QED  BY <2>10, EnumerationsEqual
  <2>. QED  BY <2>11 DEF z
<1>3. ASSUME Ahead(p, e, d) PROVE AheadOf(S, t, T)
  BY <1>1, <1>2, <1>3 DEF Ahead, AheadOf
<1>4. ASSUME AheadOf(S, t, T) PROVE Ahead(p, e, d)
  <2>1. PICK z \in ToCome(S, t) : T = Passed(S, z)
    BY <1>4 DEF AheadOf
  <2>2. PICK n \in 1..Len(e) : z = e[n]
    BY <1>1
  <2>3. d = p \o SubSeq(e, 1, n)
    BY <1>2, <2>1, <2>2
  <2>. QED  BY <2>3 DEF Ahead
<1>. QED  BY <1>3, <1>4

(***************************************************************************)
(* What a filter accepts of a remote of the same genesis, said of sets:    *)
(* the remote has passed the same forks T and announces none reached here; *)
(* it is behind and announces the fork it passes next here; it is ahead.   *)
(***************************************************************************)
Admits(S, t, T, y) ==
  \/ T = Passed(S, t) /\ (y = 0 \/ t < y)
  \/ y \in Passed(S, t) /\ T = {x \in Passed(S, t) : x < y}
  \/ \E z \in ToCome(S, t) : T = Passed(S, z)

\* The filter's comparisons of lists are comparisons of sets.
LEMMA AcceptsIs ==
  ASSUME NEW g \in Genesis, Load(g) = "berachain", NEW t \in Nat,
         NEW genesis, NEW T, NEW d, Enumerates(d, T), NEW y
  PROVE  Accepts(NewFilter(g, t), IdOf(genesis, d, y)) <=>
           GenesisHash(g) = genesis /\ Admits(ForksOf(g), t, T, y)
<1>. DEFINE f == NewFilter(g, t)
            S == ForksOf(g)
            gh == GenesisHash(g)
            id == IdOf(genesis, d, y)
<1>1. /\ Enumerates(Past(f), Passed(S, t)) /\ Enumerates(Future(f), ToCome(S, t))
      /\ S \in SUBSET Nat
  BY FilterLists, ForksBounded
<1>2. f.genesis = gh /\ f.head = t
  BY DEF NewFilter
<1>3. /\ id.next = y
      /\ \A times : id.hash = HashOf(f, times) <=> genesis = gh /\ d = times
  BY <1>2 DEF IdOf, HashOf
<1>. HIDE DEF f, S, gh, id
<1>4. Accepts(f, id) <=>
        /\ genesis = gh
        /\ \/ d = Past(f) /\ (y = 0 \/ t < y)
           \/ \E n \in 0..(Len(Past(f)) - 1) : d = SubSeq(Past(f), 1, n) /\ y = Past(f)[n + 1]
           \/ \E n \in 1..Len(Future(f)) : d = Past(f) \o SubSeq(Future(f), 1, n)
  <2>1. Current(f).hash = HashOf(f, Past(f))
    BY DEF Current
  <2>2. Accepts(f, id) <=>
        \/ genesis = gh /\ d = Past(f) /\ (y = 0 \/ t < y)
        \/ \E n \in 0..(Len(Past(f)) - 1) :
             genesis = gh /\ d = SubSeq(Past(f), 1, n) /\ y = Past(f)[n + 1]
        \/ \E n \in 1..Len(Future(f)) :
             genesis = gh /\ d = Past(f) \o SubSeq(Future(f), 1, n)
    BY <1>2, <1>3, <2>1 DEF Accepts
  <2>. QED  BY <2>2, Zenon
<1>5. d = Past(f) <=> T = Passed(S, t)
  BY <1>1, EnumerationsEqual
<1>6. (\E n \in 0..(Len(Past(f)) - 1) : d = SubSeq(Past(f), 1, n) /\ y = Past(f)[n + 1]) <=>
        y \in Passed(S, t) /\ T = {x \in Passed(S, t) : x < y}
  BY <1>1, BehindIs
<1>7. Ahead(Past(f), Future(f), d) <=> AheadOf(S, t, T)
  BY <1>1, AheadIs
<1>. QED  BY <1>4, <1>5, <1>6, <1>7, Zenon DEF Admits, Ahead, AheadOf, f, S, gh, id

\* Remotes of the same genesis that agree with a filter on the forks up to
\* the later of the heads are accepted.
LEMMA AgreedAccepted ==
  ASSUME NEW A \in SUBSET Nat, NEW B \in SUBSET Nat, NEW a \in Nat, NEW b \in Nat,
         NEW l \in Nat, a <= l, b <= l, l = a \/ l = b, Passed(A, l) = Passed(B, l),
         NEW d, Enumerates(d, Passed(B, b)), NEW y, IsNext(y, B, b)
  PROVE  Admits(A, a, Passed(B, b), y)
<1>. SUFFICES \/ Passed(B, b) = Passed(A, a) /\ (y = 0 \/ a < y)
              \/ y \in Passed(A, a) /\ Passed(B, b) = {x \in Passed(A, a) : x < y}
              \/ \E z \in ToCome(A, a) : Passed(B, b) = Passed(A, z)
  BY Zenon DEF Admits
<1>1. /\ \A x \in A : x \in Nat /\ (x <= l => x \in B)
      /\ \A x \in B : x \in Nat /\ (x <= l => x \in A)
  <2>1. \A x : (x \in A /\ x <= l) <=> (x \in B /\ x <= l)
    BY DEF Passed
  <2>. QED  BY <2>1
<1>2. /\ y \in Nat
      /\ y = 0 => \A x \in B : x <= b
      /\ y # 0 => y \in B /\ b < y /\ \A x \in B : b < x => y <= x
  BY DEF IsNext
<1>3. CASE Passed(B, b) = Passed(A, a)
  <2>. SUFFICES ASSUME y # 0, y <= a PROVE FALSE
    BY <1>2, <1>3
  <2>1. y \in A
    BY <1>1, <1>2
  <2>2. y \in Passed(B, b)
    BY <1>3, <2>1 DEF Passed
  <2>. QED  BY <1>2, <2>2 DEF Passed
<1>4. CASE Passed(B, b) # Passed(A, a) /\ b < a
  <2>1. l = a
    BY <1>4
  <2>2. PICK w \in A : b < w /\ w <= a
    <3>. SUFFICES ASSUME \A w \in A : w <= a => w <= b PROVE Passed(B, b) = Passed(A, a)
      BY <1>1, <1>4
    <3>1. ASSUME NEW x PROVE (x \in B /\ x <= b) <=> (x \in A /\ x <= a)
      <4>1. x \in A => x \in Nat /\ (x <= a => x <= b /\ x \in B)
        BY <1>1, <2>1
      <4>2. x \in B => x \in Nat /\ (x <= b => x <= a) /\ (x <= a => x \in A)
        BY <1>1, <1>4, <2>1
      <4>. QED  BY <4>1, <4>2
    <3>. QED  BY <3>1 DEF Passed
  <2>3. y \in A /\ y \in B /\ b < y /\ y <= a /\ \A x \in B : b < x => y <= x
    BY <1>1, <1>2, <2>1, <2>2
  <2>4. ASSUME NEW x PROVE (x \in B /\ x <= b) <=> (x \in A /\ x <= a /\ x < y)
    <3>1. x \in B => x \in Nat /\ (x <= b => x <= a /\ x < y /\ x \in A)
      BY <1>1, <1>2, <1>4, <2>1, <2>3
    <3>2. x \in A => x \in Nat /\ (x <= a => x \in B /\ (b < x => y <= x))
      BY <1>1, <2>1, <2>3
    <3>3. x \in Nat => (x < y => ~(y <= x)) /\ (x <= b \/ b < x)
      BY <1>2
    <3>. QED  BY <3>1, <3>2, <3>3
  <2>. QED  BY <2>3, <2>4 DEF Passed
<1>5. CASE Passed(B, b) # Passed(A, a) /\ a < b
  <2>1. l = b
    BY <1>5
  <2>2. Passed(B, b) = Passed(A, b)
    BY <2>1
  <2>3. PICK w \in A : a < w /\ w <= b
    <3>. SUFFICES ASSUME \A w \in A : w <= b => w <= a PROVE Passed(B, b) = Passed(A, a)
      BY <1>1, <1>5
    <3>1. ASSUME NEW x PROVE (x \in B /\ x <= b) <=> (x \in A /\ x <= a)
      <4>1. x \in A => x \in Nat /\ (x <= a => x <= b) /\ (x <= b => x <= a /\ x \in B)
        BY <1>1, <1>5, <2>1
      <4>2. x \in B => x \in Nat /\ (x <= b => x \in A)
        BY <1>1, <2>1
      <4>. QED  BY <4>1, <4>2
    <3>. QED  BY <3>1 DEF Passed
  <2>4. w \in Passed(B, b)
    BY <2>2, <2>3 DEF Passed
  <2>5. d # <<>>
    BY <2>4, EnumerationIs
  <2>. DEFINE z == d[Len(d)]
  <2>6. z \in Passed(B, b) /\ \A x \in Passed(B, b) : x <= z
    BY <2>5, LastIsGreatest
  <2>. HIDE DEF z
  <2>7. z \in A /\ z <= b /\ z \in Nat /\ \A x \in A : x <= b => x <= z
    BY <1>1, <2>2, <2>6 DEF Passed
  <2>8. a < z
    BY <1>1, <2>3, <2>7
  <2>9. \A x \in A : x <= b <=> x <= z
    BY <1>1, <2>7
  <2>10. z \in ToCome(A, a) /\ Passed(B, b) = Passed(A, z)
    BY <2>2, <2>7, <2>8, <2>9 DEF Passed, ToCome
  <2>. QED  BY <2>10
<1>6. CASE Passed(B, b) # Passed(A, a) /\ a = b
  BY <1>6
<1>. QED  BY <1>3, <1>4, <1>5, <1>6

\* Remotes a filter accepts agree with it on the forks up to the earlier of
\* the heads.
LEMMA AcceptedAgree ==
  ASSUME NEW A \in SUBSET Nat, NEW B \in SUBSET Nat, NEW a \in Nat, NEW b \in Nat,
         NEW l \in Nat, l <= a, l <= b, \A x \in A : 0 < x, NEW y, IsNext(y, B, b),
         Admits(A, a, Passed(B, b), y)
  PROVE  Passed(A, l) = Passed(B, l)
<1>. SUFFICES \A x \in Nat : x <= l => (x \in A <=> x \in B)
  BY DEF Passed
<1>1. CASE Passed(B, b) = Passed(A, a)
  <2>1. \A x : (x \in B /\ x <= b) <=> (x \in A /\ x <= a)
    BY <1>1 DEF Passed
  <2>. QED  BY <2>1
<1>2. CASE y \in Passed(A, a) /\ Passed(B, b) = {x \in Passed(A, a) : x < y}
  <2>1. y \in A /\ y # 0 /\ y \in Nat
    BY <1>2 DEF Passed
  <2>2. b < y
    BY <2>1 DEF IsNext
  <2>3. \A x : (x \in B /\ x <= b) <=> (x \in A /\ x <= a /\ x < y)
    BY <1>2 DEF Passed
  <2>. QED  BY <2>1, <2>2, <2>3
<1>3. CASE \E z \in ToCome(A, a) : Passed(B, b) = Passed(A, z)
  <2>1. PICK z \in ToCome(A, a) : Passed(B, b) = Passed(A, z)
    BY <1>3
  <2>2. z \in Nat /\ a < z
    BY DEF ToCome
  <2>3. \A x : (x \in B /\ x <= b) <=> (x \in A /\ x <= z)
    BY <2>1 DEF Passed
  <2>. QED  BY <2>2, <2>3
<1>. QED  BY <1>1, <1>2, <1>3 DEF Admits

\* Accepted files have the same genesis hash exactly when the genesis
\* headers have the same time and the same forks.
LEMMA SameGenesisIs ==
  ASSUME NEW g \in Genesis, Load(g) = "berachain", NEW h \in Genesis, Load(h) = "berachain"
  PROVE  SameGenesis(g, h) <=> GenesisHash(g) = GenesisHash(h)
<1>1. ASSUME NEW k \in Genesis, Load(k) = "berachain"
      PROVE  /\ GenesisHash(k).timestamp = k.timestamp
             /\ GenesisHash(k).pubkey = ActiveAt(ScheduleOf(k), "Prague1", k.timestamp)
             /\ GenesisHash(k).requests = ActiveAt(ScheduleOf(k), "Prague", k.timestamp)
  <2>1. k.berachain.prague1 # Never /\ k.berachain.prague1.time \in Nat
    BY <1>1 DEF Load, Parses, Genesis, Section
  <2>2. /\ ScheduleOf(k)["Prague1"] = k.berachain.prague1.time
        /\ ScheduleOf(k)["Prague1"] # Never
    BY <2>1, NeverAssumption DEF ScheduleOf, Fork, TimeOf
  <2>. QED  BY <2>2 DEF GenesisHash, ActiveAt, IsPragueActive
<1>2. GenesisHash(g) = GenesisHash(h) <=>
        /\ GenesisHash(g).timestamp = GenesisHash(h).timestamp
        /\ GenesisHash(g).pubkey = GenesisHash(h).pubkey
        /\ GenesisHash(g).requests = GenesisHash(h).requests
  BY DEF GenesisHash
<1>. DEFINE Act(k, f) == ActiveAt(ScheduleOf(k), f, k.timestamp)
<1>3. \A f \in {"Prague", "Prague1"} : Act(g, f) \in BOOLEAN /\ Act(h, f) \in BOOLEAN
  BY DEF ActiveAt
<1>4. SameGenesis(g, h) <=>
        /\ g.timestamp = h.timestamp
        /\ Act(g, "Prague") <=> Act(h, "Prague")
        /\ Act(g, "Prague1") <=> Act(h, "Prague1")
  BY DEF SameGenesis
<1>5. /\ GenesisHash(g).timestamp = g.timestamp /\ GenesisHash(h).timestamp = h.timestamp
      /\ GenesisHash(g).pubkey = Act(g, "Prague1") /\ GenesisHash(h).pubkey = Act(h, "Prague1")
      /\ GenesisHash(g).requests = Act(g, "Prague") /\ GenesisHash(h).requests = Act(h, "Prague")
  BY <1>1
<1>. HIDE DEF Act
<1>. QED  BY <1>2, <1>3, <1>4, <1>5

\* One of two peers with the other's filter and identifier.
LEMMA AcceptsStatus ==
  ASSUME NetworkInv, NEW n \in Running, NEW m \in Running
  PROVE  LET A == ForksOf(loaded[n])
             B == ForksOf(loaded[m])
         IN  \E d, y :
               /\ Enumerates(d, Passed(B, head[m])) /\ IsNext(y, B, head[m])
               /\ Accepts(filter[n], status[m]) <=>
                    /\ SameGenesis(loaded[n], loaded[m])
                    /\ Admits(A, head[n], Passed(B, head[m]), y)
<1>. DEFINE g == loaded[n]
            h == loaded[m]
            a == head[n]
            b == head[m]
<1>1. /\ g \in Genesis /\ Load(g) = "berachain" /\ h \in Genesis /\ Load(h) = "berachain"
      /\ a \in Nat /\ b \in Nat /\ filter[n] = NewFilter(g, a) /\ status[m] = ForkId(h, b)
  BY RunningIs
<1>. HIDE DEF g, h, a, b
<1>2. PICK d, y : /\ status[m] = IdOf(GenesisHash(h), d, y)
                  /\ Enumerates(d, Passed(ForksOf(h), b)) /\ IsNext(y, ForksOf(h), b)
  BY <1>1, ForkIdentifies DEF IdentifiesForks
<1>. DEFINE T == Passed(ForksOf(h), b)
<1>3. Enumerates(d, T)
  BY <1>2
<1>. HIDE DEF T
<1>4. Accepts(NewFilter(g, a), IdOf(GenesisHash(h), d, y)) <=>
        /\ GenesisHash(g) = GenesisHash(h)
        /\ Admits(ForksOf(g), a, T, y)
  BY <1>1, <1>3, AcceptsIs
<1>5. SameGenesis(g, h) <=> GenesisHash(g) = GenesisHash(h)
  BY <1>1, SameGenesisIs
<1>6. Accepts(filter[n], status[m]) <=>
        /\ SameGenesis(g, h)
        /\ Admits(ForksOf(g), a, T, y)
  BY <1>1, <1>2, <1>4, <1>5, Zenon
<1>. QED  BY <1>2, <1>6, Zenon DEF g, h, a, b, T

\* The forks a property counts are those a filter keeps.
LEMMA ForksUpToIs ==
  ASSUME NEW g \in Genesis, Load(g) = "berachain", NEW t \in Nat
  PROVE  ForksUpTo(g, t) = Passed(ForksOf(g), t)
<1>1. \A x \in ToSet(ForkTimes(g)) : x \in Nat
  BY ForksBounded
<1>2. g.timestamp \in Nat
  BY DEF Genesis
<1>. QED  BY <1>1, <1>2 DEF ForksUpTo, ForksOf, Passed

\* A node accepts those that agree with it up to the later head.
LEMMA AcceptsIfAgreed ==
  ASSUME NetworkInv, NEW n \in Running, NEW m \in Running, NEW l \in Nat,
         AgreeUpTo(n, m, l), head[n] <= l, head[m] <= l, l = head[n] \/ l = head[m]
  PROVE  Accepts(filter[n], status[m])
<1>. DEFINE A == ForksOf(loaded[n])
            B == ForksOf(loaded[m])
            a == head[n]
            b == head[m]
<1>1. /\ A \in SUBSET Nat /\ B \in SUBSET Nat /\ a \in Nat /\ b \in Nat
      /\ SameGenesis(loaded[n], loaded[m]) /\ Passed(A, l) = Passed(B, l)
      /\ a <= l /\ b <= l /\ (l = a \/ l = b)
  BY RunningIs, ForksBounded, ForksUpToIs DEF AgreeUpTo
<1>2. PICK d, y :
        /\ Enumerates(d, Passed(B, b)) /\ IsNext(y, B, b)
        /\ Accepts(filter[n], status[m]) <=>
             /\ SameGenesis(loaded[n], loaded[m])
             /\ Admits(A, a, Passed(B, b), y)
  BY AcceptsStatus, Zenon
<1>. HIDE DEF A, B, a, b
<1>3. Admits(A, a, Passed(B, b), y)
  BY <1>1, <1>2, AgreedAccepted
<1>. QED  BY <1>1, <1>2, <1>3, Zenon

\* And the other way around: a node accepts those only that agree with it
\* up to the earlier head.
LEMMA AgreedIfAccepts ==
  ASSUME NetworkInv, NEW n \in Running, NEW m \in Running, NEW l \in Nat,
         Accepts(filter[n], status[m]), l <= head[n], l <= head[m]
  PROVE  AgreeUpTo(n, m, l)
<1>. DEFINE A == ForksOf(loaded[n])
            B == ForksOf(loaded[m])
            a == head[n]
            b == head[m]
<1>1. /\ A \in SUBSET Nat /\ B \in SUBSET Nat /\ a \in Nat /\ b \in Nat
      /\ l <= a /\ l <= b
      /\ loaded[n] \in Genesis /\ Load(loaded[n]) = "berachain" /\ loaded[n].timestamp \in Nat
      /\ loaded[m] \in Genesis /\ Load(loaded[m]) = "berachain"
  BY RunningIs, ForksBounded
<1>2. \A x \in A : 0 < x
  <2>1. \A x \in A : x \in Nat /\ loaded[n].timestamp < x
    BY <1>1, ForksBounded
  <2>. HIDE DEF A
  <2>. QED  BY <1>1, <2>1
<1>3. PICK d, y :
        /\ Enumerates(d, Passed(B, b)) /\ IsNext(y, B, b)
        /\ Accepts(filter[n], status[m]) <=>
             /\ SameGenesis(loaded[n], loaded[m])
             /\ Admits(A, a, Passed(B, b), y)
  BY AcceptsStatus, Zenon
<1>4. ForksUpTo(loaded[n], l) = Passed(A, l) /\ ForksUpTo(loaded[m], l) = Passed(B, l)
  BY <1>1, ForksUpToIs
<1>. HIDE DEF A, B, a, b
<1>5. /\ SameGenesis(loaded[n], loaded[m])
      /\ Admits(A, a, Passed(B, b), y)
  BY <1>3, Zenon
<1>6. Passed(A, l) = Passed(B, l)
  BY <1>1, <1>2, <1>3, <1>5, AcceptedAgree
<1>. QED  BY <1>4, <1>5, <1>6 DEF AgreeUpTo

\* The later and the earlier of two heads.
LEMMA LaterAndEarlier ==
  ASSUME NEW a \in Nat, NEW b \in Nat
  PROVE  /\ Max({a, b}) \in Nat /\ a <= Max({a, b}) /\ b <= Max({a, b})
         /\ Max({a, b}) = a \/ Max({a, b}) = b
         /\ Min({a, b}) \in Nat /\ Min({a, b}) <= a /\ Min({a, b}) <= b
<1>1. (\E x \in {a, b} : \A y \in {a, b} : x >= y) /\ (\E x \in {a, b} : \A y \in {a, b} : x <= y)
  OBVIOUS
<1>2. Max({a, b}) \in {a, b} /\ \A y \in {a, b} : Max({a, b}) >= y
  BY <1>1 DEF Max
<1>3. Min({a, b}) \in {a, b} /\ \A y \in {a, b} : Min({a, b}) <= y
  BY <1>1 DEF Min
<1>. QED  BY <1>2, <1>3

(***************************************************************************)
(* Nodes that agree on the forks up to the later of their heads always     *)
(* keep each other as peers, and nodes that disagree on one both have      *)
(* passed never do: for any files, any heads and any releases in between.  *)
(***************************************************************************)
THEOREM PeersAlwaysAgree == Spec => []PeersAgree
<1>1. NetworkInv => PeersAgree
  <2>. SUFFICES ASSUME NetworkInv, NEW n \in Running, NEW m \in Running
                PROVE  /\ AgreeUpTo(n, m, Max({head[n], head[m]})) =>
                            Accepts(filter[n], status[m]) /\ Accepts(filter[m], status[n])
                       /\ Accepts(filter[n], status[m]) => AgreeUpTo(n, m, Min({head[n], head[m]}))
    BY DEF PeersAgree
  <2>. DEFINE late  == Max({head[n], head[m]})
              early == Min({head[n], head[m]})
  <2>1. /\ late \in Nat /\ head[n] <= late /\ head[m] <= late
        /\ late = head[n] \/ late = head[m]
        /\ early \in Nat /\ early <= head[n] /\ early <= head[m]
    <3>1. head[n] \in Nat /\ head[m] \in Nat
      BY RunningIs
    <3>. QED  BY <3>1, LaterAndEarlier
  <2>. HIDE DEF late, early
  <2>2. ASSUME AgreeUpTo(n, m, late)
        PROVE  Accepts(filter[n], status[m]) /\ Accepts(filter[m], status[n])
    <3>1. AgreeUpTo(m, n, late)
      BY <2>2 DEF AgreeUpTo, SameGenesis
    <3>. QED  BY <2>1, <2>2, <3>1, AcceptsIfAgreed
  <2>3. Accepts(filter[n], status[m]) => AgreeUpTo(n, m, early)
    BY <2>1, AgreedIfAccepts
  <2>. QED  BY <2>2, <2>3 DEF late, early
<1>. QED  BY <1>1, NetworkInvariant, PTL
=============================================================================
