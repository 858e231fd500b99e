----------------------------- MODULE FormsProofs -----------------------------
(***************************************************************************)
(* Proofs about TransactionForms, for any set of users' transactions of    *)
(* any types, any first Prague1 block and any number of blocks; and about  *)
(* HeaderForms, for any ordered networks and any times.                    *)
(***************************************************************************)
EXTENDS TransactionForms, HeaderForms, Induction, FiniteSetTheorems, SequenceTheorems, TLAPS

-----------------------------------------------------------------------------
(* The codecs are inverse functions *)

Users == {Signed(u) : u \in User}
PoLs  == {Berachain(PoLBody(n, "system")) : n \in Nat}

\* What a block may hold.
Envelope == Users \cup PoLs

\* What a user's envelope is made of.
LEMMA UserFields ==
  ASSUME NEW u \in User
  PROVE  /\ Signed(u).variant = "Ethereum" /\ Signed(u).type = TypeOf[u]
         /\ Signed(u).body = u /\ Signed(u).signature = u
         /\ TypeOf[u] \in EthType
  BY FormsAssumption DEF Signed, Ethereum

LEMMA PoLFields ==
  ASSUME NEW n \in Nat
  PROVE  LET tx == Berachain(PoLBody(n, "system")) IN
         /\ tx.variant = "Berachain" /\ tx.type = "PoL" /\ tx.signature = None
         /\ tx.body = PoLBody(n, "system") /\ tx.body \in PoLBodies
         /\ tx.body.number = n
  BY DEF Berachain, PoLBody, PoLBodies

\* A type byte names one Ethereum type, and never the PoL type.
LEMMA TypeBytes ==
  /\ \A tx : tx.type = "PoL" => TypeByte(tx) = POL_TX_TYPE
  /\ \A tx : tx.type \in EthType =>
       /\ TypeByte(tx) # POL_TX_TYPE
       /\ TypeByte(tx) = TypeByte([type |-> tx.type])
       /\ \A t \in EthType : TypeByte([type |-> t]) = TypeByte(tx) => t = tx.type
<1>1. None \notin Nat
  BY FormsAssumption
<1>. QED  BY <1>1 DEF TypeByte, EthType, POL_TX_TYPE

\* Decoding an Ethereum transaction's list gives its type, body and signature.
LEMMA EthereumDecoded ==
  ASSUME NEW u \in User, NEW e, e.type = TypeByte(Signed(u)), e.fields = <<u, u>>
  PROVE  Decode2718(e) = Signed(u)
<1>. DEFINE right == CHOOSE t \in EthType : TypeByte([type |-> t]) = e.type
<1>1. Signed(u).type = TypeOf[u] /\ TypeOf[u] \in EthType
  BY UserFields
<1>2. TypeByte([type |-> TypeOf[u]]) = e.type /\ e.type # POL_TX_TYPE
  BY <1>1, TypeBytes
<1>3. right \in EthType /\ TypeByte([type |-> right]) = e.type
  BY <1>1, <1>2
<1>4. right = TypeOf[u]
  BY <1>1, <1>3, TypeBytes
<1>5. Decode2718(e) = Ethereum(right, e.fields[1], e.fields[2])
  BY <1>2 DEF Decode2718
<1>6. e.fields[1] = u /\ e.fields[2] = u
  OBVIOUS
<1>. QED  BY <1>4, <1>5, <1>6 DEF Signed

(***************************************************************************)
(* Between peers: what is encoded is decoded as it was.                    *)
(***************************************************************************)
LEMMA PeerRoundTrip ==
  ASSUME NEW tx \in Envelope
  PROVE  Decode2718(Encode2718(tx)) = tx
<1>1. ASSUME NEW u \in User, tx = Signed(u)
      PROVE  Decode2718(Encode2718(tx)) = tx
  <2>1. Encode2718(tx).type = TypeByte(Signed(u)) /\ Encode2718(tx).fields = <<u, u>>
    BY <1>1, UserFields DEF Encode2718
  <2>. QED  BY <1>1, <2>1, EthereumDecoded
<1>2. ASSUME NEW n \in Nat, tx = Berachain(PoLBody(n, "system"))
      PROVE  Decode2718(Encode2718(tx)) = tx
  <2>1. /\ Encode2718(tx).type = POL_TX_TYPE
        /\ Encode2718(tx).fields[1] = PoLBody(n, "system")
    BY <1>2, PoLFields, TypeBytes DEF Encode2718
  <2>. QED  BY <1>2, <2>1 DEF Decode2718
<1>. QED  BY <1>1, <1>2 DEF Envelope, Users, PoLs

(***************************************************************************)
(* From another node's JSON: the sender serde drops comes back before the  *)
(* payload is encoded.                                                     *)
(***************************************************************************)
LEMMA JsonRoundTrip ==
  ASSUME NEW tx \in Envelope
  PROVE  Decode2718(PayloadTx(FromJson(ToJson(tx)))) = tx
<1>. DEFINE read == FromJson(ToJson(tx)).tx
<1>1. ASSUME NEW u \in User, tx = Signed(u)
      PROVE  Decode2718(PayloadTx(FromJson(ToJson(tx)))) = tx
  <2>1. ToJson(tx).type = TypeByte(Signed(u)) /\ ToJson(tx).fields = <<u, u>>
    BY <1>1, UserFields DEF ToJson
  <2>2. ToJson(tx).type # POL_TX_TYPE
    BY <1>1, <2>1, UserFields, TypeBytes
  <2>3. read = tx
    BY <1>1, <2>1, <2>2, EthereumDecoded DEF FromJson
  <2>4. PayloadTx(FromJson(ToJson(tx))) = Encode2718(tx)
    BY <1>1, <2>3, UserFields DEF PayloadTx
  <2>. QED  BY <2>4, PeerRoundTrip
<1>2. ASSUME NEW n \in Nat, tx = Berachain(PoLBody(n, "system"))
      PROVE  Decode2718(PayloadTx(FromJson(ToJson(tx)))) = tx
  <2>1. ToJson(tx).type = POL_TX_TYPE /\ ToJson(tx).fields = n
    BY <1>2, PoLFields DEF ToJson
  <2>2. read = Berachain(PoLBody(n, "zero"))
    BY <2>1 DEF FromJson
  <2>3. read.variant = "Berachain" /\ [read EXCEPT !.body.from = "system"] = tx
    BY <1>2, <2>2 DEF Berachain, PoLBody
  <2>4. PayloadTx(FromJson(ToJson(tx))) = Encode2718(tx)
    BY <2>3 DEF PayloadTx
  <2>. QED  BY <2>4, PeerRoundTrip
<1>. QED  BY <1>1, <1>2 DEF Envelope, Users, PoLs

(***************************************************************************)
(* On disk: as this node writes it, and as upstream reth did.              *)
(***************************************************************************)
LEMMA UpstreamRoundTrip ==
  ASSUME NEW u \in User
  PROVE  FromCompact(UpstreamCompact(Signed(u))) = Signed(u)
<1>1. /\ UpstreamCompact(Signed(u)).type = EthTypeToCompact(TypeOf[u])
      /\ UpstreamCompact(Signed(u)).body = u /\ UpstreamCompact(Signed(u)).signature = u
      /\ TypeOf[u] \in EthType
  BY UserFields DEF UpstreamCompact
<1>2. \A t \in EthType : TypeFromCompact(EthTypeToCompact(t)) = t
  BY DEF EthType, EthTypeToCompact, TypeFromCompact, Direct, Extended, ExtendedFlag, POL_TX_TYPE
<1>3. TypeOf[u] # "PoL"
  BY <1>1 DEF EthType
<1>. QED  BY <1>1, <1>2, <1>3 DEF FromCompact, Signed

LEMMA DiskRoundTrip ==
  ASSUME NEW tx \in Envelope
  PROVE  FromCompact(ToCompact(tx)) = tx
<1>1. ASSUME NEW u \in User, tx = Signed(u)
      PROVE  FromCompact(ToCompact(tx)) = tx
  <2>1. ToCompact(tx) = UpstreamCompact(tx)
    BY <1>1, UserFields DEF ToCompact, UpstreamCompact, TypeToCompact
  <2>. QED  BY <1>1, <2>1, UpstreamRoundTrip
<1>2. ASSUME NEW n \in Nat, tx = Berachain(PoLBody(n, "system"))
      PROVE  FromCompact(ToCompact(tx)) = tx
  <2>1. ToCompact(tx).type = Extended(POL_TX_TYPE) /\ ToCompact(tx).body = PoLBody(n, "system")
    BY <1>2, PoLFields DEF ToCompact, TypeToCompact
  <2>2. TypeFromCompact(Extended(POL_TX_TYPE)) = "PoL"
    BY DEF TypeFromCompact, Extended, ExtendedFlag, POL_TX_TYPE
  <2>. QED  BY <1>2, <2>1, <2>2 DEF FromCompact
<1>. QED  BY <1>1, <1>2 DEF Envelope, Users, PoLs

-----------------------------------------------------------------------------
(* Blocks *)

\* A block holds a PoL transaction and users' transactions not used before.
LEMMA BlockType ==
  ASSUME NEW n \in Nat, NEW used, NEW block \in Blocks(n, used)
  PROVE  /\ block \in Seq(Envelope)
         /\ \A tx \in ToSet(block) : tx \in PoLs \/ tx \in Users \ used
         /\ n < FirstPoL => \A tx \in ToSet(block) : tx \in Users
<1>. DEFINE pols  == IF n < FirstPoL THEN {} ELSE PoLs
            fresh == pols \cup (Users \ used)
            pol   == IF n >= FirstPoL THEN <<Berachain(PoLBody(n, "system"))>> ELSE <<>>
<1>1. PICK T \in SUBSET (Users \ used) : block = pol \o SetToSeq(T)
  BY DEF Blocks, Users
<1>2. IsFiniteSet(Users)
  <2>1. PICK m \in Nat : ExistsSurjection(1..m, User)
    BY FormsAssumption, FS_NatSurjection
  <2>2. PICK f \in [1..m -> User] : \A u \in User : \E i \in 1..m : f[i] = u
    BY <2>1 DEF ExistsSurjection, Surjection
  <2>3. [i \in 1..m |-> Signed(f[i])] \in Surjection(1..m, Users)
    BY <2>2 DEF Surjection, Users
  <2>. QED  BY <2>3, FS_NatSurjection DEF ExistsSurjection
<1>3. IsFiniteSet(T)
  BY <1>1, <1>2, FS_Subset
<1>4. PICK f \in [1..Cardinality(T) -> T] : IsInjective(f)
  BY <1>3, FS_CardinalityType DEF ExistsBijection, Bijection, Injection
<1>5. SetToSeq(T) \in [1..Cardinality(T) -> T] /\ Cardinality(T) \in Nat
  BY <1>3, <1>4, FS_CardinalityType DEF SetToSeq
<1>6. SetToSeq(T) \in Seq(fresh)
  <2>1. T \subseteq fresh
    BY <1>1
  <2>. HIDE DEF fresh
  <2>. QED  BY <1>5, <2>1
<1>7. pol \in Seq(fresh)
  <2>1. n >= FirstPoL => Berachain(PoLBody(n, "system")) \in fresh
    BY FormsAssumption DEF PoLs
  <2>. HIDE DEF fresh
  <2>. QED  BY <2>1
<1>8. block \in Seq(fresh)
  BY <1>1, <1>6, <1>7, ConcatProperties
<1>9. \A tx \in ToSet(block) : tx \in fresh
  BY <1>8 DEF ToSet
<1>. QED  BY <1>8, <1>9, SeqMonotonic DEF Envelope

(***************************************************************************)
(* Whichever way a block comes in, is stored and read back, it is the      *)
(* block its proposer sealed.                                              *)
(***************************************************************************)
LEMMA BlockRoundTrip ==
  ASSUME NEW block \in Seq(Envelope)
  PROVE  /\ Received(block) = block /\ Followed(block) = block
         /\ ReadBack(Stored(block)) = block
         /\ DOMAIN Stored(block) = DOMAIN block
<1>1. block = [i \in DOMAIN block |-> block[i]]
  OBVIOUS
<1>2. \A i \in DOMAIN block : block[i] \in Envelope
  OBVIOUS
<1>3. Received(block) = block
  BY <1>1, <1>2, PeerRoundTrip DEF Received
<1>4. Followed(block) = block
  BY <1>1, <1>2, JsonRoundTrip DEF Followed
<1>5. ReadBack(Stored(block)) = block
  BY <1>1, <1>2, DiskRoundTrip DEF ReadBack, Stored
<1>. QED  BY <1>3, <1>4, <1>5 DEF Stored

\* A transaction is in the chain if it is in one of its blocks.
LEMMA MinedIn ==
  ASSUME NEW blocks, NEW tx
  PROVE  tx \in Mined(blocks) <=> \E i \in DOMAIN blocks : tx \in ToSet(blocks[i])
  BY DEF Mined

\* The first k blocks.
LEMMA Kept ==
  ASSUME NEW S, NEW s \in Seq(S), NEW k \in 0..Len(s)
  PROVE  /\ SubSeq(s, 1, k) \in Seq(S) /\ Len(SubSeq(s, 1, k)) = k
         /\ \A i \in 1..k : SubSeq(s, 1, k)[i] = s[i]
  BY SubSeqProperties

\* Those above.
LEMMA Above ==
  ASSUME NEW S, NEW s \in Seq(S), NEW k \in 0..Len(s)
  PROVE  LET above == SubSeq(s, k + 1, Len(s)) IN
         /\ DOMAIN above = 1..(Len(s) - k)
         /\ \A i \in 1..(Len(s) - k) : above[i] = s[k + i]
<1>1. Len(s) \in Nat /\ \A i \in k + 1..Len(s) : s[i] \in S
  OBVIOUS
<1>2. LET above == SubSeq(s, k + 1, Len(s)) IN
      /\ above \in Seq(S)
      /\ Len(above) = IF k + 1 <= Len(s) THEN Len(s) - (k + 1) + 1 ELSE 0
      /\ \A i \in 1..(Len(s) - (k + 1) + 1) : above[i] = s[(k + 1) + i - 1]
  BY <1>1, SubSeqProperties
<1>. QED  BY <1>1, <1>2

-----------------------------------------------------------------------------
(* The chain, in memory and on disk *)

Block == Seq(Envelope)

StoredTx == {ToCompact(tx) : tx \in Envelope} \cup {UpstreamCompact(Signed(u)) : u \in User}

Disjoint(blocks) ==
  \A i, j \in 1..Len(blocks) : i # j => ToSet(blocks[i]) \cap ToSet(blocks[j]) \cap Users = {}

\* Memory holds the blocks that were agreed on, the disk a readable prefix,
\* and no user's transaction is in two blocks.
ChainInv ==
  /\ agreed \in Seq(Block) /\ chain = agreed
  /\ disk \in Seq(Seq(StoredTx)) /\ Len(disk) <= Len(chain)
  /\ \A i \in 1..Len(disk) : ReadBack(disk[i]) = chain[i]
  /\ Disjoint(chain)

\* The first k blocks with another on top.
Atop(k, block) == Append(SubSeq(chain, 1, k), block)

\* A block on top of the first k, with users' transactions they have not.
LEMMA Placed ==
  ASSUME ChainInv, NEW k \in 0..Len(chain), NEW n \in Nat,
         NEW block \in Blocks(n, Mined(SubSeq(chain, 1, k)))
  PROVE  LET new == Atop(k, block) IN
         /\ new \in Seq(Block) /\ Len(new) = k + 1
         /\ \A i \in 1..k : new[i] = chain[i]
         /\ new[k + 1] = block /\ block \in Block
         /\ Disjoint(new)
<1>. DEFINE kept == SubSeq(chain, 1, k)
            new  == Atop(k, block)
<1>1. block \in Block /\ \A tx \in ToSet(block) : tx \in PoLs \/ tx \in Users \ Mined(kept)
  BY BlockType DEF Block
<1>2. chain \in Seq(Block)
  BY DEF ChainInv
<1>3. kept \in Seq(Block) /\ Len(kept) = k /\ \A i \in 1..k : kept[i] = chain[i]
  BY <1>2, Kept
<1>4. /\ new \in Seq(Block) /\ Len(new) = k + 1
      /\ \A i \in 1..k : new[i] = chain[i]
      /\ new[k + 1] = block
  <2>. HIDE DEF kept
  <2>1. new = Append(kept, block)
    BY DEF kept, Atop
  <2>. HIDE DEF new
  <2>. QED  BY <1>1, <1>3, <2>1, AppendProperties
<1>. HIDE DEF new
<1>5. \A tx \in PoLs : tx \notin Users
  BY UserFields, PoLFields DEF Users, PoLs
<1>6. ASSUME NEW i \in 1..k
      PROVE  ToSet(chain[i]) \cap ToSet(block) \cap Users = {}
  <2>1. i \in DOMAIN kept /\ kept[i] = chain[i]
    BY <1>3
  <2>2. \A tx \in ToSet(chain[i]) : tx \in Mined(kept)
    BY <2>1, MinedIn
  <2>. QED  BY <1>1, <1>5, <2>2
<1>7. ASSUME NEW i \in 1..Len(new), NEW j \in 1..Len(new), i # j
      PROVE  ToSet(new[i]) \cap ToSet(new[j]) \cap Users = {}
  <2>0. Len(chain) \in Nat /\ k \in Nat /\ k <= Len(chain) /\ Len(new) = k + 1
    BY <1>2, <1>4
  <2>1. CASE i \in 1..k /\ j \in 1..k
    <3>1. i \in 1..Len(chain) /\ j \in 1..Len(chain) /\ new[i] = chain[i] /\ new[j] = chain[j]
      BY <1>4, <2>0, <2>1
    <3>. QED  BY <1>7, <3>1 DEF ChainInv, Disjoint
  <2>2. CASE i = k + 1 /\ j \in 1..k
    BY <1>4, <1>6, <2>2
  <2>3. CASE i \in 1..k /\ j = k + 1
    BY <1>4, <1>6, <2>3
  <2>4. i \in 1..k \/ i = k + 1
    BY <2>0
  <2>5. j \in 1..k \/ j = k + 1
    BY <2>0
  <2>. QED  BY <1>7, <2>1, <2>2, <2>3, <2>4, <2>5
<1>8. Disjoint(new)
  BY <1>7 DEF Disjoint
<1>. QED  BY <1>1, <1>4, <1>8 DEF new

LEMMA ChainInit == Init => ChainInv
<1>. SUFFICES ASSUME Init PROVE ChainInv
  OBVIOUS
<1>1. PICK block \in Blocks(1, {}) :
        /\ agreed = <<block>> /\ chain = <<ReadBack(disk[1])>>
        /\ \/ disk = <<Stored(block)>>
           \/ disk = <<[i \in DOMAIN block |-> UpstreamCompact(block[i])]>>
  BY DEF Init
<1>2. block \in Block
  BY BlockType DEF Block
<1>3. \A i \in DOMAIN block : block[i] \in Users
  BY <1>1, BlockType, FormsAssumption DEF ToSet
<1>4. DOMAIN disk[1] = DOMAIN block /\ disk[1] \in Seq(StoredTx) /\ ReadBack(disk[1]) = block
  <2>1. CASE disk = <<Stored(block)>>
    <3>1. disk[1] = Stored(block)
      BY <2>1
    <3>2. \A i \in DOMAIN block : ToCompact(block[i]) \in StoredTx
      BY <1>2 DEF StoredTx, Block
    <3>. QED  BY <1>2, <3>1, <3>2, BlockRoundTrip DEF Stored, Block
  <2>2. CASE disk = <<[i \in DOMAIN block |-> UpstreamCompact(block[i])]>>
    <3>1. disk[1] = [i \in DOMAIN block |-> UpstreamCompact(block[i])]
      BY <2>2
    <3>2. \A i \in DOMAIN block : /\ UpstreamCompact(block[i]) \in StoredTx
                                  /\ FromCompact(UpstreamCompact(block[i])) = block[i]
      BY <1>3, UpstreamRoundTrip DEF StoredTx, Users
    <3>3. block = [i \in DOMAIN block |-> block[i]] /\ DOMAIN block = 1..Len(block)
      BY <1>2 DEF Block
    <3>4. ReadBack(disk[1]) = block
      BY <3>1, <3>2, <3>3 DEF ReadBack
    <3>. QED  BY <1>2, <3>1, <3>2, <3>4 DEF Block
  <2>. QED  BY <1>1, <2>1, <2>2
<1>5. disk = <<disk[1]>> /\ Len(disk) = 1
  BY <1>1
<1>6. agreed = <<block>> /\ chain = <<block>> /\ Len(chain) = 1 /\ chain[1] = block
  BY <1>1, <1>4
<1>7. agreed \in Seq(Block)
  BY <1>2, <1>6
<1>8. disk \in Seq(Seq(StoredTx))
  <2>1. ASSUME NEW S, NEW s \in S
        PROVE  <<s>> \in Seq(S)
    OBVIOUS
  <2>. QED  BY <1>4, <1>5, <2>1
<1>9. Disjoint(chain)
  BY <1>6 DEF Disjoint
<1>. QED  BY <1>4, <1>5, <1>6, <1>7, <1>8, <1>9 DEF ChainInv

\* Every step of the node keeps memory and disk in step.
LEMMA ChainStep ==
  ASSUME ChainInv, [Next]_vars
  PROVE  ChainInv'
<1>1. /\ chain \in Seq(Block) /\ agreed = chain /\ Len(chain) \in Nat /\ DOMAIN chain = 1..Len(chain)
      /\ disk \in Seq(Seq(StoredTx)) /\ Len(disk) \in Nat /\ DOMAIN disk = 1..Len(disk)
      /\ Len(disk) <= Len(chain)
  BY DEF ChainInv
<1>2. ASSUME UNCHANGED <<chain, disk, agreed>>
      PROVE  ChainInv'
  BY <1>2 DEF ChainInv
<1>3. CASE (\E u \in User : Submit(u) \/ SendRequest(u)) \/ (\E n \in 1..MaxNumber : Finalize(n))
           \/ UNCHANGED vars
  <2>1. UNCHANGED <<chain, disk, agreed>>
    BY <1>3 DEF Submit, SendRequest, Offer, Finalize, vars
  <2>. QED  BY <1>2, <2>1
<1>4. ASSUME NEW block \in Blocks(Len(chain) + 1, Mined(chain)), Extend(block)
      PROVE  ChainInv'
  <2>1. SubSeq(chain, 1, Len(chain)) = chain
    BY <1>1, SubSeqFull
  <2>2. block \in Block /\ Received(block) = block /\ Followed(block) = block
    BY <1>1, BlockType, BlockRoundTrip DEF Block
  <2>3. agreed' = Append(chain, block) /\ chain' = Append(chain, block) /\ disk' = disk
    BY <1>1, <1>4, <2>2 DEF Extend
  <2>4. /\ chain' \in Seq(Block) /\ Len(chain') = Len(chain) + 1
        /\ \A i \in 1..Len(chain) : chain'[i] = chain[i]
        /\ Disjoint(chain')
    <3>1. Len(chain) \in 0..Len(chain) /\ Len(chain) + 1 \in Nat
      BY <1>1
    <3>2. block \in Blocks(Len(chain) + 1, Mined(SubSeq(chain, 1, Len(chain))))
      BY <2>1
    <3>3. chain' = Atop(Len(chain), block)
      BY <2>1, <2>3 DEF Atop
    <3>. QED  BY <3>1, <3>2, <3>3, Placed
  <2>5. \A i \in 1..Len(disk) : ReadBack(disk[i]) = chain'[i]
    BY <1>1, <2>4 DEF ChainInv
  <2>. QED  BY <1>1, <2>3, <2>4, <2>5 DEF ChainInv
<1>5. ASSUME NEW k \in 1..Len(chain) - 1,
             NEW block \in Blocks(k + 1, Mined(SubSeq(chain, 1, k))), Reorg(k, block)
      PROVE  ChainInv'
  <2>1. k \in 0..Len(chain) /\ k \in Nat /\ k + 1 \in Nat /\ k < Len(chain)
    BY <1>1
  <2>2. block \in Block /\ Received(block) = block
    BY <2>1, BlockType, BlockRoundTrip DEF Block
  <2>3. /\ agreed' = Append(SubSeq(chain, 1, k), block)
        /\ chain' = Append(SubSeq(chain, 1, k), block)
        /\ disk' = IF Len(disk) > k THEN SubSeq(disk, 1, k) ELSE disk
    BY <1>1, <1>5, <2>2 DEF Reorg
  <2>4. /\ chain' \in Seq(Block) /\ Len(chain') = k + 1
        /\ \A i \in 1..k : chain'[i] = chain[i]
        /\ Disjoint(chain')
    <3>1. chain' = Atop(k, block)
      BY <2>3 DEF Atop
    <3>. QED  BY <2>1, <3>1, Placed
  <2>5. /\ disk' \in Seq(Seq(StoredTx)) /\ Len(disk') <= k
        /\ \A i \in 1..Len(disk') : i \in 1..Len(disk) /\ disk'[i] = disk[i]
    <3>1. CASE Len(disk) > k
      <4>1. k \in 0..Len(disk)
        BY <1>1, <2>1, <3>1
      <4>. QED  BY <1>1, <2>1, <2>3, <3>1, <4>1, Kept
    <3>2. CASE ~(Len(disk) > k)
      BY <1>1, <2>1, <2>3, <3>2
    <3>. QED  BY <3>1, <3>2
  <2>6. \A i \in 1..Len(disk') : ReadBack(disk'[i]) = chain'[i]
    BY <1>1, <2>1, <2>4, <2>5 DEF ChainInv
  <2>7. Len(disk') <= Len(chain')
    BY <2>1, <2>4, <2>5
  <2>. QED  BY <2>3, <2>4, <2>5, <2>6, <2>7 DEF ChainInv
<1>6. CASE Persist
  <2>. DEFINE n == Len(disk) + 1
  <2>1. n \in 1..Len(chain) /\ disk' = Append(disk, Stored(chain[n]))
    BY <1>1, <1>6 DEF Persist
  <2>2. chain[n] \in Block
    BY <1>1, <2>1
  <2>3. ReadBack(Stored(chain[n])) = chain[n] /\ Stored(chain[n]) \in Seq(StoredTx)
    <3>1. \A i \in DOMAIN chain[n] : ToCompact(chain[n][i]) \in StoredTx
      BY <2>2 DEF StoredTx, Block
    <3>. QED  BY <2>2, <3>1, BlockRoundTrip DEF Stored, Block
  <2>4. /\ disk' \in Seq(Seq(StoredTx)) /\ Len(disk') = n
        /\ \A i \in 1..Len(disk) : disk'[i] = disk[i]
        /\ disk'[n] = Stored(chain[n])
    BY <1>1, <2>1, <2>3, AppendProperties
  <2>5. \A i \in 1..Len(disk') : ReadBack(disk'[i]) = chain[i]
    <3>1. \A i \in 1..Len(disk') : i \in 1..Len(disk) \/ i = n
      BY <1>1, <2>4
    <3>2. \A i \in 1..Len(disk) : ReadBack(disk'[i]) = chain[i]
      BY <2>4 DEF ChainInv
    <3>. QED  BY <2>3, <2>4, <3>1, <3>2
  <2>. QED  BY <1>1, <1>6, <2>1, <2>4, <2>5 DEF Persist, ChainInv
<1>7. CASE Restart
  <2>1. /\ chain' = [i \in 1..Len(disk) |-> ReadBack(disk[i])]
        /\ agreed' = SubSeq(chain, 1, Len(disk)) /\ disk' = disk
    BY <1>1, <1>7 DEF Restart
  <2>2. /\ agreed' \in Seq(Block) /\ Len(agreed') = Len(disk)
        /\ \A i \in 1..Len(disk) : agreed'[i] = chain[i]
    BY <1>1, <2>1, Kept
  <2>3. \A i \in 1..Len(disk) : ReadBack(disk[i]) = chain[i]
    BY DEF ChainInv
  <2>4. chain' = agreed'
    BY <1>1, <2>1, <2>2, <2>3
  <2>5. \A i \in 1..Len(disk) : i \in 1..Len(chain)
    BY <1>1
  <2>6. Disjoint(chain')
    BY <2>2, <2>4, <2>5 DEF ChainInv, Disjoint
  <2>7. Len(disk') <= Len(chain')
    BY <1>1, <2>1, <2>2, <2>4
  <2>. QED  BY <1>1, <2>1, <2>2, <2>3, <2>4, <2>6, <2>7 DEF ChainInv
<1>. QED  BY <1>3, <1>4, <1>5, <1>6, <1>7 DEF Next

(***************************************************************************)
(* A block keeps its transactions root, for blocks of any transactions, on *)
(* every way in, on disk and back, over reorgs and restarts, and in a      *)
(* database upstream reth has written.                                     *)
(***************************************************************************)
THEOREM BlocksNeverAltered == Spec => []BlocksUnaltered
<1>1. ChainInv => BlocksUnaltered
  <2>. SUFFICES ASSUME ChainInv
                PROVE  BlocksUnaltered
    OBVIOUS
  <2>1. chain = agreed /\ DOMAIN disk = 1..Len(disk)
    BY DEF ChainInv
  <2>2. \A i \in 1..Len(disk) : ReadBack(disk[i]) = agreed[i]
    BY <2>1 DEF ChainInv
  <2>. QED  BY <2>1, <2>2 DEF BlocksUnaltered
<1>. QED  BY <1>1, ChainInit, ChainStep, PTL DEF Spec
-----------------------------------------------------------------------------
(* The pool *)

\* The form in which a user's transaction comes to the pool, and stays there.
PooledForm(u) == [tx |-> Signed(u), sidecar |-> IF IsBlob(Signed(u)) THEN u ELSE None]

Comes == {FromPooled(PooledForm(u)) : u \in User}

LEMMA FormNotNone ==
  ASSUME NEW u \in User
  PROVE  PooledForm(u) # None /\ PooledForm(u).tx = Signed(u)
  BY FormsAssumption DEF PooledForm, PooledForms

\* A user's transaction converts to it, blobs with their sidecar.
LEMMA Converts ==
  ASSUME NEW u \in User
  PROVE  /\ ~IsBlob(Signed(u)) => TryIntoPooled(Signed(u)) = PooledForm(u)
         /\ IsBlob(Signed(u)) => /\ TryIntoPooled(Signed(u)) = None
                                 /\ TryIntoPooledEip4844(Signed(u), u) = PooledForm(u)
<1>1. Signed(u).variant = "Ethereum"
  BY UserFields
<1>. QED  BY <1>1 DEF TryIntoPooled, TryIntoPooledEip4844, PooledForm

\* What the pool makes of it: the transaction without its blobs, those in the store.
LEMMA Taken ==
  ASSUME NEW ptxs \in SUBSET Comes
  PROVE  /\ \A p \in Admitted(ptxs) : /\ p.tx \in Users /\ \E q \in ptxs : p.tx = q.tx
                                      /\ p.sidecar.state \in {"None", "Missing"}
                                      /\ IsBlob(p.tx) => p.tx.body \in Sidecars(ptxs)
         /\ \A q \in ptxs : \E p \in Admitted(ptxs) : p.tx = q.tx
<1>1. ASSUME NEW q \in ptxs
      PROVE  /\ Admissible(q) /\ TakeBlob(q).left.tx = q.tx /\ q.tx \in Users
             /\ TakeBlob(q).left.sidecar.state \in {"None", "Missing"}
             /\ IsBlob(q.tx) => TakeBlob(q).blob.state = "Present"
  <2>1. PICK u \in User : q = FromPooled(PooledForm(u))
    BY DEF Comes
  <2>2. Signed(u).body = u /\ Signed(u) \in Users
    BY UserFields DEF Users
  <2>3. CASE IsBlob(Signed(u))
    <3>1. q = [tx |-> Signed(u), sidecar |-> [state |-> "Present", of |-> u]]
      BY <2>1, <2>3 DEF FromPooled, PooledForm
    <3>2. TakeBlob(q) = [blob |-> q.sidecar, left |-> [q EXCEPT !.sidecar = [state |-> "Missing"]]]
      BY <2>3, <3>1 DEF TakeBlob
    <3>. QED  BY <2>2, <2>3, <3>1, <3>2 DEF Admissible
  <2>4. CASE ~IsBlob(Signed(u))
    <3>1. q = [tx |-> Signed(u), sidecar |-> [state |-> "None"]]
      BY <2>1, <2>4 DEF FromPooled, PooledForm
    <3>2. TakeBlob(q) = [blob |-> [state |-> "None"], left |-> q]
      BY <2>4, <3>1 DEF TakeBlob
    <3>. QED  BY <2>2, <2>4, <3>1, <3>2 DEF Admissible
  <2>. QED  BY <2>3, <2>4
<1>2. \A q \in ptxs : TakeBlob(q).left \in Admitted(ptxs)
  BY <1>1 DEF Admitted
<1>3. ASSUME NEW p \in Admitted(ptxs)
      PROVE  /\ p.tx \in Users /\ \E q \in ptxs : p.tx = q.tx
             /\ p.sidecar.state \in {"None", "Missing"}
             /\ IsBlob(p.tx) => p.tx.body \in Sidecars(ptxs)
  <2>1. PICK q \in ptxs : p = TakeBlob(q).left
    BY DEF Admitted
  <2>2. IsBlob(q.tx) => q.tx.body \in Sidecars(ptxs)
    BY <1>1 DEF Sidecars
  <2>. QED  BY <1>1, <2>1, <2>2
<1>. QED  BY <1>1, <1>2, <1>3

(***************************************************************************)
(* The pool holds users' transactions that no block holds, the blobs of    *)
(* each in the store.                                                      *)
(***************************************************************************)
PoolInv ==
  \A p \in pool :
    /\ p.tx \in Users
    /\ p.sidecar.state \in {"None", "Missing"}
    /\ IsBlob(p.tx) => p.tx.body \in blobStore
    /\ \A i \in 1..Len(chain) : p.tx \notin ToSet(chain[i])

LEMMA PoolServes == PoolInv => PoolServable
<1>. SUFFICES ASSUME PoolInv, NEW p \in pool
              PROVE  /\ ServedForm(p) # None
                     /\ ServedForm(p).sidecar = IF IsBlob(p.tx) THEN p.tx.body ELSE None
  BY DEF PoolInv, PoolServable, Users
<1>1. PICK u \in User : p.tx = Signed(u)
  BY DEF PoolInv, Users
<1>2. IsBlob(p.tx) => u \in blobStore
  BY <1>1, UserFields DEF PoolInv
<1>3. ServedForm(p) = PooledForm(u)
  BY <1>1, <1>2, Converts, UserFields DEF ServedForm
<1>. QED  BY <1>1, <1>3, FormNotNone, UserFields DEF PooledForm

\* An envelope a block holds is a user's or a PoL transaction, and is named by its body.
LEMMA HeldIs ==
  ASSUME ChainInv, NEW i \in 1..Len(chain), NEW tx \in ToSet(chain[i])
  PROVE  tx \in Users \/ tx \in PoLs
<1>1. chain[i] \in Seq(Envelope)
  BY DEF ChainInv, Block
<1>. QED  BY <1>1 DEF ToSet, Envelope

LEMMA NamedByBody ==
  ASSUME NEW tx \in Users \cup PoLs, NEW u \in User, tx.body = u
  PROVE  tx = Signed(u)
  BY UserFields, PoLFields, FormsAssumption DEF Users, PoLs

\* The transactions only the blocks above k hold, and what of them goes back.
Gone(k, mined) == Mined(SubSeq(chain, k + 1, Len(chain))) \ mined

Back(k, mined) ==
  {FromPooled(p) : p \in {BackFromBlock(tx) : tx \in Gone(k, mined)} \ {None}}

\* What a reorg brings back of the blocks above k: users' transactions, each
\* unless it is a blob transaction whose sidecar is gone.
LEMMA Returned ==
  ASSUME ChainInv, NEW k \in 1..Len(chain) - 1, NEW mined
  PROVE  /\ Back(k, mined) \in SUBSET Comes
         /\ \A q \in Back(k, mined) :
              /\ q.tx \notin mined
              /\ \E i \in k + 1..Len(chain) : q.tx \in ToSet(chain[i])
              /\ IsBlob(q.tx) => q.tx.body \in blobStore
         /\ \A i \in k + 1..Len(chain) : \A tx \in ToSet(chain[i]) \ mined :
              tx \in Users /\ (IsBlob(tx) => tx.body \in blobStore)
                => \E q \in Back(k, mined) : q.tx = tx
<1>. DEFINE above == SubSeq(chain, k + 1, Len(chain))
            gone  == Gone(k, mined)
            ptxs  == Back(k, mined)
<1>1. chain \in Seq(Block) /\ Len(chain) \in Nat /\ k \in 0..Len(chain)
  BY DEF ChainInv
<1>2. DOMAIN above = 1..(Len(chain) - k) /\ \A i \in 1..(Len(chain) - k) : above[i] = chain[k + i]
  BY <1>1, Above
<1>3. ASSUME NEW tx \in gone
      PROVE  /\ tx \in Users \cup PoLs
             /\ \E i \in k + 1..Len(chain) : tx \in ToSet(chain[i])
  <2>1. PICK i \in 1..(Len(chain) - k) : tx \in ToSet(chain[k + i])
    BY <1>2, MinedIn DEF Gone
  <2>2. k + i \in k + 1..Len(chain) /\ k + i \in 1..Len(chain)
    BY <1>1
  <2>. QED  BY <2>1, <2>2, HeldIs
<1>4. ASSUME NEW i \in k + 1..Len(chain), NEW tx \in ToSet(chain[i]) \ mined
      PROVE  tx \in gone
  <2>1. i - k \in 1..(Len(chain) - k) /\ k + (i - k) = i
    BY <1>1
  <2>. QED  BY <1>2, <2>1, MinedIn DEF Gone
<1>5. ASSUME NEW tx \in Users \cup PoLs
      PROVE  \/ /\ BackFromBlock(tx) = None
                /\ tx \in PoLs \/ (IsBlob(tx) /\ tx.body \notin blobStore)
             \/ /\ \E u \in User : tx = Signed(u) /\ BackFromBlock(tx) = PooledForm(u)
                /\ IsBlob(tx) => tx.body \in blobStore
  <2>1. CASE tx \in PoLs
    BY <2>1, PoLFields DEF PoLs, BackFromBlock, TryIntoPooled, IsBlob
  <2>2. CASE tx \in Users
    <3>1. PICK u \in User : tx = Signed(u)
      BY <2>2 DEF Users
    <3>. QED  BY <3>1, Converts, UserFields DEF BackFromBlock
  <2>. QED  BY <2>1, <2>2
<1>6. \A u \in User : FromPooled(PooledForm(u)).tx = Signed(u)
  BY FormNotNone DEF FromPooled
<1>7. ASSUME NEW q \in ptxs
      PROVE  /\ q \in Comes
             /\ q.tx \in gone
             /\ IsBlob(q.tx) => q.tx.body \in blobStore
  <2>1. PICK tx \in gone : BackFromBlock(tx) # None /\ q = FromPooled(BackFromBlock(tx))
    BY DEF Back
  <2>2. PICK u \in User : tx = Signed(u) /\ BackFromBlock(tx) = PooledForm(u)
                          /\ (IsBlob(tx) => tx.body \in blobStore)
    BY <1>3, <1>5, <2>1
  <2>. QED  BY <1>6, <2>1, <2>2 DEF Comes
<1>8. ASSUME NEW i \in k + 1..Len(chain), NEW tx \in ToSet(chain[i]) \ mined,
             tx \in Users, IsBlob(tx) => tx.body \in blobStore
      PROVE  \E q \in ptxs : q.tx = tx
  <2>1. tx \in gone
    BY <1>4
  <2>2. tx \notin PoLs
    BY <1>8, UserFields, PoLFields DEF Users, PoLs
  <2>3. PICK u \in User : tx = Signed(u) /\ BackFromBlock(tx) = PooledForm(u)
    BY <1>5, <1>8, <2>2
  <2>4. FromPooled(PooledForm(u)) \in ptxs
    BY <2>1, <2>3, FormNotNone DEF Back
  <2>. QED  BY <1>6, <2>3, <2>4
<1>9. \A q \in ptxs : q.tx \notin mined /\ \E i \in k + 1..Len(chain) : q.tx \in ToSet(chain[i])
  BY <1>3, <1>7 DEF Gone
<1>10. /\ ptxs \in SUBSET Comes
       /\ \A q \in ptxs : IsBlob(q.tx) => q.tx.body \in blobStore
  BY <1>7
<1>. QED  BY <1>8, <1>9, <1>10

LEMMA PoolInit == Init => PoolInv
  BY DEF Init, PoolInv

\* What an offered transaction brings.
LEMMA Offered ==
  ASSUME ChainInv, PoolInv, NEW u \in User, Offer(FromPooled(PooledForm(u)))
  PROVE  PoolInv'
<1>. DEFINE q == FromPooled(PooledForm(u))
<1>1. {q} \in SUBSET Comes
  BY DEF Comes
<1>2. /\ q.tx \notin Mined(chain)
      /\ pool' = pool \cup Admitted({q}) /\ blobStore' = blobStore \cup Sidecars({q})
      /\ chain' = chain
  BY DEF Offer
<1>3. DOMAIN chain = 1..Len(chain)
  BY DEF ChainInv
<1>4. \A i \in 1..Len(chain) : q.tx \notin ToSet(chain[i])
  BY <1>2, <1>3, MinedIn
<1>. HIDE DEF q
<1>5. ASSUME NEW p \in Admitted({q})
      PROVE  /\ p.tx \in Users /\ p.sidecar.state \in {"None", "Missing"}
             /\ IsBlob(p.tx) => p.tx.body \in blobStore'
             /\ \A i \in 1..Len(chain) : p.tx \notin ToSet(chain[i])
  <2>1. p.tx \in Users /\ p.tx = q.tx /\ p.sidecar.state \in {"None", "Missing"}
        /\ (IsBlob(p.tx) => p.tx.body \in Sidecars({q}))
    BY <1>1, Taken
  <2>. QED  BY <1>2, <1>4, <2>1
<1>. QED  BY <1>2, <1>5 DEF PoolInv

LEMMA PoolStep ==
  ASSUME ChainInv, PoolInv, [Next]_vars
  PROVE  PoolInv'
<1>1. /\ chain \in Seq(Block) /\ Len(chain) \in Nat /\ DOMAIN chain = 1..Len(chain)
  BY DEF ChainInv
<1>2. CASE UNCHANGED vars \/ Persist \/ Restart
  <2>1. UNCHANGED <<pool, blobStore, chain>> \/ pool' = {}
    BY <1>2 DEF vars, Persist, Restart
  <2>. QED  BY <2>1 DEF PoolInv
<1>3. ASSUME NEW u \in User, Submit(u)
      PROVE  PoolInv'
  <2>1. Offer(FromPooled(PooledForm(u)))
    BY <1>3, Converts DEF Submit
  <2>. QED  BY <2>1, Offered
<1>4. ASSUME NEW u \in User, SendRequest(u)
      PROVE  PoolInv'
  <2>1. Offer(FromPooled(PooledForm(u)))
    BY <1>4, Converts DEF SendRequest, SignTyped
  <2>. QED  BY <2>1, Offered
<1>5. ASSUME NEW block \in Blocks(Len(chain) + 1, Mined(chain)), Extend(block)
      PROVE  PoolInv'
  <2>1. block \in Block
    BY <1>1, BlockType DEF Block
  <2>2. Received(block) = block /\ Followed(block) = block
    BY <2>1, BlockRoundTrip DEF Block
  <2>3. /\ chain' = Append(chain, block) /\ blobStore' = blobStore
        /\ pool' = Without(pool, ToSet(block))
    BY <1>5, <2>2 DEF Extend
  <2>4. \A i \in 1..Len(chain') : (i \in 1..Len(chain) /\ chain'[i] = chain[i]) \/ chain'[i] = block
    BY <1>1, <2>1, <2>3, AppendProperties
  <2>. QED  BY <2>3, <2>4 DEF PoolInv, Without
<1>6. ASSUME NEW k \in 1..Len(chain) - 1,
             NEW block \in Blocks(k + 1, Mined(SubSeq(chain, 1, k))), Reorg(k, block)
      PROVE  PoolInv'
  <2>. DEFINE mined == ToSet(block)
              ptxs  == Back(k, mined)
  <2>1. k \in 0..Len(chain) /\ k \in Nat /\ k + 1 \in Nat
    BY <1>1
  <2>2. Received(block) = block
    BY <2>1, BlockType, BlockRoundTrip
  <2>3. /\ chain' = Atop(k, block)
        /\ pool' = Without(pool, mined) \cup Admitted(ptxs)
        /\ blobStore' = blobStore \cup Sidecars(ptxs)
    BY <1>6, <2>2 DEF Reorg, Atop, Back, Gone
  <2>4. Len(chain') = k + 1 /\ chain'[k + 1] = block /\ \A i \in 1..k : chain'[i] = chain[i]
    BY <2>1, <2>3, Placed
  <2>5. /\ ptxs \in SUBSET Comes
        /\ \A q \in ptxs : q.tx \notin mined /\ \E i \in k + 1..Len(chain) : q.tx \in ToSet(chain[i])
    BY Returned
  <2>. HIDE DEF ptxs
  <2>6. \A i \in 1..Len(chain') : (i \in 1..k /\ chain'[i] = chain[i]) \/ chain'[i] = block
    BY <2>1, <2>4
  <2>7. ASSUME NEW p \in Without(pool, mined)
        PROVE  /\ p.tx \in Users /\ p.sidecar.state \in {"None", "Missing"}
               /\ IsBlob(p.tx) => p.tx.body \in blobStore'
               /\ \A i \in 1..Len(chain') : p.tx \notin ToSet(chain'[i])
    <3>1. 1..k \subseteq 1..Len(chain)
      BY <1>1, <2>1
    <3>. QED  BY <2>3, <2>6, <3>1 DEF PoolInv, Without
  <2>8. ASSUME NEW p \in Admitted(ptxs)
        PROVE  /\ p.tx \in Users /\ p.sidecar.state \in {"None", "Missing"}
               /\ IsBlob(p.tx) => p.tx.body \in blobStore'
               /\ \A i \in 1..Len(chain') : p.tx \notin ToSet(chain'[i])
    <3>1. /\ p.tx \in Users /\ p.sidecar.state \in {"None", "Missing"}
          /\ \E q \in ptxs : p.tx = q.tx
          /\ IsBlob(p.tx) => p.tx.body \in Sidecars(ptxs)
      BY <2>5, Taken
    <3>2. PICK j \in k + 1..Len(chain) : p.tx \in ToSet(chain[j]) /\ p.tx \notin mined
      BY <2>5, <3>1
    <3>3. \A i \in 1..k : p.tx \notin ToSet(chain[i])
      <4>1. ASSUME NEW i \in 1..k
            PROVE  i \in 1..Len(chain) /\ j \in 1..Len(chain) /\ i # j
        BY <1>1, <2>1
      <4>. QED  BY <3>1, <3>2, <4>1 DEF ChainInv, Disjoint
    <3>. QED  BY <2>3, <2>6, <3>1, <3>2, <3>3
  <2>. QED  BY <2>3, <2>7, <2>8 DEF PoolInv
<1>7. ASSUME NEW n \in 1..MaxNumber, Finalize(n)
      PROVE  PoolInv'
  <2>1. /\ pool' = pool /\ chain' = chain /\ n \in 0..Len(chain)
        /\ blobStore' = blobStore \ {tx.body : tx \in Mined(SubSeq(chain, 1, n))}
    BY <1>1, <1>7 DEF Finalize
  <2>2. ASSUME NEW p \in pool, IsBlob(p.tx)
        PROVE  p.tx.body \in blobStore'
    <3>1. PICK u \in User : p.tx = Signed(u)
      BY DEF PoolInv, Users
    <3>2. ASSUME NEW tx \in Mined(SubSeq(chain, 1, n))
          PROVE  tx.body # u
      <4>1. PICK i \in DOMAIN SubSeq(chain, 1, n) : tx \in ToSet(SubSeq(chain, 1, n)[i])
        BY MinedIn
      <4>2. i \in 1..Len(chain) /\ tx \in ToSet(chain[i])
        BY <1>1, <2>1, <4>1, Kept
      <4>3. tx \in Users \cup PoLs /\ tx # Signed(u)
        BY <3>1, <4>2, HeldIs DEF PoolInv
      <4>. QED  BY <4>3, NamedByBody
    <3>. QED  BY <2>1, <2>2, <3>1, <3>2, UserFields DEF PoolInv
  <2>. QED  BY <2>1, <2>2 DEF PoolInv
<1>. QED  BY <1>2, <1>3, <1>4, <1>5, <1>6, <1>7 DEF Next

LEMMA Invariant == Spec => [](ChainInv /\ PoolInv)
  BY ChainInit, ChainStep, PoolInit, PoolStep, PTL DEF Spec

(***************************************************************************)
(* What the pool announces it can serve, whatever was mined, abandoned or  *)
(* finalized.                                                              *)
(***************************************************************************)
THEOREM PoolAlwaysServes == Spec => []PoolServable
  BY Invariant, PoolServes, PTL

LEMMA StepReturns ==
  ASSUME ChainInv, PoolInv, PoolInv', [Next]_vars, ~Restart, NEW tx \in Mined(chain) \ Mined(chain')
  PROVE  IF tx.variant = "Berachain" \/ (IsBlob(tx) /\ tx.body \notin blobStore)
         THEN \A p \in pool' : p.tx # tx
         ELSE \E p \in pool' : p.tx = tx
<1>1. /\ chain \in Seq(Block) /\ Len(chain) \in Nat /\ DOMAIN chain = 1..Len(chain)
  BY DEF ChainInv
<1>2. PICK i \in 1..Len(chain) : tx \in ToSet(chain[i])
  BY <1>1, MinedIn
<1>3. chain' # chain
  OBVIOUS
<1>4. ASSUME NEW block \in Blocks(Len(chain) + 1, Mined(chain)), Extend(block)
      PROVE  FALSE
  <2>1. block \in Block
    BY <1>1, BlockType DEF Block
  <2>2. Received(block) = block /\ Followed(block) = block
    BY <2>1, BlockRoundTrip DEF Block
  <2>3. chain' = Append(chain, block)
    BY <1>4, <2>2 DEF Extend
  <2>4. i \in DOMAIN chain' /\ chain'[i] = chain[i]
    BY <1>1, <2>1, <2>3, AppendProperties
  <2>. QED  BY <1>2, <2>4, MinedIn
<1>5. ASSUME NEW k \in 1..Len(chain) - 1,
             NEW block \in Blocks(k + 1, Mined(SubSeq(chain, 1, k))), Reorg(k, block)
      PROVE  IF tx.variant = "Berachain" \/ (IsBlob(tx) /\ tx.body \notin blobStore)
             THEN \A p \in pool' : p.tx # tx
             ELSE \E p \in pool' : p.tx = tx
  <2>. DEFINE mined == ToSet(block)
              ptxs  == Back(k, mined)
  <2>1. k \in 0..Len(chain) /\ k \in Nat /\ k + 1 \in Nat
    BY <1>1
  <2>2. Received(block) = block
    BY <2>1, BlockType, BlockRoundTrip
  <2>3. /\ chain' = Atop(k, block)
        /\ pool' = Without(pool, mined) \cup Admitted(ptxs)
    BY <1>5, <2>2 DEF Reorg, Atop, Back, Gone
  <2>4. /\ Len(chain') = k + 1 /\ chain'[k + 1] = block /\ \A j \in 1..k : chain'[j] = chain[j]
        /\ DOMAIN chain' = 1..k + 1
    BY <2>1, <2>3, Placed
  <2>5. tx \notin mined /\ i \in k + 1..Len(chain)
    <3>1. k + 1 \in DOMAIN chain'
      BY <2>1, <2>4
    <3>2. i \in 1..k => i \in DOMAIN chain' /\ chain'[i] = chain[i]
      BY <2>1, <2>4
    <3>3. tx \notin mined /\ i \notin 1..k
      BY <1>2, <2>4, <3>1, <3>2, MinedIn
    <3>. QED  BY <1>1, <2>1, <3>3
  <2>6. /\ ptxs \in SUBSET Comes
        /\ \A q \in ptxs : IsBlob(q.tx) => q.tx.body \in blobStore
        /\ tx \in Users /\ (IsBlob(tx) => tx.body \in blobStore) => \E q \in ptxs : q.tx = tx
    BY <1>2, <2>5, Returned
  <2>. HIDE DEF ptxs
  <2>7. tx \in Users \/ tx \in PoLs
    BY <1>2, HeldIs
  <2>8. CASE tx \in PoLs
    <3>1. tx.variant = "Berachain" /\ tx \notin Users
      BY <2>8, UserFields, PoLFields DEF Users, PoLs
    <3>. QED  BY <3>1 DEF PoolInv
  <2>9. CASE tx \in Users /\ IsBlob(tx) /\ tx.body \notin blobStore
    <3>1. \A p \in Admitted(ptxs) : p.tx # tx
      BY <2>6, <2>9, Taken
    <3>2. \A p \in Without(pool, mined) : p.tx # tx
      BY <1>2 DEF PoolInv, Without
    <3>. QED  BY <2>3, <2>9, <3>1, <3>2
  <2>10. CASE tx \in Users /\ (IsBlob(tx) => tx.body \in blobStore)
    <3>1. tx.variant # "Berachain"
      BY <2>10, UserFields DEF Users
    <3>2. \E p \in Admitted(ptxs) : p.tx = tx
      BY <2>6, <2>10, Taken
    <3>. QED  BY <2>3, <2>10, <3>1, <3>2
  <2>. QED  BY <2>7, <2>8, <2>9, <2>10
<1>6. CASE (\E u \in User : Submit(u) \/ SendRequest(u)) \/ (\E n \in 1..MaxNumber : Finalize(n))
           \/ Persist \/ UNCHANGED vars
  BY <1>3, <1>6 DEF Submit, SendRequest, Offer, Finalize, Persist, vars
<1>. QED  BY <1>4, <1>5, <1>6 DEF Next

(***************************************************************************)
(* A reorg returns every user's transaction it can, and no PoL one.        *)
(***************************************************************************)
THEOREM ReorgAlwaysReturns == Spec => ReorgReturns
<1>. DEFINE Returns ==
       ~Restart =>
         \A tx \in Mined(chain) \ Mined(chain') :
           IF tx.variant = "Berachain" \/ (IsBlob(tx) /\ tx.body \notin blobStore)
           THEN \A p \in pool' : p.tx # tx
           ELSE \E p \in pool' : p.tx = tx
<1>1. ChainInv /\ PoolInv /\ [Next]_vars => [Returns]_vars
  BY PoolStep, StepReturns
<1>2. Spec => [][Returns]_vars
  BY <1>1, Invariant, PTL DEF Spec
<1>. QED  BY <1>2 DEF ReorgReturns

-----------------------------------------------------------------------------
(* Headers: items and places *)

\* Every item is of a known kind, and at least a byte long.
Kinds == {"quantity", "hash", "key"}
Items == [kind: Kinds, value: Value]

LEMMA SizePositive ==
  ASSUME NEW item \in Items
  PROVE  Size(item) \in Nat /\ Size(item) > 0
<1>1. item.kind \in Kinds
  BY DEF Items
<1>. QED  BY <1>1 DEF Size, Kinds

\* The optional fields are seven, all different.
LEMMA OptionalPlaces ==
  /\ Len(Optional) = 7 /\ DOMAIN Optional = 1..7
  /\ \A i, j \in 1..7 : Optional[i] = Optional[j] => i = j
  /\ ToSet(Optional) = {Optional[i] : i \in 1..7}
<1>1. Len(Optional) = 7 /\ DOMAIN Optional = 1..7
  BY DEF Optional
<1>2. ASSUME NEW i \in 1..7, NEW j \in 1..7, Optional[i] = Optional[j]
      PROVE  i = j
  BY <1>2 DEF Optional
<1>3. ToSet(Optional) = {Optional[i] : i \in 1..7}
  BY <1>1 DEF ToSet
<1>. QED  BY <1>1, <1>2, <1>3

\* The fields a header may have, up to the n-th; a complete header has no
\* other gap than the one at its end.
First(n) == {Optional[i] : i \in 1..n}
Complete == UNION {[First(n) -> Value] : n \in 0..7}

LEMMA FirstHas ==
  ASSUME NEW n \in 0..7
  PROVE  \A i \in 1..7 : Optional[i] \in First(n) <=> i <= n
<1>. SUFFICES ASSUME NEW i \in 1..7
              PROVE  Optional[i] \in First(n) <=> i <= n
  OBVIOUS
<1>1. ASSUME Optional[i] \in First(n)
      PROVE  i <= n
  <2>1. PICK j \in 1..n : Optional[i] = Optional[j]
    BY <1>1 DEF First
  <2>2. j \in 1..7 /\ j <= n
    OBVIOUS
  <2>3. i = j
    BY <2>1, <2>2, OptionalPlaces
  <2>. QED  BY <2>2, <2>3
<1>2. ASSUME i <= n
      PROVE  Optional[i] \in First(n)
  <2>1. i \in 1..n
    BY <1>2
  <2>. QED  BY <2>1 DEF First
<1>. QED  BY <1>1, <1>2

LEMMA ItemType ==
  ASSUME NEW h, NEW i \in 1..7, h[Optional[i]] \in Value
  PROVE  Item(h, Optional[i]) \in Items
  BY DEF Item, Items, Kind, Kinds

-----------------------------------------------------------------------------
(* Lengths *)

\* The fold of Length.
LengthUnrolled(iter, items) ==
  iter = [s \in SUBSET DOMAIN items |->
            IF s = {} THEN 0 ELSE iter[s \ {Greatest(s)}] + Size(items[Greatest(s)])]

LEMMA LengthUnrolls ==
  ASSUME NEW items
  PROVE  Length(items) = (CHOOSE iter : LengthUnrolled(iter, items))[DOMAIN items]
  BY DEF Length, FoldLeft, MapThenFoldSet, LengthUnrolled, Greatest, Max

\* f adds up the lengths of items.
Lengths(f, items) ==
  /\ f[0] = 0
  /\ \A i \in 1..Len(items) : f[i] = f[i - 1] + Size(items[i])

LEMMA LengthIs ==
  ASSUME NEW items \in Seq(Items)
  PROVE  \E f : Lengths(f, items) /\ Length(items) = f[Len(items)]
<1>. DEFINE n == Len(items)
            step == [i \in 1..n |-> [l \in Nat |-> l + Size(items[i])]]
<1>1. n \in Nat /\ DOMAIN items = 1..n
  OBVIOUS
<1>2. \A i \in 1..n : Size(items[i]) \in Nat
  BY <1>1, SizePositive
<1>3. step \in [1..n -> [Nat -> Nat]]
  <2>1. \A i \in 1..n : \A l \in Nat : l + Size(items[i]) \in Nat
    BY <1>2
  <2>. HIDE DEF n
  <2>. QED  BY <2>1
<1>4. \A i \in 1..n : \A l \in Nat : step[i][l] = l + Size(items[i])
  OBVIOUS
<1>. HIDE DEF step
<1>5. PICK g : Folds(g, n, Nat, 0, step)
  <2>. HIDE DEF n
  <2>. QED  BY <1>1, <1>3, FoldExists
<1>6. LengthUnrolled(g, items)
  <2>1. ASSUME NEW s \in SUBSET (1..n)
        PROVE  g[s] = IF s = {} THEN 0
                      ELSE g[s \ {Greatest(s)}] + Size(items[Greatest(s)])
    <3>1. CASE s = {}
      BY <1>5, <3>1 DEF Folds
    <3>2. CASE s # {}
      <4>1. /\ Greatest(s) \in 1..n /\ g[s \ {Greatest(s)}] \in Nat
            /\ g[s] = step[Greatest(s)][g[s \ {Greatest(s)}]]
        <5>. HIDE DEF n
        <5>1. TakesGreatest(g, s, n, Nat, step)
          BY <1>1, <1>5, <2>1, <3>2, FoldStep
        <5>. QED  BY <5>1 DEF TakesGreatest
      <4>. QED  BY <1>4, <3>2, <4>1
    <3>. QED  BY <3>1, <3>2
  <2>2. g = [s \in SUBSET (1..n) |-> g[s]]
    BY <1>5 DEF Folds
  <2>. HIDE DEF n
  <2>. QED  BY <1>1, <2>1, <2>2, Zenon DEF LengthUnrolled
<1>7. PICK c : LengthUnrolled(c, items) /\ Length(items) = c[1..n]
  BY <1>1, <1>6, LengthUnrolls, Zenon
<1>. DEFINE f == [i \in 0..n |-> c[1..i]]
<1>8. ASSUME NEW i \in 1..n
      PROVE  c[1..i] = c[1..(i - 1)] + Size(items[i])
  <2>. HIDE DEF n
  <2>1. /\ Greatest(1..i) = i /\ 1..i \in SUBSET (1..n) /\ 1..i # {}
        /\ (1..i) \ {i} = 1..(i - 1)
    BY <1>1, IntervalUnfolds
  <2>2. c[1..i] = c[(1..i) \ {Greatest(1..i)}] + Size(items[Greatest(1..i)])
    BY <1>1, <1>7, <2>1 DEF LengthUnrolled
  <2>. QED  BY <2>1, <2>2
<1>9. c[1..0] = 0
  <2>1. 1..0 = {} /\ {} \in SUBSET (1..n)
    OBVIOUS
  <2>. QED  BY <1>1, <1>7, <2>1 DEF LengthUnrolled
<1>10. Lengths(f, items)
  <2>1. f[0] = 0 /\ \A i \in 1..n : f[i] = c[1..i] /\ f[i - 1] = c[1..(i - 1)]
    BY <1>1, <1>9
  <2>. HIDE DEF f
  <2>. QED  BY <1>8, <2>1 DEF Lengths
<1>11. f[n] = c[1..n]
  BY <1>1
<1>. HIDE DEF f, n
<1>. QED  BY <1>7, <1>10, <1>11 DEF n

\* One item more makes the list longer by its length.
LEMMA LengthAppend ==
  ASSUME NEW items \in Seq(Items), NEW item \in Items
  PROVE  /\ Length(items) \in Nat
         /\ Length(Append(items, item)) = Length(items) + Size(item)
<1>. DEFINE n == Len(items)
            longer == Append(items, item)
<1>1. /\ n \in Nat /\ DOMAIN items = 1..n
      /\ longer \in Seq(Items) /\ Len(longer) = n + 1 /\ longer[n + 1] = item
      /\ \A i \in 1..n : longer[i] = items[i]
  OBVIOUS
<1>. HIDE DEF longer
<1>2. PICK f : Lengths(f, items) /\ Length(items) = f[n]
  BY LengthIs
<1>3. PICK g : Lengths(g, longer) /\ Length(longer) = g[n + 1]
  BY <1>1, LengthIs
<1>4. \A i \in 1..n : Size(items[i]) \in Nat
  BY <1>1, SizePositive
<1>5. f[n] \in Nat
  <2>. DEFINE S == {i \in 0..n : f[i] \in Nat}
  <2>1. 0 \in S
    BY <1>1, <1>2 DEF Lengths
  <2>2. ASSUME NEW i \in 0..(n - 1), i \in S
        PROVE  i + 1 \in S
    <3>1. i + 1 \in 1..n /\ (i + 1) - 1 = i /\ i + 1 \in 0..n
      BY <1>1
    <3>2. f[i + 1] = f[i] + Size(items[i + 1]) /\ Size(items[i + 1]) \in Nat
      BY <1>2, <1>4, <3>1 DEF Lengths
    <3>. QED  BY <2>2, <3>1, <3>2
  <2>3. 0..n \subseteq S
    <3>. HIDE DEF S, n
    <3>. QED  BY <1>1, <2>1, <2>2, IntervalInduction
  <2>. QED  BY <1>1, <2>3
<1>6. SameUpTo(f, g, n)
  <2>1. f[0] = g[0]
    BY <1>2, <1>3 DEF Lengths
  <2>2. GoOnAlike(f, g, n)
    <3>. SUFFICES ASSUME NEW i \in 1..n, f[i - 1] = g[i - 1]
                  PROVE  f[i] = g[i]
      BY DEF GoOnAlike
    <3>1. i \in 1..(n + 1)
      BY <1>1
    <3>. QED  BY <1>1, <1>2, <1>3, <3>1 DEF Lengths
  <2>. HIDE DEF n
  <2>. QED  BY <1>1, <2>1, <2>2, SameRecursion
<1>7. g[n + 1] = g[n] + Size(item) /\ f[n] = g[n]
  <2>1. n + 1 \in 1..(n + 1) /\ (n + 1) - 1 = n /\ n \in 0..n
    BY <1>1
  <2>. QED  BY <1>1, <1>3, <1>6, <2>1 DEF Lengths, SameUpTo
<1>. QED  BY <1>2, <1>3, <1>5, <1>7 DEF longer

LEMMA LengthEmpty == Length(<<>>) = 0
<1>1. <<>> \in Seq(Items) /\ Len(<<>>) = 0
  OBVIOUS
<1>. QED  BY <1>1, LengthIs DEF Lengths

\* How much of a list has been read after its first n items.
Prefix(items, n) == SubSeq(items, 1, n)

LEMMA PrefixGrows ==
  ASSUME NEW items \in Seq(Items), NEW i \in 1..Len(items)
  PROVE  /\ Prefix(items, i) \in Seq(Items) /\ Prefix(items, i - 1) \in Seq(Items)
         /\ items[i] \in Items
         /\ Prefix(items, i) = Append(Prefix(items, i - 1), items[i])
<1>. DEFINE a == Prefix(items, i)
            b == Prefix(items, i - 1)
<1>1. i - 1 \in 0..Len(items) /\ i \in 0..Len(items) /\ Len(items) \in Nat /\ items[i] \in Items
  OBVIOUS
<1>2. /\ a \in Seq(Items) /\ Len(a) = i /\ \A j \in 1..i : a[j] = items[j]
      /\ b \in Seq(Items) /\ Len(b) = i - 1 /\ \A j \in 1..(i - 1) : b[j] = items[j]
  BY <1>1 DEF Prefix
<1>. HIDE DEF a, b
<1>3. a = Append(b, items[i])
  BY <1>1, <1>2
<1>. QED  BY <1>1, <1>2, <1>3 DEF a, b

\* Every item counts: the more of a list is read, the longer it is.
LEMMA PrefixesLengthen ==
  ASSUME NEW items \in Seq(Items), NEW n \in 0..Len(items)
  PROVE  /\ Length(Prefix(items, n)) \in Nat
         /\ \A m \in 0..(n - 1) : Length(Prefix(items, m)) < Length(Prefix(items, n))
<1>. DEFINE top == Len(items)
            read(i) == Length(Prefix(items, i))
            S == {i \in 0..top : read(i) \in Nat /\ \A m \in 0..(i - 1) : read(m) < read(i)}
<1>1. top \in Nat
  OBVIOUS
<1>2. 0 \in S
  <2>1. Prefix(items, 0) = <<>>
    BY DEF Prefix
  <2>. QED  BY <1>1, <2>1, LengthEmpty
<1>3. ASSUME NEW i \in 0..(top - 1), i \in S
      PROVE  i + 1 \in S
  <2>. DEFINE p == i + 1
  <2>1. p \in 1..top /\ p - 1 = i /\ p \in 0..top /\ i \in Nat
    BY <1>1
  <2>. HIDE DEF p, top
  <2>2. /\ Prefix(items, p) = Append(Prefix(items, i), items[p])
        /\ Prefix(items, i) \in Seq(Items) /\ items[p] \in Items
    BY <2>1, PrefixGrows DEF top
  <2>3. read(p) = read(i) + Size(items[p]) /\ Size(items[p]) \in Nat /\ Size(items[p]) > 0
    BY <2>2, LengthAppend, SizePositive
  <2>. HIDE DEF read
  <2>4. read(p) \in Nat /\ read(i) < read(p)
    BY <1>3, <2>3
  <2>5. ASSUME NEW m \in 0..(p - 1)
        PROVE  read(m) < read(p)
    <3>1. CASE m = i
      BY <2>4, <3>1
    <3>2. CASE m # i
      <4>1. m \in 0..(i - 1)
        BY <2>1, <3>2
      <4>2. read(m) < read(i) /\ read(i) \in Nat
        BY <1>3, <4>1
      <4>3. read(m) \in Nat
        <5>1. m \in 0..top
          BY <1>1, <2>1, <4>1
        <5>2. m = 0 \/ m \in 1..top
          BY <1>1, <5>1
        <5>3. Prefix(items, m) \in Seq(Items)
          <6>1. Prefix(items, 0) = <<>> /\ <<>> \in Seq(Items)
            BY DEF Prefix
          <6>. QED  BY <5>2, <6>1, PrefixGrows DEF top
        <5>4. \E item : item \in Items
          BY <2>2
        <5>. QED  BY <5>3, <5>4, LengthAppend DEF read
      <4>. QED  BY <1>3, <2>4, <4>2, <4>3
    <3>. QED  BY <3>1, <3>2
  <2>. QED  BY <2>1, <2>4, <2>5 DEF p
<1>4. 0..top \subseteq S
  <2>. HIDE DEF S, top
  <2>. QED  BY <1>1, <1>2, <1>3, IntervalInduction
<1>. QED  BY <1>4

-----------------------------------------------------------------------------
(* Encoding *)

\* A header's optional fields have values.
Valued(h) == \A i \in 1..7 : Optional[i] \in DOMAIN h => h[Optional[i]] \in Value

\* The fold of EncodedItems, and one of its steps.
WithItem(items, h, field) ==
  IF field \in DOMAIN h THEN Append(items, Item(h, field)) ELSE items

EncodingUnrolled(iter, h) ==
  iter = [s \in SUBSET DOMAIN Optional |->
            IF s = {} THEN <<>>
            ELSE WithItem(iter[s \ {Greatest(s)}], h, Optional[Greatest(s)])]

LEMMA EncodingUnrolls ==
  ASSUME NEW h
  PROVE  EncodedItems(h) = (CHOOSE iter : EncodingUnrolled(iter, h))[DOMAIN Optional]
  BY DEF EncodedItems, FoldLeft, MapThenFoldSet, EncodingUnrolled, WithItem, Greatest, Max

\* e is what encode has written after each of the fields.
Encodes(e, h) ==
  /\ e[0] = <<>>
  /\ \A i \in 1..7 : e[i] = WithItem(e[i - 1], h, Optional[i])

LEMMA WithItemType ==
  ASSUME NEW h, Valued(h), NEW items \in Seq(Items), NEW i \in 1..7
  PROVE  WithItem(items, h, Optional[i]) \in Seq(Items)
<1>1. CASE Optional[i] \in DOMAIN h
  <2>1. Item(h, Optional[i]) \in Items
    BY <1>1, ItemType DEF Valued
  <2>. QED  BY <1>1, <2>1 DEF WithItem
<1>2. CASE Optional[i] \notin DOMAIN h
  BY <1>2 DEF WithItem
<1>. QED  BY <1>1, <1>2

LEMMA EncodedIs ==
  ASSUME NEW h, Valued(h)
  PROVE  \E e : Encodes(e, h) /\ EncodedItems(h) = e[7]
<1>. DEFINE D == Seq(Items)
            step == [i \in 1..7 |-> [items \in D |-> WithItem(items, h, Optional[i])]]
<1>1. <<>> \in D /\ DOMAIN Optional = 1..7 /\ 7 \in Nat
  BY OptionalPlaces
<1>2. step \in [1..7 -> [D -> D]]
  <2>1. \A i \in 1..7 : \A items \in D : WithItem(items, h, Optional[i]) \in D
    BY WithItemType
  <2>. HIDE DEF D
  <2>. QED  BY <2>1
<1>3. \A i \in 1..7 : \A items \in D : step[i][items] = WithItem(items, h, Optional[i])
  OBVIOUS
<1>. HIDE DEF step, D
<1>4. PICK g : Folds(g, 7, D, <<>>, step)
  BY <1>1, <1>2, FoldExists
<1>5. EncodingUnrolled(g, h)
  <2>1. ASSUME NEW s \in SUBSET (1..7)
        PROVE  g[s] = IF s = {} THEN <<>>
                      ELSE WithItem(g[s \ {Greatest(s)}], h, Optional[Greatest(s)])
    <3>1. CASE s = {}
      BY <1>4, <3>1 DEF Folds
    <3>2. CASE s # {}
      <4>1. TakesGreatest(g, s, 7, D, step)
        BY <1>1, <1>4, <2>1, <3>2, FoldStep
      <4>. QED  BY <1>3, <3>2, <4>1 DEF TakesGreatest
    <3>. QED  BY <3>1, <3>2
  <2>2. g = [s \in SUBSET (1..7) |-> g[s]]
    BY <1>4 DEF Folds
  <2>. QED  BY <1>1, <2>1, <2>2, Zenon DEF EncodingUnrolled
<1>6. PICK c : EncodingUnrolled(c, h) /\ EncodedItems(h) = c[1..7]
  BY <1>1, <1>5, EncodingUnrolls, Zenon
<1>. DEFINE e == [i \in 0..7 |-> c[1..i]]
<1>7. ASSUME NEW i \in 1..7
      PROVE  c[1..i] = WithItem(c[1..(i - 1)], h, Optional[i])
  <2>1. /\ Greatest(1..i) = i /\ 1..i \in SUBSET (1..7) /\ 1..i # {}
        /\ (1..i) \ {i} = 1..(i - 1)
    BY <1>1, IntervalUnfolds
  <2>2. c[1..i] = WithItem(c[(1..i) \ {Greatest(1..i)}], h, Optional[Greatest(1..i)])
    BY <1>1, <1>6, <2>1 DEF EncodingUnrolled
  <2>. QED  BY <2>1, <2>2
<1>8. c[1..0] = <<>>
  <2>1. 1..0 = {} /\ {} \in SUBSET (1..7)
    OBVIOUS
  <2>. QED  BY <1>1, <1>6, <2>1 DEF EncodingUnrolled
<1>9. Encodes(e, h)
  <2>1. e[0] = <<>> /\ \A i \in 1..7 : e[i] = c[1..i] /\ e[i - 1] = c[1..(i - 1)]
    BY <1>8
  <2>. HIDE DEF e
  <2>. QED  BY <1>7, <2>1 DEF Encodes
<1>10. e[7] = c[1..7]
  OBVIOUS
<1>. HIDE DEF e
<1>. QED  BY <1>6, <1>9, <1>10

LEMMA EncodesType ==
  ASSUME NEW h, Valued(h), NEW e, Encodes(e, h)
  PROVE  \A i \in 0..7 : e[i] \in Seq(Items)
<1>. DEFINE S == {i \in 0..7 : e[i] \in Seq(Items)}
<1>1. 0 \in S
  <2>1. e[0] = <<>> /\ <<>> \in Seq(Items)
    BY DEF Encodes
  <2>2. e[0] \in Seq(Items)
    BY ONLY <2>1, Zenon
  <2>3. 0 \in 0..7
    OBVIOUS
  <2>. QED  BY ONLY <2>2, <2>3
<1>2. ASSUME NEW i \in 0..(7 - 1), i \in S
      PROVE  i + 1 \in S
  <2>. DEFINE p == i + 1
  <2>1. p \in 1..7 /\ p \in 0..7 /\ p - 1 = i
    OBVIOUS
  <2>. HIDE DEF p
  <2>2. e[p] = WithItem(e[i], h, Optional[p]) /\ e[i] \in Seq(Items)
    BY <1>2, <2>1 DEF Encodes
  <2>3. e[p] \in Seq(Items)
    BY <2>1, <2>2, WithItemType
  <2>. QED  BY <2>1, <2>3 DEF p
<1>3. 0..7 \subseteq S
  <2>. HIDE DEF S
  <2>. QED  BY <1>1, <1>2, IntervalInduction
<1>. QED  BY <1>3

\* The fold of header_payload_length.
WithLength(n, h, field) == IF field \in DOMAIN h THEN n + Size(Item(h, field)) ELSE n

PayloadUnrolled(iter, h) ==
  iter = [s \in SUBSET DOMAIN Optional |->
            IF s = {} THEN 0
            ELSE WithLength(iter[s \ {Greatest(s)}], h, Optional[Greatest(s)])]

LEMMA PayloadUnrolls ==
  ASSUME NEW h
  PROVE  HeaderPayloadLength(h) = (CHOOSE iter : PayloadUnrolled(iter, h))[DOMAIN Optional]
  BY DEF HeaderPayloadLength, FoldLeft, MapThenFoldSet, PayloadUnrolled, WithLength, Greatest,
         Max

LEMMA PayloadIs ==
  ASSUME NEW h, Valued(h)
  PROVE  \E l : /\ l[0] = 0 /\ HeaderPayloadLength(h) = l[7]
                /\ \A i \in 1..7 : l[i] = WithLength(l[i - 1], h, Optional[i])
<1>. DEFINE step == [i \in 1..7 |-> [n \in Nat |-> WithLength(n, h, Optional[i])]]
<1>1. DOMAIN Optional = 1..7 /\ 7 \in Nat
  BY OptionalPlaces
<1>2. step \in [1..7 -> [Nat -> Nat]]
  <2>1. ASSUME NEW i \in 1..7, NEW n \in Nat
        PROVE  WithLength(n, h, Optional[i]) \in Nat
    <3>1. Optional[i] \in DOMAIN h => Size(Item(h, Optional[i])) \in Nat
      BY ItemType, SizePositive DEF Valued
    <3>. QED  BY <3>1 DEF WithLength
  <2>. QED  BY <2>1
<1>3. \A i \in 1..7 : \A n \in Nat : step[i][n] = WithLength(n, h, Optional[i])
  OBVIOUS
<1>. HIDE DEF step
<1>4. PICK g : Folds(g, 7, Nat, 0, step)
  BY <1>1, <1>2, FoldExists
<1>5. PayloadUnrolled(g, h)
  <2>1. ASSUME NEW s \in SUBSET (1..7)
        PROVE  g[s] = IF s = {} THEN 0
                      ELSE WithLength(g[s \ {Greatest(s)}], h, Optional[Greatest(s)])
    <3>1. CASE s = {}
      BY <1>4, <3>1 DEF Folds
    <3>2. CASE s # {}
      <4>1. TakesGreatest(g, s, 7, Nat, step)
        BY <1>1, <1>4, <2>1, <3>2, FoldStep
      <4>. QED  BY <1>3, <3>2, <4>1 DEF TakesGreatest
    <3>. QED  BY <3>1, <3>2
  <2>2. g = [s \in SUBSET (1..7) |-> g[s]]
    BY <1>4 DEF Folds
  <2>. QED  BY <1>1, <2>1, <2>2, Zenon DEF PayloadUnrolled
<1>6. PICK c : PayloadUnrolled(c, h) /\ HeaderPayloadLength(h) = c[1..7]
  BY <1>1, <1>5, PayloadUnrolls, Zenon
<1>. DEFINE l == [i \in 0..7 |-> c[1..i]]
<1>7. ASSUME NEW i \in 1..7
      PROVE  c[1..i] = WithLength(c[1..(i - 1)], h, Optional[i])
  <2>1. /\ Greatest(1..i) = i /\ 1..i \in SUBSET (1..7) /\ 1..i # {}
        /\ (1..i) \ {i} = 1..(i - 1)
    BY <1>1, IntervalUnfolds
  <2>2. c[1..i] = WithLength(c[(1..i) \ {Greatest(1..i)}], h, Optional[Greatest(1..i)])
    BY <1>1, <1>6, <2>1 DEF PayloadUnrolled
  <2>. QED  BY <2>1, <2>2
<1>8. c[1..0] = 0
  <2>1. 1..0 = {} /\ {} \in SUBSET (1..7)
    OBVIOUS
  <2>. QED  BY <1>1, <1>6, <2>1 DEF PayloadUnrolled
<1>9. /\ l[0] = 0 /\ l[7] = c[1..7]
      /\ \A i \in 1..7 : l[i] = c[1..i] /\ l[i - 1] = c[1..(i - 1)]
  BY <1>8
<1>. HIDE DEF l
<1>10. \A i \in 1..7 : l[i] = WithLength(l[i - 1], h, Optional[i])
  BY <1>7, <1>9
<1>. QED  BY <1>6, <1>9, <1>10

\* The length header_payload_length declares is that of what encode writes.
LEMMA DeclaredRight ==
  ASSUME NEW h, Valued(h)
  PROVE  HeaderPayloadLength(h) = Length(EncodedItems(h)) /\ EncodedItems(h) \in Seq(Items)
<1>1. PICK e : Encodes(e, h) /\ EncodedItems(h) = e[7]
  BY EncodedIs
<1>2. PICK l : /\ l[0] = 0 /\ HeaderPayloadLength(h) = l[7]
               /\ \A i \in 1..7 : l[i] = WithLength(l[i - 1], h, Optional[i])
  BY PayloadIs
<1>3. \A i \in 0..7 : e[i] \in Seq(Items)
  BY <1>1, EncodesType
<1>. DEFINE long == [i \in 0..7 |-> Length(e[i])]
<1>4. long[0] = l[0]
  BY <1>1, <1>2, LengthEmpty DEF Encodes
<1>5. GoOnAlike(l, long, 7)
  <2>. SUFFICES ASSUME NEW i \in 1..7, l[i - 1] = long[i - 1]
                PROVE  l[i] = long[i]
    BY DEF GoOnAlike
  <2>1. /\ i \in 0..7 /\ i - 1 \in 0..7 /\ e[i - 1] \in Seq(Items)
        /\ long[i] = Length(e[i]) /\ long[i - 1] = Length(e[i - 1])
    BY <1>3
  <2>2. /\ e[i] = WithItem(e[i - 1], h, Optional[i])
        /\ l[i] = WithLength(l[i - 1], h, Optional[i])
    BY <1>1, <1>2 DEF Encodes
  <2>. HIDE DEF long
  <2>3. CASE Optional[i] \in DOMAIN h
    <3>1. Item(h, Optional[i]) \in Items
      BY <2>3, ItemType DEF Valued
    <3>2. Length(e[i]) = Length(e[i - 1]) + Size(Item(h, Optional[i]))
      BY <2>1, <2>2, <2>3, <3>1, LengthAppend DEF WithItem
    <3>. QED  BY <2>1, <2>2, <2>3, <3>2 DEF WithLength
  <2>4. CASE Optional[i] \notin DOMAIN h
    BY <2>1, <2>2, <2>4 DEF WithLength, WithItem
  <2>. QED  BY <2>3, <2>4
<1>6. SameUpTo(l, long, 7)
  <2>. HIDE DEF long
  <2>. QED  BY <1>4, <1>5, SameRecursion
<1>7. l[7] = Length(e[7]) /\ e[7] \in Seq(Items)
  BY <1>3, <1>6 DEF SameUpTo
<1>. QED  BY <1>1, <1>2, <1>7

\* What encode writes of a complete header: its fields in order.
LEMMA EncodedComplete ==
  ASSUME NEW n \in 0..7, NEW h \in [First(n) -> Value]
  PROVE  /\ Valued(h) /\ Len(EncodedItems(h)) = n
         /\ \A j \in 1..n : EncodedItems(h)[j] = Item(h, Optional[j])
<1>1. \A i \in 1..7 : Optional[i] \in DOMAIN h <=> i <= n
  BY FirstHas
<1>2. Valued(h)
  BY DEF Valued
<1>3. PICK e : Encodes(e, h) /\ EncodedItems(h) = e[7]
  BY <1>2, EncodedIs
<1>4. \A i \in 0..7 : e[i] \in Seq(Items)
  BY <1>2, <1>3, EncodesType
<1>. DEFINE m(i) == IF i <= n THEN i ELSE n
            S == {i \in 0..7 : /\ Len(e[i]) = m(i)
                               /\ \A j \in 1..m(i) : e[i][j] = Item(h, Optional[j])}
<1>5. 0 \in S
  <2>1. e[0] = <<>> /\ m(0) = 0 /\ Len(<<>>) = 0 /\ 1..0 = {}
    BY <1>3 DEF Encodes
  <2>. QED  BY <2>1
<1>6. ASSUME NEW i \in 0..(7 - 1), i \in S
      PROVE  i + 1 \in S
  <2>. DEFINE p == i + 1
  <2>1. p \in 1..7 /\ p \in 0..7 /\ p - 1 = i /\ i \in 0..7
    OBVIOUS
  <2>2. e[p] = WithItem(e[i], h, Optional[p]) /\ e[i] \in Seq(Items)
    <3>. HIDE DEF p
    <3>. QED  BY <1>3, <1>4, <2>1 DEF Encodes
  <2>3. Len(e[i]) = m(i) /\ \A j \in 1..m(i) : e[i][j] = Item(h, Optional[j])
    BY <1>6
  <2>4. CASE p <= n
    <3>1. e[p] = Append(e[i], Item(h, Optional[p])) /\ m(p) = p /\ m(i) = i
      BY <1>1, <2>1, <2>2, <2>4 DEF WithItem
    <3>2. Item(h, Optional[p]) \in Items
      BY <1>1, <1>2, <2>1, <2>4, ItemType DEF Valued
    <3>. DEFINE item == Item(h, Optional[p])
    <3>3. item \in Items
      BY <3>2
    <3>. HIDE DEF item, m
    <3>4. /\ Len(e[p]) = i + 1 /\ e[p][i + 1] = item
          /\ \A j \in 1..i : e[p][j] = e[i][j]
      <4>1. e[p] = Append(e[i], item) /\ Len(e[i]) = i
        BY <2>3, <3>1 DEF item
      <4>. HIDE DEF p
      <4>. QED  BY <2>1, <2>2, <3>3, <4>1
    <3>5. \A j \in 1..p : e[p][j] = Item(h, Optional[j])
      <4>. SUFFICES ASSUME NEW j \in 1..p
                    PROVE  e[p][j] = Item(h, Optional[j])
        OBVIOUS
      <4>1. CASE j = p
        BY <3>4, <4>1 DEF item
      <4>2. CASE j # p
        <5>1. j \in 1..i
          BY <2>1, <4>2
        <5>. QED  BY <2>3, <3>1, <3>4, <5>1
      <4>. QED  BY <4>1, <4>2
    <3>. QED  BY <2>1, <3>1, <3>4, <3>5
  <2>5. CASE ~(p <= n)
    <3>1. e[p] = e[i] /\ m(p) = n /\ m(i) = n
      BY <1>1, <2>1, <2>2, <2>5 DEF WithItem
    <3>. HIDE DEF m
    <3>. QED  BY <2>1, <2>3, <3>1
  <2>. QED  BY <2>4, <2>5
<1>7. 0..7 \subseteq S
  <2>. HIDE DEF S
  <2>. QED  BY <1>5, <1>6, IntervalInduction
<1>8. 7 \in S /\ m(7) = n
  BY <1>7
<1>. QED  BY <1>2, <1>3, <1>8

-----------------------------------------------------------------------------
(* Decoding *)

Consumed(w, n) == Length(Prefix(w.items, n))

\* The optional fields decode reads: it stops at the n-th.
Stops(w, n) == n = 7 \/ n > Len(w.items) \/ Consumed(w, n) >= w.declared
ReadsUpTo(w, n) ==
  Stops(w, n) /\ \A m \in 0..n - 1 : m <= Len(w.items) /\ Consumed(w, m) < w.declared

FieldsRead(w) == CHOOSE n \in 0..7 : ReadsUpTo(w, n)

LEMMA DecodeIs ==
  ASSUME NEW w
  PROVE  LET read == FieldsRead(w) IN
         Decode(w) =
           IF /\ read <= Len(w.items)
              /\ \A i \in 1..read : w.items[i].kind = Kind(Optional[i])
              /\ Consumed(w, read) = w.declared
           THEN [header |-> [field \in First(read) |->
                               w.items[CHOOSE i \in 1..read : Optional[i] = field].value],
                 rest |-> SubSeq(w.items, read + 1, Len(w.items))]
           ELSE [header |-> Absent, rest |-> w.items]
  BY DEF Decode, FieldsRead, ReadsUpTo, Stops, Consumed, Prefix, First

\* A list off the wire.
IsList(w) == w.declared \in Int /\ w.items \in Seq(Items)

LEMMA ConsumedType ==
  ASSUME NEW w, IsList(w), NEW n \in 0..Len(w.items)
  PROVE  Consumed(w, n) \in Nat
<1>1. w.items \in Seq(Items)
  BY DEF IsList
<1>. QED  BY <1>1, PrefixesLengthen DEF Consumed

\* decode stops at one field and no other.
LEMMA StopsOnce ==
  ASSUME NEW w, IsList(w), NEW n \in 0..7, ReadsUpTo(w, n)
  PROVE  FieldsRead(w) = n
<1>. DEFINE k == FieldsRead(w)
<1>1. k \in 0..7 /\ ReadsUpTo(w, k)
  BY DEF FieldsRead
<1>. HIDE DEF k
<1>2. ASSUME NEW a \in 0..7, NEW b \in 0..7, ReadsUpTo(w, a), ReadsUpTo(w, b), a < b
      PROVE  FALSE
  <2>1. a \in 0..b - 1
    BY <1>2
  <2>2. a <= Len(w.items) /\ Consumed(w, a) < w.declared /\ Len(w.items) \in Nat
    BY <1>2, <2>1 DEF ReadsUpTo, IsList
  <2>3. Consumed(w, a) \in Nat /\ w.declared \in Int
    BY <2>2, ConsumedType DEF IsList
  <2>4. a = 7 \/ a > Len(w.items) \/ Consumed(w, a) >= w.declared
    BY <1>2 DEF ReadsUpTo, Stops
  <2>. QED  BY <1>2, <2>2, <2>3, <2>4
<1>3. ~(k < n) /\ ~(n < k)
  BY <1>1, <1>2
<1>4. k = n
  BY <1>1, <1>3
<1>. QED  BY <1>4 DEF k

LEMMA StopsSomewhere ==
  ASSUME NEW w, IsList(w)
  PROVE  FieldsRead(w) \in 0..7 /\ ReadsUpTo(w, FieldsRead(w))
<1>. DEFINE T == {n \in 0..7 : Stops(w, n)}
<1>1. T \in SUBSET Nat /\ 7 \in T
  BY DEF Stops
<1>2. PICK n \in T : \A k \in T : n <= k
  <2>. HIDE DEF T
  <2>1. T # {}
    BY <1>1
  <2>. QED  BY <1>1, <2>1, LeastElement
<1>3. ReadsUpTo(w, n)
  <2>. SUFFICES ASSUME NEW m \in 0..n - 1
                PROVE  m <= Len(w.items) /\ Consumed(w, m) < w.declared
    BY DEF ReadsUpTo
  <2>1. m \in 0..7 /\ n \in 0..7 /\ ~(n <= m)
    OBVIOUS
  <2>2. ~Stops(w, m)
    BY <1>2, <2>1
  <2>3. ~(m > Len(w.items)) /\ ~(Consumed(w, m) >= w.declared)
    BY <2>2 DEF Stops
  <2>4. Len(w.items) \in Nat /\ w.declared \in Int
    BY DEF IsList
  <2>5. m <= Len(w.items) /\ m \in 0..Len(w.items)
    BY <2>1, <2>3, <2>4
  <2>6. Consumed(w, m) \in Nat
    BY <2>5, ConsumedType
  <2>. QED  BY <2>3, <2>4, <2>5, <2>6
<1>. QED  BY <1>3, StopsOnce

\* The header of the first n items of a list.
HeaderOf(items, n) ==
  [field \in First(n) |-> items[CHOOSE i \in 1..n : Optional[i] = field].value]

LEMMA HeaderOfPlaces ==
  ASSUME NEW items, NEW n \in 0..7
  PROVE  \A i \in 1..n : HeaderOf(items, n)[Optional[i]] = items[i].value
<1>. SUFFICES ASSUME NEW i \in 1..n
              PROVE  HeaderOf(items, n)[Optional[i]] = items[i].value
  OBVIOUS
<1>. DEFINE c == CHOOSE j \in 1..n : Optional[j] = Optional[i]
<1>1. c \in 1..n /\ Optional[c] = Optional[i]
  OBVIOUS
<1>2. c = i
  <2>. HIDE DEF c
  <2>1. c \in 1..7 /\ i \in 1..7
    BY <1>1
  <2>. QED  BY <1>1, <2>1, OptionalPlaces
<1>3. Optional[i] \in First(n)
  BY DEF First
<1>. QED  BY <1>2, <1>3 DEF HeaderOf

\* What a list off the wire decodes to: as many fields as it declares, without
\* a gap, and they encode to the very items that were read.
ReadOf(w, n, decoded) ==
  /\ n <= Len(w.items) /\ decoded.header \in [First(n) -> Value]
  /\ Encode(decoded.header) = [declared |-> w.declared, items |-> Prefix(w.items, n)]
  /\ decoded.rest = SubSeq(w.items, n + 1, Len(w.items))

LEMMA DecodeSound ==
  ASSUME NEW w, IsList(w), Decode(w).header # Absent
  PROVE  \E n \in 0..7 : ReadOf(w, n, Decode(w))
<1>. DEFINE n == FieldsRead(w)
            h == HeaderOf(w.items, n)
<1>1. n \in 0..7
  BY StopsSomewhere
<1>2. /\ n <= Len(w.items)
      /\ \A i \in 1..n : w.items[i].kind = Kind(Optional[i])
      /\ Consumed(w, n) = w.declared
      /\ Decode(w) = [header |-> h, rest |-> SubSeq(w.items, n + 1, Len(w.items))]
  <2>. DEFINE right == /\ n <= Len(w.items)
                       /\ \A i \in 1..n : w.items[i].kind = Kind(Optional[i])
                       /\ Consumed(w, n) = w.declared
              full  == [header |-> h, rest |-> SubSeq(w.items, n + 1, Len(w.items))]
  <2>1. Decode(w) = IF right THEN full ELSE [header |-> Absent, rest |-> w.items]
    BY DecodeIs DEF HeaderOf
  <2>. HIDE DEF full, right
  <2>2. right /\ Decode(w) = full
    BY <2>1
  <2>. QED  BY <2>2 DEF full, right
<1>. HIDE DEF n, h
<1>3. w.items \in Seq(Items) /\ Len(w.items) \in Nat /\ \A i \in 1..n : w.items[i] \in Items
  BY <1>1, <1>2 DEF IsList
<1>4. h \in [First(n) -> Value] /\ \A i \in 1..n : h[Optional[i]] = w.items[i].value
  <2>1. \A i \in 1..n : h[Optional[i]] = w.items[i].value /\ w.items[i].value \in Value
    BY <1>1, <1>3, HeaderOfPlaces DEF h, Items
  <2>2. h = [field \in First(n) |-> h[field]]
    BY DEF h, HeaderOf
  <2>3. \A field \in First(n) : h[field] \in Value
    BY <2>1 DEF First
  <2>. QED  BY <2>1, <2>2, <2>3
<1>5. /\ Valued(h) /\ Len(EncodedItems(h)) = n
      /\ \A j \in 1..n : EncodedItems(h)[j] = Item(h, Optional[j])
  BY <1>1, <1>4, EncodedComplete
<1>6. /\ EncodedItems(h) \in Seq(Items)
      /\ HeaderPayloadLength(h) = Length(EncodedItems(h))
  BY <1>5, DeclaredRight
<1>7. EncodedItems(h) = Prefix(w.items, n)
  <2>1. /\ Prefix(w.items, n) \in Seq(Items) /\ Len(Prefix(w.items, n)) = n
        /\ \A j \in 1..n : Prefix(w.items, n)[j] = w.items[j]
    BY <1>1, <1>2, <1>3 DEF Prefix
  <2>2. \A j \in 1..n : Item(h, Optional[j]) = w.items[j]
    <3>. SUFFICES ASSUME NEW j \in 1..n
                  PROVE  Item(h, Optional[j]) = w.items[j]
      OBVIOUS
    <3>1. w.items[j] = [kind |-> w.items[j].kind, value |-> w.items[j].value]
      BY <1>3 DEF Items
    <3>. QED  BY <1>2, <1>4, <3>1 DEF Item
  <2>3. \A j \in 1..n : EncodedItems(h)[j] = Prefix(w.items, n)[j]
    BY <1>5, <2>1, <2>2
  <2>. DEFINE a == EncodedItems(h)
              b == Prefix(w.items, n)
  <2>4. a \in Seq(Items) /\ b \in Seq(Items) /\ Len(a) = Len(b)
        /\ \A j \in 1..Len(a) : a[j] = b[j]
    BY <1>5, <1>6, <2>1, <2>3
  <2>. HIDE DEF a, b
  <2>5. a = b
    BY <2>4, SeqEqual
  <2>. QED  BY <2>5 DEF a, b
<1>8. Encode(h) = [declared |-> w.declared, items |-> Prefix(w.items, n)]
  BY <1>2, <1>6, <1>7 DEF Encode, Consumed
<1>9. Decode(w).header = h /\ Decode(w).rest = SubSeq(w.items, n + 1, Len(w.items))
  <2>. DEFINE rest == SubSeq(w.items, n + 1, Len(w.items))
  <2>1. \A d : d = [header |-> h, rest |-> rest] => d.header = h /\ d.rest = rest
    <3>. HIDE DEF rest
    <3>. QED  OBVIOUS
  <2>. QED  BY <1>2, <2>1
<1>. QED  BY <1>1, <1>2, <1>4, <1>8, <1>9 DEF ReadOf

\* h, as encode writes it, with another item of the message behind it.
FollowedBy(w, h, next) ==
  w.declared = HeaderPayloadLength(h) /\ w.items = Append(EncodedItems(h), next)

\* A complete header is read back from within a message that goes on behind it.
LEMMA DecodeEncoded ==
  ASSUME NEW n \in 0..7, NEW h \in [First(n) -> Value], NEW next \in Items, NEW w,
         FollowedBy(w, h, next)
  PROVE  Decode(w).header = h /\ Decode(w).rest = <<next>>
<1>. DEFINE es == EncodedItems(h)
<1>1. /\ Valued(h) /\ Len(es) = n
      /\ \A j \in 1..n : es[j] = Item(h, Optional[j])
  BY EncodedComplete
<1>2. es \in Seq(Items) /\ HeaderPayloadLength(h) = Length(es)
  BY <1>1, DeclaredRight
<1>. HIDE DEF es
<1>3. /\ w.items \in Seq(Items) /\ Len(w.items) = n + 1
      /\ w.items[n + 1] = next /\ \A j \in 1..n : w.items[j] = es[j]
  <2>1. w.items = Append(es, next)
    BY DEF es, FollowedBy
  <2>. QED  BY <1>1, <1>2, <2>1
<1>4. Prefix(w.items, n) = es
  <2>. DEFINE b == Prefix(w.items, n)
  <2>1. b \in Seq(Items) /\ Len(b) = n /\ \A j \in 1..n : b[j] = w.items[j]
    <3>1. n \in Nat /\ n <= Len(w.items) /\ w.items \in Seq(Items)
      BY <1>3
    <3>. QED  BY ONLY <3>1 DEF Prefix
  <2>. HIDE DEF b
  <2>2. b = es
    BY <1>1, <1>2, <1>3, <2>1, SeqEqual
  <2>. QED  BY <2>2 DEF b
<1>5. /\ Length(es) \in Nat
      /\ \A m \in 0..(n - 1) : Length(Prefix(w.items, m)) < Length(es)
  BY <1>3, <1>4, PrefixesLengthen
<1>6. IsList(w) /\ w.declared = Length(es)
  BY <1>2, <1>3, <1>5 DEF IsList, FollowedBy
<1>7. ReadsUpTo(w, n) /\ Consumed(w, n) = w.declared
  <2>1. Consumed(w, n) = w.declared /\ w.declared \in Nat
    BY <1>4, <1>5, <1>6 DEF Consumed
  <2>2. \A m \in 0..(n - 1) : m <= Len(w.items) /\ Consumed(w, m) < w.declared
    BY <1>3, <1>5, <1>6 DEF Consumed
  <2>. QED  BY <2>1, <2>2 DEF ReadsUpTo, Stops
<1>8. FieldsRead(w) = n
  BY <1>6, <1>7, StopsOnce
<1>9. \A i \in 1..n : /\ w.items[i].kind = Kind(Optional[i])
                      /\ w.items[i].value = h[Optional[i]]
  BY <1>1, <1>3 DEF Item
<1>10. Decode(w) = [header |-> HeaderOf(w.items, n),
                    rest |-> SubSeq(w.items, n + 1, Len(w.items))]
  <2>. DEFINE k     == FieldsRead(w)
              right == /\ k <= Len(w.items)
                       /\ \A i \in 1..k : w.items[i].kind = Kind(Optional[i])
                       /\ Consumed(w, k) = w.declared
              full  == [header |-> HeaderOf(w.items, k),
                        rest |-> SubSeq(w.items, k + 1, Len(w.items))]
  <2>1. Decode(w) = IF right THEN full ELSE [header |-> Absent, rest |-> w.items]
    BY DecodeIs DEF HeaderOf
  <2>2. n <= Len(w.items)
    BY <1>3
  <2>3. \A i \in 1..n : w.items[i].kind = Kind(Optional[i])
    BY <1>9
  <2>4. right
    <3>. HIDE DEF full
    <3>. QED  BY <1>7, <1>8, <2>2, <2>3
  <2>. HIDE DEF right, full
  <2>5. Decode(w) = full
    BY <2>1, <2>4
  <2>. QED  BY <1>8, <2>5 DEF full
<1>11. HeaderOf(w.items, n) = h
  <2>1. \A i \in 1..n : HeaderOf(w.items, n)[Optional[i]] = h[Optional[i]]
    <3>1. \A i \in 1..n : HeaderOf(w.items, n)[Optional[i]] = w.items[i].value
      BY HeaderOfPlaces, Zenon
    <3>. QED  BY <1>9, <3>1
  <2>2. \A field \in First(n) : HeaderOf(w.items, n)[field] = h[field]
    BY <2>1 DEF First
  <2>3. HeaderOf(w.items, n) = [field \in First(n) |-> HeaderOf(w.items, n)[field]]
    BY DEF HeaderOf
  <2>4. h = [field \in First(n) |-> h[field]]
    OBVIOUS
  <2>. QED  BY <2>2, <2>3, <2>4
<1>12. SubSeq(w.items, n + 1, Len(w.items)) = <<next>>
  <2>. DEFINE r == SubSeq(w.items, n + 1, Len(w.items))
  <2>1. r \in Seq(Items) /\ Len(r) = 1 /\ r[1] = next
    BY <1>3
  <2>. HIDE DEF r
  <2>2. r = <<next>>
    BY <2>1
  <2>. QED  BY <2>2 DEF r
<1>. QED  BY <1>10, <1>11, <1>12

-----------------------------------------------------------------------------
(* The compact form and the engine API *)

\* Options that hold a complete header's fields are that header again.
LEMMA PresentIs ==
  ASSUME Absent \notin Value, NEW n \in 0..7, NEW h \in [First(n) -> Value], NEW r,
         First(n) \subseteq DOMAIN r, \A f \in DOMAIN r : r[f] = Opt(h, f)
  PROVE  Present(r) = h
<1>1. DOMAIN h = First(n) /\ \A f \in First(n) : h[f] # Absent
  OBVIOUS
<1>2. {f \in DOMAIN r : r[f] # Absent} = First(n)
  BY <1>1 DEF Opt
<1>3. \A f \in First(n) : r[f] = h[f]
  BY <1>1 DEF Opt
<1>4. Present(r) = [f \in First(n) |-> r[f]]
  BY <1>2 DEF Present
<1>5. h = [f \in First(n) |-> h[f]]
  OBVIOUS
<1>. QED  BY <1>3, <1>4, <1>5

\* The fields Berachain and Prague added, behind the first five.
LEMMA Youngest ==
  /\ Optional[5] = "parent_beacon_block_root"
  /\ Optional[6] = "requests_hash" /\ Optional[7] = "prev_proposer_pubkey"
  /\ ToSet(Optional) = First(7)
  /\ First(7) = First(5) \cup {"requests_hash", "prev_proposer_pubkey"}
  /\ First(7) = First(6) \cup {"prev_proposer_pubkey"}
  /\ First(6) = First(5) \cup {"requests_hash"}
  /\ First(6) = First(4) \cup {"parent_beacon_block_root", "requests_hash"}
<1>1. /\ Optional[5] = "parent_beacon_block_root"
      /\ Optional[6] = "requests_hash" /\ Optional[7] = "prev_proposer_pubkey"
  BY DEF Optional
<1>2. /\ 1..7 = 1..5 \cup {6, 7} /\ 1..7 = 1..6 \cup {7} /\ 1..6 = 1..5 \cup {6}
      /\ 1..6 = 1..4 \cup {5, 6}
  OBVIOUS
<1>3. ToSet(Optional) = First(7)
  BY OptionalPlaces DEF First
<1>4. \A a, b : {Optional[i] : i \in a \cup b}
                = {Optional[i] : i \in a} \cup {Optional[i] : i \in b}
  OBVIOUS
<1>5. {Optional[i] : i \in {6, 7}} = {"requests_hash", "prev_proposer_pubkey"}
  BY <1>1
<1>6. {Optional[i] : i \in {7}} = {"prev_proposer_pubkey"}
  BY <1>1
<1>7. {Optional[i] : i \in {6}} = {"requests_hash"}
  BY <1>1
<1>8. {Optional[i] : i \in {5, 6}} = {"parent_beacon_block_root", "requests_hash"}
  BY <1>1
<1>9. First(7) = First(5) \cup {"requests_hash", "prev_proposer_pubkey"}
  BY <1>2, <1>4, <1>5 DEF First
<1>10. First(7) = First(6) \cup {"prev_proposer_pubkey"}
  BY <1>2, <1>4, <1>6 DEF First
<1>11. First(6) = First(5) \cup {"requests_hash"}
  BY <1>2, <1>4, <1>7 DEF First
<1>12. First(6) = First(4) \cup {"parent_beacon_block_root", "requests_hash"}
  BY <1>2, <1>4, <1>8 DEF First
<1>. QED  BY <1>1, <1>3, <1>9, <1>10, <1>11, <1>12

LEMMA OptType ==
  ASSUME NEW n \in 0..7, NEW h \in [First(n) -> Value], NEW field
  PROVE  Opt(h, field) \in Value \cup {Absent}
  BY DEF Opt

\* What a header is on disk.
CompactForms == [own: [First(5) -> Value \cup {Absent}], extra: {Absent} \cup Extensions]

\* Compression and decompression give the header back.
LEMMA CompactKept ==
  ASSUME Absent \notin Value, Absent \notin Extensions,
         NEW n \in 0..7, NEW h \in [First(n) -> Value]
  PROVE  HeaderFromCompact(HeaderToCompact(h)) = h /\ HeaderToCompact(h) \in CompactForms
<1>. DEFINE ext == [requests_hash |-> Opt(h, "requests_hash"),
                    prev_proposer_pubkey |-> Opt(h, "prev_proposer_pubkey")]
            own == [field \in First(5) |-> Opt(h, field)]
            bare == \A field \in DOMAIN ext : ext[field] = Absent
            c == HeaderToCompact(h)
            extra == IF c.extra = Absent THEN [field \in {} |-> Absent] ELSE c.extra
            r == [field \in ToSet(Optional) |->
                    IF field \in DOMAIN c.own THEN c.own[field] ELSE Opt(extra, field)]
<1>1. /\ DOMAIN ext = {"requests_hash", "prev_proposer_pubkey"}
      /\ ext["requests_hash"] = Opt(h, "requests_hash")
      /\ ext["prev_proposer_pubkey"] = Opt(h, "prev_proposer_pubkey")
      /\ ext = [field \in {"requests_hash", "prev_proposer_pubkey"} |-> Opt(h, field)]
  OBVIOUS
<1>2. ext \in Extensions
  <2>. HIDE DEF ext
  <2>. QED  BY <1>1, OptType, Youngest DEF Extensions
<1>. HIDE DEF ext
<1>3. /\ c.own = own /\ c.extra = (IF bare THEN Absent ELSE ext)
      /\ c = [own |-> c.own, extra |-> c.extra]
  BY DEF HeaderToCompact, First, ext
<1>4. own \in [First(5) -> Value \cup {Absent}] /\ DOMAIN own = First(5)
  BY OptType
<1>5. c \in CompactForms
  <2>. HIDE DEF own, c, bare
  <2>1. c.own \in [First(5) -> Value \cup {Absent}] /\ c.extra \in {Absent} \cup Extensions
    BY <1>2, <1>3, <1>4
  <2>. QED  BY <1>3, <2>1 DEF CompactForms
<1>6. ASSUME NEW field \in ToSet(Optional)
      PROVE  r[field] = Opt(h, field)
  <2>1. CASE field \in First(5)
    <3>1. r[field] = own[field]
      <4>. HIDE DEF own, c
      <4>. QED  BY <1>3, <1>4, <2>1
    <3>. QED  BY <2>1, <3>1
  <2>2. CASE field \notin First(5)
    <3>1. field \in DOMAIN ext /\ ext[field] = Opt(h, field)
      BY <1>1, <2>2, Youngest
    <3>2. r[field] = Opt(extra, field)
      <4>. HIDE DEF own, c, extra
      <4>. QED  BY <1>3, <1>4, <2>2
    <3>3. CASE bare
      <4>1. ext[field] = Absent
        BY <3>1, <3>3
      <4>2. extra = [f \in {} |-> Absent]
        <5>. HIDE DEF c, bare, own
        <5>. QED  BY <1>3, <3>3
      <4>3. Opt(extra, field) = Absent
        <5>. HIDE DEF extra
        <5>. QED  BY <4>2 DEF Opt
      <4>. QED  BY <3>1, <3>2, <4>1, <4>3
    <3>4. CASE ~bare
      <4>1. extra = ext
        <5>. HIDE DEF c, bare, own
        <5>1. c.extra = ext /\ ext # Absent
          BY <1>2, <1>3, <3>4
        <5>. QED  BY <5>1
      <4>. HIDE DEF extra, r
      <4>. QED  BY <3>1, <3>2, <4>1 DEF Opt
    <3>. QED  BY <3>3, <3>4
  <2>. QED  BY <2>1, <2>2
<1>7. HeaderFromCompact(c) = Present(r)
  BY DEF HeaderFromCompact
<1>8. First(n) \subseteq DOMAIN r /\ DOMAIN r = ToSet(Optional)
  <2>1. First(n) \subseteq First(7)
    BY DEF First
  <2>. QED  BY <2>1, Youngest
<1>9. Present(r) = h
  <2>. HIDE DEF r
  <2>1. \A field \in DOMAIN r : r[field] = Opt(h, field)
    BY <1>6, <1>8
  <2>. QED  BY <1>8, <2>1, PresentIs
<1>. QED  BY <1>5, <1>7, <1>9

\* A header that goes over the engine API arrives as it was sent.
LEMMA EngineKept ==
  ASSUME Absent \notin Value, NEW n \in 5..7, NEW h \in [First(n) -> Value]
  PROVE  ParseBerachainBlock(BlockToPayload(h)) = h
<1>. DEFINE k == IF n = 7 THEN 6 ELSE n
            g == [field \in First(k) |-> h[field]]
            data == BlockToPayload(h)
            r == [field \in DOMAIN data.payload \cup DOMAIN data.sidecar |->
                    IF field \in DOMAIN data.payload THEN data.payload[field]
                    ELSE data.sidecar[field]]
            key == Opt(h, "prev_proposer_pubkey")
            pk == "prev_proposer_pubkey"
<1>1. /\ k \in 5..6 /\ k \in 0..7 /\ k <= n /\ n \in 0..7
      /\ First(k) \subseteq First(n) /\ First(k) \subseteq First(6)
      /\ First(4) \subseteq First(k) /\ "parent_beacon_block_root" \in First(k)
  <2>1. k \in 5..6 /\ k \in 0..7 /\ k <= n /\ n \in 0..7
    OBVIOUS
  <2>2. 1..k \subseteq 1..n /\ 1..k \subseteq 1..6 /\ 1..4 \subseteq 1..k /\ 5 \in 1..k
    BY <2>1
  <2>. HIDE DEF k
  <2>3. "parent_beacon_block_root" \in First(k)
    BY <2>2, Youngest DEF First
  <2>. QED  BY <2>1, <2>2, <2>3 DEF First
<1>2. pk \in First(n) <=> n = 7
  <2>1. 7 \in 1..7 /\ (7 <= n <=> n = 7)
    OBVIOUS
  <2>. QED  BY <1>1, <2>1, FirstHas, Youngest
<1>3. "requests_hash" \in First(n) <=> "requests_hash" \in First(k)
  <2>1. 6 \in 1..7 /\ (6 <= n <=> 6 <= k)
    OBVIOUS
  <2>. HIDE DEF k
  <2>2. \A i \in 1..7 : Optional[i] \in First(n) <=> i <= n
    BY <1>1, FirstHas
  <2>3. \A i \in 1..7 : Optional[i] \in First(k) <=> i <= k
    BY <1>1, FirstHas
  <2>. QED  BY <2>1, <2>2, <2>3, Youngest
<1>4. pk \notin First(k)
  <2>1. 7 \in 1..7 /\ ~(7 <= k)
    OBVIOUS
  <2>. HIDE DEF k
  <2>. QED  BY <1>1, <2>1, FirstHas, Youngest
<1>. HIDE DEF k
<1>5. /\ data.payload = [field \in First(4) |-> h[field]]
      /\ data.sidecar = [parent_beacon_block_root |-> h["parent_beacon_block_root"],
                         requests_hash |-> Opt(h, "requests_hash")]
      /\ data.parent_proposer_pub_key = key
  BY DEF BlockToPayload, First
<1>6. g \in [First(k) -> Value] /\ DOMAIN g = First(k)
  BY <1>1
<1>7. /\ DOMAIN data.payload = First(4)
      /\ DOMAIN data.sidecar = {"parent_beacon_block_root", "requests_hash"}
      /\ \A field \in First(4) : data.payload[field] = h[field]
      /\ data.sidecar["parent_beacon_block_root"] = h["parent_beacon_block_root"]
      /\ data.sidecar["requests_hash"] = Opt(h, "requests_hash")
  <2>. HIDE DEF data
  <2>. QED  BY <1>5
<1>. HIDE DEF data
<1>8. DOMAIN r = First(6)
  BY <1>7, Youngest
<1>9. ASSUME NEW field \in First(6)
      PROVE  r[field] = Opt(g, field)
  <2>1. CASE field \in First(4)
    <3>1. r[field] = h[field] /\ field \in First(k) /\ g[field] = h[field]
      BY <1>1, <1>7, <2>1
    <3>. HIDE DEF r, g
    <3>. QED  BY <1>6, <3>1 DEF Opt
  <2>2. CASE field \notin First(4)
    <3>1. r[field] = data.sidecar[field]
      BY <1>7, <1>8, <2>2
    <3>2. field = "parent_beacon_block_root" \/ field = "requests_hash"
      BY <2>2, Youngest
    <3>. HIDE DEF r
    <3>3. CASE field = "parent_beacon_block_root"
      BY <1>1, <1>7, <3>1, <3>3 DEF Opt
    <3>4. CASE field = "requests_hash"
      BY <1>1, <1>3, <1>7, <3>1, <3>4 DEF Opt
    <3>. QED  BY <3>2, <3>3, <3>4
  <2>. QED  BY <2>1, <2>2
<1>10. Present(r) = g
  <2>. HIDE DEF r, g
  <2>1. First(k) \subseteq DOMAIN r /\ \A field \in DOMAIN r : r[field] = Opt(g, field)
    BY <1>1, <1>8, <1>9
  <2>. QED  BY <1>1, <1>6, <2>1, PresentIs
<1>11. ParseBerachainBlock(data) = FromHeaderWithProposer(g, key)
  <2>1. ParseBerachainBlock(data)
        = FromHeaderWithProposer(Present(r), data.parent_proposer_pub_key)
    BY DEF ParseBerachainBlock
  <2>. HIDE DEF r, g, key
  <2>. QED  BY <1>5, <1>10, <2>1
<1>12. FromHeader(g) = g
  <2>1. FromHeader(g) = [field \in First(k) |-> g[field]]
    <3>. HIDE DEF g
    <3>1. DOMAIN g \ {pk} = First(k)
      BY <1>4, <1>6
    <3>. QED  BY <3>1 DEF FromHeader
  <2>2. g = [field \in First(k) |-> g[field]]
    OBVIOUS
  <2>. QED  BY <2>1, <2>2
<1>13. h = [field \in First(n) |-> h[field]]
  OBVIOUS
<1>14. CASE n = 7
  <2>1. key = h[pk] /\ key # Absent
    BY <1>2, <1>14 DEF Opt
  <2>2. First(7) = First(k) \cup {pk}
    BY <1>14, Youngest DEF k
  <2>3. WithKey(g, key) = [field \in First(7) |-> h[field]]
    <3>1. WithKey(g, key)
          = [field \in First(k) \cup {pk} |-> IF field = pk THEN key ELSE g[field]]
      BY <1>6 DEF WithKey
    <3>2. \A field \in First(k) \cup {pk} : (IF field = pk THEN key ELSE g[field]) = h[field]
      <4>. HIDE DEF key
      <4>. QED  BY <2>1
    <3>. HIDE DEF key, g
    <3>. QED  BY <2>2, <3>1, <3>2
  <2>. HIDE DEF g, key
  <2>. QED  BY <1>11, <1>12, <1>13, <1>14, <2>1, <2>3 DEF FromHeaderWithProposer, data
<1>15. CASE n # 7
  <2>1. key = Absent /\ k = n
    BY <1>2, <1>15 DEF Opt, k
  <2>2. g = h
    BY <1>13, <2>1
  <2>. HIDE DEF g, key
  <2>. QED  BY <1>11, <1>12, <2>1, <2>2 DEF FromHeaderWithProposer, data
<1>. QED  BY <1>14, <1>15

-----------------------------------------------------------------------------
(* The header on its way *)

\* A header that is there has no gap and encodes to the list it came from; one
\* on disk is its compact form.
HeaderInv ==
  /\ net \in Networks
  /\ header # Absent => /\ \E n \in 0..7 : header \in [First(n) -> Value]
                      /\ Encode(header) = origin
  /\ header = Absent => origin = Absent /\ storedHeader = Absent
  /\ storedHeader # Absent => storedHeader = HeaderToCompact(header)

LEMMA CompleteSome ==
  ASSUME NEW n \in 0..7, NEW h \in [First(n) -> Value]
  PROVE  h # Absent
<1>1. First(n) \subseteq ToSet(Optional)
  BY OptionalPlaces DEF First
<1>2. h \in Headers
  BY <1>1 DEF Headers
<1>. QED  BY <1>2, HeaderAssumption

\* What a network seals, or makes of its genesis file, has no gap.
LEMMA SealedComplete ==
  ASSUME net \in Networks, NEW t \in Nat
  PROVE  \E n \in 5..7 : /\ SealedFields(t) = First(n)
                         /\ IsPrague1Active(net, t) <=> n = 7
<1>1. /\ IsPrague1Active(net, t) => IsPragueActive(net, t)
  <2>1. NotBefore(net, "Prague", "Prague1") /\ net \in Schedule
    BY HeaderAssumption DEF OrderedSchedule
  <2>2. net["Prague"] # Never => net["Prague"] \in Nat
    BY <2>1 DEF Schedule, Fork
  <2>3. net["Prague1"] # Never => net["Prague1"] \in Nat
    BY <2>1 DEF Schedule, Fork
  <2>. QED  BY <2>1, <2>2, <2>3 DEF NotBefore, IsPrague1Active, IsPragueActive, ActiveAt
<1>2. SealedFields(t) = First(5)
        \cup (IF IsPragueActive(net, t) THEN {"requests_hash"} ELSE {})
        \cup (IF IsPrague1Active(net, t) THEN {"prev_proposer_pubkey"} ELSE {})
  BY DEF SealedFields, First
<1>3. CASE IsPrague1Active(net, t)
  BY <1>1, <1>2, <1>3, Youngest
<1>4. CASE ~IsPrague1Active(net, t) /\ IsPragueActive(net, t)
  BY <1>2, <1>4, Youngest
<1>5. CASE ~IsPrague1Active(net, t) /\ ~IsPragueActive(net, t)
  BY <1>2, <1>5
<1>. QED  BY <1>3, <1>4, <1>5

LEMMA HeaderStarts == HeaderInit => HeaderInv
  BY DEF HeaderInit, HeaderInv

\* A node that has no header takes one that has no gap.
LEMMA HeaderTaken ==
  ASSUME HeaderInv, header = Absent, NEW n \in 0..7,
         header' \in [First(n) -> Value], Encode(header') = origin',
         UNCHANGED <<net, storedHeader>>
  PROVE  HeaderInv'
<1>1. header' # Absent
  BY CompleteSome
<1>2. storedHeader' = Absent /\ net' \in Networks
  BY DEF HeaderInv
<1>. QED  BY <1>1, <1>2 DEF HeaderInv

LEMMA MakeGenesisStep ==
  ASSUME HeaderInv,
         NEW h \in [SealedFields(0) \ {"prev_proposer_pubkey"} -> Value], MakeGenesis(h)
  PROVE  HeaderInv'
<1>1. PICK n \in 5..7 : SealedFields(0) = First(n) /\ (IsPrague1Active(net, 0) <=> n = 7)
  BY SealedComplete DEF HeaderInv
<1>. DEFINE k == IF n = 7 THEN 6 ELSE n
            pk == "prev_proposer_pubkey"
<1>2. First(n) \ {pk} = First(k) /\ pk \notin First(k) /\ k \in 0..7
  <2>1. k \in 0..7 /\ n \in 0..7 /\ ~(7 <= k) /\ (7 <= n <=> n = 7) /\ 7 \in 1..7
    OBVIOUS
  <2>. HIDE DEF k
  <2>2. pk \notin First(k) /\ (pk \in First(n) <=> n = 7)
    BY <2>1, FirstHas, Youngest
  <2>3. n = 7 => First(n) = First(k) \cup {pk}
    BY Youngest DEF k
  <2>4. n # 7 => First(n) = First(k)
    BY DEF k
  <2>. QED  BY <2>1, <2>2, <2>3, <2>4
<1>. HIDE DEF k
<1>3. h \in [First(k) -> Value]
  BY <1>1, <1>2
<1>4. FromHeader(h) = h
  <2>1. DOMAIN h \ {pk} = First(k)
    BY <1>2, <1>3
  <2>2. h = [field \in First(k) |-> h[field]]
    BY <1>3
  <2>. QED  BY <2>1, <2>2 DEF FromHeader
<1>5. /\ header = Absent /\ origin' = Encode(header') /\ UNCHANGED <<net, storedHeader>>
      /\ header' = IF n = 7 THEN WithKey(h, 0) ELSE h
  BY <1>1, <1>4 DEF MakeGenesis
<1>6. header' \in [First(n) -> Value]
  <2>1. CASE n = 7
    <3>1. WithKey(h, 0) \in [First(k) \cup {pk} -> Value]
      <4>1. WithKey(h, 0) = [field \in First(k) \cup {pk} |-> IF field = pk THEN 0 ELSE h[field]]
        BY <1>3 DEF WithKey
      <4>2. \A field \in First(k) \cup {pk} : (IF field = pk THEN 0 ELSE h[field]) \in Value
        BY <1>3 DEF Value
      <4>. QED  BY <4>1, <4>2
    <3>2. First(k) \cup {pk} = First(n)
      BY <2>1, Youngest DEF k
    <3>. QED  BY <1>5, <2>1, <3>1, <3>2
  <2>2. CASE n # 7
    BY <1>3, <1>5, <2>2 DEF k
  <2>. QED  BY <2>1, <2>2
<1>7. n \in 0..7
  OBVIOUS
<1>. QED  BY <1>5, <1>6, <1>7, HeaderTaken

LEMMA SealStep ==
  ASSUME HeaderInv, NEW t \in Nat,
         NEW h \in [SealedFields(t) -> Value], Seal(h)
  PROVE  HeaderInv'
<1>1. PICK n \in 5..7 : SealedFields(t) = First(n)
  BY SealedComplete DEF HeaderInv
<1>2. n \in 0..7
  OBVIOUS
<1>3. /\ header = Absent /\ header' = h /\ origin' = Encode(h) /\ UNCHANGED <<net, storedHeader>>
  BY DEF Seal
<1>4. header' \in [First(n) -> Value] /\ Encode(header') = origin'
  BY <1>1, <1>3
<1>. QED  BY <1>2, <1>3, <1>4, HeaderTaken

\* What a peer may send is a list.
LEMMA PeersSendLists ==
  ASSUME NEW items \in PeerItems, NEW n \in PeerLengths(items)
  PROVE  IsList([declared |-> n, items |-> items])
<1>1. PICK k \in 0..8 : items \in [1..k -> {[kind |-> kind, value |-> 1] :
                                             kind \in {"quantity", "hash", "key"}}]
  BY DEF PeerItems
<1>2. \A item \in {[kind |-> kind, value |-> 1] : kind \in {"quantity", "hash", "key"}} :
        item \in Items
  BY DEF Items, Kinds, Value
<1>3. items \in [1..k -> Items] /\ k \in Nat
  BY <1>1, <1>2
<1>4. items \in Seq(Items) /\ Len(items) = k
  BY <1>3
<1>5. \A s \in Seq(Items) : Length(s) \in Nat
  <2>1. [kind |-> "key", value |-> 1] \in Items
    BY DEF Items, Kinds, Value
  <2>. HIDE DEF Items
  <2>. QED  BY <2>1, LengthAppend
<1>6. items # <<>> => Front(items) \in Seq(Items)
  <2>. SUFFICES ASSUME items # <<>>
                PROVE  SubSeq(items, 1, Len(items) - 1) \in Seq(Items)
    BY DEF Front
  <2>1. k # 0
    BY <1>4
  <2>. QED  BY <1>4, <2>1
<1>7. n \in Int
  BY <1>4, <1>5, <1>6 DEF PeerLengths
<1>. QED  BY <1>4, <1>7 DEF IsList

\* What is left of a list behind its first n items.
LEMMA LastOnes ==
  ASSUME NEW s \in Seq(Items), NEW n \in Nat, n <= Len(s)
  PROVE  Len(SubSeq(s, n + 1, Len(s))) = Len(s) - n
<1>. DEFINE p == n + 1
            q == Len(s)
<1>1. q \in Nat /\ p \in 1..(q + 1)
  OBVIOUS
<1>2. p \in Int /\ q \in Int /\ \A i \in p..q : i \in 1..Len(s)
  BY <1>1
<1>3. Len(SubSeq(s, p, q)) = IF p <= q THEN q - p + 1 ELSE 0
  <2>. HIDE DEF p
  <2>. QED  BY <1>2, SubSeqProperties
<1>. QED  BY <1>1, <1>3

LEMMA ReceiveStep ==
  ASSUME HeaderInv, NEW w, IsList(w),
         w = [declared |-> w.declared, items |-> w.items], Receive(w)
  PROVE  HeaderInv'
<1>. DEFINE d == Decode(w)
<1>1. /\ header = Absent /\ d.header # Absent /\ header' = d.header
      /\ origin' = [w EXCEPT !.items = SubSeq(@, 1, Len(@) - Len(d.rest))]
      /\ UNCHANGED <<net, storedHeader>>
  BY DEF Receive
<1>2. PICK n \in 0..7 : ReadOf(w, n, d)
  BY <1>1, DecodeSound
<1>. HIDE DEF d
<1>3. /\ n <= Len(w.items) /\ d.header \in [First(n) -> Value]
      /\ Encode(d.header) = [declared |-> w.declared, items |-> Prefix(w.items, n)]
      /\ d.rest = SubSeq(w.items, n + 1, Len(w.items))
  BY <1>2 DEF ReadOf
<1>4. w.items \in Seq(Items)
  BY DEF IsList
<1>5. Len(w.items) - Len(d.rest) = n
  <2>. DEFINE s == w.items
  <2>1. s \in Seq(Items) /\ Len(s) \in Nat /\ d.rest = SubSeq(s, n + 1, Len(s))
    BY <1>3, <1>4
  <2>2. Len(d.rest) = Len(s) - n
    <3>1. n \in Nat /\ n <= Len(s)
      BY <1>3
    <3>. HIDE DEF s
    <3>. QED  BY <2>1, <3>1, LastOnes
  <2>. DEFINE k == Len(s)
              r == Len(d.rest)
  <2>3. k \in Nat /\ n \in Nat /\ r = k - n
    BY <2>1, <2>2
  <2>. HIDE DEF k, r
  <2>4. k - r = n
    BY <2>3
  <2>. QED  BY <2>4 DEF k, r
<1>6. origin' = [declared |-> w.declared, items |-> Prefix(w.items, n)]
  <2>1. origin' = [w EXCEPT !.items = Prefix(w.items, n)]
    BY <1>1, <1>5 DEF Prefix
  <2>. DEFINE c == w.declared
              s == w.items
  <2>2. \A y : [[declared |-> c, items |-> s] EXCEPT !.items = y] = [declared |-> c, items |-> y]
    OBVIOUS
  <2>3. w = [declared |-> c, items |-> s]
    OBVIOUS
  <2>. HIDE DEF c, s
  <2>4. \A y : [w EXCEPT !.items = y] = [declared |-> c, items |-> y]
    BY <2>2, <2>3
  <2>. QED  BY <2>1, <2>4 DEF c
<1>7. header' \in [First(n) -> Value] /\ Encode(header') = origin'
  BY <1>1, <1>3, <1>6
<1>. QED  BY <1>1, <1>7, HeaderTaken

\* On every way on, a header stays the one it was.
LEMMA RelayStep ==
  ASSUME HeaderInv, NEW next \in Items, Relay(next)
  PROVE  header' = header /\ UNCHANGED <<net, storedHeader, origin>>
<1>. DEFINE w == [Encode(header) EXCEPT !.items = Append(@, next)]
            d == Decode(w)
<1>1. /\ header # Absent
      /\ header' = IF d.rest = <<next>> THEN d.header ELSE Absent
      /\ UNCHANGED <<net, storedHeader, origin>>
  BY DEF Relay
<1>2. PICK n \in 0..7 : header \in [First(n) -> Value]
  BY <1>1 DEF HeaderInv
<1>3. FollowedBy(w, header, next)
  <2>. DEFINE l == HeaderPayloadLength(header)
              s == EncodedItems(header)
              e == [declared |-> l, items |-> s]
  <2>1. \A y : [e EXCEPT !.items = y] = [declared |-> l, items |-> y]
    <3>. HIDE DEF l, s
    <3>. QED  OBVIOUS
  <2>2. Encode(header) = e /\ e.items = s
    BY DEF Encode
  <2>3. w = [e EXCEPT !.items = Append(e.items, next)]
    BY <2>2
  <2>. HIDE DEF e, w
  <2>4. w = [declared |-> l, items |-> Append(s, next)]
    BY <2>1, <2>2, <2>3
  <2>5. w.declared = l /\ w.items = Append(s, next)
    <3>. HIDE DEF l, s
    <3>. QED  BY <2>4
  <2>. QED  BY <2>5 DEF FollowedBy
<1>. HIDE DEF w
<1>4. d.header = header /\ d.rest = <<next>>
  BY <1>2, <1>3, DecodeEncoded
<1>. QED  BY <1>1, <1>4

LEMMA DeliverStep ==
  ASSUME HeaderInv, Deliver
  PROVE  header' = header /\ UNCHANGED <<net, storedHeader, origin>>
<1>. DEFINE parsed == ParseBerachainBlock(BlockToPayload(header))
<1>1. /\ header # Absent /\ First(5) \subseteq DOMAIN header
      /\ header' = IF Encode(parsed) = Encode(header) THEN parsed ELSE Absent
      /\ UNCHANGED <<net, storedHeader, origin>>
  BY DEF Deliver, First
<1>2. PICK n \in 0..7 : header \in [First(n) -> Value]
  BY <1>1 DEF HeaderInv
<1>3. n \in 5..7
  <2>1. Optional[5] \in First(n)
    <3>1. 5 \in 1..7 /\ 5 \in 0..7 /\ 5 <= 5
      OBVIOUS
    <3>2. Optional[5] \in First(5)
      BY <3>1, FirstHas
    <3>. QED  BY <1>1, <1>2, <3>2
  <2>2. 5 \in 1..7
    OBVIOUS
  <2>3. 5 <= n
    BY <2>1, <2>2, FirstHas
  <2>. QED  BY <2>3
<1>4. Absent \notin Value
  BY HeaderAssumption
<1>5. parsed = header
  BY <1>2, <1>3, <1>4, EngineKept
<1>. HIDE DEF parsed
<1>. QED  BY <1>1, <1>5

LEMMA HeaderKept == HeaderInv /\ [HeaderNext]_headerVars => HeaderInv'
<1>. SUFFICES ASSUME HeaderInv, [HeaderNext]_headerVars
              PROVE  HeaderInv'
  OBVIOUS
<1>1. ASSUME NEW h \in [SealedFields(0) \ {"prev_proposer_pubkey"} -> Value], MakeGenesis(h)
      PROVE  HeaderInv'
  BY <1>1, MakeGenesisStep
<1>2. ASSUME NEW t \in 1..MaxTime, NEW h \in [SealedFields(t) -> Value], Seal(h)
      PROVE  HeaderInv'
  <2>1. t \in Nat
    OBVIOUS
  <2>. QED  BY <1>2, <2>1, SealStep
<1>3. ASSUME NEW items \in PeerItems, NEW n \in PeerLengths(items),
             Receive([declared |-> n, items |-> items])
      PROVE  HeaderInv'
  <2>. DEFINE w == [declared |-> n, items |-> items]
  <2>1. IsList(w) /\ w = [declared |-> w.declared, items |-> w.items]
    BY PeersSendLists
  <2>2. Receive(w)
    BY <1>3
  <2>. HIDE DEF w
  <2>. QED  BY <2>1, <2>2, ReceiveStep
<1>4. ASSUME NEW kind \in {"quantity", "hash", "key"}, Relay([kind |-> kind, value |-> 0])
      PROVE  HeaderInv'
  <2>1. [kind |-> kind, value |-> 0] \in Items
    BY DEF Items, Kinds, Value
  <2>2. header' = header /\ UNCHANGED <<net, storedHeader, origin>>
    BY <1>4, <2>1, RelayStep
  <2>. QED  BY <2>2 DEF HeaderInv
<1>5. CASE Deliver
  <2>1. header' = header /\ UNCHANGED <<net, storedHeader, origin>>
    BY <1>5, DeliverStep
  <2>. QED  BY <2>1 DEF HeaderInv
<1>6. CASE StoreHeader
  BY <1>6 DEF StoreHeader, HeaderInv
<1>7. CASE LoadHeader
  <2>1. /\ storedHeader # Absent /\ header' = HeaderFromCompact(storedHeader)
        /\ UNCHANGED <<net, storedHeader, origin>>
    BY <1>7 DEF LoadHeader
  <2>2. header # Absent /\ storedHeader = HeaderToCompact(header)
    BY <2>1 DEF HeaderInv
  <2>3. PICK n \in 0..7 : header \in [First(n) -> Value]
    BY <2>2 DEF HeaderInv
  <2>4. Absent \notin Value /\ Absent \notin Extensions
    BY HeaderAssumption
  <2>5. HeaderFromCompact(HeaderToCompact(header)) = header
    BY <2>3, <2>4, CompactKept
  <2>. QED  BY <2>1, <2>2, <2>5 DEF HeaderInv
<1>8. CASE UNCHANGED headerVars
  BY <1>8 DEF headerVars, HeaderInv
<1>. QED  BY <1>1, <1>2, <1>3, <1>4, <1>5, <1>6, <1>7, <1>8 DEF HeaderNext

(***************************************************************************)
(* A header never has an optional field without those before it, wherever  *)
(* it came from: a network's seal, its genesis file, or any list a peer    *)
(* sent, for all ordered networks and all times.                           *)
(***************************************************************************)
THEOREM HeaderTypeCorrect == HeaderSpec => []TypeOK
<1>1. HeaderInv => TypeOK
  <2>. SUFFICES ASSUME HeaderInv
                PROVE  TypeOK
    OBVIOUS
  <2>1. header \in {Absent} \cup UNION {[First(n) -> Value] : n \in 0..Len(Optional)}
    BY OptionalPlaces DEF HeaderInv
  <2>2. storedHeader \in {Absent} \cup CompactForms
    <3>. SUFFICES ASSUME storedHeader # Absent
                  PROVE  storedHeader \in CompactForms
      OBVIOUS
    <3>1. header # Absent /\ storedHeader = HeaderToCompact(header)
      BY DEF HeaderInv
    <3>2. PICK n \in 0..7 : header \in [First(n) -> Value]
      BY <3>1 DEF HeaderInv
    <3>3. Absent \notin Value /\ Absent \notin Extensions
      BY HeaderAssumption
    <3>. QED  BY <3>1, <3>2, <3>3, CompactKept
  <2>3. net \in Networks
    BY DEF HeaderInv
  <2>. QED  BY <2>1, <2>2, <2>3 DEF TypeOK, First, CompactForms
<1>. QED  BY <1>1, HeaderStarts, HeaderKept, PTL DEF HeaderSpec

(***************************************************************************)
(* A header keeps its hash on every way: in a message, over the engine     *)
(* API, to disk and back.                                                  *)
(***************************************************************************)
THEOREM HashAlwaysKept == HeaderSpec => []HashKept
<1>1. HeaderInv => HashKept
  BY DEF HeaderInv, HashKept
<1>. QED  BY <1>1, HeaderStarts, HeaderKept, PTL DEF HeaderSpec
=============================================================================
