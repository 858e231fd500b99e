---------------------------- MODULE TransactionForms ----------------------------
(***************************************************************************)
(* The forms a transaction takes in a node: gossiped or sent by a wallet   *)
(* (pooled, a blob transaction with its sidecar), waiting in the pool, in  *)
(* a block (without sidecar, next to the PoL transaction no pool ever      *)
(* sees), on disk (compact), between peers (EIP-2718), in another node's   *)
(* JSON answers, which a node can follow the chain from, and pooled again  *)
(* after a reorg.  src/transaction/, src/pool/transaction.rs and           *)
(* src/engine/mod.rs convert between them.                                 *)
(*                                                                         *)
(* A body stands for the fields a transaction's hash covers besides its    *)
(* type.  Whether a transaction is valid is not modelled: all are.         *)
(***************************************************************************)
EXTENDS Integers, Sequences, FiniteSets, SequencesExt

CONSTANTS
  None,
  User,         \* transactions of users; each is its body, signature and blobs
  TypeOf,       \* their types
  FirstPoL,     \* number of the first Prague1 block
  MaxNumber,    \* bound: number of blocks
  MaxPerBlock   \* bound: user transactions in a block

EthType == {"Legacy", "Eip2930", "Eip1559", "Eip4844", "Eip7702"}

-----------------------------------------------------------------------------
(* In memory *)

\* The fields of the PoL transaction of a block: its sender, and those that
\* are the block's.
PoLBody(number, from) == [number |-> number, from |-> from]

\* BerachainTxEnvelope.  The PoL transaction carries no signature, but its
\* sender, the system address unless a conversion lost it.
Ethereum(type, body, signature) ==
  [variant |-> "Ethereum", type |-> type, body |-> body, signature |-> signature]

Berachain(body) ==
  [variant |-> "Berachain", type |-> "PoL", body |-> body, signature |-> None]

Signed(u) == Ethereum(TypeOf[u], u, u)

\* What a block covers of its PoL transaction, and what the pool exchanges.
PoLBodies   == [number: Nat, from: {"system", "zero"}]
PooledForms == [tx: {Signed(u) : u \in User}, sidecar: User \cup {None}]

ASSUME FormsAssumption ==
  /\ IsFiniteSet(User)
  /\ None \notin User \cup Nat \cup PooledForms
  /\ User \cap PoLBodies = {}    \* a PoL transaction is no user's
  /\ TypeOf \in [User -> EthType]
  /\ FirstPoL \in Nat \ {0, 1} /\ MaxNumber \in Nat \ {0} /\ MaxPerBlock \in Nat

IsBlob(tx) == tx.variant = "Ethereum" /\ tx.type = "Eip4844"

-----------------------------------------------------------------------------
(* On disk: CompactEnvelope *)

POL_TX_TYPE == 126

\* An identifier of two bits; 3 announces a type byte.
ExtendedFlag == 3

Direct(i) == [identifier |-> i, byte |-> None]
Extended(b) == [identifier |-> ExtendedFlag, byte |-> b]

\* TxType::to_compact of upstream reth.
EthTypeToCompact(type) ==
  CASE type = "Legacy"  -> Direct(0)
    [] type = "Eip2930" -> Direct(1)
    [] type = "Eip1559" -> Direct(2)
    [] type = "Eip4844" -> Extended(3)
    [] type = "Eip7702" -> Extended(4)

TypeToCompact(tx) ==
  IF tx.variant = "Berachain" THEN Extended(POL_TX_TYPE) ELSE EthTypeToCompact(tx.type)

\* Mutant: the two extended Ethereum types swapped.
TypesSwapped(c) ==
  CASE c.identifier = 0 -> "Legacy"
    [] c.identifier = 1 -> "Eip2930"
    [] c.identifier = 2 -> "Eip1559"
    [] c.identifier = ExtendedFlag ->
         CASE c.byte = POL_TX_TYPE -> "PoL" [] c.byte = 3 -> "Eip7702" [] c.byte = 4 -> "Eip4844"

\* BerachainTxType::from_compact; an identifier or byte it does not know panics.
TypeFromCompact(c) ==
  CASE c.identifier = 0 -> "Legacy"
    [] c.identifier = 1 -> "Eip2930"
    [] c.identifier = 2 -> "Eip1559"
    [] c.identifier = ExtendedFlag ->
         CASE c.byte = POL_TX_TYPE -> "PoL"
           [] c.byte = 3 -> "Eip4844"
           [] c.byte = 4 -> "Eip7702"

\* Every stored transaction has a signature; the PoL transaction's is all zero.
ToCompact(tx) ==
  [type |-> TypeToCompact(tx),
   signature |-> IF tx.variant = "Berachain" THEN "zero" ELSE tx.signature,
   body |-> tx.body]

FromCompact(c) ==
  LET type == TypeFromCompact(c.type)
  IN  IF type = "PoL" THEN Berachain(c.body) ELSE Ethereum(type, c.body, c.signature)

\* A transaction as upstream reth stored it.
UpstreamCompact(tx) ==
  [type |-> EthTypeToCompact(tx.type), signature |-> tx.signature, body |-> tx.body]

-----------------------------------------------------------------------------
(* Between peers, and in payloads: EIP-2718 *)

\* A legacy transaction is a bare list, every other starts with its type byte.
TypeByte(tx) ==
  CASE tx.type = "Legacy" -> None [] tx.type = "Eip2930" -> 1 [] tx.type = "Eip1559" -> 2
    [] tx.type = "Eip4844" -> 3   [] tx.type = "Eip7702" -> 4 [] tx.type = "PoL" -> POL_TX_TYPE

Encode2718(tx) == [type |-> TypeByte(tx), fields |-> <<tx.body, tx.signature>>]

Decode2718(e) ==
  IF e.type = POL_TX_TYPE
  THEN Berachain(e.fields[1])
  ELSE Ethereum(CHOOSE t \in EthType : TypeByte([type |-> t]) = e.type,
                e.fields[1], e.fields[2])

-----------------------------------------------------------------------------
(* In JSON *)

\* PoLTxRpc: every field but the sender (serde skips it), with the hash the
\* seal adds.  The other fields an RPC client expects are constants.
ToJson(tx) ==
  IF tx.variant = "Berachain"
    THEN [type |-> POL_TX_TYPE, fields |-> tx.body.number, hash |-> tx]
    ELSE [type |-> TypeByte(tx), fields |-> <<tx.body, tx.signature>>, hash |-> tx]

\* A skipped field is read back as its default, the zero address.
FromJson(j) ==
  [tx |-> IF j.type = POL_TX_TYPE THEN Berachain(PoLBody(j.fields, "zero"))
                                  ELSE Decode2718(j),
   hash |-> j.hash]

\* Mutant: the payload is made of the transactions as they were read.
PayloadTxAsRead(sealed) == Encode2718(sealed.tx)

\* block_to_payload: the system address goes back into the PoL transaction
\* before it is encoded; its seal is left as it is.
PayloadTx(sealed) ==
  Encode2718(IF sealed.tx.variant = "Berachain"
               THEN [sealed.tx EXCEPT !.body.from = "system"]
               ELSE sealed.tx)

-----------------------------------------------------------------------------
(* In the pool *)

\* TryFrom<BerachainTxEnvelope> for the pooled form.
TryIntoPooled(tx) ==
  IF tx.variant = "Berachain" \/ IsBlob(tx)
  THEN None               \* UnsupportedBerachainTransaction, Eip4844MissingSidecar
  ELSE [tx |-> tx, sidecar |-> None]

\* try_into_pooled_eip4844
TryIntoPooledEip4844(tx, sidecar) ==
  IF IsBlob(tx) THEN [tx |-> tx, sidecar |-> sidecar] ELSE None

\* BerachainPooledTransaction::from_pooled; the cost and the length it caches
\* are left out.
FromPooled(pooled) ==
  [tx |-> pooled.tx,
   sidecar |-> IF IsBlob(pooled.tx)
               THEN [state |-> "Present", of |-> pooled.sidecar]
               ELSE [state |-> "None"]]

\* try_build_and_sign: the node signs what a request asks for, a blob
\* transaction without the blobs the request brought.
SignTyped(u) == Signed(u)

\* Mutant: what was left and what is given are swapped.
GivesMissing(ptx) ==
  IF IsBlob(ptx.tx)
  THEN [blob |-> [state |-> "Missing"], left |-> [ptx EXCEPT !.sidecar = [state |-> "Missing"]]]
  ELSE [blob |-> [state |-> "None"], left |-> ptx]

\* take_blob: what the caller gets and what is left.
TakeBlob(ptx) ==
  IF IsBlob(ptx.tx)
  THEN [blob |-> ptx.sidecar, left |-> [ptx EXCEPT !.sidecar = [state |-> "Missing"]]]
  ELSE [blob |-> [state |-> "None"], left |-> ptx]

VARIABLES
  pool,       \* transactions in the pool
  blobStore,  \* sidecars in the blob store
  chain,      \* canonical blocks in memory, each a sequence of envelopes
  disk,       \* the stored prefix of them
  finalized,  \* number of the finalized block
  agreed      \* history: the blocks as their proposers sealed them

vars == <<pool, blobStore, chain, disk, finalized, agreed>>

Mined(blocks) == UNION {ToSet(blocks[i]) : i \in DOMAIN blocks}

\* The form in which a peer asking for a pooled transaction gets it.
ServedForm(ptx) ==
  IF ~IsBlob(ptx.tx) THEN TryIntoPooled(ptx.tx)
  ELSE IF ptx.tx.body \in blobStore THEN TryIntoPooledEip4844(ptx.tx, ptx.tx.body)
  ELSE None

\* Validation of the pool: a blob transaction comes with its sidecar or has it
\* in the store already.
Admissible(ptx) ==
  IsBlob(ptx.tx) =>
    \/ ptx.sidecar.state = "Present" /\ ptx.sidecar.of = ptx.tx.body
    \/ ptx.sidecar.state = "Missing" /\ ptx.tx.body \in blobStore

Admitted(ptxs) == {TakeBlob(p).left : p \in {q \in ptxs : Admissible(q)}}

Sidecars(ptxs) ==
  {p.tx.body : p \in {q \in ptxs : Admissible(q) /\ TakeBlob(q).blob.state = "Present"}}

-----------------------------------------------------------------------------
(* Blocks *)

\* Transactions a block may hold: PoL first from Prague1 on, then the users'.
Blocks(number, used) ==
  {(IF number >= FirstPoL THEN <<Berachain(PoLBody(number, "system"))>> ELSE <<>>) \o SetToSeq(txs) :
     txs \in {T \in SUBSET ({Signed(u) : u \in User} \ used) : Cardinality(T) <= MaxPerBlock}}

Received(block) == [i \in DOMAIN block |-> Decode2718(Encode2718(block[i]))]

\* The same block from another node's JSON: the --debug.etherscan and
\* --debug.rpc-consensus-url clients hand it to the engine as a payload.
Followed(block) == [i \in DOMAIN block |-> Decode2718(PayloadTx(FromJson(ToJson(block[i]))))]

Stored(block) == [i \in DOMAIN block |-> ToCompact(block[i])]

ReadBack(stored) == [i \in DOMAIN stored |-> FromCompact(stored[i])]

\* Mutant: no transaction gets its sidecar back.
BackWithoutSidecar(tx) == TryIntoPooled(tx)

\* A transaction of an abandoned block on its way back to the pool.
BackFromBlock(tx) ==
  IF IsBlob(tx)
  THEN IF tx.body \in blobStore THEN TryIntoPooledEip4844(tx, tx.body) ELSE None
  ELSE TryIntoPooled(tx)

Without(ptxs, txs) == {p \in ptxs : p.tx \notin txs}

\* The database may be one upstream reth wrote, before Prague1.
Init ==
  \E block \in Blocks(1, {}) :
    /\ agreed = <<block>>
    /\ disk \in {<<Stored(block)>>, <<[i \in DOMAIN block |-> UpstreamCompact(block[i])]>>}
    /\ chain = <<ReadBack(disk[1])>>
    /\ pool = {} /\ blobStore = {} /\ finalized = 0

\* The pool validates a transaction it has not seen.
Offer(ptx) ==
  /\ ptx.tx \notin Mined(chain) \cup {p.tx : p \in pool}
  /\ pool' = pool \cup Admitted({ptx})
  /\ blobStore' = blobStore \cup Sidecars({ptx})
  /\ UNCHANGED <<chain, disk, finalized, agreed>>

\* A transaction comes from a peer or a wallet, blobs with their sidecar.
Submit(u) ==
  LET tx == Signed(u) IN
  Offer(FromPooled(IF IsBlob(tx) THEN TryIntoPooledEip4844(tx, u) ELSE TryIntoPooled(tx)))

\* eth_sendTransaction: a transaction the node signs itself.  A blob transaction
\* is refused, having lost its sidecar.
SendRequest(u) ==
  LET pooled == TryIntoPooled(SignTyped(u)) IN
  /\ pooled # None
  /\ Offer(FromPooled(pooled))

\* A block reaches the node as a payload or from a peer, or is followed.
Extend(block) ==
  \E received \in {Received(block), Followed(block)} :
    /\ agreed' = Append(agreed, block)
    /\ chain' = Append(chain, received)
    /\ pool' = Without(pool, ToSet(received))
    /\ UNCHANGED <<blobStore, disk, finalized>>

\* A block replaces those above height k; the users' transactions only they
\* held go back to the pool, blob transactions if their sidecar is still there.
Reorg(k, block) ==
  LET kept == SubSeq(chain, 1, k)
      mined == ToSet(Received(block))
      back == {BackFromBlock(tx) : tx \in Mined(SubSeq(chain, k + 1, Len(chain))) \ mined}
      ptxs == {FromPooled(p) : p \in back \ {None}}
  IN  /\ k >= finalized
      /\ agreed' = Append(SubSeq(agreed, 1, k), block)
      /\ chain' = Append(kept, Received(block))
      /\ disk' = IF Len(disk) > k THEN SubSeq(disk, 1, k) ELSE disk
      /\ pool' = Without(pool, mined) \cup Admitted(ptxs)
      /\ blobStore' = blobStore \cup Sidecars(ptxs)
      /\ UNCHANGED finalized

\* Finalized blob transactions need their sidecars no longer.
Finalize(n) ==
  /\ n > finalized /\ n <= Len(chain)
  /\ finalized' = n
  /\ blobStore' = blobStore \ {tx.body : tx \in Mined(SubSeq(chain, 1, n))}
  /\ UNCHANGED <<pool, chain, disk, agreed>>

Persist ==
  /\ Len(disk) < Len(chain)
  /\ disk' = Append(disk, Stored(chain[Len(disk) + 1]))
  /\ UNCHANGED <<pool, blobStore, chain, finalized, agreed>>

\* A crash or stop: blocks not stored yet are lost, the pool and the blob store
\* come back empty.
Restart ==
  /\ chain' = [i \in DOMAIN disk |-> ReadBack(disk[i])]
  /\ agreed' = SubSeq(agreed, 1, Len(disk))
  /\ pool' = {} /\ blobStore' = {}
  /\ finalized' = IF finalized > Len(disk) THEN Len(disk) ELSE finalized
  /\ UNCHANGED disk

Next ==
  \/ \E u \in User : Submit(u) \/ SendRequest(u)
  \/ Len(chain) < MaxNumber /\ \E block \in Blocks(Len(chain) + 1, Mined(chain)) : Extend(block)
  \/ \E k \in 1..Len(chain) - 1 :
       \E block \in Blocks(k + 1, Mined(SubSeq(chain, 1, k))) : Reorg(k, block)
  \/ \E n \in 1..MaxNumber : Finalize(n)
  \/ Persist
  \/ Restart

Spec == Init /\ [][Next]_vars

-----------------------------------------------------------------------------
(* Properties *)

\* A block keeps its transactions root: on the way from peer to peer, from
\* another node's JSON, to disk and back, whether this node or upstream reth
\* stored it ("STORAGE COMPATIBILITY", src/transaction/mod.rs), nothing a
\* transaction's hash covers, no type, sender or signature changes.
BlocksUnaltered ==
  /\ chain = agreed
  /\ \A i \in DOMAIN disk : ReadBack(disk[i]) = agreed[i]

\* What the pool announces it can serve: every pooled transaction converts to
\* the form peers exchange, and every blob transaction has its sidecar, which
\* the payload builder needs too; through mining, reorgs and finalization.  The
\* pool itself holds users' transactions only, without their blobs.
PoolServable ==
  \A p \in pool :
    /\ p.tx \in {Signed(u) : u \in User}
    /\ p.sidecar.state \in {"None", "Missing"}
    /\ ServedForm(p) # None
    /\ ServedForm(p).sidecar = IF IsBlob(p.tx) THEN p.tx.body ELSE None

\* A reorg loses no user's transaction it could keep, and brings no PoL
\* transaction to the pool.
ReorgReturns ==
  [][~Restart =>
       \A tx \in Mined(chain) \ Mined(chain') :
         IF tx.variant = "Berachain" \/ (IsBlob(tx) /\ tx.body \notin blobStore)
         THEN \A p \in pool' : p.tx # tx
         ELSE \E p \in pool' : p.tx = tx]_vars
=============================================================================
