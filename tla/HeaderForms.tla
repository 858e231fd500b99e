------------------------------ MODULE HeaderForms ------------------------------
(***************************************************************************)
(* The forms of a Berachain header (src/primitives/header.rs): the struct, *)
(* the RLP list whose hash is the block's, the compact form on disk, and   *)
(* the execution data the engine API takes.                                *)
(*                                                                         *)
(* The list ends in optional fields without names: one is known by its     *)
(* place, and whether it is there by how much of the declared length is    *)
(* left.  Berachain appends the parent proposer's key behind those of      *)
(* Ethereum, and carries it beside the payload when a block goes through   *)
(* the engine API.  The fifteen fields every header has are left out.      *)
(***************************************************************************)
EXTENDS Hardforks, Sequences, FiniteSets, SequencesExt

CONSTANTS
  Absent,     \* an option that is not there
  Networks,   \* schedules to consider
  MaxTime     \* bound: timestamps

\* The optional fields in the order of the list.
Optional ==
  <<"base_fee_per_gas", "withdrawals_root", "blob_gas_used", "excess_blob_gas",
    "parent_beacon_block_root", "requests_hash", "prev_proposer_pubkey">>

Quantity == {"base_fee_per_gas", "blob_gas_used", "excess_blob_gas"}

\* The kinds of items: u64, B256 and FixedBytes<48>.
Kind(field) ==
  IF field \in Quantity THEN "quantity"
  ELSE IF field = "prev_proposer_pubkey" THEN "key" ELSE "hash"

Value == {0, 1}

\* The length of an item; a quantity is as short as its value, 1 stands for a
\* large one.
Size(item) ==
  CASE item.kind = "quantity" -> IF item.value = 0 THEN 1 ELSE 9
    [] item.kind = "hash" -> 33
    [] item.kind = "key" -> 49

\* A header has the optional fields of its domain.
Headers == UNION {[fields -> Value] : fields \in SUBSET ToSet(Optional)}

\* What the compact form keeps of the two youngest fields.
Extensions == [{Optional[6], Optional[7]} -> Value \cup {Absent}]

ASSUME HeaderAssumption ==
  /\ Networks \subseteq {s \in Schedule : OrderedSchedule(s)}
  /\ MaxTime \in Nat
  /\ Absent \notin Value \cup Headers \cup Extensions

Item(h, field) == [kind |-> Kind(field), value |-> h[field]]

Length(items) == FoldLeft(LAMBDA n, item : n + Size(item), 0, items)

-----------------------------------------------------------------------------
(* RLP *)

\* encode: the fields that are there, in order.
EncodedItems(h) ==
  FoldLeft(LAMBDA items, field : IF field \in DOMAIN h THEN Append(items, Item(h, field))
                                 ELSE items,
           <<>>, Optional)

\* Mutant: it does not know the key Berachain appends.
LengthWithoutKey(h) ==
  FoldLeft(LAMBDA n, field : IF field \in DOMAIN h \ {"prev_proposer_pubkey"}
                             THEN n + Size(Item(h, field)) ELSE n,
           0, Optional)

\* header_payload_length, which lists the fields a second time.
HeaderPayloadLength(h) ==
  FoldLeft(LAMBDA n, field : IF field \in DOMAIN h THEN n + Size(Item(h, field)) ELSE n,
           0, Optional)

Encode(h) == [declared |-> HeaderPayloadLength(h), items |-> EncodedItems(h)]

\* decode: an optional field is read if the ones before it fall short of the
\* declared length.  An input that ends early, an item of the wrong kind and a
\* length the fields do not add up to are errors; what follows the header is
\* left in the buffer.
Decode(w) ==
  LET Consumed(n) == Length(SubSeq(w.items, 1, n))
      read == CHOOSE n \in 0..7 :
                /\ n = 7 \/ n > Len(w.items) \/ Consumed(n) >= w.declared
                /\ \A m \in 0..n - 1 : m <= Len(w.items) /\ Consumed(m) < w.declared
  IN  IF /\ read <= Len(w.items)
         /\ \A i \in 1..read : w.items[i].kind = Kind(Optional[i])
         /\ Consumed(read) = w.declared
      THEN [header |-> [field \in {Optional[i] : i \in 1..read} |->
                          w.items[CHOOSE i \in 1..read : Optional[i] = field].value],
            rest |-> SubSeq(w.items, read + 1, Len(w.items))]
      ELSE [header |-> Absent, rest |-> w.items]

-----------------------------------------------------------------------------
(* Compact *)

Opt(h, field) == IF field \in DOMAIN h THEN h[field] ELSE Absent

\* CompactBerachainHeader: the two youngest fields share an extension, which is
\* left out when both are absent.
HeaderToCompact(h) ==
  LET ext == [requests_hash |-> Opt(h, "requests_hash"),
              prev_proposer_pubkey |-> Opt(h, "prev_proposer_pubkey")]
  IN  [own |-> [field \in {Optional[i] : i \in 1..5} |-> Opt(h, field)],
       extra |-> IF \A field \in DOMAIN ext : ext[field] = Absent THEN Absent ELSE ext]

\* A record of options without those that are absent.
Present(r) == [field \in {f \in DOMAIN r : r[f] # Absent} |-> r[field]]

HeaderFromCompact(c) ==
  LET extra == IF c.extra = Absent THEN [field \in {} |-> Absent] ELSE c.extra
  IN  Present([field \in ToSet(Optional) |->
                 IF field \in DOMAIN c.own THEN c.own[field] ELSE Opt(extra, field)])

-----------------------------------------------------------------------------
(* Ethereum's header and the key *)

\* The conversion of an Ethereum header, which has no key.
FromHeader(ethereum) == [field \in DOMAIN ethereum \ {"prev_proposer_pubkey"} |-> ethereum[field]]

WithKey(h, key) ==
  [field \in DOMAIN h \cup {"prev_proposer_pubkey"} |->
     IF field = "prev_proposer_pubkey" THEN key ELSE h[field]]

\* from_header_with_proposer
FromHeaderWithProposer(ethereum, key) ==
  IF key = Absent THEN FromHeader(ethereum) ELSE WithKey(FromHeader(ethereum), key)

\* block_to_payload: what Ethereum's payload has no room for goes beside it.
BlockToPayload(h) ==
  [payload |-> [field \in {Optional[i] : i \in 1..4} |-> h[field]],
   sidecar |-> [parent_beacon_block_root |-> h.parent_beacon_block_root,
                requests_hash            |-> Opt(h, "requests_hash")],
   parent_proposer_pub_key |-> Opt(h, "prev_proposer_pubkey")]

\* parse_berachain_block: Ethereum's block first, then the key.
ParseBerachainBlock(data) ==
  LET ethereum == [field \in DOMAIN data.payload \cup DOMAIN data.sidecar |->
                     IF field \in DOMAIN data.payload THEN data.payload[field]
                     ELSE data.sidecar[field]]
  IN  FromHeaderWithProposer(Present(ethereum), data.parent_proposer_pub_key)

-----------------------------------------------------------------------------
(* A header on its way *)

VARIABLES
  net,           \* the schedule
  header,        \* the header in memory
  storedHeader,  \* the header on disk
  origin         \* history: the list whose hash is the header's

headerVars == <<net, header, storedHeader, origin>>

\* Mutant: the fork checks of the two youngest are swapped.
FieldsSwapped(t) ==
  {Optional[i] : i \in 1..5}
    \cup (IF IsPrague1Active(net, t) THEN {"requests_hash"} ELSE {})
    \cup (IF IsPragueActive(net, t) THEN {"prev_proposer_pubkey"} ELSE {})

\* The optional fields of a header sealed at time t; the forks before Prague
\* are active from genesis on.
SealedFields(t) ==
  {Optional[i] : i \in 1..5}
    \cup (IF IsPragueActive(net, t) THEN {"requests_hash"} ELSE {})
    \cup (IF IsPrague1Active(net, t) THEN {"prev_proposer_pubkey"} ELSE {})

\* What a peer may send: any list of items, more than a header has among them.
PeerItems ==
  UNION {[1..k -> {[kind |-> kind, value |-> 1] : kind \in {"quantity", "hash", "key"}}] :
           k \in 0..8}

\* The declared length may be that of all items, of all but the last, or off.
PeerLengths(items) ==
  {Length(items), Length(items) + 1} \cup
  IF items = <<>> THEN {} ELSE {Length(Front(items))}

HeaderInit ==
  /\ net \in Networks
  /\ header = Absent /\ storedHeader = Absent /\ origin = Absent

\* The header of the genesis block: Ethereum's, with a zero key under Prague1.
MakeGenesis(ethereum) ==
  /\ header = Absent
  /\ header' = IF IsPrague1Active(net, 0)
                 THEN WithKey(FromHeader(ethereum), 0)
                 ELSE FromHeader(ethereum)
  /\ origin' = Encode(header')
  /\ UNCHANGED <<net, storedHeader>>

\* This node seals a header.
Seal(h) ==
  /\ header = Absent
  /\ header' = h
  /\ origin' = Encode(h)
  /\ UNCHANGED <<net, storedHeader>>

\* The hash of what is accepted is that of the part of the list that was read.
Receive(w) ==
  LET decoded == Decode(w)
  IN  /\ header = Absent /\ decoded.header # Absent
      /\ header' = decoded.header
      /\ origin' = [w EXCEPT !.items = SubSeq(@, 1, Len(@) - Len(decoded.rest))]
      /\ UNCHANGED <<net, storedHeader>>

\* The header reaches another node, as part of a message.
Relay(next) ==
  LET w == Encode(header)
      decoded == Decode([w EXCEPT !.items = Append(@, next)])
  IN  /\ header # Absent
      /\ header' = IF decoded.rest = <<next>> THEN decoded.header ELSE Absent
      /\ UNCHANGED <<net, storedHeader, origin>>

\* The block is handed over the engine API, to this node's own validator or
\* another's, which compares the hash of what it parsed.  Consensus has seen
\* to it that the fields up to Cancun are there.
Deliver ==
  LET parsed == ParseBerachainBlock(BlockToPayload(header))
  IN  /\ header # Absent
      /\ {Optional[i] : i \in 1..5} \subseteq DOMAIN header
      /\ header' = IF Encode(parsed) = Encode(header) THEN parsed ELSE Absent
      /\ UNCHANGED <<net, storedHeader, origin>>

StoreHeader ==
  /\ header # Absent
  /\ storedHeader' = HeaderToCompact(header)
  /\ UNCHANGED <<net, header, origin>>

LoadHeader ==
  /\ storedHeader # Absent
  /\ header' = HeaderFromCompact(storedHeader)
  /\ UNCHANGED <<net, storedHeader, origin>>

HeaderNext ==
  \/ \E h \in [SealedFields(0) \ {"prev_proposer_pubkey"} -> Value] : MakeGenesis(h)
  \/ \E t \in 1..MaxTime : \E h \in [SealedFields(t) -> Value] : Seal(h)
  \/ \E items \in PeerItems : \E n \in PeerLengths(items) :
       Receive([declared |-> n, items |-> items])
  \/ \E kind \in {"quantity", "hash", "key"} : Relay([kind |-> kind, value |-> 0])
  \/ Deliver
  \/ StoreHeader
  \/ LoadHeader

HeaderSpec == HeaderInit /\ [][HeaderNext]_headerVars

-----------------------------------------------------------------------------
(* Properties *)

\* No header has an optional field without those before it in the list, which
\* its place would otherwise be taken for.
TypeOK ==
  /\ net \in Networks
  /\ header \in {Absent} \cup
       UNION {[{Optional[i] : i \in 1..n} -> Value] : n \in 0..Len(Optional)}
  /\ storedHeader \in {Absent} \cup
       [own: [{Optional[i] : i \in 1..5} -> Value \cup {Absent}], extra: {Absent} \cup Extensions]

\* A header keeps its hash: what was sealed, or read from whatever a peer sent,
\* is read by the next node too, from within a message that goes on behind it,
\* and encodes to the very list it came from, also after the way to disk and back
\* and after one through the engine API, where the key travels on its own.
HashKept == origin # Absent => header # Absent /\ Encode(header) = origin
=============================================================================
