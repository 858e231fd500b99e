------------------------------- MODULE EngineApi -------------------------------
(***************************************************************************)
(* The engine API of a node (src/engine/rpc.rs) with what stands behind it *)
(* on the way of a block from attributes to payload and back: the payload  *)
(* types and identifiers (src/engine/payload.rs, src/engine/mod.rs) and    *)
(* the engine validator (src/engine/validator.rs).                         *)
(*                                                                         *)
(* A consensus client, which may use any method at any time, starts        *)
(* payload jobs, fetches payloads and hands payloads over.  Prague1 has    *)
(* doubled the methods: those with a P11 suffix carry the parent           *)
(* proposer's key, the others do not.  Two more ways lead past the API:    *)
(* --debug.etherscan feeds blocks of an RPC provider, and --dev mines on   *)
(* attributes the node makes up itself.                                    *)
(*                                                                         *)
(* A block is the part of its header the methods differ in, and stands for *)
(* its own hash.  Shanghai and Cancun are active from genesis on.          *)
(***************************************************************************)
EXTENDS Hardforks, Sequences, FiniteSets

CONSTANTS
  None,
  Key, ZeroKey,           \* proposer keys; ZeroKey is that of a genesis header
  Requests, NoRequests,   \* values of a block's execution requests; the empty list
  AcceptHash,             \* --engine.accept-execution-requests-hash
  Networks,               \* schedules to consider
  MaxTime,                \* bound: timestamps
  MaxBlocks,              \* bound: blocks besides genesis
  MaxJobs                 \* bound: payload jobs at a time

ASSUME EngineAssumption ==
  /\ None \notin Key \cup Requests
  /\ ZeroKey \in Key /\ NoRequests \in Requests
  /\ AcceptHash \in BOOLEAN
  /\ Networks \subseteq {s \in Schedule : OrderedSchedule(s)}
  /\ MaxTime \in Nat /\ MaxBlocks \in Nat /\ MaxJobs \in Nat

\* polFrom is the sender field of the PoL transaction, "system" without one.
Block ==
  [timestamp: 0..MaxTime, key: Key \cup {None}, requests: Requests \cup {None},
   polFrom: {"system", "zero"}]

\* root: whether a parent beacon block root is given.
Attributes == [timestamp: 0..MaxTime, key: Key \cup {None}, root: BOOLEAN]

VARIABLES
  net,    \* the schedule
  known,  \* blocks that passed the engine validator
  head,   \* the head of the last forkchoice update
  jobs,   \* payload jobs in progress
  held,   \* the envelope the client fetched last
  tip,    \* the block the dev-mode miner mined last; genesis at first
  last    \* the last call, if it was a right one: its method and its success

vars == <<net, known, head, jobs, held, tip, last>>

Prague1At(t) == IsPrague1Active(net, t)

\* The methods of the BerachainEngineApi trait, those that matter here.
NewPayloadMethods == {"V1", "V2", "V3", "V4", "V4P11"}
ForkchoiceMethods == {"V1", "V2", "V3", "V3P11"}
FetchMethods      == {"V1", "V2", "V3", "V4", "V4P11", "V5"}

-----------------------------------------------------------------------------
(* Payload attributes and identifiers *)

\* validate_proposer_pubkey_prague1
ValidPubkey(t, key) == Prague1At(t) <=> key # None

\* Mutant: upstream's payload_id.
EthereumPayloadId(h, attrs) ==
  <<h, attrs.timestamp>> \o (IF attrs.root THEN <<"root">> ELSE <<>>)

\* What berachain_payload_id digests: optional fields leave no trace when absent.
PayloadId(h, attrs) ==
  <<h, attrs.timestamp>>
    \o (IF attrs.root THEN <<"root">> ELSE <<>>)
    \o (IF attrs.key # None THEN <<attrs.key>> ELSE <<>>)

\* BerachainPayloadBuilderAttributes::try_new, and what was last asked for by
\* this identifier: a payload job.
NewJob(h, attrs) ==
  [id |-> PayloadId(h, attrs), head |-> h, attrs |-> attrs, asked |-> attrs]

\* Mutant: time does not go on where the clock stands still.
LocalAttributesByClock(parent, now) == [timestamp |-> now, key |-> None, root |-> TRUE]

\* LocalPayloadAttributesBuilder: later than the parent, and without a key.
LocalAttributes(parent, now) ==
  [timestamp |-> IF now > parent.timestamp THEN now ELSE parent.timestamp + 1,
   key |-> None, root |-> TRUE]

\* Mutant: V3 leaves it to the caller to know its fork.
ForkchoiceWithoutFork(method, attrs) ==
  CASE method = "V3"    -> attrs.key = None
    [] method = "V3P11" -> Prague1At(attrs.timestamp) /\ ValidPubkey(attrs.timestamp, attrs.key)
    [] OTHER            -> TRUE

\* Refusals of this crate: before upstream has looked at anything.
ForkchoiceGate(method, attrs) ==
  CASE method = "V3"    -> ~Prague1At(attrs.timestamp) /\ attrs.key = None
    [] method = "V3P11" -> Prague1At(attrs.timestamp) /\ ValidPubkey(attrs.timestamp, attrs.key)
    [] OTHER            -> TRUE

\* ensure_well_formed_attributes: V1 and V2 cannot give the attributes Cancun
\* wants.
AttributesSupported(method, attrs) == method \in {"V3", "V3P11"} /\ attrs.root

-----------------------------------------------------------------------------
(* Payloads *)

\* What a built payload's block is; requests only with Prague.
Build(attrs, requests) ==
  [timestamp |-> attrs.timestamp, key |-> attrs.key,
   requests |-> IF IsPragueActive(net, attrs.timestamp) THEN requests ELSE None,
   polFrom |-> "system"]

\* Mutant: Osaka brings the sidecars of EIP-7594.
SidecarsByFork(t) == {"empty", IF IsOsakaActive(net, t) THEN "eip7594" ELSE "eip4844"}

\* The blob sidecars default_berachain_payload may collect for a block.
Sidecars(t) == {"empty", "eip4844"}

\* A BerachainBuiltPayload: the block, and beside it the requests themselves,
\* of which the block has a hash, and the sidecars.
BuiltPayload(attrs, requests, sidecars) ==
  [block |-> Build(attrs, requests),
   requests |-> IF IsPragueActive(net, attrs.timestamp) THEN requests ELSE None,
   sidecars |-> sidecars]

\* try_into_v3, which V4 builds on: EIP-7594 sidecars have no place in it.
Convertible(method, payload) == method \in {"V1", "V2"} \/ payload.sidecars # "eip7594"

\* Mutant: the envelope is the Ethereum one.
EthereumEnvelope(method, payload) ==
  [block |-> payload.block,
   requests |-> IF method \in {"V4", "V4P11"} /\ payload.requests # None
                  THEN payload.requests ELSE NoRequests,
   key |-> None]

\* The envelope a payload is fetched in; only try_into_v4 names requests and key.
EnvelopeOf(method, payload) ==
  [block |-> payload.block,
   requests |-> IF method \in {"V4", "V4P11"} /\ payload.requests # None
                  THEN payload.requests ELSE NoRequests,
   key |-> IF method \in {"V4", "V4P11"} THEN payload.block.key ELSE None]

\* Mutant: V4P11 is served as upstream serves V4.
FetchUntilOsaka(method, t) ==
  CASE method = "V1" -> TRUE
    [] method = "V3" -> TRUE
    [] method \in {"V4", "V4P11"} -> IsPragueActive(net, t) /\ ~IsOsakaActive(net, t)
    [] OTHER -> FALSE

\* Timestamps a getPayload method serves: V5 none at all, V4P11 every one.
FetchSupported(method, t) ==
  CASE method = "V1" -> TRUE
    [] method = "V3" -> TRUE
    [] method = "V4" -> IsPragueActive(net, t) /\ ~IsOsakaActive(net, t)
    [] method = "V4P11" -> TRUE
    [] OTHER -> FALSE

\* The execution data of a newPayload call: what its method has parameters for.
DataOf(method, b, requests, key) ==
  [timestamp |-> b.timestamp, polFrom |-> b.polFrom, hash |-> b,
   requests |-> IF method \in {"V4", "V4P11"} THEN requests ELSE None,
   key |-> IF method = "V4P11" THEN key ELSE None]

\* block_to_payload puts the system address back into the PoL transaction.
BlockToPayload(b, hash) ==
  [timestamp |-> b.timestamp, polFrom |-> "system", hash |-> hash,
   requests |-> b.requests, key |-> b.key]

\* Refusals of this crate, and of upstream by method and time.
NewPayloadGate(method, t, asHash) ==
  CASE method = "V4"    -> (asHash => AcceptHash) /\ ~Prague1At(t)
    [] method = "V4P11" -> (asHash => AcceptHash) /\ Prague1At(t)
    [] OTHER            -> TRUE

PayloadSupported(method, t) ==
  CASE method \in {"V1", "V2"}    -> FALSE
    [] method = "V3"              -> TRUE
    [] method \in {"V4", "V4P11"} -> IsPragueActive(net, t)

-----------------------------------------------------------------------------
(* The engine validator *)

\* parse_berachain_block: the header takes its key from the sidecar.
Parse(data) ==
  [timestamp |-> data.timestamp, key |-> data.key, requests |-> data.requests,
   polFrom |-> data.polFrom]

\* Mutant: the upstream checks only.
EthereumFields(data) == data.requests # None <=> IsPragueActive(net, data.timestamp)

\* prague1::ensure_well_formed_fields: what a sidecar's key is to a header.
EnsureWellFormedFields(header, key, active) ==
  /\ active  => key # None /\ header.key = key
  /\ ~active => key = None /\ header.key = None

\* validate_hardfork_fields, Prague and Prague1.
HardforkFields(data) ==
  /\ data.requests # None <=> IsPragueActive(net, data.timestamp)
  /\ EnsureWellFormedFields(Parse(data), data.key, Prague1At(data.timestamp))

\* convert_payload_to_block succeeds.
Converts(data) == Parse(data) = data.hash /\ HardforkFields(data)

\* EngineCapabilities::default(), those that matter here.
UpstreamCapabilities ==
  {"newPayload"} \X {"V1", "V2", "V3", "V4"}
    \cup {"forkchoiceUpdated"} \X {"V1", "V2", "V3"}
    \cup {"getPayload"} \X {"V1", "V2", "V3", "V4", "V5"}

\* BERACHAIN_ADDITIONAL_CAPABILITIES and BERACHAIN_REMOVED_CAPABILITIES
AdditionalCapabilities ==
  {<<"newPayload", "V4P11">>, <<"forkchoiceUpdated", "V3P11">>, <<"getPayload", "V4P11">>}
RemovedCapabilities == {<<"getPayload", "V5">>}

\* exchange_capabilities
Capabilities == (UpstreamCapabilities \ RemovedCapabilities) \cup AdditionalCapabilities

-----------------------------------------------------------------------------
(* What the right method is, at each time, for the client *)

RightForkchoice(t) == IF Prague1At(t) THEN "V3P11" ELSE "V3"
RightGetPayload(t) ==
  IF Prague1At(t) THEN "V4P11" ELSE IF IsPragueActive(net, t) THEN "V4" ELSE "V3"
RightNewPayload(t) == RightGetPayload(t)

\* A block as the protocol wants it.
Proper(b) ==
  /\ ValidPubkey(b.timestamp, b.key)
  /\ b.requests # None <=> IsPragueActive(net, b.timestamp)
  /\ b.polFrom = "system"

Called(call, method, right, ok) ==
  last' = IF right THEN [call |-> call, method |-> method, ok |-> ok] ELSE None

GenesisBlock ==
  [timestamp |-> 0, key |-> IF Prague1At(0) THEN ZeroKey ELSE None,
   requests |-> IF IsPragueActive(net, 0) THEN NoRequests ELSE None, polFrom |-> "system"]

Init ==
  /\ net \in Networks
  /\ known = {GenesisBlock}
  /\ head = GenesisBlock
  /\ jobs = {}
  /\ held = None
  /\ tip = GenesisBlock
  /\ last = None

-----------------------------------------------------------------------------
(* Calls *)

\* What handing over data does.
Receive(data, passes) ==
  /\ Cardinality(known) <= MaxBlocks
  /\ known' = IF passes /\ Converts(data) THEN known \cup {Parse(data)} ELSE known
  /\ UNCHANGED <<net, head, jobs, held, tip>>

\* engine_newPayload with a block of any proposer.
NewPayload(method) ==
  \E b \in Block, requests \in Requests, key \in Key, asHash \in BOOLEAN :
    LET data   == DataOf(method, b, requests, key)
        passes == NewPayloadGate(method, b.timestamp, asHash) /\ PayloadSupported(method, b.timestamp)
    IN
    /\ b.polFrom = "system"
    /\ method = "V4P11" \/ key = ZeroKey
    /\ method \in {"V4", "V4P11"} \/ (requests = NoRequests /\ ~asHash)
    /\ Receive(data, passes)
    /\ Called("newPayload", method,
              /\ Proper(b) /\ method = RightNewPayload(b.timestamp)
              /\ data.requests = b.requests /\ data.key = b.key
              /\ asHash => AcceptHash,
              passes /\ Converts(data))

\* engine_newPayload with the envelope fetched before.
HandBack(method) ==
  /\ held # None
  /\ LET t      == held.envelope.block.timestamp
         data   == DataOf(method, held.envelope.block, held.envelope.requests, held.envelope.key)
         passes == NewPayloadGate(method, t, FALSE) /\ PayloadSupported(method, t)
     IN
     /\ method = "V4P11" => held.envelope.key # None
     /\ Receive(data, passes)
     /\ Called("newPayload", method,
               method = RightNewPayload(t) /\ held.method = RightGetPayload(t),
               passes /\ Converts(data))

\* rpc_to_primitive_block: a block from a provider that knows its hash but may
\* have its PoL transaction sent by the zero address.
Feed ==
  \E b \in Block, from \in {"system", "zero"} :
    LET data == BlockToPayload([b EXCEPT !.polFrom = from], b) IN
    /\ b.polFrom = "system"
    /\ Receive(data, TRUE)
    /\ Called("feed", "-", Proper(b), Converts(data))

\* engine_forkchoiceUpdated.  Attributes upstream does not support refuse the
\* job and not the update; those the gate refuses, both.
Forkchoice(method) ==
  \E h \in known, attrs \in Attributes \cup {None} :
    LET passes == attrs = None \/ ForkchoiceGate(method, attrs)
        starts == /\ attrs # None
                  /\ passes /\ AttributesSupported(method, attrs) /\ h.timestamp < attrs.timestamp
        id     == PayloadId(h, attrs)
        others == {j \in jobs : j.id # id}
        job    == {IF j.id = id THEN [j EXCEPT !.asked = attrs] ELSE j : j \in jobs}
    IN
    /\ head' = IF passes THEN h ELSE head
    /\ IF starts
         THEN IF others # jobs
                THEN jobs' = job
                ELSE Cardinality(jobs) < MaxJobs /\ jobs' = jobs \cup {NewJob(h, attrs)}
         ELSE jobs' = jobs
    /\ Called("forkchoiceUpdated", method,
              attrs # None =>
                /\ method = RightForkchoice(attrs.timestamp)
                /\ ValidPubkey(attrs.timestamp, attrs.key)
                /\ attrs.root /\ h.timestamp < attrs.timestamp,
              head' = h /\ (attrs # None => starts))
    /\ UNCHANGED <<net, known, held, tip>>

\* engine_getPayload: resolves the job, which ends it, unless the method does
\* not serve its time.  A job without the key it needs has built nothing, and a
\* payload that does not convert is lost.
GetPayload(method) ==
  \E j \in jobs, requests \in Requests : \E sidecars \in Sidecars(j.attrs.timestamp) :
    LET payload == BuiltPayload(j.attrs, requests, sidecars)
        serves  == FetchSupported(method, j.attrs.timestamp)
        answers == /\ serves /\ ValidPubkey(j.attrs.timestamp, j.attrs.key)
                   /\ Convertible(method, payload)
    IN
    /\ jobs' = IF serves THEN jobs \ {j} ELSE jobs
    /\ held' = IF answers
                 THEN [envelope |-> EnvelopeOf(method, payload),
                       method |-> method, asked |-> j.asked]
                 ELSE held
    /\ Called("getPayload", method, method = RightGetPayload(j.attrs.timestamp), answers)
    /\ UNCHANGED <<net, known, head, tip>>

\* A job's deadline passes.
Expire ==
  \E j \in jobs :
    jobs' = jobs \ {j} /\ last' = None /\ UNCHANGED <<net, known, head, held, tip>>

\* The dev-mode miner, past this crate's gates: a forkchoice update to its tip
\* with attributes of its own, the payload resolved, and handed over as
\* execution data.  Whatever fails, it tries again later.
Mine ==
  \E now \in 0..MaxTime, requests \in Requests :
    LET attrs == LocalAttributes(tip, now)
        block == Build(attrs, requests)
        data  == BlockToPayload(block, block)
        mines == /\ tip.timestamp < attrs.timestamp
                 /\ ValidPubkey(attrs.timestamp, attrs.key)
                 /\ Converts(data)
    IN
    /\ attrs.timestamp <= MaxTime
    /\ Cardinality(known) <= MaxBlocks
    /\ known' = IF mines THEN known \cup {Parse(data)} ELSE known
    /\ tip' = IF mines THEN Parse(data) ELSE tip
    /\ head' = tip
    /\ Called("mine", "-", ~Prague1At(attrs.timestamp), mines)
    /\ UNCHANGED <<net, jobs, held>>

Next ==
  \/ \E method \in NewPayloadMethods : NewPayload(method) \/ HandBack(method)
  \/ \E method \in ForkchoiceMethods : Forkchoice(method)
  \/ \E method \in FetchMethods : GetPayload(method)
  \/ Feed \/ Expire \/ Mine

Spec == Init /\ [][Next]_vars

-----------------------------------------------------------------------------
(* Properties *)

Envelope == [block: Block, requests: Requests, key: Key \cup {None}]

(***************************************************************************)
(* The types of the state.  A V4 envelope names the requests and the key   *)
(* of the block it holds.                                                  *)
(***************************************************************************)
TypeOK ==
  /\ net \in Networks
  /\ known \subseteq Block /\ head \in known /\ tip \in known
  /\ \A j \in jobs : j.head \in known /\ j.attrs \in Attributes /\ j.asked \in Attributes
  /\ held # None =>
       /\ held.envelope \in Envelope /\ held.asked \in Attributes
       /\ held.method \in {"V4", "V4P11"} =>
            /\ held.envelope.key = held.envelope.block.key
            /\ held.envelope.block.requests \in {held.envelope.requests, None}

(***************************************************************************)
(* However a block got in - the API's methods gate different things, and   *)
(* feeding passes them by - its header has a key exactly from Prague1 on   *)
(* and requests exactly from Prague on.                                    *)
(***************************************************************************)
KeysMatchFork ==
  \A b \in known :
    /\ ValidPubkey(b.timestamp, b.key)
    /\ b.requests # None <=> IsPragueActive(net, b.timestamp)

(***************************************************************************)
(* No method starts a job that can only fail: its attributes have a key    *)
(* when the block it builds needs one (execution would report it missing,  *)
(* for each attempt, until the deadline), and none before.                 *)
(***************************************************************************)
JobsBuildable == \A j \in jobs : ValidPubkey(j.attrs.timestamp, j.attrs.key)

(***************************************************************************)
(* The payload fetched is the one asked for: the forkchoice update that    *)
(* last returned the identifier gave this time and key, even where the     *)
(* client changed its mind about the key and the head stayed.              *)
(***************************************************************************)
PayloadsAsAsked ==
  held # None =>
    /\ held.envelope.block.timestamp = held.asked.timestamp
    /\ held.envelope.block.key = held.asked.key

(***************************************************************************)
(* A client that uses the right methods is never refused, across every     *)
(* fork: the forkchoice is applied and attributes start a job, the job's   *)
(* payload is served (past Osaka too, its sidecars converted), and the     *)
(* envelope handed back converts to the block it was made of.  Only        *)
(* advertised methods are needed.  A proper block that is fed is taken,    *)
(* although the provider's PoL transaction has another sender; and the     *)
(* dev-mode miner extends its chain whatever the clock shows, up to        *)
(* Prague1, where it has no key to give and KeysMatchFork stops it.        *)
(***************************************************************************)
RightCallsServed ==
  last # None =>
    /\ last.ok
    /\ last.call \notin {"feed", "mine"} => <<last.call, last.method>> \in Capabilities
=============================================================================
