---------------------------- MODULE EngineApiProofs ----------------------------
(***************************************************************************)
(* Proofs about EngineApi for every schedule, client and bound.            *)
(***************************************************************************)
EXTENDS EngineApi, SequenceTheorems, TLAPS

(***************************************************************************)
(* What the engine validator lets through has its key and its requests     *)
(* when its time wants them.                                               *)
(***************************************************************************)
LEMMA ConvertedFits ==
  ASSUME NEW data, Converts(data)
  PROVE  /\ ValidPubkey(Parse(data).timestamp, Parse(data).key)
         /\ Parse(data).requests # None <=> IsPragueActive(net, Parse(data).timestamp)
  BY DEF Converts, HardforkFields, EnsureWellFormedFields, ValidPubkey, Parse

(***************************************************************************)
(* An identifier tells its time and key when a beacon root is given.       *)
(***************************************************************************)
LEMMA IdsApart ==
  ASSUME NEW g, NEW h, NEW a \in Attributes, NEW b \in Attributes, a.root, b.root,
         PayloadId(g, a) = PayloadId(h, b)
  PROVE  a = b
<1>1. ASSUME NEW f, NEW c \in Attributes, c.root
      PROVE  /\ PayloadId(f, c)[2] = c.timestamp
             /\ c.key # None => Len(PayloadId(f, c)) = 4 /\ PayloadId(f, c)[4] = c.key
             /\ c.key = None => Len(PayloadId(f, c)) = 3
  <2> DEFINE S     == {f, c.timestamp, "root", c.key}
             first == <<f, c.timestamp>>
             upTo3 == first \o <<"root">>
  <2>1. first \in Seq(S) /\ <<"root">> \in Seq(S) /\ <<c.key>> \in Seq(S) /\ <<>> \in Seq(S)
    OBVIOUS
  <2>2. upTo3 \in Seq(S) /\ Len(upTo3) = 3 /\ upTo3[2] = c.timestamp
    BY <2>1
  <2> HIDE DEF first, upTo3
  <2>3. Len(upTo3 \o <<c.key>>) = 4 /\ (upTo3 \o <<c.key>>)[4] = c.key
           /\ (upTo3 \o <<c.key>>)[2] = c.timestamp
    <3> DEFINE rest == <<c.key>>
    <3>1. rest \in Seq(S) /\ Len(rest) = 1 /\ rest[1] = c.key
      BY <2>1
    <3> HIDE DEF S, rest
    <3>2. Len(upTo3 \o rest) = 4 /\ (upTo3 \o rest)[4] = rest[1] /\ (upTo3 \o rest)[2] = upTo3[2]
      <4>1. Len(upTo3 \o rest) = 4
        BY <2>2, <3>1, ConcatProperties
      <4>2. \A i \in 1..(Len(upTo3) + Len(rest)) :
              (upTo3 \o rest)[i] = IF i <= Len(upTo3) THEN upTo3[i] ELSE rest[i - Len(upTo3)]
        BY <2>2, <3>1, ConcatProperties
      <4> QED BY <2>2, <3>1, <4>1, <4>2
    <3> QED BY <2>2, <3>1, <3>2 DEF rest
  <2>4. Len(upTo3 \o <<>>) = 3 /\ (upTo3 \o <<>>)[2] = c.timestamp
    BY <2>1, <2>2
  <2>5. PayloadId(f, c) = IF c.key # None THEN upTo3 \o <<c.key>> ELSE upTo3 \o <<>>
    BY <1>1 DEF PayloadId, upTo3, first
  <2> QED BY <2>3, <2>4, <2>5
<1>3. a.timestamp = b.timestamp /\ a.key = b.key
  BY <1>1
<1> QED BY <1>3 DEF Attributes

-----------------------------------------------------------------------------
(* Handing over *)

\* A step that changes neither the schedule nor, but for blocks that convert,
\* what is known.
Hands == net' = net /\ \A b \in known' \ known : \E data : Converts(data) /\ b = Parse(data)

(***************************************************************************)
(* Every step hands over at most blocks that convert.                      *)
(***************************************************************************)
LEMMA StepHands ==
  ASSUME [Next]_vars
  PROVE  Hands
<1>1. ASSUME NEW data, NEW passes, Receive(data, passes)
      PROVE  Hands
  BY <1>1 DEF Receive, Hands
<1>2. ASSUME NEW method, NewPayload(method) PROVE Hands
  BY <1>1, <1>2 DEF NewPayload
<1>3. ASSUME NEW method, HandBack(method) PROVE Hands
  BY <1>1, <1>3 DEF HandBack
<1>4. CASE Feed
  BY <1>1, <1>4 DEF Feed
<1>5. ASSUME NEW method, Forkchoice(method) PROVE Hands
  BY <1>5 DEF Forkchoice, Hands
<1>6. ASSUME NEW method, GetPayload(method) PROVE Hands
  BY <1>6 DEF GetPayload, Hands
<1>7. CASE Expire
  BY <1>7 DEF Expire, Hands
<1>8. CASE Mine
  BY <1>8 DEF Mine, Hands
<1>9. CASE UNCHANGED vars
  BY <1>9 DEF vars, Hands
<1> QED BY <1>2, <1>3, <1>4, <1>5, <1>6, <1>7, <1>8, <1>9 DEF Next

(***************************************************************************)
(* Whatever the methods gate, and though feeding passes them by, every     *)
(* block that gets in has a key exactly from Prague1 on and requests       *)
(* exactly from Prague on: the engine validator alone sees to it.          *)
(***************************************************************************)
THEOREM KeysCorrect == Spec => []KeysMatchFork
<1>1. Init => KeysMatchFork
  BY EngineAssumption DEF Init, GenesisBlock, KeysMatchFork, ValidPubkey, Prague1At
<1>2. KeysMatchFork /\ [Next]_vars => KeysMatchFork'
  <2> SUFFICES ASSUME KeysMatchFork, [Next]_vars
               PROVE  KeysMatchFork'
    OBVIOUS
  <2>1. Hands
    BY StepHands
  <2>2. ASSUME NEW b \in known'
        PROVE  /\ ValidPubkey(b.timestamp, b.key)
               /\ b.requests # None <=> IsPragueActive(net, b.timestamp)
    BY <2>1, ConvertedFits DEF Hands, KeysMatchFork
  <2> QED BY <2>1, <2>2 DEF Hands, KeysMatchFork, ValidPubkey, Prague1At
<1> QED BY <1>1, <1>2, PTL DEF Spec

-----------------------------------------------------------------------------
(* Jobs *)

\* What makes a job sound: its attributes passed the gates, and those it was
\* asked for last are its own.
Sound(j) ==
  /\ j.attrs \in Attributes /\ j.attrs.root
  /\ ValidPubkey(j.attrs.timestamp, j.attrs.key)
  /\ j.id = PayloadId(j.head, j.attrs)
  /\ j.asked = j.attrs

JobsInv == (\A j \in jobs : Sound(j)) /\ PayloadsAsAsked

(***************************************************************************)
(* The attributes that start a job have the key their time wants: V1 and   *)
(* V2 are refused by upstream, V3 and V3P11 by their gates.                *)
(***************************************************************************)
LEMMA GatesSuffice ==
  ASSUME NEW method \in ForkchoiceMethods, NEW attrs,
         ForkchoiceGate(method, attrs), AttributesSupported(method, attrs)
  PROVE  attrs.root /\ ValidPubkey(attrs.timestamp, attrs.key)
  BY DEF ForkchoiceMethods, ForkchoiceGate, AttributesSupported, ValidPubkey

(***************************************************************************)
(* A forkchoice update starts sound jobs only, and where it finds one it   *)
(* asks for what the job builds, identifiers being apart.                  *)
(***************************************************************************)
LEMMA ForkchoiceKeeps ==
  ASSUME JobsInv, NEW method \in ForkchoiceMethods, Forkchoice(method)
  PROVE  JobsInv'
<1>1. PICK h \in known, attrs \in Attributes \cup {None} :
        LET passes == attrs = None \/ ForkchoiceGate(method, attrs)
            starts == /\ attrs # None
                      /\ passes /\ AttributesSupported(method, attrs) /\ h.timestamp < attrs.timestamp
            id     == PayloadId(h, attrs)
            others == {j \in jobs : j.id # id}
            job    == {IF j.id = id THEN [j EXCEPT !.asked = attrs] ELSE j : j \in jobs}
        IN
        /\ IF starts
             THEN IF others # jobs
                    THEN jobs' = job
                    ELSE jobs' = jobs \cup {NewJob(h, attrs)}
             ELSE jobs' = jobs
        /\ net' = net /\ held' = held
  BY DEF Forkchoice
<1> DEFINE id == PayloadId(h, attrs)
<1>2. ASSUME NEW j \in jobs', NEW i \in jobs, j = i
      PROVE  Sound(j)'
  BY <1>1, <1>2 DEF JobsInv, Sound, ValidPubkey, Prague1At, PayloadId
<1>3. ASSUME attrs # None, ForkchoiceGate(method, attrs), AttributesSupported(method, attrs)
      PROVE  attrs \in Attributes /\ attrs.root /\ ValidPubkey(attrs.timestamp, attrs.key)
  BY <1>3, GatesSuffice
<1>4. ASSUME NEW j \in jobs', attrs # None,
             ForkchoiceGate(method, attrs), AttributesSupported(method, attrs),
             j = NewJob(h, attrs)
      PROVE  Sound(j)'
  BY <1>1, <1>3, <1>4 DEF NewJob, Sound, ValidPubkey, Prague1At, PayloadId
<1>5. ASSUME NEW j \in jobs', attrs # None,
             ForkchoiceGate(method, attrs), AttributesSupported(method, attrs),
             NEW i \in jobs, i.id = id, j = [i EXCEPT !.asked = attrs]
      PROVE  Sound(j)'
  <2>1. Sound(i)
    BY DEF JobsInv
  <2>2. i.attrs = attrs
    BY <2>1, <1>3, <1>5, IdsApart DEF Sound
  <2> QED BY <2>1, <2>2, <1>1, <1>5 DEF Sound, ValidPubkey, Prague1At, PayloadId
<1>6. \A j \in jobs' : Sound(j)'
  BY <1>1, <1>2, <1>4, <1>5
<1> QED BY <1>6, <1>1 DEF JobsInv, PayloadsAsAsked

(***************************************************************************)
(* Every job in progress is sound, by any sequence of methods.             *)
(***************************************************************************)
LEMMA JobsInvariant == Spec => []JobsInv
<1>1. Init => JobsInv
  BY DEF Init, JobsInv, PayloadsAsAsked
<1>2. JobsInv /\ [Next]_vars => JobsInv'
  <2> SUFFICES ASSUME JobsInv, [Next]_vars
               PROVE  JobsInv'
    OBVIOUS
  <2>1. ASSUME jobs' \subseteq jobs, net' = net, held' = held
        PROVE  JobsInv'
    BY <2>1 DEF JobsInv, Sound, ValidPubkey, Prague1At, PayloadId, PayloadsAsAsked
  <2>2. ASSUME NEW data, NEW passes, Receive(data, passes) PROVE JobsInv'
    BY <2>1, <2>2 DEF Receive
  <2>3. ASSUME NEW method, NewPayload(method) PROVE JobsInv'
    BY <2>2, <2>3 DEF NewPayload
  <2>4. ASSUME NEW method, HandBack(method) PROVE JobsInv'
    BY <2>2, <2>4 DEF HandBack
  <2>5. CASE Feed
    BY <2>2, <2>5 DEF Feed
  <2>6. ASSUME NEW method, GetPayload(method) PROVE JobsInv'
    <3>1. PICK j \in jobs, requests \in Requests, sidecars \in {"empty", "eip4844"} :
            /\ jobs' \subseteq jobs /\ net' = net
            /\ \/ held' = held
               \/ held' = [envelope |-> EnvelopeOf(method, BuiltPayload(j.attrs, requests, sidecars)),
                           method |-> method, asked |-> j.asked]
      BY <2>6 DEF GetPayload, Sidecars
    <3>2. CASE held' = held
      BY <2>1, <3>1, <3>2
    <3>3. CASE held' = [envelope |-> EnvelopeOf(method, BuiltPayload(j.attrs, requests, sidecars)),
                        method |-> method, asked |-> j.asked]
      <4>1. j.asked = j.attrs
        BY DEF JobsInv, Sound
      <4>2. PayloadsAsAsked'
        BY <3>3, <4>1 DEF PayloadsAsAsked, EnvelopeOf, BuiltPayload, Build
      <4> QED BY <3>1, <4>2 DEF JobsInv, Sound, ValidPubkey, Prague1At, PayloadId
    <3> QED BY <3>1, <3>2, <3>3
  <2>7. CASE Expire
    BY <2>1, <2>7 DEF Expire
  <2>8. CASE Mine
    BY <2>1, <2>8 DEF Mine
  <2>9. CASE UNCHANGED vars
    BY <2>1, <2>9 DEF vars
  <2> QED BY <2>3, <2>4, <2>5, <2>6, <2>7, <2>8, <2>9, ForkchoiceKeeps DEF Next
<1> QED BY <1>1, <1>2, PTL DEF Spec

(***************************************************************************)
(* No job that can only fail is ever started.                              *)
(***************************************************************************)
THEOREM JobsCorrect == Spec => []JobsBuildable
<1>1. JobsInv => JobsBuildable
  BY DEF JobsInv, JobsBuildable, Sound
<1> QED BY <1>1, JobsInvariant, PTL

(***************************************************************************)
(* The payload fetched is the one the identifier was last returned for.    *)
(***************************************************************************)
THEOREM PayloadsCorrect == Spec => []PayloadsAsAsked
<1>1. JobsInv => PayloadsAsAsked
  BY DEF JobsInv
<1> QED BY <1>1, JobsInvariant, PTL

-----------------------------------------------------------------------------
(* Right calls *)

\* What the client holds is the envelope of a payload some sound job built.
HeldSound ==
  held # None =>
    /\ held.asked \in Attributes
    /\ \E a \in Attributes, r \in Requests, s \in {"empty", "eip4844"} :
         /\ ValidPubkey(a.timestamp, a.key)
         /\ held.envelope = EnvelopeOf(held.method, BuiltPayload(a, r, s))

TypesInv ==
  /\ net \in Networks
  /\ known \subseteq Block /\ head \in known /\ tip \in known
  /\ \A j \in jobs : j.head \in known /\ j.attrs \in Attributes /\ j.asked \in Attributes
  /\ HeldSound

(***************************************************************************)
(* What the schedule's order gives: Prague1 comes after Prague and before  *)
(* Osaka.                                                                  *)
(***************************************************************************)
LEMMA ForksInOrder ==
  ASSUME net \in Networks, NEW t \in Nat
  PROVE  /\ Prague1At(t) => IsPragueActive(net, t)
         /\ IsOsakaActive(net, t) => Prague1At(t)
<1>1. net \in Schedule /\ OrderedSchedule(net)
  BY EngineAssumption
<1>2. \A f \in Fork : net[f] # Never => net[f] \in Nat
  BY <1>1 DEF Schedule
<1> QED BY <1>1, <1>2 DEF OrderedSchedule, NotBefore, Fork, Prague1At, ActiveAt,
                        IsPragueActive, IsPrague1Active, IsOsakaActive

(***************************************************************************)
(* The block of a payload is a block, and as the protocol wants it where   *)
(* the attributes' key fits their time.                                    *)
(***************************************************************************)
LEMMA BuiltProper ==
  ASSUME NEW a \in Attributes, NEW r \in Requests
  PROVE  /\ Build(a, r) \in Block
         /\ ValidPubkey(a.timestamp, a.key) => Proper(Build(a, r))
  BY EngineAssumption DEF Build, Block, Attributes, Proper, ValidPubkey

(***************************************************************************)
(* Data that names a proper block's own requests and key converts to it.   *)
(***************************************************************************)
LEMMA ProperConverts ==
  ASSUME NEW b \in Block, Proper(b), NEW data,
         data = [timestamp |-> b.timestamp, polFrom |-> b.polFrom, hash |-> b,
                 requests |-> b.requests, key |-> b.key]
  PROVE  Converts(data)
<1>1. Parse(data) = b
  BY DEF Parse, Block
<1> QED BY <1>1 DEF Converts, Proper, HardforkFields, EnsureWellFormedFields, ValidPubkey

(***************************************************************************)
(* The types of the envelope held.                                         *)
(***************************************************************************)
LEMMA HeldTyped ==
  ASSUME HeldSound, held # None
  PROVE  /\ held.envelope \in Envelope
         /\ held.method \in {"V4", "V4P11"} =>
              /\ held.envelope.key = held.envelope.block.key
              /\ held.envelope.block.requests \in {held.envelope.requests, None}
<1>1. PICK a \in Attributes, r \in Requests, s \in {"empty", "eip4844"} :
        held.envelope = EnvelopeOf(held.method, BuiltPayload(a, r, s))
  BY DEF HeldSound
<1>2. Build(a, r) \in Block
  BY BuiltProper
<1>3. held.envelope.block = Build(a, r)
  BY <1>1 DEF EnvelopeOf, BuiltPayload
<1> QED BY <1>1, <1>2, <1>3, EngineAssumption
        DEF EnvelopeOf, BuiltPayload, Build, Envelope, Attributes

(***************************************************************************)
(* What is held stays sound as long as it stays.                           *)
(***************************************************************************)
LEMMA HeldKept ==
  ASSUME HeldSound, net' = net, held' = held
  PROVE  HeldSound'
<1> SUFFICES ASSUME held # None
             PROVE  HeldSound'
  BY DEF HeldSound
<1>1. PICK a \in Attributes, r \in Requests, s \in {"empty", "eip4844"} :
        /\ ValidPubkey(a.timestamp, a.key)
        /\ held.envelope = EnvelopeOf(held.method, BuiltPayload(a, r, s))
  BY DEF HeldSound
<1>2. BuiltPayload(a, r, s)' = BuiltPayload(a, r, s)
  BY DEF BuiltPayload, Build
<1>3. /\ ValidPubkey(a.timestamp, a.key)'
      /\ held'.envelope = EnvelopeOf(held'.method, BuiltPayload(a, r, s)')
  BY <1>1, <1>2 DEF ValidPubkey, Prague1At
<1> QED BY <1>3 DEF HeldSound

(***************************************************************************)
(* The invariants survive a step that hands data over.                     *)
(***************************************************************************)
LEMMA ReceiveKeeps ==
  ASSUME TypesInv, NEW data, NEW passes, Receive(data, passes),
         data.timestamp \in 0..MaxTime, data.key \in Key \cup {None},
         data.requests \in Requests \cup {None}, data.polFrom \in {"system", "zero"}
  PROVE  TypesInv'
<1>1. Parse(data) \in Block
  BY DEF Parse, Block
<1>2. known' \subseteq Block /\ known \subseteq known'
  BY <1>1 DEF Receive, TypesInv
<1>3. HeldSound'
  BY HeldKept DEF Receive, TypesInv
<1> QED BY <1>2, <1>3 DEF Receive, TypesInv

(***************************************************************************)
(* Methods the client calls rightly are advertised.                        *)
(***************************************************************************)
LEMMA RightAdvertised ==
  ASSUME NEW t
  PROVE  /\ <<"forkchoiceUpdated", RightForkchoice(t)>> \in Capabilities
         /\ <<"getPayload", RightGetPayload(t)>> \in Capabilities
         /\ <<"newPayload", RightNewPayload(t)>> \in Capabilities
  BY DEF Capabilities, UpstreamCapabilities, AdditionalCapabilities, RemovedCapabilities,
         RightForkchoice, RightGetPayload, RightNewPayload

(***************************************************************************)
(* newPayload, with a block of any proposer.                               *)
(***************************************************************************)
LEMMA NewPayloadServed ==
  ASSUME TypesInv, NEW method \in NewPayloadMethods, NewPayload(method)
  PROVE  (TypesInv /\ RightCallsServed)'
<1>1. PICK b \in Block, requests \in Requests, key \in Key, asHash \in BOOLEAN :
        LET data   == DataOf(method, b, requests, key)
            passes == NewPayloadGate(method, b.timestamp, asHash) /\ PayloadSupported(method, b.timestamp)
        IN
        /\ Receive(data, passes)
        /\ Called("newPayload", method,
                  /\ Proper(b) /\ method = RightNewPayload(b.timestamp)
                  /\ data.requests = b.requests /\ data.key = b.key
                  /\ asHash => AcceptHash,
                  passes /\ Converts(data))
  BY DEF NewPayload
<1> DEFINE data == DataOf(method, b, requests, key)
<1>2. TypesInv'
  <2>1. /\ data.timestamp \in 0..MaxTime /\ data.key \in Key \cup {None}
        /\ data.requests \in Requests \cup {None} /\ data.polFrom \in {"system", "zero"}
    BY DEF DataOf, Block
  <2> QED BY <1>1, <2>1, ReceiveKeeps
<1>3. ASSUME Proper(b), method = RightNewPayload(b.timestamp),
             data.requests = b.requests, data.key = b.key, asHash => AcceptHash
      PROVE  /\ NewPayloadGate(method, b.timestamp, asHash)
             /\ PayloadSupported(method, b.timestamp)
             /\ Converts(data)
  <2>1. Converts(data)
    BY <1>3, ProperConverts DEF DataOf
  <2>2. Prague1At(b.timestamp) => IsPragueActive(net, b.timestamp)
    BY ForksInOrder, EngineAssumption DEF TypesInv, Block
  <2> QED BY <1>3, <2>1, <2>2
          DEF NewPayloadGate, PayloadSupported, RightNewPayload, RightGetPayload
<1>4. RightCallsServed'
  <2>1. last' = None \/ (last'.call = "newPayload" /\ last'.method = method /\ last'.ok
                        /\ method = RightNewPayload(b.timestamp))
    BY <1>1, <1>3 DEF Called
  <2> QED BY <2>1, RightAdvertised DEF RightCallsServed
<1> QED BY <1>2, <1>4

(***************************************************************************)
(* newPayload, with the envelope fetched before.                           *)
(***************************************************************************)
LEMMA HandBackServed ==
  ASSUME TypesInv, NEW method \in NewPayloadMethods, HandBack(method)
  PROVE  (TypesInv /\ RightCallsServed)'
<1> DEFINE t    == held.envelope.block.timestamp
           data == DataOf(method, held.envelope.block, held.envelope.requests, held.envelope.key)
           passes == NewPayloadGate(method, t, FALSE) /\ PayloadSupported(method, t)
<1>1. /\ held # None
      /\ Receive(data, passes)
      /\ Called("newPayload", method,
                method = RightNewPayload(t) /\ held.method = RightGetPayload(t),
                passes /\ Converts(data))
  BY DEF HandBack
<1>2. PICK a \in Attributes, r \in Requests, s \in {"empty", "eip4844"} :
        /\ ValidPubkey(a.timestamp, a.key)
        /\ held.envelope = EnvelopeOf(held.method, BuiltPayload(a, r, s))
  BY <1>1 DEF TypesInv, HeldSound
<1>3. held.envelope.block = Build(a, r) /\ Build(a, r) \in Block /\ Proper(Build(a, r))
  BY <1>2, BuiltProper DEF EnvelopeOf, BuiltPayload
<1>4. held.envelope \in Envelope
  BY <1>1, HeldTyped DEF TypesInv
<1>5. TypesInv'
  <2>1. /\ data.timestamp \in 0..MaxTime /\ data.key \in Key \cup {None}
        /\ data.requests \in Requests \cup {None} /\ data.polFrom \in {"system", "zero"}
    BY <1>4 DEF DataOf, Envelope, Block
  <2> QED BY <1>1, <2>1, ReceiveKeeps
<1>6. ASSUME method = RightNewPayload(t), held.method = RightGetPayload(t)
      PROVE  passes /\ Converts(data)
  <2>1. Prague1At(t) => IsPragueActive(net, t)
    BY <1>3, ForksInOrder, EngineAssumption DEF TypesInv, Block
  <2>2. passes
    BY <1>6, <2>1 DEF NewPayloadGate, PayloadSupported, RightNewPayload, RightGetPayload
  <2>3. held.method = method /\ t = a.timestamp
    BY <1>3, <1>6 DEF RightNewPayload, Build
  <2>4. data.requests = held.envelope.block.requests
    BY <1>2, <1>6, <2>1, <2>3, EngineAssumption
       DEF DataOf, EnvelopeOf, BuiltPayload, Build, RightNewPayload, RightGetPayload
  <2>5. data.key = held.envelope.block.key
    BY <1>2, <1>6, <2>1, <2>3
       DEF DataOf, EnvelopeOf, BuiltPayload, Build, RightNewPayload, RightGetPayload, ValidPubkey
  <2>6. Converts(data)
    BY <1>3, <2>4, <2>5, ProperConverts DEF DataOf
  <2> QED BY <2>2, <2>6
<1>7. RightCallsServed'
  <2>1. last' = None \/ (last'.call = "newPayload" /\ last'.method = method /\ last'.ok
                        /\ method = RightNewPayload(t))
    BY <1>1, <1>6 DEF Called
  <2> QED BY <2>1, RightAdvertised DEF RightCallsServed
<1> QED BY <1>5, <1>7

(***************************************************************************)
(* A fed block, whatever its PoL transaction's sender at the provider.     *)
(***************************************************************************)
LEMMA FeedServed ==
  ASSUME TypesInv, Feed
  PROVE  (TypesInv /\ RightCallsServed)'
<1>1. PICK b \in Block, from \in {"system", "zero"} :
        LET data == BlockToPayload([b EXCEPT !.polFrom = from], b) IN
        /\ b.polFrom = "system"
        /\ Receive(data, TRUE)
        /\ Called("feed", "-", Proper(b), Converts(data))
  BY DEF Feed
<1> DEFINE data == BlockToPayload([b EXCEPT !.polFrom = from], b)
<1>2. data = [timestamp |-> b.timestamp, polFrom |-> b.polFrom, hash |-> b,
              requests |-> b.requests, key |-> b.key]
  BY <1>1 DEF BlockToPayload, Block
<1>3. TypesInv'
  <2>1. /\ data.timestamp \in 0..MaxTime /\ data.key \in Key \cup {None}
        /\ data.requests \in Requests \cup {None} /\ data.polFrom \in {"system", "zero"}
    BY <1>2 DEF Block
  <2> QED BY <1>1, <2>1, ReceiveKeeps
<1>4. Proper(b) => Converts(data)
  BY <1>2, ProperConverts
<1>5. RightCallsServed'
  BY <1>1, <1>4 DEF Called, RightCallsServed
<1> QED BY <1>3, <1>5

(***************************************************************************)
(* forkchoiceUpdated.                                                      *)
(***************************************************************************)
LEMMA ForkchoiceServed ==
  ASSUME TypesInv, NEW method \in ForkchoiceMethods, Forkchoice(method)
  PROVE  (TypesInv /\ RightCallsServed)'
<1>1. PICK h \in known, attrs \in Attributes \cup {None} :
        LET passes == attrs = None \/ ForkchoiceGate(method, attrs)
            starts == /\ attrs # None
                      /\ passes /\ AttributesSupported(method, attrs) /\ h.timestamp < attrs.timestamp
            id     == PayloadId(h, attrs)
            others == {j \in jobs : j.id # id}
            job    == {IF j.id = id THEN [j EXCEPT !.asked = attrs] ELSE j : j \in jobs}
        IN
        /\ head' = IF passes THEN h ELSE head
        /\ IF starts
             THEN IF others # jobs
                    THEN jobs' = job
                    ELSE jobs' = jobs \cup {NewJob(h, attrs)}
             ELSE jobs' = jobs
        /\ Called("forkchoiceUpdated", method,
                  attrs # None =>
                    /\ method = RightForkchoice(attrs.timestamp)
                    /\ ValidPubkey(attrs.timestamp, attrs.key)
                    /\ attrs.root /\ h.timestamp < attrs.timestamp,
                  head' = h /\ (attrs # None => starts))
        /\ UNCHANGED <<net, known, held, tip>>
  BY DEF Forkchoice
<1> DEFINE passes == attrs = None \/ ForkchoiceGate(method, attrs)
           starts == /\ attrs # None
                     /\ passes /\ AttributesSupported(method, attrs) /\ h.timestamp < attrs.timestamp
<1>2. TypesInv'
  <2>1. \A j \in jobs' : j.head \in known /\ j.attrs \in Attributes /\ j.asked \in Attributes
    <3>1. CASE jobs' = jobs
      BY <3>1 DEF TypesInv
    <3>2. CASE starts /\ jobs' = jobs \cup {NewJob(h, attrs)}
      BY <3>2 DEF TypesInv, NewJob
    <3>3. CASE starts /\ jobs' = {IF j.id = PayloadId(h, attrs) THEN [j EXCEPT !.asked = attrs] ELSE j : j \in jobs}
      <4> SUFFICES ASSUME NEW i \in jobs,
                          NEW j, j = IF i.id = PayloadId(h, attrs) THEN [i EXCEPT !.asked = attrs] ELSE i
                   PROVE  j.head \in known /\ j.attrs \in Attributes /\ j.asked \in Attributes
        BY <3>3
      <4>1. attrs \in Attributes
        BY <3>3
      <4>2. i.head \in known /\ i.attrs \in Attributes /\ i.asked \in Attributes
        BY DEF TypesInv
      <4>3. CASE j = i
        BY <4>2, <4>3
      <4>4. CASE j = [i EXCEPT !.asked = attrs]
        BY <4>1, <4>2, <4>4
      <4> QED BY <4>3, <4>4
    <3> QED BY <1>1, <3>1, <3>2, <3>3
  <2>2. HeldSound'
    BY <1>1, HeldKept DEF TypesInv
  <2> QED BY <1>1, <2>1, <2>2 DEF TypesInv
<1>3. ASSUME attrs # None => /\ method = RightForkchoice(attrs.timestamp)
                             /\ ValidPubkey(attrs.timestamp, attrs.key)
                             /\ attrs.root /\ h.timestamp < attrs.timestamp
      PROVE  head' = h /\ (attrs # None => starts)
  <2>1. attrs # None => ForkchoiceGate(method, attrs) /\ AttributesSupported(method, attrs)
    BY <1>3 DEF ForkchoiceGate, AttributesSupported, RightForkchoice, ValidPubkey
  <2> QED BY <1>1, <1>3, <2>1
<1>4. RightCallsServed'
  <2>1. <<"forkchoiceUpdated", method>> \in Capabilities
    BY DEF ForkchoiceMethods, Capabilities, UpstreamCapabilities, AdditionalCapabilities, RemovedCapabilities
  <2>2. last' = None \/ (last'.call = "forkchoiceUpdated" /\ last'.method = method /\ last'.ok)
    BY <1>1, <1>3 DEF Called
  <2> QED BY <2>1, <2>2 DEF RightCallsServed
<1> QED BY <1>2, <1>4

(***************************************************************************)
(* getPayload, where the job is sound.                                     *)
(***************************************************************************)
LEMMA GetPayloadServed ==
  ASSUME TypesInv, JobsInv, NEW method \in FetchMethods, GetPayload(method)
  PROVE  (TypesInv /\ RightCallsServed)'
<1>1. PICK j \in jobs, requests \in Requests, sidecars \in {"empty", "eip4844"} :
        LET payload == BuiltPayload(j.attrs, requests, sidecars)
            serves  == FetchSupported(method, j.attrs.timestamp)
            answers == /\ serves /\ ValidPubkey(j.attrs.timestamp, j.attrs.key)
                       /\ Convertible(method, payload)
        IN
        /\ jobs' = IF serves THEN jobs \ {j} ELSE jobs
        /\ held' = IF answers
                     THEN [envelope |-> EnvelopeOf(method, payload),
                           method |-> method, asked |-> j.asked]
                     ELSE held
        /\ Called("getPayload", method, method = RightGetPayload(j.attrs.timestamp), answers)
        /\ UNCHANGED <<net, known, head, tip>>
  BY DEF GetPayload, Sidecars
<1> DEFINE payload == BuiltPayload(j.attrs, requests, sidecars)
           t       == j.attrs.timestamp
           answers == /\ FetchSupported(method, t) /\ ValidPubkey(t, j.attrs.key)
                      /\ Convertible(method, payload)
<1>2. j.attrs \in Attributes /\ j.asked \in Attributes /\ ValidPubkey(t, j.attrs.key)
  BY DEF TypesInv, JobsInv, Sound
<1>3. TypesInv'
  <2>1. HeldSound'
    <3>1. CASE held' = held
      BY <1>1, <3>1, HeldKept DEF TypesInv
    <3>2. CASE held' = [envelope |-> EnvelopeOf(method, payload),
                        method |-> method, asked |-> j.asked]
      <4>1. payload' = payload /\ ValidPubkey(t, j.attrs.key)'
        BY <1>1, <1>2 DEF BuiltPayload, Build, ValidPubkey, Prague1At
      <4>2. held'.asked \in Attributes /\ held'.envelope = EnvelopeOf(held'.method, payload')
        BY <1>2, <3>2, <4>1
      <4> QED BY <1>2, <4>1, <4>2 DEF HeldSound
    <3> QED BY <1>1, <3>1, <3>2
  <2> QED BY <1>1, <2>1 DEF TypesInv
<1>4. method = RightGetPayload(t) => answers
  <2>1. t \in Nat
    BY <1>2, EngineAssumption DEF Attributes
  <2>2. IsOsakaActive(net, t) => Prague1At(t)
    BY <2>1, ForksInOrder DEF TypesInv
  <2>3. payload.sidecars # "eip7594"
    BY DEF BuiltPayload
  <2> QED BY <1>2, <2>2, <2>3 DEF FetchSupported, RightGetPayload, Convertible
<1>5. RightCallsServed'
  <2>1. last' = None \/ (last'.call = "getPayload" /\ last'.method = method /\ last'.ok
                        /\ method = RightGetPayload(t))
    BY <1>1, <1>4 DEF Called
  <2> QED BY <2>1, RightAdvertised DEF RightCallsServed
<1> QED BY <1>3, <1>5

(***************************************************************************)
(* The dev-mode miner, before Prague1.                                     *)
(***************************************************************************)
LEMMA MineServed ==
  ASSUME TypesInv, Mine
  PROVE  (TypesInv /\ RightCallsServed)'
<1>1. PICK now \in 0..MaxTime, requests \in Requests :
        LET attrs == LocalAttributes(tip, now)
            block == Build(attrs, requests)
            data  == BlockToPayload(block, block)
            mines == /\ tip.timestamp < attrs.timestamp
                     /\ ValidPubkey(attrs.timestamp, attrs.key)
                     /\ Converts(data)
        IN
        /\ attrs.timestamp <= MaxTime
        /\ known' = IF mines THEN known \cup {Parse(data)} ELSE known
        /\ tip' = IF mines THEN Parse(data) ELSE tip
        /\ head' = tip
        /\ Called("mine", "-", ~Prague1At(attrs.timestamp), mines)
        /\ UNCHANGED <<net, jobs, held>>
  BY DEF Mine
<1> DEFINE attrs == LocalAttributes(tip, now)
           block == Build(attrs, requests)
           data  == BlockToPayload(block, block)
<1>2. tip.timestamp \in 0..MaxTime /\ tip.timestamp \in Nat /\ now \in Nat
  BY EngineAssumption DEF TypesInv, Block
<1>3. attrs \in Attributes /\ tip.timestamp < attrs.timestamp /\ attrs.key = None
  <2>1. attrs.timestamp \in Nat /\ tip.timestamp < attrs.timestamp /\ attrs.timestamp <= MaxTime
    BY <1>1, <1>2 DEF LocalAttributes
  <2> QED BY <2>1, EngineAssumption DEF LocalAttributes, Attributes
<1>4. block \in Block
  BY <1>3, BuiltProper
<1>5. data = [timestamp |-> block.timestamp, polFrom |-> block.polFrom, hash |-> block,
              requests |-> block.requests, key |-> block.key]
  BY DEF BlockToPayload, Build
<1>6. Parse(data) = block
  BY <1>4, <1>5 DEF Parse, Block
<1>7. TypesInv'
  <2>1. HeldSound'
    BY <1>1, HeldKept DEF TypesInv
  <2> QED BY <1>1, <1>4, <1>6, <2>1 DEF TypesInv
<1>8. ~Prague1At(attrs.timestamp) => ValidPubkey(attrs.timestamp, attrs.key) /\ Converts(data)
  BY <1>3, <1>4, <1>5, BuiltProper, ProperConverts DEF ValidPubkey
<1>9. RightCallsServed'
  BY <1>1, <1>3, <1>8 DEF Called, RightCallsServed
<1> QED BY <1>7, <1>9

(***************************************************************************)
(* The invariant the last two theorems follow from.                        *)
(***************************************************************************)
LEMMA ServedInvariant == Spec => [](TypesInv /\ RightCallsServed)
<1>1. Init => TypesInv /\ RightCallsServed
  BY EngineAssumption DEF Init, TypesInv, HeldSound, RightCallsServed, GenesisBlock, Block
<1>2. TypesInv /\ RightCallsServed /\ JobsInv /\ [Next]_vars => (TypesInv /\ RightCallsServed)'
  <2> SUFFICES ASSUME TypesInv, RightCallsServed, JobsInv, [Next]_vars
               PROVE  (TypesInv /\ RightCallsServed)'
    OBVIOUS
  <2>1. CASE Expire
    <3>1. HeldSound'
      BY <2>1, HeldKept DEF Expire, TypesInv
    <3> QED BY <2>1, <3>1 DEF Expire, TypesInv, RightCallsServed
  <2>2. CASE UNCHANGED vars
    <3>1. HeldSound'
      BY <2>2, HeldKept DEF vars, TypesInv
    <3> QED BY <2>2, <3>1 DEF vars, TypesInv, RightCallsServed
  <2>3. CASE \E method \in NewPayloadMethods : NewPayload(method) \/ HandBack(method)
    BY <2>3, NewPayloadServed, HandBackServed
  <2>4. CASE \E method \in ForkchoiceMethods : Forkchoice(method)
    BY <2>4, ForkchoiceServed
  <2>5. CASE \E method \in FetchMethods : GetPayload(method)
    BY <2>5, GetPayloadServed
  <2>6. CASE Feed \/ Mine
    BY <2>6, FeedServed, MineServed
  <2> QED BY <2>1, <2>2, <2>3, <2>4, <2>5, <2>6 DEF Next
<1> QED BY <1>1, <1>2, JobsInvariant, PTL DEF Spec

(***************************************************************************)
(* The state keeps its types, and a V4 envelope names its block's requests *)
(* and key.                                                                *)
(***************************************************************************)
THEOREM TypeCorrect == Spec => []TypeOK
<1>1. TypesInv => TypeOK
  BY HeldTyped DEF TypesInv, TypeOK, HeldSound
<1> QED BY <1>1, ServedInvariant, PTL

(***************************************************************************)
(* A client that uses the right methods is never refused, on any schedule  *)
(* genesis acceptance lets through.                                        *)
(***************************************************************************)
THEOREM RightCallsAlwaysServed == Spec => []RightCallsServed
  BY ServedInvariant, PTL
=============================================================================
