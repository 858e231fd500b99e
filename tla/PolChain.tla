------------------------------- MODULE PolChain -------------------------------
(***************************************************************************)
(* What the block pipeline promises, without saying how: from a given time *)
(* on every block pays its parent's proposer exactly once, first thing,    *)
(* through the PoL transaction its own header determines, and everything   *)
(* in the body, and nothing else, is executed in the order of the body.    *)
(*                                                                         *)
(* ledger holds the blocks the node has validated, offered the payloads it *)
(* has built; neither ever loses or changes an element.                    *)
(***************************************************************************)
EXTENDS Integers, Sequences

VARIABLES
  activation,  \* when PoL starts
  ledger,      \* validated blocks: header fields, body, execution trace
  offered      \* built blocks, of the same form

vars == <<activation, ledger, offered>>

Reward(b) ==
  [kind |-> "PoL", pubkey |-> b.pubkey, nonce |-> b.number - 1, gasPrice |-> b.baseFee]

PaysProposer(b) ==
  LET rewards == {i \in DOMAIN b.body : b.body[i].kind = "PoL"} IN
  IF activation <= b.timestamp
    THEN rewards = {1} /\ b.body[1] = Reward(b)
    ELSE rewards = {}

ExecutesBody(b) == b.executed = b.body

WellFormed(b) == PaysProposer(b) /\ ExecutesBody(b)

\* Block b comes after its parent, which is genesis (0) or in the ledger.
Extends(b) ==
  IF b.parent = 0
    THEN b.number = 1 /\ b.timestamp > 0
    ELSE /\ b.parent \in DOMAIN ledger
         /\ b.number = ledger[b.parent].number + 1
         /\ b.timestamp > ledger[b.parent].timestamp

Init == ledger = <<>> /\ offered = {}

Validate ==
  /\ Len(ledger') = Len(ledger) + 1
  /\ \A i \in DOMAIN ledger : ledger'[i] = ledger[i]
  /\ WellFormed(ledger'[Len(ledger')])
  /\ Extends(ledger'[Len(ledger')])
  /\ UNCHANGED <<activation, offered>>

Offer ==
  /\ offered \subseteq offered'
  /\ \A b \in offered' \ offered : WellFormed(b) /\ Extends(b)
  /\ UNCHANGED <<activation, ledger>>

Next == Validate \/ Offer

Spec == Init /\ [][Next]_vars
=============================================================================
