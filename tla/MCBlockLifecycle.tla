--------------------------- MODULE MCBlockLifecycle ---------------------------
(***************************************************************************)
(* Small instances of BlockLifecycle.                                      *)
(***************************************************************************)
EXTENDS BlockLifecycle, SequencesExt

CONSTANTS k1, k2, deposit, transfer  \* two proposers, two user transactions

MCTxGasLimit == [u \in UserTx |-> IF u = deposit THEN 2 ELSE 3]
MCTxGasUsed  == [u \in UserTx |-> IF u = deposit THEN 1 ELSE 3]
MCTxLog      == [u \in UserTx |-> IF u = deposit THEN "deposit" ELSE "restricted"]

\* Every fork in turn, each at its own time, from a genesis before Prague1.
Staggered ==
  [f \in Fork |->
     CASE f = "Prague" -> 0 [] f = "Prague1" -> 1 [] f = "Prague2" -> 1
       [] f = "Prague3" -> 2 [] f = "Prague4" -> 3 [] f = "Osaka" -> 3
       [] f = "Osaka1" -> 3]

\* A network still on Cancun at genesis, with Prague and Prague1 apart.
Late ==
  [f \in Fork |->
     CASE f = "Prague" -> 2 [] f = "Prague1" -> 3 [] f = "Prague2" -> 3
       [] OTHER -> Never]

\* Everything but the Prague3 restrictions from genesis on.
AllAtGenesis ==
  [f \in Fork |-> IF f \in {"Prague3", "Prague4"} THEN Never ELSE 0]

MCSchedules == {Staggered, Late, AllAtGenesis}

MCPolOutcomes ==
  {[success |-> TRUE, log |-> "plain"], [success |-> FALSE, log |-> "plain"],
   [success |-> TRUE, log |-> "restricted"], [success |-> TRUE, log |-> "malformed"]}

-----------------------------------------------------------------------------
(***************************************************************************)
(* Other proposers: honest ones, and ones that deviate in one respect, be  *)
(* it a header field, the body or a commitment.                            *)
(***************************************************************************)

HonestContexts(n) ==
  UNION {{[parent |-> n.position, number |-> n.parent.number + 1, timestamp |-> t,
           baseFee |-> NextBlockBaseFee(n.sched, n.parent), pubkey |-> k] :
            k \in IF IsPrague1Active(n.sched, t) THEN Pubkey ELSE {None}} :
         t \in {x \in Times : x > n.parent.timestamp}}

WrongContexts(n) ==
  UNION {{[c EXCEPT !.number = @ + 1], [c EXCEPT !.number = 0], [c EXCEPT !.baseFee = @ + 1],
          [c EXCEPT !.timestamp = n.parent.timestamp],
          [c EXCEPT !.pubkey = IF @ = None THEN k1 ELSE None]} : c \in HonestContexts(n)}

User(u) == [kind |-> "User", id |-> u]

\* The PoL transaction a context determines (for some key, if it has none),
\* and that transaction with one field wrong.
Pol(c) == CreatePolTransaction(
  [c EXCEPT !.pubkey = IF @ = None THEN k1 ELSE @, !.number = AtLeast(1, @)])
WrongPols(c) ==
  LET p == Pol(c) IN
  {[p EXCEPT !.nonce = @ + 1], [p EXCEPT !.gasPrice = @ + 1],
   [p EXCEPT !.pubkey = IF @ = k1 THEN k2 ELSE k1]}

UserBodies == {<<>>} \cup {<<User(u)>> : u \in UserTx}
              \cup {<<User(u), User(v)>> : u, v \in UserTx}

HonestBodies(n, c) ==
  IF IsPrague1Active(n.sched, c.timestamp)
    THEN {<<Pol(c)>> \o us : us \in UserBodies} ELSE UserBodies

WrongBodies(n, c) ==
  LET p == Pol(c) IN
  {<<p, User(deposit)>>, <<User(deposit)>>, <<User(deposit), p>>, <<p, p>>,
   <<p, User(deposit), p>>, <<>>} \cup {<<w, User(deposit)>> : w \in WrongPols(c)}

\* The executor after a body, transactions that do not execute passed over.
ExecuteBody(n, c, txs) ==
  FoldLeft(LAMBDA ex, tx : IF Executable(ex, tx) THEN CommitTransaction(ex, tx) ELSE ex,
           ApplyPreExecutionChanges(n.sched, c, NewExecutor(n.spent), n.outcome), txs)

BlockOf(n, c, txs) ==
  LET ex == ExecuteBody(n, c, txs) IN
  [header |-> [parent |-> c.parent, number |-> c.number, timestamp |-> c.timestamp,
               baseFee |-> c.baseFee, pubkey |-> c.pubkey, gasUsed |-> ex.gasUsed,
               receiptsRoot |-> ex.receipts, requests |-> Requests(n.sched, c, ex)],
   txs |-> txs]

WrongCommitments(b) ==
  {[b EXCEPT !.header.gasUsed = @ + 1], [b EXCEPT !.header.receiptsRoot = <<>>],
   [b EXCEPT !.header.requests = IF @ = None THEN [deposits |-> {}] ELSE None],
   [b EXCEPT !.header.requests = IF @ = None THEN [deposits |-> {}]
                                   ELSE [deposits |-> {1, 2} \ @.deposits]]}

HonestPeerBlocks(n) ==
  UNION {{BlockOf(n, c, txs) : txs \in HonestBodies(n, c)} : c \in HonestContexts(n)}

\* One user transaction is body enough for a header that is wrong anyway.
SomeBody(n, c) == IF IsPrague1Active(n.sched, c.timestamp)
                    THEN <<Pol(c), User(deposit)>> ELSE <<User(deposit)>>

MCPeerBlocks(n) ==
  HonestPeerBlocks(n)
  \cup UNION {{BlockOf(n, c, txs) : txs \in WrongBodies(n, c)} : c \in HonestContexts(n)}
  \cup {BlockOf(n, c, SomeBody(n, c)) : c \in WrongContexts(n)}
  \cup UNION {WrongCommitments(BlockOf(n, c, SomeBody(n, c))) : c \in HonestContexts(n)}

\* Honest blocks of another proposer, beside which this node builds its own.
OtherProposer(n) == {BlockOf(n, c, SomeBody(n, c)) : c \in HonestContexts(n)}
=============================================================================
