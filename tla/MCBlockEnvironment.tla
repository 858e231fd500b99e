--------------------------- MODULE MCBlockEnvironment ---------------------------
(***************************************************************************)
(* A small instance of BlockEnvironment: three blocks across every fork.   *)
(***************************************************************************)
EXTENDS BlockEnvironment

CONSTANTS k0, k1, blobs, more, plain, usual, other, tracer

MCTxGasLimit == [u \in UserTx |-> 2]
MCTxGasUsed  == [u \in UserTx |-> IF u = plain THEN 2 ELSE 1]
MCTxLog      == [u \in UserTx |-> "plain"]
MCTxBlobs    == 
  [u \in UserTx |-> CASE u = blobs -> 3 [] u = more -> 2 [] u = plain -> 0]

\* The parameters grow with the forks; the reserve price is Osaka's.
MCForkBlobs ==
  [r \in EvmRules |->
     CASE r = "CANCUN" -> [target |-> 1, max |-> 3, minFee |-> 1, baseCost |-> 0]
       [] r = "PRAGUE" -> [target |-> 2, max |-> 4, minFee |-> 1, baseCost |-> 0]
       [] r = "OSAKA"  -> [target |-> 2, max |-> 4, minFee |-> 1, baseCost |-> 2]]

Staggered ==
  [f \in Fork |->
     CASE f = "Prague" -> 0 [] f = "Prague1" -> 1 [] f = "Prague2" -> 1
       [] f = "Prague3" -> Never [] f = "Prague4" -> Never [] f = "Osaka" -> 2
       [] f = "Osaka1" -> 3]

Late ==
  [f \in Fork |->
     CASE f = "Prague" -> 2 [] f = "Prague1" -> 3 [] f = "Prague2" -> 3
       [] OTHER -> Never]

AllAtGenesis ==
  [f \in Fork |-> IF f \in {"Prague3", "Prague4"} THEN Never ELSE 0]

MCSchedules == {Staggered, Late, AllAtGenesis}

MCPolOutcomes ==
  {[success |-> TRUE, log |-> "plain"], [success |-> FALSE, log |-> "plain"]}

MCBodies == {<<>>, <<blobs>>, <<plain, more>>}
=============================================================================
