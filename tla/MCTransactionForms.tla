-------------------------- MODULE MCTransactionForms --------------------------
(***************************************************************************)
(* A small instance of TransactionForms: a transaction of every type that  *)
(* is stored its own way, PoL from the second block on.                    *)
(***************************************************************************)
EXTENDS TransactionForms

CONSTANTS legacy, dynamic, blob, setcode, listed

MCTypeOf ==
  [u \in User |->
     CASE u = legacy -> "Legacy" [] u = listed -> "Eip2930" [] u = dynamic -> "Eip1559"
       [] u = blob -> "Eip4844"  [] u = setcode -> "Eip7702"]
=============================================================================
