---------------------------- MODULE MCPoolAdmission ----------------------------
(***************************************************************************)
(* A small instance of PoolAdmission: base fees of 2 to 5 around two forks *)
(* that each move the floor, a minimum tip of 1.                           *)
(***************************************************************************)
EXTENDS PoolAdmission, TLC

CONSTANTS alice, lena,            \* lena is a local account
          legacy, dynamic, own,
          w1, w2                  \* validation tasks

\* A legacy transaction at a bare base fee, one that clears the floor at low
\* base fees, and a local account's, which offers no tip.
MCInfo ==
  [tx \in Tx |->
     CASE tx = legacy  -> [sender |-> alice, maxFee |-> 3, maxTip |-> 3]
       [] tx = dynamic -> [sender |-> alice, maxFee |-> 4, maxTip |-> 1]
       [] tx = own     -> [sender |-> lena, maxFee |-> 4, maxTip |-> 0]]

Staggered ==
  [f \in Fork |->
     CASE f = "Prague" -> 0 [] f \in {"Prague1", "Prague2"} -> 1
       [] f \in {"Osaka", "Osaka1"} -> 2 [] OTHER -> Never]

MCSchedules == {Staggered}

E1(o, tx) == [origin |-> o, tx |-> tx]

MCBatches ==
  {<<E1("External", legacy), E1("Private", own), E1("External", dynamic)>>,
   <<E1("Local", legacy)>>}

Workers == Permutations(Task)
=============================================================================
