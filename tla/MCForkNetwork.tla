---------------------------- MODULE MCForkNetwork ----------------------------
(***************************************************************************)
(* Small instances of ForkNetwork.                                         *)
(***************************************************************************)
EXTENDS ForkNetwork

CONSTANTS n1, n2

\* A Berachain genesis file at time 1 whose forks are at the given times.
FileWith(prague, p1, p2, p3, p4, osaka, osaka1) ==
  [timestamp |-> 1, preCancunBlocks |-> {0}, shanghai |-> 0, cancun |-> 0,
   prague |-> prague, osaka |-> osaka, totalDifficulty |-> 0,
   mergeNetsplitBlock |-> Never, bpo |-> FALSE,
   berachain |->
     [prague1 |-> IF p1 = Never THEN Never
                  ELSE [time |-> p1, denominator |-> 48, minimumBaseFee |-> 2,
                        distributor |-> TRUE],
      prague2 |-> IF p2 = Never THEN Never ELSE [time |-> p2, minimumBaseFee |-> 1],
      prague3 |-> p3,
      prague4 |-> p4,
      osaka1  |-> IF osaka1 = Never THEN Never
                  ELSE [time |-> osaka1, minimumBaseFee |-> 3, minimumBlobBaseFee |-> 1]]]

Plain == FileWith(0, 2, 2, 3, 3, Never, Never)
Full  == FileWith(0, 0, 0, 2, 3, 3, 4)

\* Files with one field other than a fork time out of place.
OddFiles ==
  {[Full EXCEPT !.cancun = c] : c \in {1, Never}}
  \cup {[Full EXCEPT !.preCancunBlocks = b] : b \in {{}, {0, 3}}}
  \cup {[Full EXCEPT !.shanghai = t] : t \in {1, Never}}
  \cup {[Full EXCEPT !.totalDifficulty = d] : d \in {1, Never}}
  \cup {[Full EXCEPT !.mergeNetsplitBlock = b] : b \in {0, 1}}
  \cup {[Full EXCEPT !.bpo = TRUE], [Full EXCEPT !.berachain = Never],
        [Full EXCEPT !.berachain.prague1.denominator = 0],
        [Full EXCEPT !.berachain.prague1.distributor = FALSE],
        [Full EXCEPT !.berachain.osaka1.minimumBaseFee = 0],
        [Full EXCEPT !.berachain.osaka1.minimumBlobBaseFee = 0]}

Times2 == {Never, 0, 1, 2}

\* Every assignment of times to the seven forks, ordered or not.
EveryFile ==
  OddFiles \cup {FileWith(a, b, c, d, e, f, g) : a, b, c, d, e, f, g \in Times2}

NoRelease(g) == {}

\* Releases that announce a fork, move one that is still to come, or get a
\* past one wrong.
NetworkFiles ==
  {FileWith(0, 2, 2, Never, Never, Never, Never),
   FileWith(0, 2, 2, 3, Never, Never, Never),
   FileWith(0, 2, 2, 4, 4, Never, Never),
   FileWith(0, 2, 2, 3, 4, 5, 5),
   FileWith(0, 1, 2, 3, 3, 4, 4),
   FileWith(0, 0, 2, 3, Never, 4, Never)}

AnyRelease(g) == NetworkFiles \ {g}

LowFloor == {[Full EXCEPT !.berachain.prague2.minimumBaseFee = 5]}
=============================================================================
