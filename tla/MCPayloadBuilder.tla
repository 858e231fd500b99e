--------------------------- MODULE MCPayloadBuilder ---------------------------
(***************************************************************************)
(* Small instances of PayloadBuilder.                                      *)
(***************************************************************************)
EXTENDS PayloadBuilder, TLC

CONSTANTS alice, bob, carol, a0, a1, b0, b1, c0

\* Alice's first nonce is used in the parent state, and once Bob's first
\* transaction is in the block hers with that nonce no longer fits, while her
\* second does; Bob has blobs, and Carol's transaction is large and pays nothing.
Common == [sender |-> alice, nonce |-> 0, gasLimit |-> 1, gasUsed |-> 1, size |-> 1,
           tip |-> 1, blobs |-> 0, sidecar |-> "eip4844", valid |-> TRUE]

AllInfo ==
  a0 :> [Common EXCEPT !.gasLimit = 4]
  @@ a1 :> [Common EXCEPT !.nonce = 1, !.gasLimit = 3, !.gasUsed = 2, !.tip = 2, !.size = 2]
  @@ b0 :> [Common EXCEPT !.sender = bob, !.blobs = 1]
  @@ b1 :> [Common EXCEPT !.sender = bob, !.nonce = 1, !.blobs = 2, !.gasLimit = 2, !.tip = 0]
  @@ c0 :> [Common EXCEPT !.sender = carol, !.blobs = 1, !.size = 3, !.tip = 0, !.gasUsed = 0]

MCInfo == [tx \in Tx |-> AllInfo[tx]]

\* Bob's second transaction does not execute, Carol's sidecar is of PeerDAS.
OddInfo ==
  [tx \in Tx |-> CASE tx = b1 -> [AllInfo[tx] EXCEPT !.valid = FALSE, !.blobs = 0]
                   [] tx = c0 -> [AllInfo[tx] EXCEPT !.sidecar = "eip7594"]
                   [] OTHER   -> AllInfo[tx]]

MCStateNonce == alice :> 1 @@ bob :> 0 @@ carol :> 0

Plain == [osaka |-> FALSE, prague3 |-> FALSE, userMaxBlobs |-> None, awaitMissing |-> TRUE]

MCNetworks ==
  {[Plain EXCEPT !.osaka = TRUE], [Plain EXCEPT !.userMaxBlobs = 0],
   [Plain EXCEPT !.prague3 = TRUE, !.awaitMissing = FALSE]}

RacingNetworks == {[Plain EXCEPT !.osaka = TRUE, !.awaitMissing = FALSE]}
=============================================================================
