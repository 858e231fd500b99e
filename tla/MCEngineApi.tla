----------------------------- MODULE MCEngineApi -----------------------------
(***************************************************************************)
(* Small instances of EngineApi.                                           *)
(***************************************************************************)
EXTENDS EngineApi, TLC

CONSTANTS k0, k1, r0, r1

Times(prague, prague1, osaka) ==
  [f \in Fork |-> CASE f = "Prague" -> prague
                    [] f = "Prague1" -> prague1
                    [] f = "Prague2" -> prague1
                    [] f = "Osaka" -> osaka
                    [] OTHER -> Never]

\* One fork after another, Prague and Prague1 at once, everything at genesis.
MCNetworks == {Times(0, 1, 2), Times(2, 2, Never), Times(0, 0, 0)}
=============================================================================
