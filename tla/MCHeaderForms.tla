----------------------------- MODULE MCHeaderForms -----------------------------
(***************************************************************************)
(* Networks for HeaderForms: Prague before Prague1, with it, and both from *)
(* genesis on.                                                             *)
(***************************************************************************)
EXTENDS HeaderForms

Network(prague, prague1) ==
  [f \in Fork |-> CASE f = "Prague" -> prague
                    [] f \in {"Prague1", "Prague2"} -> prague1
                    [] OTHER -> Never]

MCNetworks == {Network(1, 2), Network(1, 1), Network(0, 0)}
=============================================================================
