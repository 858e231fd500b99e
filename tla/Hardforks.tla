------------------------------ MODULE Hardforks ------------------------------
(***************************************************************************)
(* The hardfork schedule of a Berachain node (src/hardforks/mod.rs).       *)
(*                                                                         *)
(* A schedule maps every timestamp-activated fork that the modelled code   *)
(* consults to its activation time, or to Never when the genesis file does *)
(* not configure it (ForkCondition::Never).  Shanghai and Cancun are       *)
(* active from time 0 on every Berachain network, and the block-activated  *)
(* forks from block 0, so neither appears here.                            *)
(***************************************************************************)
EXTENDS Integers

CONSTANT Never  \* the activation "time" of a fork that is not scheduled

Fork == {"Prague", "Prague1", "Prague2", "Prague3", "Prague4", "Osaka", "Osaka1"}

Schedule == [Fork -> Nat \cup {Never}]

(***************************************************************************)
(* ForkCondition::active_at_timestamp, applied to                          *)
(* ethereum_fork_activation or berachain_fork_activation of the fork.      *)
(***************************************************************************)
ActiveAt(s, fork, t) == s[fork] # Never /\ s[fork] <= t

IsPragueActive(s, t)  == ActiveAt(s, "Prague", t)
IsPrague1Active(s, t) == ActiveAt(s, "Prague1", t)
IsPrague2Active(s, t) == ActiveAt(s, "Prague2", t)
IsPrague4Active(s, t) == ActiveAt(s, "Prague4", t)
IsOsakaActive(s, t)   == ActiveAt(s, "Osaka", t)
IsOsaka1Active(s, t)  == ActiveAt(s, "Osaka1", t)

\* Prague3 is a window: it opens at its own time and Prague4 closes it.
IsPrague3Active(s, t) == ActiveAt(s, "Prague3", t) /\ ~IsPrague4Active(s, t)

\* Fork b, where it is scheduled, is scheduled no earlier than fork a.
NotBefore(s, a, b) ==
  s[b] # Never => s[a] # Never /\ s[a] <= s[b]

(***************************************************************************)
(* What From<Genesis> guarantees of every schedule it lets through: see    *)
(* GenesisConfig, which checks it of the acceptance code itself.           *)
(***************************************************************************)
OrderedSchedule(s) ==
  /\ s["Prague1"] # Never
  /\ s["Prague2"] # Never
  /\ NotBefore(s, "Prague", "Prague1")
  /\ NotBefore(s, "Prague1", "Prague2")
  /\ NotBefore(s, "Prague2", "Prague3")
  /\ NotBefore(s, "Prague3", "Prague4")
  /\ NotBefore(s, "Prague2", "Osaka")
  /\ s["Osaka"] # Never =>
       /\ s["Prague3"] # Never => s["Prague3"] <= s["Osaka"]
       /\ s["Prague4"] # Never => s["Prague4"] <= s["Osaka"]
  /\ NotBefore(s, "Osaka", "Osaka1")
=============================================================================
