------------------------------- MODULE MCBot --------------------------------
(***************************************************************************)
(* The run of Bot explores three kinds of history, chosen at the start:    *)
(* any callers over time, the commands and uploads of an authorized one,   *)
(* and a walk through the list.                                            *)
(***************************************************************************)
EXTENDS Bot

VARIABLE profile

MCAccounts == 1..5

Still ==
    /\ profile = "callers" =>
           /\ DOMAIN accounts = {} /\ h.work \in {"none", "info", "page"} /\ faults = 0 /\ ~h.fresh
           /\ h.target = 0
    /\ profile = "commands" =>
           /\ DOMAIN accounts \subseteq {1, 2} /\ h.target \in 0..2
           /\ h.work \notin {"list", "page"} /\ h.chat \in {"none", "home"}
           /\ h.work # "none" => h.verdict = "allowed"
    /\ profile = "pages" =>
           /\ h.work \in {"none", "list", "page"} /\ h.chat \in {"none", "home"}
           /\ h.work # "none" => h.verdict = "allowed"
           /\ faults <= 1

Within == profile' = profile /\ Still'
mcVars == <<vars, profile>>

MCInit ==
    /\ profile \in {"callers", "commands", "pages"}
    /\ Init /\ Still /\ DOMAIN accounts \in {1..n : n \in {0, 2, 5}}

MCSpec ==
    /\ MCInit
    /\ [][Next /\ Within]_mcVars
=============================================================================
