------------------------------ MODULE MCGateway ------------------------------
(***************************************************************************)
(* Gateway on a small instance.                                            *)
(***************************************************************************)
EXTENDS Gateway, TLC

Symmetry == Permutations(Requests)

(***************************************************************************)
(* States with one view have the same future and agree on every property:  *)
(* how a forwarded request ended, unless with SERVICE_UNAVAILABLE, and     *)
(* what the service makes of it then, is read by nothing; nor, once its    *)
(* INCR has ended, is its time of arrival, but for the window.             *)
(***************************************************************************)
Ended == {r \in Requests : answer[r] \in {"RESPONSE", "GATEWAY_TIMEOUT", "BAD_GATEWAY", "DROPPED"}}

Observed ==
    <<now, redis, key, step, passed, Ended,
      [r \in Requests |-> IF step[r] = "incr" THEN at[r] ELSE WindowOf(at[r])],
      [r \in Requests \ Ended |-> <<answer[r], service[r]>>]>>
=============================================================================
