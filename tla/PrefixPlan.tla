----------------------------- MODULE PrefixPlan -----------------------------
(***************************************************************************)
(* plan of tools/ci/linux-runtime-prefix-bisect-v1.py: which prefix of an  *)
(* ordered list of n objects to test next, from the verdicts known so far. *)
(* obs maps the prefixes that were tested to their verdicts.               *)
(***************************************************************************)
EXTENDS Naturals

Passes(obs) == {p \in DOMAIN obs : obs[p] = "PASS"}

Fails(obs) == {p \in DOMAIN obs : obs[p] = "FAIL"}

MaxPass(obs) == CHOOSE p \in Passes(obs) : \A q \in Passes(obs) : q <= p

MinFail(obs) == CHOOSE p \in Fails(obs) : \A q \in Fails(obs) : p <= q

NonMonotonic(obs) == Passes(obs) # {} /\ Fails(obs) # {} /\ MaxPass(obs) >= MinFail(obs)

(* An inconclusive verdict is no evidence: the same prefix is asked again. *)
Ask(obs, p) ==
  [status |-> IF p \in DOMAIN obs /\ obs[p] = "INCONCLUSIVE" THEN "RETRY" ELSE "NEXT",
   prefix |-> p]

Plan(n, obs) ==
  IF NonMonotonic(obs) THEN [status |-> "NON_MONOTONIC", prefix |-> MinFail(obs)]
  ELSE IF Passes(obs) = {} THEN Ask(obs, 0)
  ELSE IF Fails(obs) = {} THEN Ask(obs, n)
  ELSE IF MinFail(obs) = MaxPass(obs) + 1 THEN [status |-> "ISOLATED", prefix |-> MinFail(obs)]
  ELSE Ask(obs, (MaxPass(obs) + MinFail(obs)) \div 2)
=============================================================================
