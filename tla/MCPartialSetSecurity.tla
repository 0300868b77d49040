------------------------ MODULE MCPartialSetSecurity ------------------------
(* Three validators, of which two take part in the consensus of the provider. *)
EXTENDS PartialSetSecurity, TLC

CONSTANTS v1, v2, v3

MCAddresses == <<v1, v2, v3>>

Choice(topN, setCap, powerCap, deny, priority, minStake, inactive) ==
    [Top_N |-> topN, ValidatorSetCap |-> setCap, ValidatorsPowerCap |-> powerCap,
     Allowlist |-> {}, Denylist |-> deny, Prioritylist |-> priority,
     MinStake |-> minStake, AllowInactiveVals |-> inactive]

\* Opt In with a cap on the set and a priority list; Opt In of everybody with
\* capped powers and a minimum stake; Top N of the active; Top N of all with
\* capped powers.
MCParamChoices ==
    { Choice(0, 1, 0, {}, {v3}, 0, FALSE),
      Choice(0, 0, 40, {}, {}, 3, TRUE),
      Choice(50, 1, 0, {v3}, {}, 0, FALSE),
      Choice(90, 0, 50, {}, {}, 0, TRUE) }

T(a, b, c) == (v1 :> a) @@ (v2 :> b) @@ (v3 :> c)

MCInitTokens == {T(8, 3, 2), T(2, 3, 8)}
=============================================================================
