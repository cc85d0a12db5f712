---------------------------- MODULE MCStoredRows ----------------------------
(* What concurrent handlers rewrite from copies they read earlier: account *)
(* rows and client keys.  One account, two requests and one editor, or one *)
(* key, two requests and one admin patch, with limits small enough that    *)
(* one request can reach them.  A behaviour runs one of the two.           *)
EXTENDS AccountRows, ApiKeyUsage, TLC

VARIABLE which

StoredInit == Init /\ KeyInit /\ which \in {"rows", "keys"}
StoredNext ==
    \/ which = "rows" /\ Next /\ UNCHANGED <<which, keyVars>>
    \/ which = "keys" /\ KeyNext /\ UNCHANGED <<which, vars>>
StoredSpec == StoredInit /\ [][StoredNext]_<<which, vars, keyVars>>

RequestSymmetry == Permutations(Requests)
=============================================================================
