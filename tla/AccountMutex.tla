---------------------------- MODULE AccountMutex ----------------------------
(***************************************************************************)
(* What the per-account refresh lock promises: for every account a lock    *)
(* that one caller holds at a time, handed over only through a free lock,  *)
(* and never two locks at once for one caller.                             *)
(***************************************************************************)
CONSTANTS Callers, Accounts, None

VARIABLE holder   \* holder[a]: the caller that refreshes a, or None

Init == holder = [a \in Accounts |-> None]

Take(p, a) ==
    /\ holder[a] = None
    /\ \A b \in Accounts : holder[b] # p
    /\ holder' = [holder EXCEPT ![a] = p]

Release(p, a) ==
    /\ holder[a] = p
    /\ holder' = [holder EXCEPT ![a] = None]

Next == \E p \in Callers, a \in Accounts : Take(p, a) \/ Release(p, a)

Spec == Init /\ [][Next]_holder

=============================================================================
