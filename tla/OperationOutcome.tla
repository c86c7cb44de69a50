--------------------------- MODULE OperationOutcome ---------------------------
(***************************************************************************)
(* What the operation journal promises, without files, phases or queues:   *)
(* a key names at most one execution at a time; it is freed only once the  *)
(* outcome of that execution is known; and an execution said to have       *)
(* failed never has an effect.                                             *)
(***************************************************************************)
CONSTANTS Keys, Execs, None

VARIABLES
    holder,   \* the execution each key names
    fate,     \* what is known of each execution
    acted     \* whether an execution may have had an effect

vars == <<holder, fate, acted>>

Final == {"completed", "failed"}

Init == /\ holder = [k \in Keys |-> None]
        /\ fate = [e \in Execs |-> "unborn"]
        /\ acted = [e \in Execs |-> FALSE]

\* Keys may be forgotten in any step, as long as their outcome is known.
Free(S, h) == [k \in Keys |-> IF k \in S THEN None ELSE h[k]]
Freeable(f) == {k \in Keys : holder[k] = None \/ f[holder[k]] \in Final}

Begin(k, e) ==
    /\ holder[k] = None
    /\ fate[e] = "unborn"
    /\ fate' = [fate EXCEPT ![e] = "open"]
    /\ \E S \in SUBSET (Freeable(fate) \ {k}) :
           holder' = Free(S, [holder EXCEPT ![k] = e])
    /\ UNCHANGED acted

Act(e) ==
    /\ fate[e] = "open"
    /\ acted' = [acted EXCEPT ![e] = TRUE]
    /\ UNCHANGED <<holder, fate>>

Resolve(e, f) ==
    /\ fate[e] = "open"
    /\ f = "failed" => ~acted[e]
    /\ fate' = [fate EXCEPT ![e] = f]
    /\ \E S \in SUBSET Freeable(fate') : holder' = Free(S, holder)
    /\ UNCHANGED acted

Next == \E e \in Execs : \/ \E k \in Keys : Begin(k, e)
                         \/ Act(e)
                         \/ \E f \in Final : Resolve(e, f)

Spec == Init /\ [][Next]_vars
=============================================================================
