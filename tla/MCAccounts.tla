------------------------------ MODULE MCAccounts ------------------------------
(***************************************************************************)
(* An instance of Accounts for TLC: two addresses, one of which can be     *)
(* written in two ways.                                                    *)
(***************************************************************************)
EXTENDS Accounts, TLC

CONSTANTS small, capital, other, n1, n2, h1, h2, q1, q2

Normalized == small :> small @@ capital :> small @@ other :> other

Symmetry == Permutations({n1, n2}) \cup Permutations({h1, h2})
            \cup Permutations({q1, q2})

\* The answer given last is read by no action.
InProgress == <<tables, [r \in Requests |-> [req[r] EXCEPT !.status = 0]]>>
===============================================================================
