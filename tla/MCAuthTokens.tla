----------------------------- MODULE MCAuthTokens -----------------------------
(***************************************************************************)
(* Instances of AuthTokens for TLC.                                        *)
(***************************************************************************)
EXTENDS AuthTokens, TLC

CONSTANTS r1, r2

Symmetry == Permutations({r1, r2})

\* Answers are not read by any action, so states may be identified without them.
Unanswered(q) == [q EXCEPT !.status = 0, !.given = {}]

InProgress == <<now, issued, revocations,
                [r \in Requests |-> Unanswered(req[r])]>>
===============================================================================
