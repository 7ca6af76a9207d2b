----------------------------- MODULE MCScreening -----------------------------
(* Small instances of Screening for TLC. *)
EXTENDS Screening, TLC

CONSTANTS n1, n2

(* One process serves all attempts, or another one serves one of them. *)
AloneOrOneElsewhere ==
    {[a \in Attempt |-> IF a \in elsewhere THEN n2 ELSE n1] : elsewhere \in {{}, HighValue}}

Symmetry == Permutations(Attempt \ HighValue)
=============================================================================
