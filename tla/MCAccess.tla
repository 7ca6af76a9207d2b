------------------------------ MODULE MCAccess ------------------------------
(* Small instances of Access for TLC. *)
EXTENDS Access, TLC

CONSTANTS alpha, beta, secret, e1, e2

(* Each tenant has a user; the third e-mail is nobody's yet.               *)
TwoMembers == {[email |-> e1, tenant |-> alpha, password |-> secret],
               [email |-> e2, tenant |-> beta, password |-> secret]}

Symmetry == Permutations(Request) \cup Permutations(Visit) \cup Permutations(Scope)
=============================================================================
