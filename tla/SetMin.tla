------------------------------- MODULE SetMin -------------------------------
(* The least element of a non-empty set of numbers: what a search loop     *)
(* that counts upwards and stops at its first hit returns.                 *)
EXTENDS Naturals

Least(S) == CHOOSE x \in S : \A y \in S : x <= y
=============================================================================
