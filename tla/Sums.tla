------------------------------- MODULE Sums --------------------------------
(***************************************************************************)
(* The sum of a function over 1..n, written as a recursive function so     *)
(* that module SumsProofs can reason about it for every n.                 *)
(***************************************************************************)
EXTENDS Integers

Total(f, n) ==
  LET s[i \in 0..n] == IF i = 0 THEN 0 ELSE s[i-1] + f[i] IN s[n]

=============================================================================
