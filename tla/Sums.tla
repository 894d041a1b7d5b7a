-------------------------------- MODULE Sums --------------------------------
(***************************************************************************)
(* The sum of w[1], ..., w[n], as a loop adds it up.                       *)
(***************************************************************************)
EXTENDS Integers

Sum(w, n) ==
  LET sum[i \in 0 .. n] == IF i = 0 THEN 0 ELSE sum[i - 1] + w[i]
  IN  sum[n]
=============================================================================
