-------------------------------- MODULE Sums --------------------------------
(***************************************************************************)
(* The sum of a function over a finite set, as the accounts of the modules *)
(* use it: what was debited, returned or bought, added up.                 *)
(***************************************************************************)
EXTENDS FiniteSetsExt

Sum(S, f) == MapThenSumSet(LAMBDA x : f[x], S)
=============================================================================
