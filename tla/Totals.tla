-------------------------------- MODULE Totals --------------------------------
(***************************************************************************)
(* Sums of natural or whole numbers: of sats over pools, receipts, rows    *)
(* and invoices.  TotalsProofs has what can be said of them.               *)
(***************************************************************************)
EXTENDS Integers, FiniteSets, FiniteSetsExt

\* The sum of the values of a function.
Total(f) == MapThenSumSet(LAMBDA x : f[x], DOMAIN f)

===============================================================================
