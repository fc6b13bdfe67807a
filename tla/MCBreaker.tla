------------------------------ MODULE MCBreaker ------------------------------
(* Two threads, four calls: two failures, a success and a reader suffice to  *)
(* interleave every pair of accesses.                                        *)
EXTENDS BreakerProps
MCClocks == {2, 4}
=============================================================================
