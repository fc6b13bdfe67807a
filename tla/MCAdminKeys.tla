---------------------------- MODULE MCAdminKeys ----------------------------
(* Small instances of the admin operations.                                *)
EXTENDS AdminKeysProps, TLC

AdminSymmetry == Permutations(Threads) \cup Permutations(Keys)
                   \cup Permutations(Teams)
=============================================================================
