----------------------------- MODULE MCLauncher -----------------------------
(* Three pids: a gateway, the one before it, and a stranger.                *)
EXTENDS Launcher, TLC
PidSymmetry == Permutations(Pids)
=============================================================================
