---------------------------- MODULE AdminAccessMC ----------------------------
(***************************************************************************)
(* Small instances of AdminAccess. Logins, commands and calls are model    *)
(* values, alike but for what they are given while they run.               *)
(***************************************************************************)
EXTENDS AdminAccess, TLC

Alike == Permutations(Logins) \cup Permutations(Commands) \cup Permutations(Calls)
=============================================================================
