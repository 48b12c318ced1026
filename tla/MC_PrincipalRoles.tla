------------------------- MODULE MC_PrincipalRoles -------------------------
(***************************************************************************)
(* Small instances of PrincipalRoles.  Subjects, calls and pods are        *)
(* interchangeable in the specification and in all of its safety           *)
(* properties.                                                             *)
(***************************************************************************)
EXTENDS PrincipalRoles, TLC

Symmetry == Permutations(Subjects) \cup Permutations(Calls)
                \cup Permutations(Pods)
=============================================================================
