----------------------------- MODULE MCRegistry -----------------------------
(* Instances of Registry for TLC: users, galleries and connections are      *)
(* interchangeable.                                                        *)
EXTENDS Registry, TLC

RegistrySymmetry ==
    Permutations(Users) \cup Permutations(Galleries) \cup Permutations(Conns)
=============================================================================
