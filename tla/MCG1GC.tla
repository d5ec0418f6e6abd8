------------------------------ MODULE MCG1GC --------------------------------
(* Instances of G1GC for TLC: each .cfg gives a few ids, twice as many     *)
(* addresses (every object can be copied), and one or two roots, which are *)
(* interchangeable.                                                        *)
EXTENDS G1GC

RootSymmetry == Permutations(Root)
=============================================================================
