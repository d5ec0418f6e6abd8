--------------------------- MODULE MCLargeSpaces ----------------------------
(* LargeSpaces with a few interchangeable spaces.                          *)
EXTENDS LargeSpaces, TLC

SpaceSymmetry == Permutations(Space)
=============================================================================
