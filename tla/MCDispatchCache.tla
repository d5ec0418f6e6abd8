-------------------------- MODULE MCDispatchCache ---------------------------
(***************************************************************************)
(* Two behaviors, 2 inheriting from 1; a selector that is looked up, at    *)
(* two sites, and one that is an undermessage, at a third.                 *)
(***************************************************************************)
EXTENDS DispatchCache, TLC

CONSTANTS siteA, siteB, siteC

MCSite == {siteA, siteB, siteC}

MCLineage == (1 :> <<1>>) @@ (2 :> <<2, 1>>)

MCSelectorOf == (siteA :> 10) @@ (siteB :> 10) @@ (siteC :> 20)

(* The two sites of the selector 10 are alike.                             *)
SiteSymmetry == Permutations({siteA, siteB})
=============================================================================
