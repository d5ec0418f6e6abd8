------------------------------ MODULE MCGCHeap ------------------------------
(* TLC instances of GCHeap.                                                *)
EXTENDS GCHeap
=============================================================================
