--------------------------- MODULE FoldedSequences ---------------------------
(***************************************************************************)
(* What a loop over a sequence computes.                                   *)
(***************************************************************************)
EXTENDS Naturals, Sequences

(* FoldLeft, with the sequence and every intermediate result bound to a    *)
(* variable, so that TLC evaluates each once however often op mentions it. *)
Folded(op(_, _), base, seq) ==
    LET result(s) ==
            LET upTo[n \in 0..Len(s)] ==
                    IF n = 0 THEN base ELSE CHOOSE v \in {op(u, s[n]) : u \in {upTo[n - 1]}} : TRUE
            IN  upTo[Len(s)]
    IN  CHOOSE v \in {result(s) : s \in {seq}} : TRUE
=============================================================================
