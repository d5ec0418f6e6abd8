--------------------------- MODULE FoldInduction ---------------------------
(***************************************************************************)
(* Induction over the passes of a loop.  step and Holds are parameters:    *)
(* a proof about a loop takes an instance of this module with the body of  *)
(* the loop and what it maintains.  (context stands for what the body      *)
(* uses besides, and does not change.)                                     *)
(***************************************************************************)
EXTENDS FoldedSequences, WellFoundedInduction, TLAPS

CONSTANTS
  step(_, _, _),    \* the body: context, result so far, element |-> result
  Holds(_, _)       \* what it maintains: context, result so far

Loop(context, base, seq) == Folded(LAMBDA u, e : step(context, u, e), base, seq)

(* The least element of its complement shows that a set is all of Nat.     *)
LEMMA Induction ==
  ASSUME NEW S, 0 \in S, \A n \in S : n + 1 \in S
  PROVE  Nat \subseteq S
  <1>r. PICK R : R = {ss \in Nat \X Nat : ss[1] < ss[2]}
    OBVIOUS
  <1>1. IsWellFoundedOn(R, Nat)
    BY <1>r, NatLessThanWellFounded DEF OpToRel
  <1> SUFFICES ASSUME Nat \ S # {} PROVE FALSE
    OBVIOUS
  <1>2. \E x \in Nat \ S : \A y \in Nat \ S : ~(<<y, x>> \in R)
    BY <1>1, WFMin
  <1>3. PICK x \in Nat \ S : \A y \in Nat \ S : ~(<<y, x>> \in R)
    BY <1>2
  <1>4. x # 0 /\ x - 1 \in Nat /\ (x - 1) + 1 = x
    OBVIOUS
  <1>5. <<x - 1, x>> \in R
    BY <1>4, <1>r
  <1>6. x - 1 \in S
    BY <1>3, <1>4, <1>5
  <1> QED
    BY <1>4, <1>6

(* f records the results of the first n passes.                            *)
Records(context, base, seq, n, f) ==
  f = [k \in 0 .. n |-> IF k = 0 THEN base ELSE step(context, f[k - 1], seq[k])]

LEMMA Recorded ==
  ASSUME NEW context, NEW base, NEW seq, NEW n \in Nat
  PROVE  \E f : Records(context, base, seq, n, f)
  <1>S. PICK S : S = {m \in Nat : \E f : Records(context, base, seq, m, f)}
    OBVIOUS
  <1>1. 0 \in S
    <2>1. PICK f : f = [k \in 0 .. 0 |-> base]
      OBVIOUS
    <2>2. Records(context, base, seq, 0, f)
      BY <2>1 DEF Records
    <2> QED
      BY <2>2, <1>S
  <1>2. ASSUME NEW m \in S PROVE m + 1 \in S
    <2>1. m \in Nat /\ \E f : Records(context, base, seq, m, f)
      BY <1>S
    <2>2. PICK f : Records(context, base, seq, m, f)
      BY <2>1
    <2>3. PICK g : g = [k \in 0 .. m + 1 |->
                          IF k = m + 1 THEN step(context, f[m], seq[m + 1]) ELSE f[k]]
      OBVIOUS
    <2>4. f = [k \in 0 .. m |-> IF k = 0 THEN base ELSE step(context, f[k - 1], seq[k])]
      BY <2>2 DEF Records
    <2>5. \A k \in 0 .. m : f[k] = IF k = 0 THEN base ELSE step(context, f[k - 1], seq[k])
      BY <2>4
    <2>6. ASSUME NEW k \in 0 .. m + 1
          PROVE  g[k] = IF k = 0 THEN base ELSE step(context, g[k - 1], seq[k])
      <3>1. CASE k = m + 1
        <4>1. g[k] = step(context, f[m], seq[m + 1]) /\ k # 0 /\ k - 1 = m /\ g[m] = f[m]
          BY <2>1, <2>3, <3>1
        <4> QED
          BY <3>1, <4>1
      <3>2. CASE k # m + 1
        <4>1. k \in 0 .. m /\ g[k] = f[k]
          BY <2>1, <2>3, <3>2
        <4>2. k # 0 => k - 1 \in 0 .. m + 1 /\ k - 1 # m + 1
          BY <2>1, <4>1
        <4>3. k # 0 => g[k - 1] = f[k - 1]
          BY <2>3, <4>2
        <4> QED
          BY <2>5, <4>1, <4>3
      <3> QED
        BY <3>1, <3>2
    <2>7. Records(context, base, seq, m + 1, g)
      BY <2>3, <2>6 DEF Records
    <2> QED
      BY <2>1, <2>7, <1>S
  <1>3. n \in S
    BY <1>1, <1>2, Induction
  <1> QED
    BY <1>3, <1>S

(* Loop is the last of the results.                                        *)
LEMMA LoopRecorded ==
  ASSUME NEW context, NEW base, NEW seq, Len(seq) \in Nat
  PROVE  \E f : Records(context, base, seq, Len(seq), f) /\ Loop(context, base, seq) = f[Len(seq)]
  <1>1. PICK f : f = CHOOSE g : g = [n \in 0 .. Len(seq) |->
                       IF n = 0 THEN base
                       ELSE CHOOSE v \in {step(context, u, seq[n]) : u \in {g[n - 1]}} : TRUE]
    OBVIOUS
  <1>2. ASSUME NEW x PROVE (CHOOSE v \in {x} : TRUE) = x
    OBVIOUS
  <1>3. ASSUME NEW u, NEW e
        PROVE  (CHOOSE v \in {step(context, w, e) : w \in {u}} : TRUE) = step(context, u, e)
    <2>1. {step(context, w, e) : w \in {u}} = {step(context, u, e)}
      OBVIOUS
    <2> QED
      BY <2>1, <1>2
  <1>4. \E g : g = [n \in 0 .. Len(seq) |->
                      IF n = 0 THEN base
                      ELSE CHOOSE v \in {step(context, u, seq[n]) : u \in {g[n - 1]}} : TRUE]
    <2>1. PICK g : Records(context, base, seq, Len(seq), g)
      BY Recorded
    <2>2. g = [n \in 0 .. Len(seq) |-> IF n = 0 THEN base ELSE step(context, g[n - 1], seq[n])]
      BY <2>1 DEF Records
    <2>3. g = [n \in 0 .. Len(seq) |->
                 IF n = 0 THEN base
                 ELSE CHOOSE v \in {step(context, u, seq[n]) : u \in {g[n - 1]}} : TRUE]
      BY <2>2, <1>3
    <2> QED
      BY <2>3
  <1>5. Records(context, base, seq, Len(seq), f)
    BY <1>1, <1>3, <1>4 DEF Records
  <1>6. Loop(context, base, seq) = f[Len(seq)]
    BY <1>1, <1>2 DEF Loop, Folded
  <1> QED
    BY <1>5, <1>6

(* What holds before the loop and goes on from one pass to the next holds  *)
(* after the loop; at tells, for each number of passes, what has to hold.  *)
THEOREM LoopProceeds ==
  \A context, at, base, seq :
    /\ Len(seq) \in Nat
    /\ Holds(at[0], base)
    /\ \A u, i : i \in 1 .. Len(seq) /\ Holds(at[i - 1], u) =>
                   Holds(at[i], step(context, u, seq[i]))
    => Holds(at[Len(seq)], Loop(context, base, seq))
  <1> SUFFICES ASSUME NEW context, NEW at, NEW base, NEW seq, Len(seq) \in Nat,
                      Holds(at[0], base),
                      \A u, i : i \in 1 .. Len(seq) /\ Holds(at[i - 1], u) =>
                                  Holds(at[i], step(context, u, seq[i]))
               PROVE  Holds(at[Len(seq)], Loop(context, base, seq))
    OBVIOUS
  <1>1. PICK f : Records(context, base, seq, Len(seq), f)
                 /\ Loop(context, base, seq) = f[Len(seq)]
    BY LoopRecorded
  <1>2. \A k \in 0 .. Len(seq) : f[k] = IF k = 0 THEN base ELSE step(context, f[k - 1], seq[k])
    BY <1>1 DEF Records
  <1>S. PICK S : S = {k \in Nat : k \in 0 .. Len(seq) => Holds(at[k], f[k])}
    OBVIOUS
  <1>3. 0 \in S
    BY <1>2, <1>S
  <1>4. ASSUME NEW k \in S PROVE k + 1 \in S
    <2>1. k \in Nat /\ (k \in 0 .. Len(seq) => Holds(at[k], f[k]))
      BY <1>S
    <2>2. ASSUME k + 1 \in 0 .. Len(seq) PROVE Holds(at[k + 1], f[k + 1])
      <3>1. k \in 0 .. Len(seq) /\ k + 1 \in 1 .. Len(seq) /\ k + 1 # 0 /\ (k + 1) - 1 = k
        BY <2>1, <2>2
      <3>2. f[k + 1] = step(context, f[k], seq[k + 1])
        BY <1>2, <2>2, <3>1
      <3> QED
        BY <2>1, <3>1, <3>2
    <2> QED
      BY <2>1, <2>2, <1>S
  <1>5. Len(seq) \in S
    BY <1>3, <1>4, Induction
  <1> QED
    BY <1>1, <1>5, <1>S

(* What holds before the loop and is maintained by its body holds after    *)
(* the loop.                                                               *)
THEOREM LoopMaintains ==
  \A context, base, seq :
    /\ Len(seq) \in Nat
    /\ Holds(context, base)
    /\ \A u, i : i \in 1 .. Len(seq) /\ Holds(context, u) =>
                   Holds(context, step(context, u, seq[i]))
    => Holds(context, Loop(context, base, seq))
  <1> SUFFICES ASSUME NEW context, NEW base, NEW seq, Len(seq) \in Nat,
                      Holds(context, base),
                      \A u, i : i \in 1 .. Len(seq) /\ Holds(context, u) =>
                                  Holds(context, step(context, u, seq[i]))
               PROVE  Holds(context, Loop(context, base, seq))
    OBVIOUS
  <1>1. PICK at : at = [k \in 0 .. Len(seq) |-> context]
    OBVIOUS
  <1>2. at[0] = context /\ at[Len(seq)] = context
        /\ \A i \in 1 .. Len(seq) : at[i - 1] = context /\ at[i] = context
    BY <1>1
  <1> QED
    BY <1>2, LoopProceeds
=============================================================================
