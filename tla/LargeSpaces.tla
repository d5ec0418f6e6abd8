---------------------------- MODULE LargeSpaces -----------------------------
(***************************************************************************)
(* The spaces that hold a single large object (GCHeap.cpp, G1GC.cpp).  The *)
(* heap registers every space, so that collectOld can unmark what is in    *)
(* it, and keeps a list of large spaces that the collector sweeps.  Only   *)
(* evacuation adds to that list: what allocateLarge_ creates is registered *)
(* and never swept.                                                        *)
(***************************************************************************)
EXTENDS Integers, Sequences, TLAPS

CONSTANT Space   \* spaces that are ever created, one large object in each

VARIABLES
  registered,    \* GCHeap::_spaces
  large,         \* GCHeap::_largeSpaces
  freed,         \* spaces given to FreeMemory
  live,          \* spaces whose object the program can reach
  phase,
  largeSize,     \* G1GC::_largeSize: length of the list when tracing starts
  index,         \* position in the list that is examined next
  used,          \* positions filled so far
  undefined      \* memory was used that does not belong to a list or a space

vars == <<registered, large, freed, live, phase, largeSize, index, used, undefined>>

Init ==
  /\ registered = {}
  /\ large = <<>>
  /\ freed = {}
  /\ live = {}
  /\ phase = "mutator"
  /\ largeSize = 0
  /\ index = 0
  /\ used = 0
  /\ undefined = FALSE

fresh == Space \ (registered \union freed)

(* allocateLarge_: addNewSpaceSized_ registers the space.                  *)
AllocateLarge(s) ==
  /\ phase = "mutator"
  /\ registered' = registered \union {s}
  /\ live' = live \union {s}
  /\ UNCHANGED <<large, freed, phase, largeSize, index, used, undefined>>

Forget(s) ==
  /\ phase = "mutator"
  /\ live' = live \ {s}
  /\ UNCHANGED <<registered, large, freed, phase, largeSize, index, used, undefined>>

(* G1GC::initializeLocals.                                                 *)
StartCollection ==
  /\ phase = "mutator"
  /\ phase' = "tracing"
  /\ largeSize' = Len(large)
  /\ UNCHANGED <<registered, large, freed, live, index, used, undefined>>

(* createLargeSpace_, for an object of the zone that has no room in the    *)
(* current space: on the list, too.                                        *)
EvacuateIntoLarge(s) ==
  /\ phase = "tracing"
  /\ registered' = registered \union {s}
  /\ large' = Append(large, s)
  /\ live' = live \union {s}
  /\ UNCHANGED <<freed, phase, largeSize, index, used, undefined>>

StartSweep ==
  /\ phase = "tracing"
  /\ phase' = "sweeping"
  /\ index' = 1
  /\ used' = 0
  /\ UNCHANGED <<registered, large, freed, live, largeSize, undefined>>

-----------------------------------------------------------------------------
(* sweepLargeSpaces, first loop.  The object of the space has been seen by *)
(* the trace if it is live; of a space that was freed before, whatever is  *)
(* mapped there now is read, or the process faults.                        *)
examined == large[index]

isSweeping == phase = "sweeping" /\ index <= largeSize

mayBeSeen   == examined \in live \/ examined \in freed
mayBeUnseen == examined \notin live

(* A space that is kept is written to large[used], after used was          *)
(* incremented: position used + 1 when positions count from 1.  Behind the *)
(* end of the vector the write is lost in its spare capacity, or destroys  *)
(* what is behind it.                                                      *)
KeepSpace ==
  /\ isSweeping
  /\ mayBeSeen
  /\ used' = used + 1
  /\ index' = index + 1
  /\ \/ /\ used' + 1 <= Len(large)
        /\ large' = [large EXCEPT ![used' + 1] = examined]
        /\ undefined' = (undefined \/ examined \in freed)
     \/ /\ used' + 1 > Len(large)
        /\ UNCHANGED large
        /\ undefined' \in {undefined \/ examined \in freed, TRUE}
  /\ UNCHANGED <<registered, freed, live, phase, largeSize>>

(* What FreeMemory unmaps besides the space: when that was freed before,   *)
(* another one may have been reserved at its address.                      *)
alsoUnmapped ==
  {{}} \union {{s} : s \in {r \in registered : examined \in freed}}

FreeSpace ==
  /\ isSweeping
  /\ mayBeUnseen
  /\ \E other \in alsoUnmapped : freed' = freed \union {examined} \union other
  /\ registered' = registered \ {examined}
  /\ index' = index + 1
  /\ undefined' = (undefined \/ examined \in freed)
  /\ UNCHANGED <<large, live, phase, largeSize, used>>

FaultOnSpace ==
  /\ isSweeping
  /\ examined \in freed
  /\ phase' = "halted"
  /\ UNCHANGED <<registered, large, freed, live, largeSize, index, used, undefined>>

(* Mutant: the second loop writes one position too far, as the first does. *)
KeepNewSpaceTooFar ==
  /\ phase = "sweeping"
  /\ index > largeSize
  /\ index <= Len(large)
  /\ used' = used + 1
  /\ large' = [i \in DOMAIN large |-> IF i = used' + 1 THEN examined ELSE large[i]]
  /\ index' = index + 1
  /\ UNCHANGED <<registered, freed, live, phase, largeSize, undefined>>

(* Second loop: the spaces that this collection created stay.              *)
KeepNewSpace ==
  /\ phase = "sweeping"
  /\ index > largeSize
  /\ index <= Len(large)
  /\ used' = used + 1
  /\ large' = [large EXCEPT ![used'] = examined]
  /\ index' = index + 1
  /\ UNCHANGED <<registered, freed, live, phase, largeSize, undefined>>

(* The rest of the list is cut off.                                        *)
FinishSweep ==
  /\ phase = "sweeping"
  /\ index > Len(large)
  /\ large' = SubSeq(large, 1, used)
  /\ phase' = "mutator"
  /\ index' = 0
  /\ used' = 0
  /\ largeSize' = 0
  /\ UNCHANGED <<registered, freed, live, undefined>>

-----------------------------------------------------------------------------
Next ==
  \/ \E s \in fresh : AllocateLarge(s) \/ EvacuateIntoLarge(s)
  \/ \E s \in live : Forget(s)
  \/ StartCollection
  \/ StartSweep
  \/ KeepSpace
  \/ FreeSpace
  \/ FaultOnSpace
  \/ KeepNewSpace
  \/ FinishSweep

Spec == Init /\ [][Next]_vars

-----------------------------------------------------------------------------
(* What a sweep leaves on the list are spaces whose object is in use, with *)
(* one exception: when it kept an older space, the first position has what *)
(* it had before, which may have been freed (SweptSpacesExist).  No other  *)
(* position is stale, although the first loop writes one position too far  *)
(* and then examines what it wrote: the second loop goes on where the last *)
(* space kept was written, and resize cuts off the rest.  A sweep that has *)
(* left the list, or used what was freed before, promises nothing more.    *)
keptNoOlder == used = Len(large) - largeSize

SweepLeavesLive ==
  [][phase = "sweeping" /\ phase' = "mutator" /\ ~undefined =>
       \A i \in DOMAIN large' : i > 1 \/ keptNoOlder => large'[i] \in live]_vars

(* The sweep examines only spaces that exist: each space that was freed    *)
(* has left the list (sweepLargeSpaces; its original keeps a space with    *)
(* "used := used + 1. large at: used put: s", NonMovingCollector.st).      *)
SweptSpacesExist == isSweeping => examined \notin freed

-----------------------------------------------------------------------------
(* The inductive invariant.  What was created by this collection and is    *)
(* not examined yet is in use, and so is every position that was filled:   *)
(* in the first loop these are 2 to used + 1, in the second 2 to used.     *)
ListTyped ==
  /\ large \in Seq(Space)
  /\ {largeSize, index, used} \subseteq Nat

TracedNewLive ==
  /\ largeSize <= Len(large)
  /\ \A i \in DOMAIN large : i > largeSize => large[i] \in live

SweepBounds ==
  /\ largeSize <= Len(large)
  /\ used < index
  /\ index <= Len(large) + 1

NewLive    == \A i \in DOMAIN large : i > largeSize /\ i >= index => large[i] \in live
FilledLive == \A i \in DOMAIN large : i \in 2 .. used => large[i] \in live
LastLive   == \A i \in DOMAIN large : index <= largeSize /\ i > 1 /\ i = used + 1 => large[i] \in live
FirstLive  == \A i \in DOMAIN large :
                 index > largeSize /\ used = index - largeSize - 1 /\ i \in 1 .. used => large[i] \in live

SweepInv ==
  /\ ListTyped
  /\ phase = "tracing" => TracedNewLive
  /\ phase = "sweeping" => SweepBounds
  /\ phase = "sweeping" /\ ~undefined => NewLive /\ FilledLive /\ LastLive /\ FirstLive

(* Writing a position of a list (large[used] = s) leaves the others alone, *)
(* and writing behind its end leaves the list alone.                       *)
LEMMA WritePosition ==
  ASSUME NEW S, NEW q \in Seq(S), NEW k, NEW e \in S
  PROVE  LET r == [q EXCEPT ![k] = e]
         IN  /\ r \in Seq(S) /\ Len(r) = Len(q) /\ DOMAIN r = DOMAIN q
             /\ \A i \in DOMAIN q : r[i] = IF i = k THEN e ELSE q[i]
<1>1. PICK n \in Nat : q \in [1 .. n -> S]
  BY SMT
<1>2. [q EXCEPT ![k] = e] \in [1 .. n -> S]
  BY <1>1
<1> QED
  BY <1>1, <1>2, SMT

THEOREM SweepsLeaveLive == Spec => SweepLeavesLive
<1>1. Init => SweepInv
  BY DEF Init, SweepInv, ListTyped
<1>2. SweepInv /\ [Next]_vars => SweepInv'
  <2> SUFFICES ASSUME SweepInv, [Next]_vars PROVE SweepInv'
    OBVIOUS
  <2> USE DEF SweepInv
  <2>1. ASSUME NEW s \in fresh, AllocateLarge(s) PROVE SweepInv'
    BY <2>1 DEF AllocateLarge, ListTyped
  <2>2. ASSUME NEW s \in fresh, EvacuateIntoLarge(s) PROVE SweepInv'
    <3>1. s \in Space /\ large \in Seq(Space) /\ large' = Append(large, s) /\ s \in live' /\ live \subseteq live'
      BY <2>2 DEF fresh, EvacuateIntoLarge, ListTyped
    <3>2. ListTyped' /\ phase' = "tracing"
      BY <2>2, <3>1 DEF EvacuateIntoLarge, ListTyped
    <3>3. TracedNewLive'
      BY <2>2, <3>1 DEF EvacuateIntoLarge, TracedNewLive, ListTyped
    <3> QED
      BY <3>2, <3>3
  <2>3. ASSUME NEW s \in live, Forget(s) PROVE SweepInv'
    BY <2>3 DEF Forget, ListTyped
  <2>4. CASE StartCollection
    BY <2>4 DEF StartCollection, ListTyped, TracedNewLive
  <2>5. CASE StartSweep
    BY <2>5 DEF StartSweep, ListTyped, TracedNewLive, SweepBounds, NewLive, FilledLive, LastLive, FirstLive
  <2>6. CASE KeepSpace
    <3>1. phase = "sweeping" /\ phase' = "sweeping" /\ index <= largeSize /\ UNCHANGED <<live, largeSize>>
          /\ used' = used + 1 /\ index' = index + 1
      BY <2>6 DEF KeepSpace, isSweeping
    <3>2. ListTyped /\ SweepBounds
      BY <3>1
    <3>3. examined \in Space
      BY <3>1, <3>2 DEF ListTyped, SweepBounds, examined
    <3>4. /\ Len(large') = Len(large) /\ large' \in Seq(Space) /\ DOMAIN large' = DOMAIN large
          /\ \A i \in DOMAIN large : large'[i] = IF i = used + 2 THEN examined ELSE large[i]
      <4>1. CASE large' = [large EXCEPT ![used + 2] = examined]
        BY <4>1, <3>2, <3>3, WritePosition DEF ListTyped
      <4>2. CASE used + 2 > Len(large) /\ UNCHANGED large
        BY <4>2, <3>2 DEF ListTyped
      <4>3. used' + 1 = used + 2
        BY <3>1, <3>2 DEF ListTyped
      <4> QED
        BY <2>6, <4>1, <4>2, <4>3 DEF KeepSpace
    <3>5. ListTyped' /\ SweepBounds'
      BY <3>1, <3>2, <3>4 DEF ListTyped, SweepBounds
    <3>6. ASSUME ~undefined' PROVE NewLive' /\ FilledLive' /\ LastLive' /\ FirstLive'
      <4>1. ~undefined /\ examined \in live
        BY <2>6, <3>6 DEF KeepSpace, mayBeSeen
      <4>2. \A i \in DOMAIN large : large'[i] = IF i = used + 2 THEN examined ELSE large[i]
        BY <3>4
      <4>3. NewLive /\ FilledLive /\ LastLive
        BY <4>1, <3>1
      <4>4. NewLive'
        BY <4>1, <4>2, <4>3, <3>1, <3>2, <3>4 DEF NewLive, ListTyped
      <4>5. FilledLive' /\ LastLive'
        BY <4>1, <4>2, <4>3, <3>1, <3>2, <3>4 DEF FilledLive, LastLive, ListTyped
      <4>6. FirstLive'
        BY <3>1, <3>2, <3>4 DEF FirstLive, ListTyped, SweepBounds
      <4> QED
        BY <4>4, <4>5, <4>6
    <3> QED
      BY <3>1, <3>5, <3>6
  <2>7. CASE FreeSpace
    <3>1. phase = "sweeping" /\ phase' = "sweeping" /\ index <= largeSize /\ index' = index + 1
          /\ UNCHANGED <<live, large, largeSize, used>> /\ (undefined => undefined')
      BY <2>7 DEF FreeSpace, isSweeping
    <3>2. ListTyped /\ SweepBounds
      BY <3>1
    <3>3. ListTyped' /\ SweepBounds'
      BY <3>1, <3>2 DEF ListTyped, SweepBounds
    <3>4. ASSUME ~undefined' PROVE NewLive' /\ FilledLive' /\ LastLive' /\ FirstLive'
      <4>1. NewLive /\ FilledLive /\ LastLive
        BY <3>1, <3>4
      <4>2. NewLive' /\ FilledLive' /\ LastLive'
        BY <3>1, <3>2, <4>1 DEF NewLive, FilledLive, LastLive, ListTyped
      <4>3. FirstLive'
        BY <3>1, <3>2 DEF FirstLive, ListTyped, SweepBounds
      <4> QED
        BY <4>2, <4>3
    <3> QED
      BY <3>1, <3>3, <3>4
  <2>8. CASE FaultOnSpace
    BY <2>8 DEF FaultOnSpace, ListTyped
  <2>9. CASE KeepNewSpace
    <3>1. phase = "sweeping" /\ phase' = "sweeping" /\ index > largeSize /\ index <= Len(large)
          /\ used' = used + 1 /\ index' = index + 1 /\ UNCHANGED <<live, largeSize, undefined>>
          /\ large' = [large EXCEPT ![used'] = examined]
      BY <2>9 DEF KeepNewSpace
    <3>2. ListTyped /\ SweepBounds
      BY <3>1
    <3>3. index \in DOMAIN large /\ examined = large[index] /\ examined \in Space
      BY <3>1, <3>2 DEF ListTyped, SweepBounds, examined
    <3>4. Len(large') = Len(large) /\ large' \in Seq(Space) /\ DOMAIN large' = DOMAIN large
      BY <3>1, <3>2, <3>3, WritePosition DEF ListTyped
    <3>5. ListTyped' /\ SweepBounds'
      BY <3>1, <3>2, <3>4 DEF ListTyped, SweepBounds
    <3>6. ASSUME ~undefined' PROVE NewLive' /\ FilledLive' /\ LastLive' /\ FirstLive'
      <4>1. NewLive /\ FilledLive /\ FirstLive
        BY <3>1, <3>6
      <4>2. examined \in live
        BY <3>1, <3>2, <3>3, <4>1 DEF NewLive, ListTyped
      <4>3. \A i \in DOMAIN large : large'[i] = IF i = used + 1 THEN examined ELSE large[i]
        BY <3>1, <3>2 DEF ListTyped
      <4>4. NewLive' /\ FilledLive'
        BY <3>1, <3>2, <3>4, <4>1, <4>2, <4>3 DEF NewLive, FilledLive, ListTyped
      <4>5. LastLive'
        BY <3>1, <3>2 DEF LastLive, ListTyped
      <4>6. FirstLive'
        <5> SUFFICES ASSUME NEW i \in DOMAIN large', used' = index' - largeSize' - 1, i \in 1 .. used'
                     PROVE  large'[i] \in live'
          BY DEF FirstLive
        <5>1. {used, index, largeSize} \subseteq Nat /\ used' = used + 1 /\ index' = index + 1 /\ largeSize' = largeSize
          BY <3>1, <3>2 DEF ListTyped
        <5>2. used = index - largeSize - 1 /\ (i = used + 1 \/ i \in 1 .. used)
          BY <5>1
        <5> QED
          BY <3>1, <3>4, <4>1, <4>2, <4>3, <5>2 DEF FirstLive
      <4> QED
        BY <4>4, <4>5, <4>6
    <3> QED
      BY <3>1, <3>5, <3>6
  <2>10. CASE FinishSweep
    <3>1. phase' = "mutator" /\ large' = SubSeq(large, 1, used) /\ {largeSize', index', used'} \subseteq Nat
      BY <2>10 DEF FinishSweep
    <3>2. ListTyped /\ SweepBounds
      BY <2>10 DEF FinishSweep
    <3>3. large' \in Seq(Space)
      BY <3>1, <3>2 DEF ListTyped, SweepBounds
    <3> QED
      BY <3>1, <3>3 DEF ListTyped
  <2>11. CASE UNCHANGED vars
    BY <2>11 DEF vars, ListTyped, TracedNewLive, SweepBounds, NewLive, FilledLive, LastLive, FirstLive
  <2> QED
    BY <2>1, <2>2, <2>3, <2>4, <2>5, <2>6, <2>7, <2>8, <2>9, <2>10, <2>11 DEF Next
<1>3. SweepInv /\ [Next]_vars =>
        [phase = "sweeping" /\ phase' = "mutator" /\ ~undefined =>
           \A i \in DOMAIN large' : i > 1 \/ keptNoOlder => large'[i] \in live]_vars
  <2> SUFFICES ASSUME SweepInv, Next, phase = "sweeping", phase' = "mutator", ~undefined,
                      NEW i \in DOMAIN large', i > 1 \/ keptNoOlder
               PROVE  large'[i] \in live
    BY DEF vars
  <2>1. FinishSweep
    BY DEF Next, AllocateLarge, EvacuateIntoLarge, Forget, StartCollection, StartSweep, KeepSpace, FreeSpace,
           FaultOnSpace, KeepNewSpace, isSweeping
  <2>2. ListTyped /\ SweepBounds /\ FilledLive /\ FirstLive
    BY DEF SweepInv
  <2>3. large' = SubSeq(large, 1, used) /\ index = Len(large) + 1
    BY <2>1, <2>2 DEF FinishSweep, ListTyped, SweepBounds
  <2>4. i \in DOMAIN large /\ i \in 1 .. used /\ large'[i] = large[i]
    BY <2>2, <2>3 DEF ListTyped, SweepBounds
  <2>5. CASE i > 1
    BY <2>2, <2>4, <2>5 DEF FilledLive, ListTyped
  <2>6. CASE keptNoOlder
    <3>1. Len(large) \in Nat /\ largeSize \in Nat /\ largeSize <= Len(large)
      BY <2>2 DEF ListTyped, SweepBounds
    <3>2. index > largeSize /\ used = index - largeSize - 1
      BY <3>1, <2>3, <2>6 DEF keptNoOlder
    <3> QED
      BY <3>2, <2>2, <2>4 DEF FirstLive
  <2> QED
    BY <2>5, <2>6
<1>4. QED
  BY <1>1, <1>2, <1>3, PTL DEF Spec, SweepLeavesLive
=============================================================================
