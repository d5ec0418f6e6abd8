----------------------------- MODULE G1GC_proofs -----------------------------
(***************************************************************************)
(* Proofs about one pass of the collector, and that it implements the      *)
(* abstract heap, for every number of objects, addresses, roots and        *)
(* fields, whatever ephemerons there are.                                  *)
(***************************************************************************)
EXTENDS G1GC, FiniteSetTheorems, WellFoundedInduction, TLAPS

-----------------------------------------------------------------------------
(* The invariant.                                                          *)

(* What the stack of a suspended process refers to is not followed by a    *)
(* collection (SuspendedFramesValid does not hold), so nothing can be      *)
(* promised of a program that switches processes once one has ended.       *)
NoStaleFrame ==
  Switching => collections = 0 \/ (collections = 1 /\ phase # "mutator")

Collecting == phase # "mutator"

(* What has been kept so far, where it is now.                             *)
survivors == seen \ evacuated

Valid(ref) == ref \in DOMAIN heap \union {Nil}

(* What is still to be scanned: field f of the object at a is queued when  *)
(* it is in one of these spans.                                            *)
pending == ToSet(stack) \union (IF isScanning THEN {scanned} ELSE {})

queued(a, f) ==
  \E s \in pending : s.object = a /\ s.index <= f /\ f <= s.limit

SpansOK ==
  /\ stack \in Seq(Span)
  /\ scanned = Idle \/ scanned \in Span
  /\ \A s \in pending : s \in Span /\ s.object \in survivors /\ s.index <= s.limit

(* Which lists are in use in which phase.                                  *)
ListsOK ==
  /\ unchecked \union unreached \union rescued \subseteq survivors
  /\ phase \notin {"mutator", "roots"} => rootsLeft = {}
  /\ phase \in {"mutator", "strengthen", "release"} =>
       ClosureFollowed /\ unchecked = {} /\ unreached = {}
  /\ phase = "mutator" => evacuated = {} /\ DOMAIN forwarder = {} /\ rescued = {}

(* What the program can reach is there.                                    *)
GraphOK ==
  /\ \A r \in Root : Valid(roots[r])
  /\ \A a \in accessible, f \in Field : Valid(heap[a].fields[f])
  /\ Switching /\ ~Collecting =>
       /\ Valid(frame)
       /\ \A a \in DOMAIN heap, f \in Field : Valid(heap[a].fields[f])

ForwardedOK ==
  /\ Collecting => DOMAIN forwarder = evacuated \intersect seen
  /\ \A a \in DOMAIN forwarder : forwarder[a] \in survivors

(* What has still to be copied fits in.                                    *)
RoomOK == Collecting => Cardinality(evacuated \ seen) <= Cardinality(free)

(* The invariant of tracing: whatever a survivor refers to has survived,   *)
(* or will be found.                                                       *)
FieldsOK ==
  Collecting =>
    \A a \in survivors, f \in Field :
      \/ heap[a].fields[f] \in survivors \union {Nil}
      \/ queued(a, f)
      \/ f # 0 /\ a \in unchecked \union unreached

RootsOK ==
  Collecting => \A r \in Root \ rootsLeft : roots[r] \in survivors \union {Nil}

Inv ==
  /\ TypeOK
  /\ SpansOK
  /\ ListsOK
  /\ GraphOK
  /\ ForwardedOK
  /\ RoomOK
  /\ FieldsOK
  /\ RootsOK
  /\ OnlyReachableSeen

IInv ==
  /\ collections \in 0 .. MaxCollections
  /\ Collecting => collections # 0
  /\ NoStaleFrame => Inv

-----------------------------------------------------------------------------
(* What accessible means: it is the least closed set of objects.           *)

LEMMA AccessibleLeast ==
  \A S \in SUBSET DOMAIN heap : closed(S) => accessible \subseteq S
  BY DEF accessible

LEMMA AccessibleClosed == accessible \subseteq DOMAIN heap /\ closed(accessible)
  <1>1. accessible \subseteq DOMAIN heap
    BY DEF accessible
  <1>2. ASSUME NEW ref, newest(ref) \in DOMAIN heap,
               \A S \in SUBSET DOMAIN heap : closed(S) => newest(ref) \in S
        PROVE  newest(ref) \in accessible
    BY <1>2 DEF accessible
  <1>3. ASSUME NEW r \in Root, newest(roots[r]) \in DOMAIN heap
        PROVE  newest(roots[r]) \in accessible
    BY <1>2, <1>3 DEF closed, holds
  <1>4. ASSUME NEW a \in accessible, NEW f \in Field,
               newest(heap[a].fields[f]) \in DOMAIN heap
        PROVE  newest(heap[a].fields[f]) \in accessible
    <2>1. \A S \in SUBSET DOMAIN heap : closed(S) => a \in S
      BY <1>4 DEF accessible
    <2>2. \A S \in SUBSET DOMAIN heap : closed(S) => newest(heap[a].fields[f]) \in S
      BY <1>4, <2>1 DEF closed, holds
    <2> QED
      BY <1>2, <1>4, <2>2
  <1> QED
    BY <1>1, <1>3, <1>4 DEF closed, holds

LEMMA AccessibleLeastNext ==
  \A S \in SUBSET DOMAIN heap' : closed(S)' => accessible' \subseteq S
  <1>1. (\A S \in SUBSET DOMAIN heap : closed(S) => accessible \subseteq S)'
    BY AccessibleLeast, PTL
  <1> QED
    BY <1>1

LEMMA AccessibleClosedNext ==
  accessible' \subseteq DOMAIN heap' /\ closed(accessible)'
  <1>1. (accessible \subseteq DOMAIN heap /\ closed(accessible))'
    BY AccessibleClosed, PTL
  <1> QED
    BY <1>1

(* When objects move, and every reference is still to where the newest     *)
(* version of the same object is, what is accessible is where it moved.    *)
sameReference(m, old, new) ==
  \/ old \notin DOMAIN heap /\ new \notin DOMAIN heap'
  \/ old \in accessible /\ new = m[old]

LEMMA Moved ==
  ASSUME NEW m,
         \A x \in accessible : m[x] \in DOMAIN heap',
         \A r \in Root : sameReference(m, newest(roots[r]), newest(roots[r])'),
         \A x \in accessible, f \in Field :
           sameReference(m, newest(heap[x].fields[f]), newest(heap[m[x]].fields[f])')
  PROVE  accessible' = {m[x] : x \in accessible}
  <1> DEFINE image == {m[x] : x \in accessible}
             from  == {x \in accessible : m[x] \in accessible'}
  <1>1. accessible' \subseteq image
    <2>1. image \in SUBSET DOMAIN heap'
      OBVIOUS
    <2>2. ASSUME NEW S, S = image PROVE closed(S)'
      <3>1. \A r \in Root : newest(roots[r])' \in DOMAIN heap' => newest(roots[r])' \in S
        BY <2>2 DEF sameReference
      <3>2. ASSUME NEW y \in S, NEW f \in Field,
                   newest(heap[y].fields[f])' \in DOMAIN heap'
            PROVE  newest(heap[y].fields[f])' \in S
        BY <2>2, <3>2 DEF sameReference
      <3> QED
        BY <3>1, <3>2 DEF closed, holds
    <2> QED
      BY <2>1, <2>2, AccessibleLeastNext
  <1>2. accessible \subseteq from
    <2>1. from \in SUBSET DOMAIN heap
      BY AccessibleClosed
    <2>2. closed(from)
      <3>1. ASSUME NEW r \in Root, newest(roots[r]) \in DOMAIN heap
            PROVE  newest(roots[r]) \in from
        BY <3>1, AccessibleClosedNext DEF sameReference, closed, holds
      <3>2. ASSUME NEW x \in from, NEW f \in Field,
                   newest(heap[x].fields[f]) \in DOMAIN heap
            PROVE  newest(heap[x].fields[f]) \in from
        <4>1. m[x] \in accessible'
          OBVIOUS
        <4>2. newest(heap[m[x]].fields[f])' \in DOMAIN heap' =>
                newest(heap[m[x]].fields[f])' \in accessible'
          BY <4>1, AccessibleClosedNext DEF closed, holds
        <4> QED
          BY <3>2, <4>2 DEF sameReference
      <3> QED
        BY <3>1, <3>2 DEF closed, holds
    <2> QED
      BY <2>1, <2>2, AccessibleLeast
  <1> QED
    BY <1>1, <1>2

-----------------------------------------------------------------------------
(* Room for copies, and what a copy and a correction do to the heap.       *)

(* A set of addresses that is not empty has a least one.                   *)
LEMMA FreeAddress ==
  ASSUME free # {}
  PROVE  freeAddress \in free
  <1>1. free \subseteq Nat
    BY AddressAssumption DEF free
  <1>2. IsWellFoundedOn(OpToRel(<, Nat), Nat)
    BY NatLessThanWellFounded
  <1>3. PICK k \in free : \A j \in free : ~(<<j, k>> \in OpToRel(<, Nat))
    BY <1>1, <1>2, WFMin
  <1>4. \A j \in free : ~(j < k)
    BY <1>1, <1>3 DEF OpToRel
  <1>5. \A j \in free : k <= j
    BY <1>1, <1>4
  <1> QED
    BY <1>5 DEF freeAddress

LEMMA AddressesFinite ==
  ASSUME TypeOK
  PROVE  /\ IsFiniteSet(free) /\ IsFiniteSet(evacuated \ seen)
         /\ Cardinality(free) \in Nat /\ Cardinality(evacuated \ seen) \in Nat
  <1>1. free \subseteq Address /\ evacuated \ seen \subseteq Address
    BY DEF free, TypeOK
  <1> QED
    BY <1>1, AddressAssumption, FS_Subset, FS_CardinalityType

(* While something is left to be copied, there is a place for it.          *)
LEMMA RoomToCopy ==
  ASSUME TypeOK, RoomOK, Collecting, NEW a \in evacuated \ seen
  PROVE  freeAddress \in Address /\ freeAddress \notin DOMAIN heap
  <1>1. Cardinality(evacuated \ seen) # 0
    BY AddressesFinite, FS_EmptySet
  <1>2. free # {}
    BY <1>1, AddressesFinite, FS_EmptySet DEF RoomOK
  <1> QED
    BY <1>2, FreeAddress DEF free

(* The heap with the copy of a in it, if one has to be made.               *)
LEMMA Evacuated ==
  ASSUME TypeOK, ForwardedOK, RoomOK, Collecting, NEW a \in DOMAIN heap
  PROVE  /\ DOMAIN evacuate(a) = DOMAIN heap \union {resolved(a)}
         /\ \A x \in DOMAIN heap : evacuate(a)[x] = heap[x]
         /\ a \notin seen => evacuate(a)[resolved(a)] = heap[a]
         /\ a \in evacuated \ seen => resolved(a) \in Address \ DOMAIN heap
         /\ a \notin evacuated \ seen => resolved(a) = newest(a) /\ resolved(a) \in DOMAIN heap
         /\ resolved(a) \notin evacuated
  <1>1. CASE a \in evacuated \ seen
    <2>1. freeAddress \in Address /\ freeAddress \notin DOMAIN heap
      BY <1>1, RoomToCopy
    <2> QED
      BY <1>1, <2>1 DEF evacuate, resolved, copyOf, hasToEvacuate, isSeen, put, TypeOK
  <1>2. CASE a \notin evacuated \ seen
    BY <1>2 DEF evacuate, resolved, copyOf, hasToEvacuate, isSeen, newest,
                TypeOK, ForwardedOK, survivors, Collecting
  <1> QED
    BY <1>1, <1>2

withField(h, b, f, ref) == [h EXCEPT ![b].fields[f] = ref]

LEMMA Corrected ==
  ASSUME NEW h, NEW b \in DOMAIN h, NEW f \in Field, NEW ref \in Reference,
         \A x \in DOMAIN h : h[x] \in Object,
         NEW g, g = withField(h, b, f, ref)
  PROVE  /\ DOMAIN g = DOMAIN h
         /\ \A x \in DOMAIN h :
              /\ g[x] \in Object
              /\ g[x].special = h[x].special
              /\ \A k \in Field :
                   g[x].fields[k] = IF x = b /\ k = f THEN ref ELSE h[x].fields[k]
  BY DEF Object, withField

(* They are the same objects as before.                                   *)
LEMMA SameObjects ==
  ASSUME NEW h, NEW b \in DOMAIN h, NEW f \in Field, NEW ref,
         \A x \in DOMAIN h : h[x] \in Object
  PROVE  \A x \in DOMAIN h : /\ withField(h, b, f, ref)[x].id = h[x].id
                            /\ withField(h, b, f, ref)[x].special = h[x].special
  BY DEF Object, withField

-----------------------------------------------------------------------------
(* Where things are after the object at a was resolved to d.               *)
LEMMA Resolved ==
  ASSUME TypeOK, ForwardedOK, RoomOK, Collecting,
         NEW a \in DOMAIN heap, NEW corrected, NEW d, d = resolved(a),
         resolveObject(a, corrected),
         DOMAIN heap' = DOMAIN heap \union {d}, evacuated' = evacuated
  PROVE  /\ survivors' = survivors \union {d}
         /\ seen' = seen \union {a, d}
         /\ d \in DOMAIN heap' \ evacuated
         /\ newest(a)' = d /\ newest(d)' = d
         /\ a \notin seen => newest(a) = a
         /\ \A x \in DOMAIN heap :
              newest(x)' = IF newest(x) = a THEN d ELSE newest(x)
         /\ newest(Nil) = Nil /\ newest(Nil)' = Nil
         /\ DOMAIN forwarder' \subseteq evacuated
         /\ \A x \in DOMAIN forwarder' : forwarder'[x] \in survivors'
         /\ DOMAIN forwarder' = evacuated \intersect seen'
  <1>0. DOMAIN forwarder = evacuated \intersect seen
    BY DEF ForwardedOK
  <1>1. d \notin evacuated
    BY Evacuated
  <1>2. Nil \notin DOMAIN forwarder
    BY <1>0, AddressAssumption DEF TypeOK
  <1>3. \A x \in DOMAIN forwarder : forwarder[x] \in seen \ evacuated
    BY DEF ForwardedOK, survivors
  <1>4. CASE a \in evacuated \ seen
    <2>1. d = freeAddress /\ d \in Address \ DOMAIN heap
      BY <1>4, Evacuated DEF resolved, copyOf, isSeen, hasToEvacuate
    <2>2. /\ seen' = seen \union {a, d}
          /\ forwarder' = [b \in DOMAIN forwarder \union {a} |->
                             IF b = a THEN d ELSE forwarder[b]]
      BY <1>4, <2>1 DEF resolveObject, isSeen, hasToEvacuate
    <2>3. d # Nil /\ a # Nil
      BY <2>1, AddressAssumption DEF TypeOK
    <2> QED
      BY <1>0, <1>1, <1>2, <1>3, <1>4, <2>1, <2>2, <2>3 DEF survivors, newest, TypeOK
  <1>5. CASE a \notin evacuated \ seen
    <2>1. d = newest(a) /\ d \in DOMAIN heap
      BY <1>5, Evacuated
    <2>2. seen' = seen \union {a, d} /\ forwarder' = forwarder
      <3>1. CASE a \in seen
        BY <1>0, <1>3, <2>1, <3>1 DEF resolveObject, isSeen, newest
      <3>2. CASE a \notin seen
        BY <1>5, <3>2 DEF resolveObject, isSeen, hasToEvacuate
      <3> QED
        BY <3>1, <3>2
    <2> QED
      BY <1>0, <1>1, <1>2, <1>3, <1>5, <2>1, <2>2 DEF survivors, newest, TypeOK
  <1> QED
    BY <1>4, <1>5

(* What is accessible is where its newest version is.                      *)
LEMMA AccessibleIsNewest ==
  ASSUME TypeOK, ForwardedOK, Collecting, NEW x \in accessible
  PROVE  x \in DOMAIN heap /\ newest(x) = x
  <1> DEFINE S == DOMAIN heap \ DOMAIN forwarder
  <1>1. \A ref : newest(ref) \notin DOMAIN forwarder
    BY DEF newest, ForwardedOK, survivors, TypeOK
  <1>2. closed(S)
    BY <1>1 DEF closed, holds
  <1>3. x \in S
    BY <1>2, AccessibleLeast
  <1> QED
    BY <1>3 DEF newest

(* What a survivor or a root refers to is accessible.                      *)
LEMMA SurvivorsAccessible ==
  ASSUME TypeOK, ForwardedOK, OnlyReachableSeen, Collecting
  PROVE  survivors \subseteq accessible
  BY DEF OnlyReachableSeen, Collecting, survivors, newest, TypeOK

LEMMA ReferencesAccessible ==
  ASSUME TypeOK, ForwardedOK, Collecting, NEW ref \in DOMAIN heap,
         \/ \E r \in Root : roots[r] = ref
         \/ \E x \in accessible, f \in Field : heap[x].fields[f] = ref
  PROVE  newest(ref) \in accessible
  <1>1. newest(ref) \in DOMAIN heap
    BY DEF newest, ForwardedOK, survivors, TypeOK
  <1> QED
    BY <1>1, AccessibleClosed DEF closed, holds

(* After a was resolved to d, what is accessible is where its newest       *)
(* version is; references to a may have been corrected or not.             *)
reference(old, new, a, d) == new = old \/ (old = a /\ new = d)

LEMMA Relocated ==
  ASSUME Inv, Collecting, phase' = phase,
         NEW a \in DOMAIN heap, NEW corrected, NEW d, d = resolved(a),
         newest(a) \in accessible,
         resolveObject(a, corrected),
         DOMAIN heap' = DOMAIN heap \union {d}, evacuated' = evacuated,
         \A r \in Root : reference(roots[r], roots'[r], a, d),
         \A x \in DOMAIN heap, f \in Field :
           reference(heap[x].fields[f], heap'[x].fields[f], a, d),
         a \notin seen =>
           \A f \in Field : reference(heap[a].fields[f], heap'[d].fields[f], a, d)
  PROVE  /\ GraphOK' /\ OnlyReachableSeen'
         /\ accessible' = {IF x = a THEN d ELSE x : x \in accessible}
  <1>0. PICK m : m = [x \in DOMAIN heap |-> IF x = a THEN d ELSE x]
    OBVIOUS
  <1>1. TypeOK /\ ForwardedOK /\ RoomOK /\ GraphOK /\ OnlyReachableSeen
    BY DEF Inv
  <1>2. Nil \notin DOMAIN heap
    BY <1>1, AddressAssumption DEF TypeOK
  <1>3. /\ d \in DOMAIN heap' /\ newest(a)' = d /\ newest(d)' = d
        /\ newest(Nil) = Nil /\ newest(Nil)' = Nil
    BY <1>1, Resolved
  <1>4. \A x \in DOMAIN heap : newest(x) \in DOMAIN heap
    BY <1>1 DEF newest, ForwardedOK, survivors, TypeOK
  <1>5. \A x \in DOMAIN heap : newest(x)' = m[newest(x)]
    <2>1. \A x \in DOMAIN heap : newest(x)' = IF newest(x) = a THEN d ELSE newest(x)
      BY <1>1, Resolved
    <2> QED
      BY <1>4, <1>0, <2>1
  <1>6. Nil \notin DOMAIN heap'
    <2>1. DOMAIN heap \subseteq Address
      BY <1>1 DEF TypeOK
    <2>2. d \in Address
      BY <1>1, <2>1, Evacuated
    <2> QED
      BY <2>1, <2>2, AddressAssumption
  <1>8. ASSUME NEW old \in DOMAIN heap \union {Nil}, NEW new,
               reference(old, new, a, d),
               old # Nil => newest(old) \in accessible
        PROVE  sameReference(m, newest(old), newest(new)')
    <2>1. CASE old = Nil
      <3>1. new = Nil
        BY <1>2, <1>8, <2>1 DEF reference
      <3> QED
        BY <1>2, <1>3, <1>6, <2>1, <3>1 DEF sameReference
    <2>2. CASE old # Nil
      <3>1. newest(new)' = newest(old)'
        BY <1>3, <1>8 DEF reference
      <3>2. newest(new)' = m[newest(old)]
        BY <1>5, <1>8, <2>2, <3>1
      <3> QED
        BY <1>8, <2>2, <3>2 DEF sameReference
    <2> QED
      BY <2>1, <2>2
  <1>9. ASSUME NEW x \in accessible
        PROVE  /\ x \in DOMAIN heap
               /\ m[x] \in DOMAIN heap'
               /\ \A f \in Field : reference(heap[x].fields[f], heap'[m[x]].fields[f], a, d)
    <2>1. x \in DOMAIN heap /\ newest(x) = x
      BY <1>1, AccessibleIsNewest
    <2>2. m[x] = IF x = a THEN d ELSE x
      BY <1>0, <2>1
    <2>3. x = a /\ a \in seen => d = a
      BY <2>1, <1>1 DEF resolved, copyOf, isSeen, hasToEvacuate, newest, ForwardedOK
    <2> QED
      BY <2>1, <2>2, <2>3, <1>3
  <1>10. accessible' = {m[x] : x \in accessible}
    <2>1. ASSUME NEW r \in Root
          PROVE  sameReference(m, newest(roots[r]), newest(roots[r])')
      <3>1. roots[r] \in DOMAIN heap \union {Nil}
        BY <1>1 DEF GraphOK, Valid
      <3>2. roots[r] # Nil => newest(roots[r]) \in accessible
        BY <1>1, <3>1, ReferencesAccessible
      <3> QED
        BY <1>8, <3>1, <3>2
    <2>2. ASSUME NEW x \in accessible, NEW f \in Field
          PROVE  sameReference(m, newest(heap[x].fields[f]), newest(heap[m[x]].fields[f])')
      <3>1. heap[x].fields[f] \in DOMAIN heap \union {Nil}
        BY <1>1 DEF GraphOK, Valid
      <3>2. heap[x].fields[f] # Nil => newest(heap[x].fields[f]) \in accessible
        BY <1>1, <3>1, ReferencesAccessible
      <3> QED
        BY <1>8, <1>9, <3>1, <3>2
    <2>3. \A x \in accessible : m[x] \in DOMAIN heap'
      BY <1>9
    <2> QED
      BY <2>1, <2>2, <2>3, Moved
  <1>11. GraphOK'
    <2>1. ASSUME NEW r \in Root PROVE Valid(roots[r])'
      BY <1>1, <1>3 DEF GraphOK, Valid, reference
    <2>2. ASSUME NEW y \in accessible', NEW f \in Field PROVE Valid(heap[y].fields[f])'
      <3>1. PICK x \in accessible : y = m[x]
        BY <1>10
      <3>2. heap[x].fields[f] \in DOMAIN heap \union {Nil}
        BY <1>1 DEF GraphOK, Valid
      <3>3. reference(heap[x].fields[f], heap'[y].fields[f], a, d)
        BY <1>9, <3>1
      <3>4. heap'[y].fields[f] \in DOMAIN heap' \union {Nil}
        BY <1>3, <3>2, <3>3 DEF reference
      <3> QED
        BY <3>4 DEF Valid
    <2> QED
      BY <2>1, <2>2 DEF GraphOK, Collecting
  <1>12. OnlyReachableSeen'
    <2>1. ASSUME NEW c \in seen' PROVE newest(c)' \in accessible'
      <3>1. CASE c \in seen
        <4>1. newest(c) \in accessible /\ c \in DOMAIN heap
          BY <1>1, <3>1 DEF OnlyReachableSeen, Collecting, TypeOK
        <4> QED
          BY <1>5, <1>10, <4>1
      <3>2. CASE c \in {a, d}
        <4>1. newest(c)' = newest(a)'
          BY <1>3, <3>2
        <4> QED
          BY <1>5, <1>10, <4>1
      <3>3. seen' = seen \union {a, d}
        BY <1>1, Resolved
      <3> QED
        BY <3>1, <3>2, <3>3
    <2> QED
      BY <2>1 DEF OnlyReachableSeen
  <1>13. \A x \in accessible : m[x] = IF x = a THEN d ELSE x
    BY <1>0, <1>9
  <1> QED
    BY <1>10, <1>11, <1>12, <1>13

(* Every field of a survivor is still accounted for when those that were   *)
(* queued still are, or now refer to a survivor.                           *)
LEMMA FieldsKept ==
  ASSUME FieldsOK, Collecting, NEW d,
         survivors' = survivors \union {d},
         \A x \in survivors, k \in Field :
           \/ heap'[x].fields[k] \in survivors' \union {Nil}
           \/ /\ heap'[x].fields[k] = heap[x].fields[k]
              /\ queued(x, k) => queued(x, k)',
         unchecked \union unreached \subseteq unchecked' \union unreached',
         d \notin survivors =>
           \A k \in Field : queued(d, k)' \/ (k # 0 /\ d \in unchecked')
  PROVE  FieldsOK'
  <1>1. ASSUME NEW x \in survivors, NEW k \in Field
        PROVE  \/ heap'[x].fields[k] \in survivors' \union {Nil}
               \/ queued(x, k)'
               \/ k # 0 /\ x \in unchecked' \union unreached'
    BY <1>1 DEF FieldsOK
  <1>2. ASSUME NEW k \in Field, d \notin survivors
        PROVE  queued(d, k)' \/ (k # 0 /\ d \in unchecked' \union unreached')
    BY <1>2
  <1> QED
    BY <1>1, <1>2 DEF FieldsOK

(* An object that was copied, marked or neither, after it was resolved:    *)
(* its place, and what is left of the room for copies.                     *)
LEMMA RoomKept ==
  ASSUME TypeOK, ForwardedOK, RoomOK, Collecting,
         NEW a \in DOMAIN heap, NEW corrected,
         resolveObject(a, corrected),
         DOMAIN heap' = DOMAIN heap \union {resolved(a)}, evacuated' = evacuated
  PROVE  RoomOK'
  <1>1. seen' = seen \union {a, resolved(a)} /\ resolved(a) \notin evacuated
    BY Resolved
  <1>2. CASE a \in evacuated \ seen
    <2>1. resolved(a) \in free
      BY <1>2, Evacuated DEF free
    <2>2. free' = free \ {resolved(a)}
      BY DEF free
    <2>3. (evacuated \ seen)' = (evacuated \ seen) \ {a}
      BY <1>1
    <2>4. Cardinality(free') = Cardinality(free) - 1
      BY <2>1, <2>2, AddressesFinite, FS_RemoveElement
    <2>5. Cardinality((evacuated \ seen)') = Cardinality(evacuated \ seen) - 1
      <3>1. Cardinality((evacuated \ seen) \ {a}) = Cardinality(evacuated \ seen) - 1
        BY <1>2, AddressesFinite, FS_RemoveElement
      <3> QED
        BY <2>3, <3>1
    <2>6. Cardinality(evacuated \ seen) <= Cardinality(free)
      BY DEF RoomOK
    <2> QED
      BY <2>4, <2>5, <2>6, AddressesFinite DEF RoomOK
  <1>3. CASE a \notin evacuated \ seen
    <2>1. resolved(a) \in DOMAIN heap
      BY <1>3, Evacuated
    <2>2. free' = free
      BY <2>1 DEF free
    <2>3. (evacuated \ seen)' = evacuated \ seen
      BY <1>1, <1>3
    <2> QED
      BY <2>2, <2>3 DEF RoomOK, Collecting
  <1> QED
    BY <1>2, <1>3

-----------------------------------------------------------------------------
(* Steps of a collection that neither reach nor correct anything.          *)
LEMMA SameGraph ==
  ASSUME Inv, Collecting, Collecting',
         UNCHANGED <<roots, heap, forwarder, seen, evacuated>>
  PROVE  GraphOK' /\ ForwardedOK' /\ RoomOK' /\ OnlyReachableSeen'
  <1>1. accessible' = accessible
    BY DEF accessible, closed, holds, newest
  <1>2. GraphOK'
    BY <1>1 DEF Inv, GraphOK, Valid
  <1>3. ForwardedOK' /\ RoomOK'
    BY DEF Inv, ForwardedOK, RoomOK, survivors, free
  <1>4. OnlyReachableSeen'
    BY <1>1 DEF Inv, OnlyReachableSeen, Collecting, newest
  <1> QED
    BY <1>2, <1>3, <1>4

(* The part of TypeOK that does not follow from the others.                *)
BasicTypes ==
  /\ roots \in [Root -> Reference]
  /\ DOMAIN heap \subseteq Address
  /\ \A a \in DOMAIN heap : heap[a] \in Object
  /\ frame \in Reference
  /\ phase \in {"mutator", "roots", "check", "rescue", "strengthen", "release"}
  /\ evacuated \subseteq DOMAIN heap
  /\ seen \subseteq DOMAIN heap
  /\ DOMAIN forwarder \subseteq evacuated
  /\ rootsLeft \subseteq Root
  /\ done \in BOOLEAN
  /\ collections \in 0 .. MaxCollections

LEMMA TypesFollow == BasicTypes /\ SpansOK /\ ListsOK /\ ForwardedOK => TypeOK
  <1> SUFFICES ASSUME BasicTypes, SpansOK, ListsOK, ForwardedOK PROVE TypeOK
    OBVIOUS
  <1>1. survivors \subseteq DOMAIN heap \ evacuated
    BY DEF BasicTypes, survivors
  <1>2. \A k \in DOMAIN stack : stack[k] \in pending
    BY DEF pending, ToSet
  <1>3. \A k \in DOMAIN stack : stack[k].object \in DOMAIN heap \ evacuated
    BY <1>1, <1>2 DEF SpansOK
  <1>4. isScanning => scanned.object \in DOMAIN heap \ evacuated
    BY <1>1 DEF SpansOK, pending
  <1> QED
    BY <1>1, <1>3, <1>4 DEF BasicTypes, ListsOK, ForwardedOK, TypeOK

LEMMA TypesFollowNext == BasicTypes' /\ SpansOK' /\ ListsOK' /\ ForwardedOK' => TypeOK'
  BY TypesFollow, PTL

(* The spans that Append leaves.                                           *)
LEMMA Pushed ==
  ASSUME NEW S, NEW s \in Seq(S), NEW e \in S
  PROVE  Append(s, e) \in Seq(S) /\ ToSet(Append(s, e)) = ToSet(s) \union {e}
  <1>1. Append(s, e) \in Seq(S)
    OBVIOUS
  <1>2. DOMAIN Append(s, e) = DOMAIN s \union {Len(s) + 1}
    OBVIOUS
  <1>3. \A k \in DOMAIN s : Append(s, e)[k] = s[k] /\ k # Len(s) + 1
    OBVIOUS
  <1>4. Append(s, e)[Len(s) + 1] = e
    OBVIOUS
  <1> QED
    BY <1>1, <1>2, <1>3, <1>4 DEF ToSet

(* The spans that are left when the last one is taken.                     *)
LEMMA Popped ==
  ASSUME NEW S, NEW s \in Seq(S), s # <<>>
  PROVE  /\ Front(s) \in Seq(S) /\ Last(s) \in ToSet(s)
         /\ ToSet(Front(s)) \subseteq ToSet(s)
         /\ ToSet(s) \subseteq ToSet(Front(s)) \union {Last(s)}
  <1>1. Len(s) \in Nat \ {0} /\ DOMAIN s = 1 .. Len(s)
    OBVIOUS
  <1>2. Front(s) \in Seq(S) /\ Len(Front(s)) = Len(s) - 1
    BY <1>1 DEF Front
  <1>3. \A k \in 1 .. Len(s) - 1 : Front(s)[k] = s[k]
    BY <1>1 DEF Front
  <1>4. DOMAIN Front(s) = 1 .. Len(s) - 1
    BY <1>2
  <1>5. \A k \in DOMAIN s : k = Len(s) \/ k \in DOMAIN Front(s)
    BY <1>1, <1>4
  <1>6. DOMAIN Front(s) \subseteq DOMAIN s /\ Len(s) \in DOMAIN s
    BY <1>1, <1>4
  <1> QED
    BY <1>2, <1>3, <1>4, <1>5, <1>6 DEF ToSet, Last

(* A span of fields, and what is left of one.                              *)
LEMMA NewSpan ==
  ASSUME NEW a \in Address, NEW from \in {0, 1}, NEW to \in 0 .. LastField
  PROVE  /\ span(a, from, to) \in Span
         /\ span(a, from, to).object = a
         /\ span(a, from, to).index = from
         /\ span(a, from, to).limit = to
  BY DEF span, Span

LEMMA Advanced ==
  ASSUME NEW s \in Span
  PROVE  /\ [s EXCEPT !.index = @ + 1] \in Span
         /\ [s EXCEPT !.index = @ + 1].object = s.object
         /\ [s EXCEPT !.index = @ + 1].index = s.index + 1
         /\ [s EXCEPT !.index = @ + 1].limit = s.limit
  BY DEF Span

(* What is new on the stack when d was reached for the first time: all its *)
(* fields, or its behavior if it is special.                               *)
LEMMA NewObjectQueued ==
  ASSUME TypeOK, ForwardedOK, RoomOK, Collecting,
         NEW a \in DOMAIN heap, NEW corrected, NEW d, d = resolved(a),
         resolveObject(a, corrected), a \notin seen,
         NEW s, s = span(d, 0, strongPointersSize(heap[a]))
  PROVE  /\ s \in Span /\ s.object = d /\ s.index <= s.limit
         /\ s \in pending' =>
              \A k \in Field : queued(d, k)' \/ (k # 0 /\ d \in unchecked')
  <1>1. d \in Address
    BY Evacuated DEF TypeOK
  <1>2. strongPointersSize(heap[a]) \in 0 .. LastField
    BY FieldAssumption DEF strongPointersSize
  <1>3. s \in Span /\ s.object = d /\ s.index = 0 /\ s.limit = strongPointersSize(heap[a])
    BY <1>1, <1>2, NewSpan
  <1>4. heap[a].special => d \in unchecked'
    BY DEF resolveObject, isSeen
  <1>5. ASSUME s \in pending', NEW k \in Field
        PROVE  queued(d, k)' \/ (k # 0 /\ d \in unchecked')
    <2>1. CASE k <= strongPointersSize(heap[a])
      <3>1. s.index <= k /\ k <= s.limit
        BY <1>3, <2>1 DEF Field
      <3> QED
        BY <1>3, <1>5, <3>1 DEF queued
    <2>2. CASE ~(k <= strongPointersSize(heap[a]))
      <3>1. heap[a].special /\ k # 0
        BY <1>2, <2>2, FieldAssumption DEF strongPointersSize, Field
      <3> QED
        BY <1>4, <3>1
    <2> QED
      BY <2>1, <2>2
  <1> QED
    BY <1>2, <1>3, <1>5

LEMMA ScanRootKeeps ==
  ASSUME Inv, NEW r \in rootsLeft, ScanRoot(r)
  PROVE  Inv'
  <1>a. PICK a : a = roots[r]
    OBVIOUS
  <1>d. PICK d : d = resolved(a)
    OBVIOUS
  <1>1. /\ TypeOK /\ SpansOK /\ ListsOK /\ GraphOK /\ ForwardedOK /\ RoomOK
        /\ FieldsOK /\ RootsOK /\ OnlyReachableSeen
    BY DEF Inv
  <1>2. /\ phase = "roots" /\ phase' = phase /\ evacuated' = evacuated /\ scanned' = scanned
        /\ rootsLeft' = rootsLeft \ {r} /\ frame' = frame /\ collections' = collections
        /\ unreached' = unreached /\ rescued' = rescued /\ done' = done
    BY DEF ScanRoot, ephemeronVars
  <1>3. Collecting /\ Collecting' /\ r \in Root
    BY <1>1, <1>2 DEF Collecting, TypeOK
  <1>4. CASE a = Nil
    <2>1. UNCHANGED <<roots, heap, seen, forwarder, unchecked, stack>>
      BY <1>a, <1>4 DEF ScanRoot, markVars
    <2>2. GraphOK' /\ ForwardedOK' /\ RoomOK' /\ OnlyReachableSeen'
      BY <1>2, <1>3, <2>1, SameGraph
    <2>3. TypeOK' /\ SpansOK' /\ ListsOK' /\ FieldsOK'
      BY <1>1, <1>2, <2>1 DEF TypeOK, SpansOK, ListsOK, FieldsOK, survivors, pending,
         queued, isScanning, ClosureFollowed, Collecting
    <2>4. RootsOK'
      BY <1>a, <1>1, <1>2, <1>4, <2>1 DEF RootsOK, survivors, Collecting
    <2> QED
      BY <2>2, <2>3, <2>4 DEF Inv
  <1>5. CASE a # Nil
    <2>1. /\ roots' = [roots EXCEPT ![r] = d]
          /\ resolveObject(a, evacuate(a))
          /\ stack' = IF a \in seen THEN stack
                      ELSE Append(stack, span(d, 0, strongPointersSize(heap[a])))
      BY <1>a, <1>d, <1>5 DEF ScanRoot, isSeen
    <2>2. a \in DOMAIN heap
      BY <1>a, <1>1, <1>3, <1>5 DEF GraphOK, Valid
    <2>3. heap' = evacuate(a)
      BY <2>1 DEF resolveObject
    <2>4. /\ DOMAIN heap' = DOMAIN heap \union {d}
          /\ \A x \in DOMAIN heap : heap'[x] = heap[x]
          /\ a \notin seen => heap'[d] = heap[a]
          /\ d \in Address
      BY <1>d, <1>1, <1>3, <2>2, <2>3, Evacuated DEF TypeOK
    <2>5. /\ survivors' = survivors \union {d} /\ seen' = seen \union {a, d}
          /\ d \in DOMAIN heap' \ evacuated
          /\ \A x \in DOMAIN forwarder' : forwarder'[x] \in survivors'
          /\ DOMAIN forwarder' = evacuated \intersect seen'
      BY <1>d, <1>1, <1>2, <1>3, <2>1, <2>2, <2>4, Resolved
    <2>6. newest(a) \in accessible
      BY <1>a, <1>1, <1>3, <2>2, ReferencesAccessible
    <2>7. \A q \in Root : roots'[q] = IF q = r THEN d ELSE roots[q]
      BY <1>1, <2>1 DEF TypeOK
    <2>8. GraphOK' /\ OnlyReachableSeen'
      <3>1. \A q \in Root : reference(roots[q], roots'[q], a, d)
        BY <1>a, <2>7 DEF reference
      <3>2. \A x \in DOMAIN heap, f \in Field :
              reference(heap[x].fields[f], heap'[x].fields[f], a, d)
        BY <2>4 DEF reference
      <3>3. a \notin seen =>
              \A f \in Field : reference(heap[a].fields[f], heap'[d].fields[f], a, d)
        BY <2>4 DEF reference
      <3> QED
        BY <1>d, <1>2, <1>3, <2>1, <2>2, <2>4, <2>6, <3>1, <3>2, <3>3, Relocated
    <2>9. RoomOK'
      BY <1>d, <1>1, <1>2, <1>3, <2>1, <2>2, <2>4, RoomKept
    <2>10. ForwardedOK'
      BY <1>2, <2>5 DEF ForwardedOK
    <2>11. unchecked \subseteq unchecked' /\ unchecked' \subseteq unchecked \union {d}
      BY <1>d, <2>1 DEF resolveObject
    <2>12. RootsOK'
      BY <1>1, <1>2, <1>3, <2>5, <2>7 DEF RootsOK
    <2>13. /\ stack' \in Seq(Span)
           /\ pending \subseteq pending'
           /\ \A s \in pending' :
                s \in pending \/ (s \in Span /\ s.object = d /\ s.index <= s.limit)
           /\ a \notin seen =>
                \A k \in Field : queued(d, k)' \/ (k # 0 /\ d \in unchecked')
      <3>1. CASE a \in seen
        BY <1>1, <1>2, <2>1, <3>1 DEF pending, isScanning, SpansOK
      <3>2. CASE a \notin seen
        <4> DEFINE s == span(d, 0, strongPointersSize(heap[a]))
        <4>1. s \in Span /\ s.object = d /\ s.index <= s.limit
          BY <1>d, <1>1, <1>3, <2>1, <2>2, <3>2, NewObjectQueued
        <4>2. stack' \in Seq(Span) /\ ToSet(stack') = ToSet(stack) \union {s}
          BY <1>1, <2>1, <3>2, <4>1, Pushed DEF SpansOK
        <4>3. pending' = pending \union {s}
          BY <1>2, <4>2 DEF pending, isScanning
        <4>4. \A k \in Field : queued(d, k)' \/ (k # 0 /\ d \in unchecked')
          BY <1>d, <1>1, <1>3, <2>1, <2>2, <3>2, <4>3, NewObjectQueued
        <4> QED
          BY <4>1, <4>2, <4>3, <4>4
      <3> QED
        BY <3>1, <3>2
    <2>14. SpansOK'
      BY <1>1, <1>2, <2>5, <2>13 DEF SpansOK, isScanning
    <2>15. ListsOK'
      BY <1>1, <1>2, <2>5, <2>11 DEF ListsOK
    <2>16. FieldsOK'
      <3>1. \A x, k : queued(x, k) => queued(x, k)'
        BY <2>13 DEF queued
      <3>2. d \notin survivors => a \notin seen
        BY <1>d, <1>1, <1>3, <2>5 DEF resolved, copyOf, isSeen, hasToEvacuate, ForwardedOK,
           survivors
      <3>3. \A x \in survivors : heap'[x] = heap[x]
        BY <1>1, <2>4 DEF survivors, TypeOK
      <3>4. \A x \in survivors, k \in Field :
              /\ heap'[x].fields[k] = heap[x].fields[k]
              /\ queued(x, k) => queued(x, k)'
        BY <3>1, <3>3
      <3>5. unchecked \union unreached \subseteq unchecked' \union unreached'
        BY <1>2, <2>11
      <3> QED
        BY <1>1, <1>3, <2>5, <2>13, <3>2, <3>4, <3>5, FieldsKept
    <2>17. BasicTypes'
      <3>1. roots' \in [Root -> Reference]
        BY <1>1, <2>1, <2>4 DEF TypeOK, Reference
      <3>2. DOMAIN heap' \subseteq Address /\ \A x \in DOMAIN heap' : heap'[x] \in Object
        <4>1. d \in DOMAIN heap \/ heap'[d] = heap[a]
          BY <1>d, <1>1, <2>2, <1>3, <2>4, Evacuated
        <4> QED
          BY <1>1, <2>2, <2>4, <4>1 DEF TypeOK
      <3>3. evacuated' \subseteq DOMAIN heap' /\ seen' \subseteq DOMAIN heap'
        BY <1>1, <1>2, <2>2, <2>4, <2>5 DEF TypeOK
      <3> QED
        BY <1>1, <1>2, <2>5, <3>1, <3>2, <3>3 DEF TypeOK, BasicTypes
    <2>18. TypeOK'
      BY <2>10, <2>14, <2>15, <2>17, TypesFollowNext
    <2> QED
      BY <2>8, <2>9, <2>10, <2>12, <2>14, <2>15, <2>16, <2>18 DEF Inv
  <1> QED
    BY <1>4, <1>5

(* The span that is being scanned, and those that are left for later.      *)
LEMMA CurrentSpan ==
  ASSUME SpansOK, isScanning \/ stack # <<>>,
         NEW current, current = IF isScanning THEN scanned ELSE Last(stack),
         NEW rest, rest = IF isScanning THEN stack ELSE Front(stack)
  PROVE  /\ current \in Span /\ current \in pending
         /\ rest \in Seq(Span) /\ ToSet(rest) \subseteq pending
         /\ pending \subseteq ToSet(rest) \union {current}
  <1>1. CASE isScanning
    BY <1>1 DEF SpansOK, pending
  <1>2. CASE ~isScanning
    <2>1. pending = ToSet(stack) /\ stack \in Seq(Span) /\ stack # <<>>
      BY <1>2 DEF pending, SpansOK
    <2>2. /\ rest \in Seq(Span) /\ current \in pending
          /\ ToSet(rest) \subseteq pending /\ pending \subseteq ToSet(rest) \union {current}
      BY <1>2, <2>1, Popped
    <2> QED
      BY <2>2 DEF SpansOK
  <1> QED
    BY <1>1, <1>2

(* What is pending after a field was scanned that led to nothing new.      *)
LEMMA SpanAdvanced ==
  ASSUME NEW current \in Span, NEW rest \in Seq(Span),
         NEW next, next = [current EXCEPT !.index = @ + 1],
         scanned' = next, stack' = rest
  PROVE  /\ stack' \in Seq(Span) /\ scanned' \in Span
         /\ ToSet(rest) \subseteq pending'
         /\ current.index < current.limit => next \in pending'
         /\ \A s \in pending' :
              s \in ToSet(rest) \/ (s = next /\ s.index <= s.limit)
  <1>1. /\ next \in Span /\ next.index = current.index + 1 /\ next.limit = current.limit
        /\ current.index \in Nat /\ current.limit \in Nat
    BY Advanced, FieldAssumption DEF Span
  <1>2. isScanning' <=> next.index <= next.limit
    BY DEF isScanning
  <1>3. current.index < current.limit => isScanning'
    BY <1>1, <1>2
  <1>4. pending' = ToSet(rest) \union (IF isScanning' THEN {next} ELSE {})
    BY DEF pending
  <1> QED
    BY <1>1, <1>2, <1>3, <1>4

(* What is pending after a field was scanned that led to a new object.     *)
LEMMA SpanQueued ==
  ASSUME NEW current \in Span, NEW rest \in Seq(Span),
         NEW next, next = [current EXCEPT !.index = @ + 1],
         NEW new \in Span, new.index <= new.limit,
         scanned' = new, stack' = queueCurrent(current, rest)
  PROVE  /\ stack' \in Seq(Span) /\ scanned' \in Span
         /\ ToSet(rest) \subseteq pending' /\ new \in pending'
         /\ current.index < current.limit => next \in pending'
         /\ \A s \in pending' :
              s \in ToSet(rest) \/ s = new \/ (s = next /\ s.index <= s.limit)
  <1>1. /\ next \in Span /\ next.index = current.index + 1 /\ next.limit = current.limit
        /\ current.index \in Nat /\ current.limit \in Nat
    BY Advanced, FieldAssumption DEF Span
  <1>2. isScanning'
    BY DEF isScanning
  <1>3. pending' = ToSet(stack') \union {new}
    BY <1>2 DEF pending
  <1>4. CASE current.index < current.limit
    <2>1. stack' = Append(rest, next)
      BY <1>4 DEF queueCurrent
    <2>2. stack' \in Seq(Span) /\ ToSet(stack') = ToSet(rest) \union {next}
      BY <1>1, <2>1, Pushed
    <2>3. next.index <= next.limit
      BY <1>1, <1>4
    <2> QED
      BY <1>3, <2>2, <2>3
  <1>5. CASE ~(current.index < current.limit)
    BY <1>3, <1>5 DEF queueCurrent
  <1> QED
    BY <1>4, <1>5

LEMMA ScanFieldKeeps ==
  ASSUME Inv, ScanField
  PROVE  Inv'
  <1>c. PICK current : current = IF isScanning THEN scanned ELSE Last(stack)
    OBVIOUS
  <1>r. PICK rest : rest = IF isScanning THEN stack ELSE Front(stack)
    OBVIOUS
  <1>b. PICK b : b = current.object
    OBVIOUS
  <1>f. PICK f : f = current.index
    OBVIOUS
  <1>a. PICK a : a = heap[b].fields[f]
    OBVIOUS
  <1>n. PICK next : next = [current EXCEPT !.index = @ + 1]
    OBVIOUS
  <1>1. /\ TypeOK /\ SpansOK /\ ListsOK /\ GraphOK /\ ForwardedOK /\ RoomOK
        /\ FieldsOK /\ RootsOK /\ OnlyReachableSeen
    BY DEF Inv
  <1>2. /\ phase \in {"check", "rescue"} /\ phase' = phase /\ evacuated' = evacuated
        /\ rootsLeft' = rootsLeft /\ roots' = roots /\ frame' = frame
        /\ collections' = collections
        /\ unreached' = unreached /\ rescued' = rescued /\ done' = done
    BY DEF ScanField, ephemeronVars, programVars
  <1>3. Collecting /\ Collecting'
    BY <1>2 DEF Collecting
  <1>4. /\ current \in Span /\ current \in pending
        /\ rest \in Seq(Span) /\ ToSet(rest) \subseteq pending
        /\ pending \subseteq ToSet(rest) \union {current}
    BY <1>c, <1>r, <1>1, CurrentSpan DEF ScanField
  <1>5. b \in survivors /\ b \in DOMAIN heap /\ b \notin evacuated /\ b \in seen
    BY <1>b, <1>1, <1>4 DEF SpansOK, survivors, TypeOK
  <1>6. f \in Field /\ f <= current.limit
    BY <1>f, <1>1, <1>4, FieldAssumption DEF SpansOK, Span, Field
  <1>7. /\ next \in Span /\ next.object = b /\ next.index = f + 1
        /\ next.limit = current.limit
    BY <1>b, <1>f, <1>n, <1>4, Advanced
  <1>8. b \in accessible /\ a \in DOMAIN heap \union {Nil}
    BY <1>a, <1>1, <1>3, <1>5, <1>6, SurvivorsAccessible DEF GraphOK, Valid
  <1>9. ASSUME ToSet(rest) \subseteq pending',
               current.index < current.limit => next \in pending',
               NEW x, NEW k \in Field, queued(x, k), ~(x = b /\ k = f)
        PROVE  queued(x, k)'
    <2>1. PICK s \in pending : s.object = x /\ s.index <= k /\ k <= s.limit
      BY <1>9 DEF queued
    <2>2. CASE s \in ToSet(rest)
      BY <1>9, <2>1, <2>2 DEF queued
    <2>3. CASE s = current
      <3>1. f < k /\ k <= current.limit
        BY <1>b, <1>f, <1>9, <1>6, <2>1, <2>3, FieldAssumption DEF Field
      <3>2. current.index < current.limit
        BY <1>f, <1>4, <1>6, <3>1, FieldAssumption DEF Field, Span
      <3>3. next \in pending' /\ next.index <= k
        BY <1>6, <1>7, <1>9, <3>1, <3>2, FieldAssumption DEF Field
      <3> QED
        BY <1>b, <1>7, <2>1, <2>3, <3>1, <3>3 DEF queued
    <2> QED
      BY <1>4, <2>1, <2>2, <2>3
  <1>10. CASE a = Nil
    <2>1. UNCHANGED <<roots, heap, seen, forwarder, unchecked>>
      BY <1>a, <1>b, <1>c, <1>f, <1>2, <1>10 DEF ScanField, markVars
    <2>2. scanned' = next /\ stack' = rest
      BY <1>a, <1>b, <1>c, <1>f, <1>n, <1>r, <1>10 DEF ScanField
    <2>3. /\ stack' \in Seq(Span) /\ scanned' \in Span
          /\ ToSet(rest) \subseteq pending'
          /\ current.index < current.limit => next \in pending'
          /\ \A s \in pending' : s \in ToSet(rest) \/ (s = next /\ s.index <= s.limit)
      BY <1>n, <1>4, <2>2, SpanAdvanced
    <2>4. survivors' = survivors
      BY <1>2, <2>1 DEF survivors
    <2>5. GraphOK' /\ ForwardedOK' /\ RoomOK' /\ OnlyReachableSeen'
      BY <1>2, <1>3, <2>1, SameGraph
    <2>6. SpansOK'
      BY <1>1, <1>4, <1>5, <1>7, <2>3, <2>4 DEF SpansOK
    <2>7. ListsOK' /\ RootsOK'
      BY <1>1, <1>2, <1>3, <2>1, <2>4 DEF ListsOK, RootsOK
    <2>8. FieldsOK'
      <3>1. ASSUME NEW x \in survivors, NEW k \in Field
            PROVE  \/ heap'[x].fields[k] \in survivors' \union {Nil}
                   \/ /\ heap'[x].fields[k] = heap[x].fields[k]
                      /\ queued(x, k) => queued(x, k)'
        BY <1>a, <1>9, <1>10, <2>1, <2>3
      <3> QED
        BY <1>1, <1>2, <1>3, <1>5, <2>1, <2>4, <3>1, FieldsKept
    <2>9. TypeOK'
      <3>1. BasicTypes'
        BY <1>1, <1>2, <2>1 DEF TypeOK, BasicTypes
      <3> QED
        BY <2>5, <2>6, <2>7, <3>1, TypesFollowNext
    <2> QED
      BY <2>5, <2>6, <2>7, <2>8, <2>9 DEF Inv
  <1>11. CASE a # Nil
    <2>d. PICK d : d = resolved(a)
      OBVIOUS
    <2>1. /\ resolveObject(a, [evacuate(a) EXCEPT ![b].fields[f] = d])
          /\ IF a \in seen
             THEN scanned' = next /\ stack' = rest
             ELSE /\ scanned' = span(d, 0, strongPointersSize(heap[a]))
                  /\ stack' = queueCurrent(current, rest)
      BY <1>a, <1>b, <1>c, <1>f, <1>n, <1>r, <2>d, <1>11 DEF ScanField, isSeen
    <2>2. a \in DOMAIN heap
      BY <1>8, <1>11
    <2>3. /\ DOMAIN evacuate(a) = DOMAIN heap \union {d}
          /\ \A x \in DOMAIN heap : evacuate(a)[x] = heap[x]
          /\ a \notin seen => evacuate(a)[d] = heap[a]
          /\ d \in DOMAIN heap => a \notin evacuated \ seen
          /\ d \in DOMAIN heap \/ evacuate(a)[d] = heap[a]
          /\ d \in Address
      BY <2>d, <1>1, <1>3, <2>2, Evacuated DEF TypeOK
    <2>4. \A x \in DOMAIN evacuate(a) : evacuate(a)[x] \in Object
      BY <1>1, <2>2, <2>3 DEF TypeOK
    <2>5. /\ DOMAIN heap' = DOMAIN heap \union {d}
          /\ \A x \in DOMAIN heap' : heap'[x] \in Object
          /\ \A x \in DOMAIN heap', k \in Field :
               heap'[x].fields[k] =
                 IF x = b /\ k = f THEN d ELSE evacuate(a)[x].fields[k]
      <3>1. heap' = withField(evacuate(a), b, f, d)
        BY <2>1 DEF resolveObject, withField
      <3>2. b \in DOMAIN evacuate(a) /\ d \in Reference
        BY <1>5, <2>3 DEF Reference
      <3>3. PICK h : h = evacuate(a)
        OBVIOUS
      <3>4. PICK g : g = withField(h, b, f, d)
        OBVIOUS
      <3>5. /\ DOMAIN g = DOMAIN h
            /\ \A x \in DOMAIN h :
                 /\ g[x] \in Object
                 /\ \A k \in Field :
                      g[x].fields[k] = IF x = b /\ k = f THEN d ELSE h[x].fields[k]
        BY <1>6, <2>4, <3>2, <3>3, <3>4, Corrected
      <3> QED
        BY <2>3, <3>1, <3>3, <3>4, <3>5
    <2>6. /\ survivors' = survivors \union {d} /\ seen' = seen \union {a, d}
          /\ d \in DOMAIN heap' \ evacuated
          /\ \A x \in DOMAIN forwarder' : forwarder'[x] \in survivors'
          /\ DOMAIN forwarder' = evacuated \intersect seen'
      BY <2>d, <1>1, <1>2, <1>3, <2>1, <2>2, <2>5, Resolved
    <2>7. newest(a) \in accessible
      BY <1>a, <1>1, <1>3, <1>6, <1>8, <2>2, ReferencesAccessible
    <2>8. GraphOK' /\ OnlyReachableSeen'
      <3>1. \A q \in Root : reference(roots[q], roots'[q], a, d)
        BY <1>2 DEF reference
      <3>2. \A x \in DOMAIN heap, k \in Field :
              reference(heap[x].fields[k], heap'[x].fields[k], a, d)
        BY <1>a, <2>3, <2>5 DEF reference
      <3>3. a \notin seen =>
              \A k \in Field : reference(heap[a].fields[k], heap'[d].fields[k], a, d)
        <4>1. d = b => d \in seen /\ d \in DOMAIN heap
          BY <1>5
        <4>2. a \notin seen /\ d \in DOMAIN heap => d = a
          BY <2>d, <2>3 DEF resolved, isSeen, hasToEvacuate
        <4>3. a \notin seen => d # b
          BY <4>1, <4>2
        <4> QED
          BY <2>3, <2>5, <4>3 DEF reference
      <3> QED
        BY <2>d, <1>2, <1>3, <2>1, <2>2, <2>5, <2>7, <3>1, <3>2, <3>3, Relocated
    <2>9. RoomOK'
      BY <2>d, <1>1, <1>2, <1>3, <2>1, <2>2, <2>5, RoomKept
    <2>10. ForwardedOK'
      BY <1>2, <2>6 DEF ForwardedOK
    <2>11. unchecked \subseteq unchecked' /\ unchecked' \subseteq unchecked \union {d}
      BY <2>d, <2>1 DEF resolveObject
    <2>12. RootsOK'
      BY <1>1, <1>2, <1>3, <2>6 DEF RootsOK
    <2>13. /\ stack' \in Seq(Span) /\ scanned' \in Span
           /\ ToSet(rest) \subseteq pending'
           /\ current.index < current.limit => next \in pending'
           /\ \A s \in pending' :
                \/ s \in pending
                \/ s = next /\ s.index <= s.limit
                \/ s \in Span /\ s.object = d /\ s.index <= s.limit
           /\ a \notin seen =>
                \A k \in Field : queued(d, k)' \/ (k # 0 /\ d \in unchecked')
      <3>1. CASE a \in seen
        BY <1>n, <1>4, <2>1, <3>1, SpanAdvanced
      <3>2. CASE a \notin seen
        <4>s. PICK s : s = span(d, 0, strongPointersSize(heap[a]))
          OBVIOUS
        <4>1. s \in Span /\ s.object = d /\ s.index <= s.limit
          BY <4>s, <2>d, <1>1, <1>3, <2>1, <2>2, <3>2, NewObjectQueued
        <4>2. /\ stack' \in Seq(Span) /\ scanned' \in Span
              /\ ToSet(rest) \subseteq pending' /\ s \in pending'
              /\ current.index < current.limit => next \in pending'
              /\ \A t \in pending' :
                   t \in ToSet(rest) \/ t = s \/ (t = next /\ t.index <= t.limit)
          BY <4>s, <1>n, <1>4, <2>1, <3>2, <4>1, SpanQueued
        <4>3. \A k \in Field : queued(d, k)' \/ (k # 0 /\ d \in unchecked')
          BY <4>s, <2>d, <1>1, <1>3, <2>1, <2>2, <3>2, <4>2, NewObjectQueued
        <4> QED
          BY <1>4, <4>1, <4>2, <4>3
      <3> QED
        BY <3>1, <3>2
    <2>14. SpansOK'
      BY <1>1, <1>2, <1>5, <1>7, <2>6, <2>13 DEF SpansOK
    <2>15. ListsOK'
      BY <1>1, <1>2, <2>6, <2>11 DEF ListsOK
    <2>16. FieldsOK'
      <3>1. d \notin survivors => a \notin seen
        BY <2>d, <1>1, <1>3, <2>6 DEF resolved, copyOf, isSeen, hasToEvacuate, ForwardedOK,
           survivors
      <3>2. ASSUME NEW x \in survivors, NEW k \in Field
            PROVE  \/ heap'[x].fields[k] \in survivors' \union {Nil}
                   \/ /\ heap'[x].fields[k] = heap[x].fields[k]
                      /\ queued(x, k) => queued(x, k)'
        <4>1. x \in DOMAIN heap
          BY <1>1 DEF survivors, TypeOK
        <4> QED
          BY <1>9, <2>3, <2>5, <2>6, <2>13, <4>1
      <3>3. unchecked \union unreached \subseteq unchecked' \union unreached'
        BY <1>2, <2>11
      <3> QED
        BY <1>1, <1>3, <2>6, <2>13, <3>1, <3>2, <3>3, FieldsKept
    <2>17. TypeOK'
      <3>1. BasicTypes'
        BY <1>1, <1>2, <2>2, <2>3, <2>5, <2>6 DEF TypeOK, BasicTypes
      <3> QED
        BY <2>10, <2>14, <2>15, <3>1, TypesFollowNext
    <2> QED
      BY <2>8, <2>9, <2>10, <2>12, <2>14, <2>15, <2>16, <2>17 DEF Inv
  <1> QED
    BY <1>10, <1>11

-----------------------------------------------------------------------------
(* Steps between closures: they move ephemerons between lists, and queue   *)
(* the fields of one of them.                                              *)
LEMMA NothingPending ==
  ASSUME ClosureFollowed
  PROVE  pending = {} /\ \A x, k : ~queued(x, k)
  BY DEF ClosureFollowed, pending, queued, ToSet

LEMMA WeaksQueued ==
  ASSUME SpansOK, ClosureFollowed, NEW e \in Address, followEphemeronWeaks(e)
  PROVE  /\ stack' \in Seq(Span) /\ scanned' = scanned
         /\ \A s \in pending' : s \in Span /\ s.object = e /\ s.index <= s.limit
         /\ \A k \in Field : k # 0 => queued(e, k)'
  <1>s. PICK s : s = span(e, 1, LastField)
    OBVIOUS
  <1>1. s \in Span /\ s.object = e /\ s.index = 1 /\ s.limit = LastField
    BY <1>s, NewSpan, FieldAssumption
  <1>2. stack' = <<s>> /\ scanned' = scanned
    BY <1>s DEF followEphemeronWeaks, Key
  <1>3. ~isScanning'
    BY <1>2 DEF ClosureFollowed, isScanning
  <1>4. pending' = {s}
    BY <1>2, <1>3 DEF pending, ToSet
  <1>5. ASSUME NEW k \in Field, k # 0
        PROVE  queued(e, k)'
    BY <1>1, <1>4, <1>5, FieldAssumption DEF queued, Field
  <1> QED
    BY <1>1, <1>2, <1>4, <1>5, FieldAssumption

LEMMA RootsScannedKeeps ==
  ASSUME Inv, RootsScanned
  PROVE  Inv'
  <1>1. /\ TypeOK /\ SpansOK /\ ListsOK /\ GraphOK /\ ForwardedOK /\ RoomOK
        /\ FieldsOK /\ RootsOK /\ OnlyReachableSeen
    BY DEF Inv
  <1>2. /\ phase = "roots" /\ phase' = "check" /\ done' = TRUE /\ rootsLeft = {}
        /\ UNCHANGED <<roots, frame, heap, seen, forwarder, unchecked, unreached, rescued,
                       evacuated, stack, scanned, rootsLeft, collections>>
    BY DEF RootsScanned, programVars, markVars
  <1>3. Collecting /\ Collecting'
    BY <1>2 DEF Collecting
  <1>4. GraphOK' /\ ForwardedOK' /\ RoomOK' /\ OnlyReachableSeen'
    BY <1>2, <1>3, SameGraph
  <1>5. survivors' = survivors /\ pending' = pending /\ \A x, k : queued(x, k)' = queued(x, k)
    BY <1>2 DEF survivors, pending, queued, isScanning
  <1>6. SpansOK' /\ ListsOK' /\ FieldsOK' /\ RootsOK' /\ BasicTypes'
    BY <1>1, <1>2, <1>3, <1>5 DEF SpansOK, ListsOK, FieldsOK, RootsOK, isScanning,
       ClosureFollowed, TypeOK, BasicTypes
  <1> QED
    BY <1>4, <1>6, TypesFollowNext DEF Inv

LEMMA FollowEphemeronKeeps ==
  ASSUME Inv, NEW e \in unchecked, FollowEphemeron(e)
  PROVE  Inv'
  <1>1. /\ TypeOK /\ SpansOK /\ ListsOK /\ GraphOK /\ ForwardedOK /\ RoomOK
        /\ FieldsOK /\ RootsOK /\ OnlyReachableSeen
    BY DEF Inv
  <1>2. /\ phase = "check" /\ phase' = phase /\ done' = FALSE /\ ClosureFollowed
        /\ unchecked' = unchecked \ {e} /\ followEphemeronWeaks(e)
        /\ UNCHANGED <<roots, frame, heap, seen, forwarder, unreached, rescued,
                       evacuated, rootsLeft, collections>>
    BY DEF FollowEphemeron, followEphemeronWeaks, programVars
  <1>3. Collecting /\ Collecting'
    BY <1>2 DEF Collecting
  <1>4. GraphOK' /\ ForwardedOK' /\ RoomOK' /\ OnlyReachableSeen'
    BY <1>2, <1>3, SameGraph
  <1>5. survivors' = survivors /\ e \in survivors /\ e \in Address
    BY <1>1, <1>2 DEF survivors, ListsOK, TypeOK
  <1>6. /\ stack' \in Seq(Span) /\ scanned' = scanned
        /\ \A s \in pending' : s \in Span /\ s.object = e /\ s.index <= s.limit
        /\ \A k \in Field : k # 0 => queued(e, k)'
    BY <1>1, <1>2, <1>5, WeaksQueued
  <1>7. SpansOK' /\ ListsOK' /\ RootsOK' /\ BasicTypes'
    BY <1>1, <1>2, <1>3, <1>5, <1>6 DEF SpansOK, ListsOK, RootsOK, TypeOK, BasicTypes
  <1>8. FieldsOK'
    BY <1>1, <1>2, <1>3, <1>5, <1>6, NothingPending DEF FieldsOK
  <1> QED
    BY <1>4, <1>7, <1>8, TypesFollowNext DEF Inv

LEMMA RescueEphemeronKeeps ==
  ASSUME Inv, NEW e \in unreached, RescueEphemeron(e)
  PROVE  Inv'
  <1>1. /\ TypeOK /\ SpansOK /\ ListsOK /\ GraphOK /\ ForwardedOK /\ RoomOK
        /\ FieldsOK /\ RootsOK /\ OnlyReachableSeen
    BY DEF Inv
  <1>2. /\ phase = "rescue" /\ phase' = phase /\ done' = done /\ ClosureFollowed
        /\ unreached' = unreached \ {e} /\ rescued' = rescued \union {e}
        /\ followEphemeronWeaks(e)
        /\ UNCHANGED <<roots, frame, heap, seen, forwarder, unchecked,
                       evacuated, rootsLeft, collections>>
    BY DEF RescueEphemeron, followEphemeronWeaks, programVars
  <1>3. Collecting /\ Collecting'
    BY <1>2 DEF Collecting
  <1>4. GraphOK' /\ ForwardedOK' /\ RoomOK' /\ OnlyReachableSeen'
    BY <1>2, <1>3, SameGraph
  <1>5. survivors' = survivors /\ e \in survivors /\ e \in Address
    BY <1>1, <1>2 DEF survivors, ListsOK, TypeOK
  <1>6. /\ stack' \in Seq(Span) /\ scanned' = scanned
        /\ \A s \in pending' : s \in Span /\ s.object = e /\ s.index <= s.limit
        /\ \A k \in Field : k # 0 => queued(e, k)'
    BY <1>1, <1>2, <1>5, WeaksQueued
  <1>7. SpansOK' /\ ListsOK' /\ RootsOK' /\ BasicTypes'
    BY <1>1, <1>2, <1>3, <1>5, <1>6 DEF SpansOK, ListsOK, RootsOK, TypeOK, BasicTypes
  <1>8. FieldsOK'
    BY <1>1, <1>2, <1>3, <1>5, <1>6, NothingPending DEF FieldsOK
  <1> QED
    BY <1>4, <1>7, <1>8, TypesFollowNext DEF Inv

(* The others move ephemerons from one list to another, or go on to the    *)
(* next phase.                                                             *)
LEMMA ListsMoved ==
  ASSUME Inv, Collecting, ClosureFollowed, rootsLeft = {},
         UNCHANGED <<programVars, heap, seen, forwarder, evacuated, stack, scanned, rootsLeft,
                     rescued, collections>>,
         phase' \in {"check", "rescue", "strengthen"}, done' \in BOOLEAN,
         unchecked' \union unreached' = unchecked \union unreached,
         phase' = "strengthen" => unchecked' = {} /\ unreached' = {}
  PROVE  Inv'
  <1>1. /\ TypeOK /\ SpansOK /\ ListsOK /\ GraphOK /\ ForwardedOK /\ RoomOK
        /\ FieldsOK /\ RootsOK /\ OnlyReachableSeen
    BY DEF Inv
  <1>2. Collecting'
    BY DEF Collecting
  <1>3. UNCHANGED <<roots, frame>>
    BY DEF programVars
  <1>4. GraphOK' /\ ForwardedOK' /\ RoomOK' /\ OnlyReachableSeen'
    BY <1>2, <1>3, SameGraph
  <1>5. survivors' = survivors /\ pending' = pending /\ \A x, k : queued(x, k)' = queued(x, k)
    BY DEF survivors, pending, queued, isScanning
  <1>6. SpansOK' /\ BasicTypes' /\ RootsOK'
    BY <1>1, <1>2, <1>3, <1>5 DEF SpansOK, RootsOK, TypeOK, BasicTypes
  <1>7. ListsOK'
    BY <1>1, <1>2, <1>5 DEF ListsOK, ClosureFollowed, isScanning
  <1>8. FieldsOK'
    BY <1>1, <1>2, <1>5 DEF FieldsOK
  <1> QED
    BY <1>4, <1>6, <1>7, <1>8, TypesFollowNext DEF Inv

LEMMA StrengthenKeeps ==
  ASSUME Inv, StrengthenEphemerons
  PROVE  Inv'
  <1>1. /\ TypeOK /\ SpansOK /\ ListsOK /\ GraphOK /\ ForwardedOK /\ RoomOK
        /\ FieldsOK /\ RootsOK /\ OnlyReachableSeen
    BY DEF Inv
  <1>2. /\ phase = "strengthen" /\ phase' = "release"
        /\ heap' = [a \in DOMAIN heap |->
                      IF a \in rescued THEN [heap[a] EXCEPT !.special = FALSE] ELSE heap[a]]
        /\ UNCHANGED <<roots, frame, seen, forwarder, unchecked, unreached, rescued, done,
                       evacuated, stack, scanned, rootsLeft, collections>>
    BY DEF StrengthenEphemerons, programVars, ephemeronVars
  <1>3. Collecting /\ Collecting'
    BY <1>2 DEF Collecting
  <1>4. /\ DOMAIN heap' = DOMAIN heap
        /\ \A x \in DOMAIN heap : heap'[x] \in Object /\ heap'[x].fields = heap[x].fields
    BY <1>1, <1>2 DEF TypeOK, Object
  <1>5. \A S \in SUBSET DOMAIN heap : closed(S)' <=> closed(S)
    BY <1>2, <1>4 DEF closed, holds, newest
  <1>6. accessible' = accessible
    <2>1. accessible' \subseteq accessible
      BY <1>4, <1>5, AccessibleLeastNext, AccessibleClosed
    <2>2. accessible \subseteq accessible'
      BY <1>4, <1>5, AccessibleLeast, AccessibleClosedNext
    <2> QED
      BY <2>1, <2>2
  <1>7. survivors' = survivors /\ pending' = pending /\ \A x, k : queued(x, k)' = queued(x, k)
    BY <1>2 DEF survivors, pending, queued, isScanning
  <1>8. SpansOK' /\ ListsOK' /\ RootsOK'
    BY <1>1, <1>2, <1>3, <1>7 DEF SpansOK, ListsOK, RootsOK, isScanning, ClosureFollowed
  <1>9. BasicTypes'
    BY <1>1, <1>2, <1>4 DEF TypeOK, BasicTypes
  <1>10. GraphOK'
    <2>1. \A r \in Root : Valid(roots[r])'
      BY <1>1, <1>2, <1>4 DEF GraphOK, Valid
    <2>2. ASSUME NEW x \in accessible', NEW f \in Field PROVE Valid(heap[x].fields[f])'
      <3>1. x \in accessible /\ x \in DOMAIN heap
        BY <1>6, AccessibleClosed
      <3> QED
        BY <1>1, <1>4, <3>1 DEF GraphOK, Valid
    <2> QED
      BY <1>3, <2>1, <2>2 DEF GraphOK
  <1>11. ForwardedOK' /\ RoomOK' /\ OnlyReachableSeen'
    BY <1>1, <1>2, <1>3, <1>4, <1>6, <1>7 DEF ForwardedOK, RoomOK, free, OnlyReachableSeen,
       Collecting, newest
  <1>12. FieldsOK'
    <2>1. \A x \in survivors : heap'[x].fields = heap[x].fields
      BY <1>1, <1>4 DEF survivors, TypeOK
    <2> QED
      BY <1>1, <1>2, <1>3, <1>7, <2>1 DEF FieldsOK
  <1> QED
    BY <1>8, <1>9, <1>10, <1>11, <1>12, TypesFollowNext DEF Inv

(* When tracing is over, everything that was kept refers to what was kept. *)
LEMMA TraceIsComplete ==
  ASSUME Inv
  PROVE  TraceComplete
  <1> SUFFICES ASSUME phase \in {"strengthen", "release"}
               PROVE  /\ \A r \in Root : roots[r] \in survivors \union {Nil}
                      /\ \A a \in survivors, f \in Field :
                           heap[a].fields[f] \in survivors \union {Nil}
    BY DEF TraceComplete, survivors
  <1>1. /\ rootsLeft = {} /\ ClosureFollowed /\ unchecked = {} /\ unreached = {}
        /\ Collecting /\ RootsOK /\ FieldsOK
    BY DEF Inv, ListsOK, Collecting
  <1> QED
    BY <1>1, NothingPending DEF RootsOK, FieldsOK

(* So what is released was not accessible.                                 *)
LEMMA ReleaseKeeps ==
  ASSUME Inv, NEW released \in SUBSET recyclable, ReleaseLocals(released),
         ~(Switching /\ ~Collecting')
  PROVE  Inv'
  <1>1. /\ TypeOK /\ SpansOK /\ ListsOK /\ GraphOK /\ ForwardedOK /\ RoomOK
        /\ FieldsOK /\ RootsOK /\ OnlyReachableSeen
    BY DEF Inv
  <1>2. /\ phase = "release" /\ phase' = "mutator" /\ evacuated' = {}
        /\ heap' = [a \in DOMAIN heap \ released |-> heap[a]]
        /\ seen' = seen \ released /\ forwarder' = [a \in {} |-> Nil]
        /\ rescued' = {} /\ scanned' = Idle
        /\ UNCHANGED <<roots, frame, unchecked, unreached, done, stack, rootsLeft,
                       collections>>
    BY DEF ReleaseLocals, programVars
  <1>3. /\ \A r \in Root : roots[r] \in survivors \union {Nil}
        /\ \A a \in survivors, f \in Field : heap[a].fields[f] \in survivors \union {Nil}
    BY <1>2, TraceIsComplete DEF TraceComplete, survivors
  <1>4. survivors \in SUBSET DOMAIN heap'
    BY <1>1, <1>2 DEF recyclable, survivors, TypeOK
  <1>5. Nil \notin DOMAIN heap'
    BY <1>1, <1>2, AddressAssumption DEF TypeOK
  <1>6. ASSUME NEW S, S = survivors PROVE closed(S)'
    <2>1. \A a \in S : heap'[a] = heap[a]
      BY <1>2, <1>4, <1>6
    <2>2. ASSUME NEW ref \in S \union {Nil} PROVE holds(S, ref)'
      BY <1>2, <1>5, <2>2 DEF holds, newest
    <2>3. \A r \in Root : holds(S, roots[r])'
      BY <1>2, <1>3, <1>6, <2>2
    <2>4. \A a \in S, f \in Field : holds(S, heap[a].fields[f])'
      BY <1>3, <1>6, <2>1, <2>2
    <2> QED
      BY <2>3, <2>4 DEF closed
  <1>7. accessible' \subseteq survivors
    BY <1>4, <1>6, AccessibleLeastNext
  <1>8. GraphOK'
    <2>1. \A r \in Root : Valid(roots[r])'
      BY <1>2, <1>3, <1>4 DEF Valid
    <2>2. ASSUME NEW x \in accessible', NEW f \in Field PROVE Valid(heap[x].fields[f])'
      <3>1. x \in survivors /\ heap'[x] = heap[x]
        BY <1>2, <1>4, <1>7
      <3> QED
        BY <1>3, <1>4, <3>1 DEF Valid
    <2> QED
      BY <2>1, <2>2 DEF GraphOK
  <1>9. /\ ~Collecting' /\ stack = <<>> /\ unchecked = {} /\ unreached = {} /\ rootsLeft = {}
        /\ stack' = <<>> /\ ~isScanning'
    BY <1>1, <1>2 DEF Collecting, ListsOK, ClosureFollowed, isScanning, Idle
  <1>10. pending' = {}
    BY <1>9 DEF pending, ToSet
  <1>11. SpansOK' /\ ListsOK'
    BY <1>1, <1>2, <1>9, <1>10 DEF SpansOK, ListsOK, ClosureFollowed
  <1>12. ForwardedOK' /\ RoomOK' /\ FieldsOK' /\ RootsOK' /\ OnlyReachableSeen'
    BY <1>2, <1>9 DEF ForwardedOK, RoomOK, FieldsOK, RootsOK, OnlyReachableSeen, Collecting
  <1>13. BasicTypes'
    <2>1. \A x \in DOMAIN heap' : x \in DOMAIN heap /\ heap'[x] = heap[x]
      BY <1>2
    <2> QED
      BY <1>1, <1>2, <2>1 DEF TypeOK, BasicTypes
  <1> QED
    BY <1>8, <1>11, <1>12, <1>13, TypesFollowNext DEF Inv

-----------------------------------------------------------------------------
(* Steps of the program.                                                   *)

(* Between collections, objects that are closed after a step hold all that *)
(* is accessible after it.                                                 *)
LEMMA AccessibleAfter ==
  ASSUME ListsOK, ~Collecting, forwarder' = forwarder,
         NEW S, S \subseteq DOMAIN heap', Nil \notin DOMAIN heap',
         \A r \in Root : roots'[r] \in S \union {Nil},
         \A x \in S, f \in Field : heap'[x].fields[f] \in S \union {Nil}
  PROVE  accessible' \subseteq S
  <1>1. DOMAIN forwarder' = {}
    BY DEF ListsOK, Collecting
  <1>2. ASSUME NEW ref \in S \union {Nil} PROVE holds(S, ref)'
    BY <1>1, <1>2 DEF holds, newest
  <1>3. \A r \in Root : holds(S, roots[r])'
    BY <1>2
  <1>4. \A x \in S, f \in Field : holds(S, heap[x].fields[f])'
    BY <1>2
  <1>5. closed(S)'
    BY <1>3, <1>4 DEF closed
  <1> QED
    BY <1>5, AccessibleLeastNext

(* Between collections, what the program can reach is closed.              *)
LEMMA AccessibleValid ==
  ASSUME ListsOK, GraphOK, ~Collecting
  PROVE  /\ accessible \subseteq DOMAIN heap
         /\ \A r \in Root : roots[r] \in accessible \union {Nil}
         /\ \A x \in accessible, f \in Field :
              heap[x].fields[f] \in accessible \union {Nil}
  <1>1. \A ref : newest(ref) = ref
    BY DEF newest, ListsOK, Collecting
  <1> QED
    BY <1>1, AccessibleClosed DEF closed, holds, GraphOK, Valid

(* What a step of the program leaves to be shown.                          *)
LEMMA RunningKeeps ==
  ASSUME Inv, Running, GraphOK', roots' \in [Root -> Reference], frame' \in Reference,
         DOMAIN heap \subseteq DOMAIN heap', DOMAIN heap' \subseteq Address,
         \A x \in DOMAIN heap' : heap'[x] \in Object
  PROVE  Inv'
  <1>1. /\ TypeOK /\ SpansOK /\ ListsOK /\ ForwardedOK
    BY DEF Inv
  <1>2. /\ phase = "mutator" /\ phase' = "mutator"
        /\ UNCHANGED <<evacuated, seen, forwarder, stack, scanned, rootsLeft, unchecked,
                       unreached, rescued, done, collections>>
    BY DEF Running, ephemeronVars
  <1>3. survivors' = survivors /\ pending' = pending
    BY <1>2 DEF survivors, pending, isScanning
  <1>4. SpansOK' /\ ListsOK' /\ ForwardedOK'
    BY <1>1, <1>2, <1>3 DEF SpansOK, ListsOK, ForwardedOK, isScanning, ClosureFollowed,
       Collecting
  <1>5. RoomOK' /\ FieldsOK' /\ RootsOK' /\ OnlyReachableSeen'
    BY <1>2 DEF RoomOK, FieldsOK, RootsOK, OnlyReachableSeen, Collecting
  <1>6. BasicTypes'
    BY <1>1, <1>2 DEF TypeOK, BasicTypes
  <1> QED
    BY <1>4, <1>5, <1>6, TypesFollowNext DEF Inv

LEMMA SetRootKeeps ==
  ASSUME Inv, NEW r \in Root, NEW ref \in accessible \union {Nil}, SetRoot(r, ref)
  PROVE  Inv'
  <1>1. /\ TypeOK /\ ListsOK /\ GraphOK /\ ~Collecting /\ Running
        /\ roots' = [roots EXCEPT ![r] = ref]
        /\ UNCHANGED <<heap, frame, forwarder, phase>>
    BY DEF SetRoot, Running, Inv, Collecting
  <1>2. /\ accessible \subseteq DOMAIN heap
        /\ \A q \in Root : roots[q] \in accessible \union {Nil}
        /\ \A x \in accessible, f \in Field : heap[x].fields[f] \in accessible \union {Nil}
    BY <1>1, AccessibleValid
  <1>3. \A q \in Root : roots'[q] \in accessible \union {Nil}
    BY <1>1, <1>2 DEF TypeOK
  <1>4. accessible' \subseteq accessible
    <2>1. PICK S : S = accessible
      OBVIOUS
    <2>2. S \subseteq DOMAIN heap' /\ Nil \notin DOMAIN heap'
      BY <1>1, <1>2, <2>1, AddressAssumption DEF TypeOK
    <2> QED
      BY <1>1, <1>2, <1>3, <2>1, <2>2, AccessibleAfter
  <1>5. GraphOK'
    BY <1>1, <1>2, <1>3, <1>4 DEF GraphOK, Valid, Collecting
  <1>6. roots' \in [Root -> Reference] /\ frame' \in Reference
    BY <1>1, <1>2 DEF TypeOK, Reference
  <1> QED
    BY <1>1, <1>5, <1>6, RunningKeeps DEF TypeOK

LEMMA StoreKeeps ==
  ASSUME Inv, NEW a \in accessible, NEW f \in Written, NEW ref \in accessible \union {Nil},
         Store(a, f, ref)
  PROVE  Inv'
  <1>1. /\ TypeOK /\ ListsOK /\ GraphOK /\ ~Collecting /\ Running
        /\ heap' = withField(heap, a, f, ref)
        /\ UNCHANGED <<roots, frame, forwarder, phase>>
    BY DEF Store, Running, Inv, Collecting, programVars, withField
  <1>2. /\ accessible \subseteq DOMAIN heap
        /\ \A q \in Root : roots[q] \in accessible \union {Nil}
        /\ \A x \in accessible, k \in Field : heap[x].fields[k] \in accessible \union {Nil}
    BY <1>1, AccessibleValid
  <1>3. f \in Field /\ ref \in Reference
    BY <1>1, <1>2, FieldAssumption DEF TypeOK, Field, Reference
  <1>4. /\ DOMAIN heap' = DOMAIN heap
        /\ \A x \in DOMAIN heap :
             /\ heap'[x] \in Object
             /\ \A k \in Field :
                  heap'[x].fields[k] = IF x = a /\ k = f THEN ref ELSE heap[x].fields[k]
    <2>1. PICK h : h = heap
      OBVIOUS
    <2>2. PICK g : g = withField(h, a, f, ref)
      OBVIOUS
    <2>3. a \in DOMAIN h /\ \A x \in DOMAIN h : h[x] \in Object
      BY <1>1, <1>2, <2>1 DEF TypeOK
    <2>4. /\ DOMAIN g = DOMAIN h
          /\ \A x \in DOMAIN h :
               /\ g[x] \in Object
               /\ \A k \in Field :
                    g[x].fields[k] = IF x = a /\ k = f THEN ref ELSE h[x].fields[k]
      BY <1>3, <2>2, <2>3, Corrected
    <2> QED
      BY <1>1, <2>1, <2>2, <2>4
  <1>5. accessible' \subseteq accessible
    <2>1. PICK S : S = accessible
      OBVIOUS
    <2>2. S \subseteq DOMAIN heap' /\ Nil \notin DOMAIN heap'
      BY <1>1, <1>2, <1>4, <2>1, AddressAssumption DEF TypeOK
    <2>3. \A x \in S, k \in Field : heap'[x].fields[k] \in S \union {Nil}
      BY <1>2, <1>4, <2>1
    <2> QED
      BY <1>1, <1>2, <2>1, <2>2, <2>3, AccessibleAfter
  <1>6. GraphOK'
    <2>1. \A q \in Root : Valid(roots[q])'
      BY <1>1, <1>2, <1>4 DEF Valid
    <2>2. ASSUME NEW x \in DOMAIN heap, NEW k \in Field,
                 heap[x].fields[k] \in DOMAIN heap \union {Nil}
          PROVE  Valid(heap[x].fields[k])'
      BY <1>2, <1>4, <2>2 DEF Valid
    <2>3. \A x \in accessible', k \in Field : Valid(heap[x].fields[k])'
      BY <1>2, <1>5, <2>2
    <2>4. Switching => Valid(frame)' /\ \A x \in DOMAIN heap', k \in Field :
                                          Valid(heap[x].fields[k])'
      BY <1>1, <1>4, <2>2 DEF GraphOK, Valid
    <2> QED
      BY <2>1, <2>3, <2>4 DEF GraphOK
  <1> QED
    BY <1>1, <1>4, <1>6, RunningKeeps DEF TypeOK

LEMMA ContextSwitchKeeps ==
  ASSUME Inv, NEW r \in Root, ContextSwitch(r)
  PROVE  Inv'
  <1>1. /\ TypeOK /\ ListsOK /\ GraphOK /\ ~Collecting /\ Running /\ Switching
        /\ roots' = [roots EXCEPT ![r] = frame] /\ frame' = roots[r]
        /\ UNCHANGED <<heap, phase>>
    BY DEF ContextSwitch, Running, Inv, Collecting
  <1>2. /\ \A q \in Root : Valid(roots[q])'
        /\ Valid(frame)'
        /\ \A x \in DOMAIN heap', f \in Field : Valid(heap[x].fields[f])'
    BY <1>1 DEF GraphOK, Valid, TypeOK
  <1>3. GraphOK'
    BY <1>2, AccessibleClosedNext DEF GraphOK
  <1> QED
    BY <1>1, <1>3, RunningKeeps DEF TypeOK

(* The heap with a new object in it.                                       *)
LEMMA NewObject ==
  ASSUME Inv, NEW id \in freshIds, NEW ephemeron \in BOOLEAN, free # {},
         NEW a, a = freeAddress, NEW h, h = put(a, newObject(id, ephemeron))
  PROVE  /\ a \in Address \ DOMAIN heap
         /\ DOMAIN h = DOMAIN heap \union {a}
         /\ \A x \in DOMAIN heap : h[x] = heap[x]
         /\ \A x \in DOMAIN h : h[x] \in Object
         /\ \A f \in Field : h[a].fields[f] = Nil
  <1>1. a \in Address \ DOMAIN heap
    BY FreeAddress DEF free
  <1>2. /\ newObject(id, ephemeron) \in Object
        /\ \A f \in Field : newObject(id, ephemeron).fields[f] = Nil
    BY DEF newObject, Object, Reference, freshIds
  <1>3. /\ DOMAIN h = DOMAIN heap \union {a}
        /\ \A x \in DOMAIN h : h[x] = IF x = a THEN newObject(id, ephemeron) ELSE heap[x]
    BY DEF put
  <1> QED
    BY <1>1, <1>2, <1>3 DEF Inv, TypeOK

(* An object was added, and what can be reached may refer to it.           *)
LEMMA Added ==
  ASSUME Inv, Running, frame' = frame,
         NEW a \in Address \ DOMAIN heap,
         DOMAIN heap' = DOMAIN heap \union {a},
         \A x \in DOMAIN heap' : heap'[x] \in Object,
         roots' \in [Root -> Reference],
         \A r \in Root : roots'[r] \in {roots[r], a},
         \A x \in DOMAIN heap, f \in Field : heap'[x].fields[f] \in {heap[x].fields[f], a},
         \A f \in Field : heap'[a].fields[f] \in {Nil, a}
  PROVE  Inv'
  <1>1. /\ TypeOK /\ ListsOK /\ GraphOK /\ ~Collecting
        /\ UNCHANGED <<forwarder, phase>>
    BY DEF Running, Inv, Collecting
  <1>2. /\ accessible \subseteq DOMAIN heap
        /\ \A q \in Root : roots[q] \in accessible \union {Nil}
        /\ \A x \in accessible, f \in Field : heap[x].fields[f] \in accessible \union {Nil}
    BY <1>1, AccessibleValid
  <1>3. accessible' \subseteq accessible \union {a}
    <2>1. PICK S : S = accessible \union {a}
      OBVIOUS
    <2>2. S \subseteq DOMAIN heap' /\ Nil \notin DOMAIN heap'
      BY <1>1, <1>2, <2>1, AddressAssumption DEF TypeOK
    <2>3. \A x \in S, f \in Field : heap'[x].fields[f] \in S \union {Nil}
      BY <1>2, <2>1
    <2>4. \A r \in Root : roots'[r] \in S \union {Nil}
      BY <1>2, <2>1
    <2> QED
      BY <1>1, <2>1, <2>2, <2>3, <2>4, AccessibleAfter
  <1>4. GraphOK'
    <2>1. \A q \in Root : Valid(roots[q])'
      BY <1>1, <1>2 DEF Valid
    <2>2. ASSUME NEW x \in DOMAIN heap', NEW f \in Field,
                 x # a => heap[x].fields[f] \in DOMAIN heap \union {Nil}
          PROVE  Valid(heap[x].fields[f])'
      BY <2>2 DEF Valid
    <2>3. \A x \in accessible', f \in Field : Valid(heap[x].fields[f])'
      BY <1>2, <1>3, <2>2
    <2>4. Switching => Valid(frame)' /\ \A x \in DOMAIN heap', f \in Field :
                                          Valid(heap[x].fields[f])'
      BY <1>1, <2>2 DEF GraphOK, Valid
    <2> QED
      BY <2>1, <2>3, <2>4 DEF GraphOK
  <1> QED
    BY <1>1, <1>4, RunningKeeps DEF TypeOK

LEMMA NewKeeps ==
  ASSUME Inv, NEW ephemeron \in BOOLEAN, New(ephemeron)
  PROVE  Inv'
  <1>1. PICK id \in freshIds :
          /\ Running /\ free # {} /\ frame' = frame
          /\ \/ \E r \in Root :
                  /\ roots' = [roots EXCEPT ![r] = freeAddress]
                  /\ heap' = put(freeAddress, newObject(id, ephemeron))
             \/ \E b \in accessible, f \in Written :
                  /\ heap' = withField(put(freeAddress, newObject(id, ephemeron)),
                                       b, f, freeAddress)
                  /\ roots' = roots
    BY DEF New, withField
  <1>a. PICK a : a = freeAddress
    OBVIOUS
  <1>h. PICK h : h = put(a, newObject(id, ephemeron))
    OBVIOUS
  <1>2. /\ a \in Address \ DOMAIN heap
        /\ DOMAIN h = DOMAIN heap \union {a}
        /\ \A x \in DOMAIN heap : h[x] = heap[x]
        /\ \A x \in DOMAIN h : h[x] \in Object
        /\ \A f \in Field : h[a].fields[f] = Nil
    BY <1>a, <1>h, <1>1, NewObject
  <1>3. TypeOK
    BY DEF Inv
  <1>4. ASSUME NEW r \in Root, roots' = [roots EXCEPT ![r] = a], heap' = h
        PROVE  Inv'
    <2>1. roots' \in [Root -> Reference] /\ \A q \in Root : roots'[q] \in {roots[q], a}
      BY <1>2, <1>3, <1>4 DEF TypeOK, Reference
    <2> QED
      BY <1>1, <1>2, <1>4, <2>1, Added
  <1>5. ASSUME NEW b \in accessible, NEW f \in Written,
               heap' = withField(h, b, f, a), roots' = roots
        PROVE  Inv'
    <2>1. /\ b \in DOMAIN h /\ f \in Field /\ a \in Reference
          /\ \A x \in DOMAIN h : h[x] \in Object
      BY <1>2, AccessibleClosed, FieldAssumption DEF Field, Reference
    <2>2. PICK g : g = withField(h, b, f, a)
      OBVIOUS
    <2>3. /\ DOMAIN g = DOMAIN h
          /\ \A x \in DOMAIN h :
               /\ g[x] \in Object
               /\ \A k \in Field :
                    g[x].fields[k] = IF x = b /\ k = f THEN a ELSE h[x].fields[k]
      BY <2>1, <2>2, Corrected
    <2>4. /\ \A x \in DOMAIN heap, k \in Field : heap'[x].fields[k] \in {heap[x].fields[k], a}
          /\ \A k \in Field : heap'[a].fields[k] \in {Nil, a}
          /\ DOMAIN heap' = DOMAIN heap \union {a}
          /\ \A x \in DOMAIN heap' : heap'[x] \in Object
      BY <1>2, <1>5, <2>2, <2>3
    <2>5. roots' \in [Root -> Reference] /\ \A q \in Root : roots'[q] \in {roots[q], a}
      BY <1>3, <1>5 DEF TypeOK
    <2> QED
      BY <1>1, <1>2, <2>4, <2>5, Added
  <1> QED
    BY <1>a, <1>h, <1>1, <1>4, <1>5

LEMMA StartCollectionKeeps ==
  ASSUME Inv, collections \in 0 .. MaxCollections,
         NEW evacuees \in SUBSET accessible, StartCollection(evacuees)
  PROVE  Inv'
  <1>1. /\ TypeOK /\ SpansOK /\ ListsOK /\ GraphOK
    BY DEF Inv
  <1>2. /\ phase = "mutator" /\ phase' = "roots" /\ evacuated' = evacuees
        /\ rootsLeft' = Root /\ seen' = {} /\ collections' = collections + 1
        /\ collections < MaxCollections
        /\ Cardinality(evacuees) <= Cardinality(free)
        /\ UNCHANGED <<roots, frame, heap, forwarder, unchecked, unreached, rescued, done,
                       stack, scanned>>
    BY DEF StartCollection, programVars, ephemeronVars
  <1>3. /\ ClosureFollowed /\ unchecked = {} /\ unreached = {} /\ rescued = {}
        /\ DOMAIN forwarder = {} /\ Collecting'
    BY <1>1, <1>2 DEF ListsOK, Collecting
  <1>4. pending = {} /\ pending' = pending /\ survivors' = {}
    BY <1>2, <1>3, NothingPending DEF pending, isScanning, survivors
  <1>5. accessible' = accessible
    BY <1>2 DEF accessible, closed, holds, newest
  <1>6. GraphOK'
    BY <1>1, <1>2, <1>3, <1>5 DEF GraphOK, Valid
  <1>7. RoomOK'
    <2>1. (evacuated \ seen)' = evacuees /\ free' = free
      BY <1>2 DEF free
    <2> QED
      BY <1>2, <2>1 DEF RoomOK
  <1>8. SpansOK' /\ ListsOK' /\ ForwardedOK' /\ FieldsOK' /\ RootsOK' /\ OnlyReachableSeen'
    BY <1>1, <1>2, <1>3, <1>4 DEF SpansOK, ListsOK, ForwardedOK, FieldsOK, RootsOK,
       OnlyReachableSeen, isScanning
  <1>9. BasicTypes'
    BY <1>1, <1>2, <1>3, CollectionsAssumption, AccessibleClosed DEF TypeOK, BasicTypes
  <1> QED
    BY <1>6, <1>7, <1>8, <1>9, TypesFollowNext DEF Inv

-----------------------------------------------------------------------------
(* How a step counts collections.                                          *)
LEMMA CollectionsCounted ==
  ASSUME Next
  PROVE  \/ ~Collecting /\ ~Collecting' /\ collections' = collections
         \/ /\ ~Collecting /\ Collecting'
            /\ collections' = collections + 1 /\ collections < MaxCollections
         \/ Collecting /\ collections' = collections
  <1>1. CASE Program
    BY <1>1 DEF Program, New, SetRoot, Store, ContextSwitch, Running, Collecting
  <1>2. ASSUME NEW evacuees, StartCollection(evacuees)
        PROVE  /\ ~Collecting /\ Collecting'
               /\ collections' = collections + 1 /\ collections < MaxCollections
    BY <1>2 DEF StartCollection, Collecting
  <1>3. CASE Trace
    BY <1>3 DEF Trace, ScanRoot, RootsScanned, ScanField, Collecting
  <1>4. CASE FollowEphemerons
    BY <1>4 DEF FollowEphemerons, FollowEphemeron, SetAsideEphemeron, followEphemeronWeaks,
       SwapUncheckedWithUnreached, RescueUnreachable, RescueEphemeron, Rescued,
       StrengthenEphemerons, Collecting
  <1>5. CASE Release
    BY <1>5 DEF Release, ReleaseLocals, Collecting
  <1> QED
    BY <1>1, <1>2, <1>3, <1>4, <1>5 DEF Next, Collect

(* Every step keeps the invariant.                                         *)
LEMMA StepKeeps ==
  ASSUME Inv, collections \in 0 .. MaxCollections, Collecting => collections # 0,
         Next, NoStaleFrame'
  PROVE  Inv'
  <1>1. CASE Program
    <2>1. Ephemerons \subseteq BOOLEAN
      BY ProgramAssumption
    <2> QED
      BY <1>1, <2>1, NewKeeps, SetRootKeeps, StoreKeeps, ContextSwitchKeeps DEF Program
  <1>2. ASSUME NEW evacuees \in SUBSET accessible, StartCollection(evacuees)
        PROVE  Inv'
    BY <1>2, StartCollectionKeeps
  <1>3. CASE Trace
    BY <1>3, ScanRootKeeps, RootsScannedKeeps, ScanFieldKeeps DEF Trace
  <1>4. CASE FollowEphemerons
    <2>1. ASSUME NEW e \in unchecked, FollowEphemeron(e) PROVE Inv'
      BY <2>1, FollowEphemeronKeeps
    <2>2. ASSUME NEW e \in unreached, RescueEphemeron(e) PROVE Inv'
      BY <2>2, RescueEphemeronKeeps
    <2>3. ASSUME phase \in {"check", "rescue"} PROVE Collecting /\ rootsLeft = {}
      BY <2>3 DEF Collecting, Inv, ListsOK
    <2>4. ASSUME NEW e \in unchecked, SetAsideEphemeron(e) PROVE Inv'
      BY <2>3, <2>4, ListsMoved DEF SetAsideEphemeron, Inv, TypeOK
    <2>5. ASSUME SwapUncheckedWithUnreached PROVE Inv'
      BY <2>3, <2>5, ListsMoved DEF SwapUncheckedWithUnreached
    <2>6. ASSUME RescueUnreachable PROVE Inv'
      BY <2>3, <2>6, ListsMoved DEF RescueUnreachable, markVars, ephemeronVars, Inv, TypeOK
    <2>7. ASSUME Rescued PROVE Inv'
      BY <2>3, <2>7, ListsMoved DEF Rescued, markVars
    <2> QED
      BY <1>4, <2>1, <2>2, <2>4, <2>5, <2>6, <2>7, StrengthenKeeps DEF FollowEphemerons
  <1>5. CASE Release
    <2>1. PICK released \in SUBSET recyclable : ReleaseLocals(released)
      BY <1>5 DEF Release
    <2>2. ~(Switching /\ ~Collecting')
      BY <2>1 DEF ReleaseLocals, NoStaleFrame, Collecting
    <2> QED
      BY <2>1, <2>2, ReleaseKeeps
  <1> QED
    BY <1>1, <1>2, <1>3, <1>4, <1>5 DEF Next, Collect

LEMMA InitKeeps == Init => IInv
  <1> SUFFICES ASSUME Init PROVE IInv
    OBVIOUS
  <1>1. /\ heap = [a \in {} |-> Nil] /\ DOMAIN heap = {} /\ stack = <<>> /\ ~isScanning
        /\ DOMAIN forwarder = {} /\ phase = "mutator"
    BY DEF Init, isScanning, Idle
  <1>2. pending = {}
    BY <1>1 DEF pending, ToSet
  <1>3. SpansOK /\ ListsOK /\ ForwardedOK
    BY <1>1, <1>2 DEF Init, SpansOK, ListsOK, ForwardedOK, ClosureFollowed, Collecting
  <1>4. BasicTypes
    BY <1>1, CollectionsAssumption DEF Init, BasicTypes, Reference
  <1>5. GraphOK
    BY <1>1, AccessibleClosed DEF Init, GraphOK, Valid
  <1>6. RoomOK /\ FieldsOK /\ RootsOK /\ OnlyReachableSeen
    BY <1>1 DEF RoomOK, FieldsOK, RootsOK, OnlyReachableSeen, Collecting
  <1>7. Inv
    BY <1>3, <1>4, <1>5, <1>6, TypesFollow DEF Inv
  <1> QED
    BY <1>1, <1>7, CollectionsAssumption DEF Init, IInv, Collecting

LEMMA StutterKeeps ==
  ASSUME IInv, UNCHANGED vars
  PROVE  IInv'
  <1>1. /\ UNCHANGED <<roots, frame, heap, seen, forwarder, unchecked, unreached, rescued,
                       done, phase, evacuated, stack, scanned, rootsLeft, collections>>
    BY DEF vars, programVars, markVars, ephemeronVars
  <1>2. ASSUME NEW a PROVE newest(a)' = newest(a)
    BY <1>1 DEF newest
  <1>3. accessible' = accessible
    BY <1>1 DEF accessible, closed, holds, newest
  <1>4. /\ TypeOK' = TypeOK /\ SpansOK' = SpansOK /\ ListsOK' = ListsOK
        /\ ForwardedOK' = ForwardedOK /\ RoomOK' = RoomOK /\ RootsOK' = RootsOK
    BY <1>1 DEF TypeOK, SpansOK, ListsOK, ForwardedOK, RoomOK, RootsOK, survivors, pending,
       isScanning, ClosureFollowed, Collecting, free
  <1>5. GraphOK' = GraphOK /\ FieldsOK' = FieldsOK /\ OnlyReachableSeen' = OnlyReachableSeen
    BY <1>1, <1>3 DEF GraphOK, Valid, FieldsOK, OnlyReachableSeen, queued, pending,
       isScanning, survivors, newest, Collecting
  <1> QED
    BY <1>1, <1>4, <1>5 DEF IInv, Inv, NoStaleFrame, Collecting

(* The invariant holds through every step of the program, of followRoots,  *)
(* of followObjects and of the loops over ephemerons, and releaseLocals.   *)
THEOREM CollectorInvariant == Spec => []IInv
<1>1. IInv /\ [Next]_vars => IInv'
  <2> SUFFICES ASSUME IInv, [Next]_vars PROVE IInv'
    OBVIOUS
  <2>1. CASE Next
    <3>1. collections' \in 0 .. MaxCollections /\ (Collecting' => collections' # 0)
      BY <2>1, CollectionsCounted, CollectionsAssumption DEF IInv
    <3>2. NoStaleFrame' => NoStaleFrame
      BY <2>1, CollectionsCounted, CollectionsAssumption DEF IInv, NoStaleFrame, Collecting
    <3>3. NoStaleFrame' => Inv'
      BY <2>1, <3>2, StepKeeps DEF IInv
    <3> QED
      BY <3>1, <3>3 DEF IInv
  <2>2. CASE UNCHANGED vars
    BY <2>2, StutterKeeps
  <2> QED
    BY <2>1, <2>2
<1> QED
  BY <1>1, InitKeeps, PTL DEF Spec

(* The lists of ephemerons, the stack of spans and the forwarders that     *)
(* resolveObject_ leaves refer to objects that are there, in every state.  *)
THEOREM TypesCorrect == Spec => [](NoStaleFrame => TypeOK)
<1>1. IInv => (NoStaleFrame => TypeOK)
  BY DEF IInv, Inv
<1> QED
  BY <1>1, CollectorInvariant, PTL

(* When the trace is over, followObjects has left no reference of a kept   *)
(* object uncorrected and no object that it refers to unvisited, although  *)
(* resolveObject_ interrupts spans (queueCurrent) and ephemerons are set   *)
(* aside.                                                                  *)
THEOREM TracingIsComplete == Spec => [](NoStaleFrame => TraceComplete)
<1>1. IInv => (NoStaleFrame => TraceComplete)
  BY TraceIsComplete DEF IInv
<1> QED
  BY <1>1, CollectorInvariant, PTL

(* resolveObject_ neither marks nor copies what the program could not      *)
(* reach when the collection began.                                        *)
THEOREM GarbageIsNotTraced == Spec => [](NoStaleFrame => OnlyReachableSeen)
<1>1. IInv => (NoStaleFrame => OnlyReachableSeen)
  BY DEF IInv, Inv
<1> QED
  BY <1>1, CollectorInvariant, PTL


-----------------------------------------------------------------------------
(* The collector implements AbstractHeap: whatever is copied, corrected,   *)
(* freed and used again, the program sees the same objects with the same   *)
(* fields, and loses only what it could not reach; an ephemeron is rescued *)
(* only when its key is not alive otherwise.                               *)
(*                                                                         *)
(* A process switch takes up references that no root led to (they were on  *)
(* a suspended stack), which is no step of a single program: the theorem   *)
(* is about a program that does not switch.                                *)

(* The invariant that takes, besides the one above.                        *)

ids(S) == {heap[a].id : a \in S}

(* Among the objects that can be reached, no two are the same.             *)
OneEach(S) == \A a, b \in S : heap[a].id = heap[b].id => a = b

UniqueIds == OneEach(accessible)

(* A copy is the object it was copied from.                                *)
SameIds == \A a \in DOMAIN forwarder : heap[forwarder[a]].id = heap[a].id

(* Which objects are alive, and which ephemerons have keys that are not.   *)
(* A collection changes neither, since it changes nothing that is visible. *)
alive == Promise!Alive(visibleGraph)

keyAlive(object) == Promise!KeyIn(object, alive)

dying == {i \in DOMAIN visibleGraph :
            visibleGraph[i].special /\ ~keyAlive(visibleGraph[i])}

(* From the first ephemeron that is rescued, more than what is alive is    *)
(* seen.                                                                   *)
Rescuing == phase \in {"rescue", "strengthen"} \/ rescued # {}

unreachable == IF phase = "rescue" THEN rescued \union unreached ELSE rescued

(* The lists hold active ephemerons, and what done says of them: since the *)
(* last swap no key was reached of those that were set aside.              *)
ListedOK ==
  phase \in {"roots", "check", "rescue", "strengthen"} =>
    /\ \A e \in unchecked \union unreached \union rescued : heap[e].special
    /\ phase = "roots" => unreached = {} /\ rescued = {}
    /\ phase = "rescue" => unreached \union rescued # {}
    /\ phase = "check" /\ done =>
         \/ unreached = {}
         \/ ClosureFollowed /\ \A e \in unreached : ~checkReachableProperty(e)

(* Until then only what is alive is seen ...                               *)
LivesOK ==
  phase \in {"roots", "check"} /\ ~Rescuing =>
    /\ ids(survivors) \subseteq alive
    /\ \A a \in survivors, f \in Field \ {0} :
         queued(a, f) /\ heap[a].special => keyAlive(visible(heap[a]))

(* ... and by then all of it, and the ephemerons that are rescued are      *)
(* those that are alive without their keys, and dead ones.                 *)
RescueOK ==
  phase \in {"check", "rescue", "strengthen"} /\ Rescuing =>
    /\ alive \subseteq ids(survivors)
    /\ ids(unreachable) \subseteq dying
    /\ dying \intersect alive \subseteq ids(unreachable)

RInv ==
  /\ UniqueIds
  /\ SameIds
  /\ ListedOK
  /\ LivesOK
  /\ RescueOK

-----------------------------------------------------------------------------
(* What the program sees.                                                  *)

(* The parts of what is seen of an object.                                 *)
LEMMA Visible ==
  \A object : /\ visible(object).special = object.special
              /\ \A f \in Field : visible(object).fields[f] = idOf(object.fields[f])
  BY DEF visible

(* The graph of a set of objects, no two of which are the same.            *)
LEMMA GraphOf ==
  ASSUME NEW S \in SUBSET Address, S \subseteq DOMAIN heap, OneEach(S)
  PROVE  /\ graphOf[S] = [i \in ids(S) |-> graphOf[S][i]]
         /\ \A a \in S : graphOf[S][heap[a].id] = visible(heap[a])
  <1>1. graphOf[S] = [i \in {heap[a].id : a \in S} |->
                        visible(heap[CHOOSE a \in S : heap[a].id = i])]
    BY DEF graphOf
  <1>2. ASSUME NEW a \in S
        PROVE  (CHOOSE b \in S : heap[b].id = heap[a].id) = a
    BY DEF OneEach
  <1>3. graphOf[S] = [i \in ids(S) |-> graphOf[S][i]]
    BY <1>1 DEF ids
  <1>4. ASSUME NEW a \in S
        PROVE  graphOf[S][heap[a].id] = visible(heap[a])
    <2>1. graphOf[S][heap[a].id] = visible(heap[CHOOSE b \in S : heap[b].id = heap[a].id])
      BY <1>1
    <2> QED
      BY <1>2, <2>1
  <1> QED
    BY <1>3, <1>4

(* A reference and the newest version of what it refers to are the same    *)
(* object.                                                                 *)
LEMMA IdOf ==
  ASSUME TypeOK, SameIds
  PROVE  /\ idOf(Nil) = Nil /\ Nil \notin DOMAIN heap /\ Nil \notin Id
         /\ newest(Nil) = Nil
         /\ \A ref \in DOMAIN heap :
              /\ idOf(ref) = heap[ref].id /\ heap[ref].id \in Id
              /\ newest(ref) \in DOMAIN heap
              /\ heap[newest(ref)].id = heap[ref].id
  <1>1. DOMAIN heap \subseteq Address /\ Nil \notin DOMAIN heap /\ Nil \notin Id
    BY AddressAssumption, IdAssumption DEF TypeOK
  <1>2. newest(Nil) = Nil
    BY <1>1 DEF newest, TypeOK
  <1>3. ASSUME NEW ref \in DOMAIN heap
        PROVE  /\ idOf(ref) = heap[ref].id /\ heap[ref].id \in Id
               /\ newest(ref) \in DOMAIN heap
               /\ heap[newest(ref)].id = heap[ref].id
    <2>1. idOf(ref) = heap[ref].id
      BY <1>1 DEF idOf
    <2>2. heap[ref].id \in Id
      BY DEF TypeOK, Object
    <2> QED
      BY <2>1, <2>2 DEF newest, SameIds, TypeOK
  <1> QED
    BY <1>1, <1>2, <1>3 DEF idOf

(* A set of objects from which no reference leads out.                     *)
Whole(S) ==
  /\ S \subseteq DOMAIN heap /\ S \subseteq Address
  /\ closed(S)
  /\ OneEach(S)
  /\ \A r \in Root : Valid(roots[r])
  /\ \A a \in S, f \in Field : Valid(heap[a].fields[f])

(* What AbstractHeap reaches in its graph is what can be reached.          *)
LEMMA ReachableIsAccessible ==
  ASSUME TypeOK, SameIds, NEW S, Whole(S)
  PROVE  Promise!Reachable(visibleRoots, graphOf[S]) = ids(accessible)
  <1> DEFINE g     == graphOf[S]
             start == {visibleRoots[r] : r \in Root}
             kept(T) == /\ start \ {Nil} \subseteq T
                        /\ \A j \in T, f \in Field : g[j].fields[f] \in T \union {Nil}
  <1>1. Promise!Reachable(visibleRoots, g) =
          {i \in DOMAIN g : \A T \in SUBSET DOMAIN g : kept(T) => i \in T}
    BY DEF Promise!Reachable, Promise!Closure
  <1>2. /\ DOMAIN g = ids(S)
        /\ \A a \in S : g[heap[a].id] = visible(heap[a])
    BY GraphOf DEF Whole
  <1>3. \A a \in S, f \in Field : g[heap[a].id].fields[f] = idOf(heap[a].fields[f])
    BY <1>2, Visible
  <1>4. accessible \subseteq S
    BY AccessibleLeast DEF Whole
  <1>5. ASSUME NEW ref, Valid(ref)
        PROVE  /\ ref = Nil => idOf(ref) = Nil /\ newest(ref) \notin DOMAIN heap
               /\ ref # Nil => /\ newest(ref) \in DOMAIN heap
                               /\ idOf(ref) = heap[newest(ref)].id /\ idOf(ref) # Nil
    BY <1>5, IdOf DEF Valid
  <1>6. kept(ids(accessible)) /\ ids(accessible) \in SUBSET DOMAIN g
    <2>1. ids(accessible) \in SUBSET DOMAIN g
      BY <1>2, <1>4 DEF ids
    <2>2. ASSUME NEW r \in Root, visibleRoots[r] # Nil PROVE visibleRoots[r] \in ids(accessible)
      <3>1. visibleRoots[r] = idOf(roots[r]) /\ Valid(roots[r])
        BY DEF visibleRoots, Whole
      <3>2. newest(roots[r]) \in DOMAIN heap /\ idOf(roots[r]) = heap[newest(roots[r])].id
        BY <1>5, <2>2, <3>1
      <3>3. newest(roots[r]) \in accessible
        BY <3>2, AccessibleClosed DEF closed, holds
      <3> QED
        BY <3>1, <3>2, <3>3 DEF ids
    <2>3. ASSUME NEW j \in ids(accessible), NEW f \in Field
          PROVE  g[j].fields[f] \in ids(accessible) \union {Nil}
      <3>1. PICK a \in accessible : j = heap[a].id
        BY DEF ids
      <3>a. PICK ref : ref = heap[a].fields[f]
        OBVIOUS
      <3>2. g[j].fields[f] = idOf(ref) /\ Valid(ref)
        BY <1>3, <1>4, <3>1, <3>a DEF Whole
      <3>3. CASE ref = Nil
        BY <1>5, <3>2, <3>3
      <3>4. CASE ref # Nil
        <4>1. newest(ref) \in DOMAIN heap /\ idOf(ref) = heap[newest(ref)].id
          BY <1>5, <3>2, <3>4
        <4>2. newest(ref) \in accessible
          BY <4>1, <3>a, AccessibleClosed DEF closed, holds
        <4> QED
          BY <3>2, <4>1, <4>2 DEF ids
      <3> QED
        BY <3>3, <3>4
    <2> QED
      BY <2>1, <2>2, <2>3
  <1>7. ASSUME NEW T \in SUBSET DOMAIN g, kept(T), NEW i \in ids(accessible)
        PROVE  i \in T
    <2> DEFINE from == {a \in S : heap[a].id \in T}
    <2>1. closed(from)
      <3>1. ASSUME NEW r \in Root, newest(roots[r]) \in DOMAIN heap
            PROVE  newest(roots[r]) \in from
        <4>1. visibleRoots[r] = idOf(roots[r]) /\ Valid(roots[r]) /\ newest(roots[r]) \in S
          BY <3>1 DEF visibleRoots, Whole, closed, holds
        <4>2. idOf(roots[r]) = heap[newest(roots[r])].id /\ idOf(roots[r]) # Nil
          BY <1>5, <3>1, <4>1
        <4>3. idOf(roots[r]) \in T
          BY <1>7, <4>1, <4>2
        <4> QED
          BY <4>1, <4>2, <4>3
      <3>2. ASSUME NEW a \in from, NEW f \in Field, newest(heap[a].fields[f]) \in DOMAIN heap
            PROVE  newest(heap[a].fields[f]) \in from
        <4>a. PICK ref : ref = heap[a].fields[f]
          OBVIOUS
        <4>1. g[heap[a].id].fields[f] = idOf(ref) /\ Valid(ref) /\ newest(ref) \in S
          BY <1>3, <3>2, <4>a DEF Whole, closed, holds
        <4>2. idOf(ref) = heap[newest(ref)].id /\ idOf(ref) # Nil
          BY <1>5, <3>2, <4>1, <4>a
        <4>3. idOf(ref) \in T
          BY <1>7, <4>1, <4>2
        <4> QED
          BY <4>1, <4>2, <4>3, <4>a
      <3> QED
        BY <3>1, <3>2 DEF closed, holds
    <2>2. from \in SUBSET DOMAIN heap
      BY DEF Whole
    <2>3. accessible \subseteq from
      BY <2>1, <2>2, AccessibleLeast
    <2> QED
      BY <2>3 DEF ids
  <1>8. \A i \in ids(accessible) : i \in DOMAIN g
    BY <1>6
  <1> HIDE DEF g, kept
  <1> QED
    BY <1>1, <1>6, <1>7, <1>8 DEF g

(* The same of every such set, to be used with sets of another state.      *)
LEMMA GraphOfEach ==
  \A S \in SUBSET Address : S \subseteq DOMAIN heap /\ OneEach(S) =>
    /\ graphOf[S] = [i \in ids(S) |-> graphOf[S][i]]
    /\ \A a \in S : graphOf[S][heap[a].id] = visible(heap[a])
  BY GraphOf

(* The same in the next state.                                             *)
LEMMA GraphOfNext ==
  \A S \in SUBSET Address :
    S \subseteq DOMAIN heap' /\ (\A a, b \in S : heap'[a].id = heap'[b].id => a = b) =>
      /\ graphOf'[S] = [i \in {heap'[a].id : a \in S} |-> graphOf'[S][i]]
      /\ \A a \in S : graphOf'[S][heap'[a].id] = visible(heap[a])'
  <1>1. (\A S \in SUBSET Address : S \subseteq DOMAIN heap /\ OneEach(S) =>
           /\ graphOf[S] = [i \in ids(S) |-> graphOf[S][i]]
           /\ \A a \in S : graphOf[S][heap[a].id] = visible(heap[a]))'
    BY GraphOfEach, PTL
  <1> QED
    BY <1>1 DEF OneEach, ids

-----------------------------------------------------------------------------
(* What is not visible.                                                    *)

(* The program sees the same graph when the objects that it can reach hold *)
(* the same objects, wherever they have moved.                             *)
LEMMA GraphKept ==
  ASSUME TypeOK, UniqueIds, NEW m,
         accessible' = {m[x] : x \in accessible}, DOMAIN heap' \subseteq Address,
         \A x \in accessible :
           /\ heap'[m[x]].id = heap[x].id
           /\ visible(heap[m[x]])' = visible(heap[x])
  PROVE  visibleGraph' = visibleGraph /\ UniqueIds'
  <1>1. accessible \subseteq DOMAIN heap /\ accessible \subseteq Address
    BY AccessibleClosed DEF TypeOK
  <1>2. accessible' \subseteq DOMAIN heap' /\ accessible' \subseteq Address
    BY AccessibleClosedNext
  <1>3. ASSUME NEW a \in accessible', NEW b \in accessible', heap'[a].id = heap'[b].id
        PROVE  a = b
    <2>1. PICK x \in accessible : a = m[x]
      OBVIOUS
    <2>2. PICK y \in accessible : b = m[y]
      OBVIOUS
    <2> QED
      BY <1>3, <2>1, <2>2 DEF UniqueIds, OneEach
  <1>4. /\ visibleGraph = [i \in ids(accessible) |-> visibleGraph[i]]
        /\ \A x \in accessible : visibleGraph[heap[x].id] = visible(heap[x])
    BY <1>1, GraphOfEach DEF UniqueIds, visibleGraph
  <1>5. /\ visibleGraph' = [i \in {heap'[a].id : a \in accessible'} |-> visibleGraph'[i]]
        /\ \A a \in accessible' : visibleGraph'[heap'[a].id] = visible(heap[a])'
    BY <1>2, <1>3, GraphOfNext DEF visibleGraph
  <1>6. {heap'[a].id : a \in accessible'} = ids(accessible)
    BY DEF ids
  <1>7. ASSUME NEW i \in ids(accessible) PROVE visibleGraph'[i] = visibleGraph[i]
    <2>1. PICK x \in accessible : i = heap[x].id
      BY DEF ids
    <2>2. m[x] \in accessible' /\ heap'[m[x]].id = i
      BY <2>1
    <2>3. visibleGraph'[i] = visible(heap[m[x]])'
      <3>1. PICK a \in accessible' : a = m[x]
        BY <2>2
      <3>2. visibleGraph'[heap'[a].id] = visible(heap[a])'
        BY <1>5
      <3> QED
        BY <2>2, <3>1, <3>2
    <2> QED
      BY <1>4, <2>1, <2>3
  <1>8. UniqueIds'
    BY <1>3 DEF UniqueIds, OneEach
  <1> QED
    BY <1>4, <1>5, <1>6, <1>7, <1>8

(* References to a may have been corrected to d, which is the same object. *)
LEMMA ReferenceKept ==
  ASSUME NEW old, NEW new, NEW a \in DOMAIN heap, NEW d, reference(old, new, a, d),
         TypeOK, Valid(old), DOMAIN heap' = DOMAIN heap \union {d}, d \in Address,
         \A x \in DOMAIN heap : heap'[x].id = heap[x].id,
         heap'[d].id = heap[a].id
  PROVE  idOf(new)' = idOf(old)
  <1>1. Nil \notin DOMAIN heap' /\ Nil \notin DOMAIN heap
    BY AddressAssumption DEF TypeOK
  <1>2. CASE old = a /\ new = d
    BY <1>1, <1>2 DEF idOf
  <1>3. CASE new = old
    BY <1>1, <1>3 DEF idOf, Valid
  <1> QED
    BY <1>2, <1>3 DEF reference

(* Reaching the object at a, copying it to d if it has to be evacuated, and *)
(* correcting one reference to it: resolveObject_ and its callers.          *)
Resolving(a, d) ==
  /\ a \in DOMAIN heap /\ d = resolved(a) /\ newest(a) \in accessible
  /\ \E corrected : resolveObject(a, corrected)
  /\ DOMAIN heap' = DOMAIN heap \union {d}
  /\ evacuated' = evacuated /\ phase' = phase
  /\ \A r \in Root : reference(roots[r], roots'[r], a, d)
  /\ \A x \in DOMAIN heap :
       /\ heap'[x].id = heap[x].id /\ heap'[x].special = heap[x].special
       /\ \A f \in Field : reference(heap[x].fields[f], heap'[x].fields[f], a, d)
  /\ a \notin seen =>
       /\ heap'[d].id = heap[a].id /\ heap'[d].special = heap[a].special
       /\ \A f \in Field : reference(heap[a].fields[f], heap'[d].fields[f], a, d)

(* resolveObject_, at any call, leaves the graph that is seen as it was:   *)
(* the copy stands for the original under the same identity, with the same *)
(* fields.                                                                 *)
LEMMA ResolvingInvisible ==
  ASSUME Inv, UniqueIds, SameIds, Collecting, NEW a, NEW d, Resolving(a, d)
  PROVE  /\ UniqueIds' /\ SameIds'
         /\ visibleRoots' = visibleRoots /\ visibleGraph' = visibleGraph
         /\ heap'[d].id = heap[a].id
         /\ \A x \in accessible : visible(heap[x])' = visible(heap[x])
  <1>c. PICK corrected : resolveObject(a, corrected)
    BY DEF Resolving
  <1>0. /\ a \in DOMAIN heap /\ d = resolved(a) /\ newest(a) \in accessible
        /\ DOMAIN heap' = DOMAIN heap \union {d}
        /\ evacuated' = evacuated /\ phase' = phase
        /\ \A r \in Root : reference(roots[r], roots'[r], a, d)
        /\ \A x \in DOMAIN heap :
             heap'[x].id = heap[x].id /\ heap'[x].special = heap[x].special
        /\ \A x \in DOMAIN heap, f \in Field :
             reference(heap[x].fields[f], heap'[x].fields[f], a, d)
        /\ a \notin seen => heap'[d].id = heap[a].id /\ heap'[d].special = heap[a].special
        /\ a \notin seen =>
             \A f \in Field : reference(heap[a].fields[f], heap'[d].fields[f], a, d)
    BY DEF Resolving
  <1>1. TypeOK /\ ForwardedOK /\ RoomOK /\ GraphOK /\ OnlyReachableSeen
    BY DEF Inv
  <1>2. /\ d \in Address
        /\ a \in seen => d = newest(a) /\ d \in DOMAIN heap
    BY <1>0, <1>1, Evacuated DEF TypeOK
  <1>3. heap'[d].id = heap[a].id
    <2>1. a \in seen => heap'[d].id = heap[d].id /\ heap[d].id = heap[a].id
      BY <1>0, <1>1, <1>2, IdOf
    <2> QED
      BY <1>0, <2>1
  <1>4. ASSUME NEW old, Valid(old), NEW new, reference(old, new, a, d)
        PROVE  idOf(new)' = idOf(old)
    BY <1>0, <1>1, <1>2, <1>3, <1>4, ReferenceKept
  <1>5. PICK m : m = [x \in accessible |-> IF x = a THEN d ELSE x]
    OBVIOUS
  <1>6. accessible' = {m[x] : x \in accessible}
    <2>1. accessible' = {IF x = a THEN d ELSE x : x \in accessible}
      BY <1>0, <1>c, Relocated
    <2> QED
      BY <1>5, <2>1
  <1>7. ASSUME NEW x \in accessible
        PROVE  /\ heap'[m[x]].id = heap[x].id
               /\ visible(heap[m[x]])' = visible(heap[x])
    <2>1. x \in DOMAIN heap /\ newest(x) = x
      BY <1>1, AccessibleIsNewest
    <2>2. x = a /\ a \in seen => d = a
      BY <1>2, <2>1
    <2>y. PICK y : y = m[x]
      OBVIOUS
    <2>3. /\ heap'[y].id = heap[x].id /\ heap'[y].special = heap[x].special
          /\ \A f \in Field : reference(heap[x].fields[f], heap'[y].fields[f], a, d)
      BY <1>0, <1>5, <2>1, <2>2, <2>y
    <2>4. ASSUME NEW f \in Field PROVE idOf(heap[y].fields[f])' = idOf(heap[x].fields[f])
      <3>1. PICK old : old = heap[x].fields[f]
        OBVIOUS
      <3>2. PICK new : new = heap'[y].fields[f]
        OBVIOUS
      <3>3. Valid(old)
        BY <1>1, <3>1 DEF GraphOK
      <3>4. idOf(new)' = idOf(old)
        BY <1>4, <2>3, <3>1, <3>2, <3>3
      <3> QED
        BY <3>1, <3>2, <3>4
    <2>5. visible(heap[y])' = visible(heap[x])
      BY <2>3, <2>4 DEF visible
    <2> QED
      BY <2>3, <2>5, <2>y
  <1>8. visibleGraph' = visibleGraph /\ UniqueIds'
    <2>1. DOMAIN heap' \subseteq Address
      BY <1>0, <1>1, <1>2 DEF TypeOK
    <2> QED
      BY <1>1, <1>6, <1>7, <2>1, GraphKept
  <1>9. visibleRoots' = visibleRoots
    <2>1. ASSUME NEW r \in Root PROVE idOf(roots[r])' = idOf(roots[r])
      <3>1. PICK old : old = roots[r]
        OBVIOUS
      <3>2. PICK new : new = roots'[r]
        OBVIOUS
      <3>3. idOf(new)' = idOf(old)
        BY <1>0, <1>1, <1>4, <3>1, <3>2 DEF GraphOK
      <3> QED
        BY <3>1, <3>2, <3>3
    <2> QED
      BY <2>1 DEF visibleRoots
  <1>10. SameIds'
    <2>1. ASSUME NEW x \in DOMAIN forwarder'
          PROVE  heap'[forwarder'[x]].id = heap'[x].id
      <3>1. x \in DOMAIN heap /\ x \in DOMAIN heap'
        BY <1>0, <1>c, <1>1, Resolved DEF TypeOK
      <3>2. forwarder'[x] = newest(x)'
        BY DEF newest
      <3>3. newest(x)' = IF newest(x) = a THEN d ELSE newest(x)
        BY <1>0, <1>c, <1>1, <3>1, Resolved
      <3>4. newest(x) \in DOMAIN heap /\ heap[newest(x)].id = heap[x].id
        BY <1>1, <3>1, IdOf
      <3> QED
        BY <1>0, <1>3, <3>1, <3>2, <3>3, <3>4
    <2> QED
      BY <2>1 DEF SameIds
  <1>11. ASSUME NEW x \in accessible PROVE visible(heap[x])' = visible(heap[x])
    <2>1. x \in DOMAIN heap
      BY AccessibleClosed
    <2>2. ASSUME NEW f \in Field PROVE idOf(heap[x].fields[f])' = idOf(heap[x].fields[f])
      <3>1. PICK old : old = heap[x].fields[f]
        OBVIOUS
      <3>2. PICK new : new = heap'[x].fields[f]
        OBVIOUS
      <3>3. Valid(old)
        BY <1>1, <3>1 DEF GraphOK
      <3>4. idOf(new)' = idOf(old)
        BY <1>0, <1>4, <2>1, <3>1, <3>2, <3>3
      <3> QED
        BY <3>1, <3>2, <3>4
    <2> QED
      BY <1>0, <2>1, <2>2 DEF visible
  <1> QED
    BY <1>3, <1>8, <1>9, <1>10, <1>11

(* scanRoot_ is such a call.                                               *)
LEMMA ScanRootResolves ==
  ASSUME Inv, NEW r \in rootsLeft, ScanRoot(r), roots[r] # Nil
  PROVE  Resolving(roots[r], resolved(roots[r]))
  <1>a. PICK a : a = roots[r]
    OBVIOUS
  <1>d. PICK d : d = resolved(a)
    OBVIOUS
  <1>1. TypeOK /\ GraphOK /\ ForwardedOK /\ RoomOK
    BY DEF Inv
  <1>2. /\ phase = "roots" /\ phase' = phase /\ evacuated' = evacuated
        /\ roots' = [roots EXCEPT ![r] = d]
        /\ resolveObject(a, evacuate(a))
    BY <1>a, <1>d DEF ScanRoot
  <1>3. Collecting /\ r \in Root
    BY <1>1, <1>2 DEF Collecting, TypeOK
  <1>4. a \in DOMAIN heap
    BY <1>a, <1>1, <1>3 DEF GraphOK, Valid
  <1>5. heap' = evacuate(a)
    BY <1>2 DEF resolveObject
  <1>6. /\ DOMAIN heap' = DOMAIN heap \union {d}
        /\ \A x \in DOMAIN heap : heap'[x] = heap[x]
        /\ a \notin seen => heap'[d] = heap[a]
    BY <1>d, <1>1, <1>3, <1>4, <1>5, Evacuated
  <1>7. newest(a) \in accessible
    BY <1>a, <1>1, <1>3, <1>4, ReferencesAccessible
  <1>8. \A q \in Root : reference(roots[q], roots'[q], a, d)
    BY <1>a, <1>1, <1>2 DEF reference, TypeOK
  <1>9. \A x \in DOMAIN heap, f \in Field :
          reference(heap[x].fields[f], heap'[x].fields[f], a, d)
    BY <1>6 DEF reference
  <1>10. a \notin seen =>
           \A f \in Field : reference(heap[a].fields[f], heap'[d].fields[f], a, d)
    BY <1>6 DEF reference
  <1> QED
    BY <1>a, <1>d, <1>2, <1>4, <1>6, <1>7, <1>8, <1>9, <1>10 DEF Resolving

(* The span that is scanned next, and what its first field refers to.      *)
spanToScan == IF isScanning THEN scanned ELSE Last(stack)

referenceToScan == heap[spanToScan.object].fields[spanToScan.index]

(* followObjects makes such a call for each field (scanBehavior,           *)
(* scanSlot).                                                              *)
LEMMA ScanFieldResolves ==
  ASSUME Inv, ScanField, referenceToScan # Nil
  PROVE  Resolving(referenceToScan, resolved(referenceToScan))
  <1>c. PICK current : current = spanToScan
    OBVIOUS
  <1>a. PICK a : a = referenceToScan
    OBVIOUS
  <1>b. PICK b : b = current.object
    OBVIOUS
  <1>f. PICK f : f = current.index
    OBVIOUS
  <1>d. PICK d : d = resolved(a)
    OBVIOUS
  <1>1. /\ TypeOK /\ SpansOK /\ GraphOK /\ ForwardedOK /\ RoomOK /\ OnlyReachableSeen
    BY DEF Inv
  <1>2. /\ phase \in {"check", "rescue"} /\ phase' = phase /\ evacuated' = evacuated
        /\ roots' = roots
        /\ resolveObject(a, [evacuate(a) EXCEPT ![b].fields[f] = d])
    BY <1>a, <1>b, <1>c, <1>d, <1>f DEF ScanField, programVars, spanToScan, referenceToScan
  <1>3. Collecting
    BY <1>2 DEF Collecting
  <1>4. current \in Span /\ current \in pending
    BY <1>c, <1>1, CurrentSpan DEF ScanField, spanToScan
  <1>5. b \in survivors /\ b \in DOMAIN heap /\ b \notin evacuated /\ b \in seen
    BY <1>b, <1>1, <1>4 DEF SpansOK, survivors, TypeOK
  <1>6. f \in Field
    BY <1>f, <1>1, <1>4, FieldAssumption DEF SpansOK, Span, Field
  <1>7. b \in accessible /\ a \in DOMAIN heap /\ a = heap[b].fields[f]
    BY <1>a, <1>b, <1>c, <1>f, <1>1, <1>3, <1>5, <1>6, SurvivorsAccessible
    DEF GraphOK, Valid, referenceToScan
  <1>8. /\ DOMAIN evacuate(a) = DOMAIN heap \union {d}
        /\ \A x \in DOMAIN heap : evacuate(a)[x] = heap[x]
        /\ a \notin seen => evacuate(a)[d] = heap[a]
        /\ d \in DOMAIN heap => a \notin evacuated \ seen
        /\ d \in DOMAIN heap \/ evacuate(a)[d] = heap[a]
        /\ d \in Address
    BY <1>d, <1>1, <1>3, <1>7, Evacuated DEF TypeOK
  <1>9. /\ DOMAIN heap' = DOMAIN heap \union {d}
        /\ \A x \in DOMAIN heap' : heap'[x].id = evacuate(a)[x].id
        /\ \A x \in DOMAIN heap' : heap'[x].special = evacuate(a)[x].special
        /\ \A x \in DOMAIN heap' : heap'[x] \in Object
        /\ \A x \in DOMAIN heap', k \in Field :
             heap'[x].fields[k] = IF x = b /\ k = f THEN d ELSE evacuate(a)[x].fields[k]
    <2>1. heap' = withField(evacuate(a), b, f, d)
      BY <1>2 DEF resolveObject, withField
    <2>2. b \in DOMAIN evacuate(a) /\ d \in Reference
      BY <1>5, <1>8 DEF Reference
    <2>3. \A x \in DOMAIN evacuate(a) : evacuate(a)[x] \in Object
      BY <1>1, <1>7, <1>8 DEF TypeOK
    <2>4. PICK h : h = evacuate(a)
      OBVIOUS
    <2>5. PICK g : g = withField(h, b, f, d)
      OBVIOUS
    <2>6. /\ DOMAIN g = DOMAIN h
          /\ \A x \in DOMAIN h :
               /\ g[x] \in Object
               /\ \A k \in Field :
                    g[x].fields[k] = IF x = b /\ k = f THEN d ELSE h[x].fields[k]
      BY <1>6, <2>2, <2>3, <2>4, <2>5, Corrected
    <2>7. /\ \A x \in DOMAIN h : g[x].id = h[x].id
          /\ \A x \in DOMAIN h : g[x].special = h[x].special
      BY <1>6, <2>2, <2>3, <2>4, <2>5, SameObjects
    <2> QED
      BY <1>8, <2>1, <2>4, <2>5, <2>6, <2>7
  <1>10. newest(a) \in accessible
    BY <1>1, <1>3, <1>6, <1>7, ReferencesAccessible
  <1>11. \A q \in Root : reference(roots[q], roots'[q], a, d)
    BY <1>2 DEF reference
  <1>12. \A x \in DOMAIN heap, k \in Field :
           reference(heap[x].fields[k], heap'[x].fields[k], a, d)
    BY <1>7, <1>8, <1>9 DEF reference
  <1>13. a \notin seen => d # b
    <2>1. a \notin seen /\ d \in DOMAIN heap => d = a
      BY <1>d, <1>8 DEF resolved, isSeen, hasToEvacuate
    <2> QED
      BY <1>5, <2>1
  <1>14. a \notin seen =>
           \A k \in Field : reference(heap[a].fields[k], heap'[d].fields[k], a, d)
    BY <1>8, <1>9, <1>13 DEF reference
  <1>15. \A x \in DOMAIN heap : heap'[x].id = heap[x].id /\ heap'[x].special = heap[x].special
    BY <1>8, <1>9
  <1>16. a \notin seen => heap'[d].id = heap[a].id /\ heap'[d].special = heap[a].special
    BY <1>8, <1>9
  <1> QED
    BY <1>a, <1>d, <1>2, <1>7, <1>9, <1>10, <1>11, <1>12, <1>14, <1>15, <1>16 DEF Resolving

(* Steps that touch lists, marks and spans only.                           *)
LEMMA UntouchedInvisible ==
  ASSUME UNCHANGED <<roots, heap, forwarder>>
  PROVE  /\ UniqueIds' = UniqueIds /\ SameIds' = SameIds
         /\ visibleRoots' = visibleRoots /\ visibleGraph' = visibleGraph
         /\ \A a \in DOMAIN heap : visible(heap[a])' = visible(heap[a])
  <1>1. accessible' = accessible
    BY DEF accessible, closed, holds, newest
  <1>2. \A ref : idOf(ref)' = idOf(ref)
    BY DEF idOf
  <1>3. \A object : visible(object)' = visible(object)
    BY <1>2 DEF visible
  <1>4. graphOf' = graphOf
    BY DEF graphOf, visible, idOf
  <1>5. visibleRoots' = visibleRoots /\ visibleGraph' = visibleGraph
    BY <1>1, <1>2, <1>4 DEF visibleRoots, visibleGraph
  <1> QED
    BY <1>1, <1>3, <1>5 DEF UniqueIds, OneEach, SameIds

-----------------------------------------------------------------------------
(* What is alive.                                                          *)

(* What is alive is a matter of what is seen.                              *)
LEMMA SameAlive ==
  ASSUME visibleRoots' = visibleRoots, visibleGraph' = visibleGraph
  PROVE  /\ alive' = alive /\ dying' = dying
         /\ \A object : keyAlive(object)' = keyAlive(object)
  <1>1. alive' = alive
    BY DEF alive, Promise!Alive, Promise!Closure, Promise!KeyIn, Promise!Strong
  <1>2. \A object : keyAlive(object)' = keyAlive(object)
    BY <1>1 DEF keyAlive, Promise!KeyIn
  <1> QED
    BY <1>1, <1>2 DEF dying, keyAlive, Promise!KeyIn

(* Closed under the fields that keep what they refer to.                   *)
follows(S) ==
  /\ \A r \in Root : visibleRoots[r] \in S \union {Nil}
  /\ \A j \in S, f \in Field :
       \/ f = 0
       \/ ~visibleGraph[j].special
       \/ visibleGraph[j].fields[Key] \in S \union {Nil}
       => visibleGraph[j].fields[f] \in S \union {Nil}

(* Alive is what is in every set that is closed in this sense ...          *)
LEMMA AliveMeans ==
  alive = {i \in DOMAIN visibleGraph :
             \A S \in SUBSET DOMAIN visibleGraph : follows(S) => i \in S}
  <1>1. ASSUME NEW S
        PROVE  /\ {visibleRoots[r] : r \in Root} \ {Nil} \subseteq S
                  <=> \A r \in Root : visibleRoots[r] \in S \union {Nil}
               /\ \A j \in S, f \in Field :
                    f \in (IF Promise!KeyIn(visibleGraph[j], S) THEN Field
                           ELSE Promise!Strong(visibleGraph[j]))
                    <=> \/ f = 0
                        \/ ~visibleGraph[j].special
                        \/ visibleGraph[j].fields[Key] \in S \union {Nil}
    <2>1. \A f : f \in Field => (f \in {0} <=> f = 0)
      OBVIOUS
    <2> QED
      BY <2>1 DEF Promise!KeyIn, Promise!Strong, Key, Promise!Key
  <1>2. ASSUME NEW S
        PROVE  follows(S) <=>
                 /\ {visibleRoots[r] : r \in Root} \ {Nil} \subseteq S
                 /\ \A j \in S, f \in Field :
                      f \in (IF Promise!KeyIn(visibleGraph[j], S) THEN Field
                             ELSE Promise!Strong(visibleGraph[j]))
                      => visibleGraph[j].fields[f] \in S \union {Nil}
    BY <1>1 DEF follows
  <1> QED
    BY <1>2 DEF alive, Promise!Alive, Promise!Closure

(* ... so it is part of each of them ...                                   *)
LEMMA AliveLeast ==
  \A S \in SUBSET DOMAIN visibleGraph : follows(S) => alive \subseteq S
  BY AliveMeans

(* ... and is such a set itself, if nothing refers outside the graph.      *)
LEMMA AliveFollows ==
  ASSUME \A r \in Root : visibleRoots[r] \in DOMAIN visibleGraph \union {Nil},
         \A j \in DOMAIN visibleGraph, f \in Field :
           visibleGraph[j].fields[f] \in DOMAIN visibleGraph \union {Nil}
  PROVE  follows(alive) /\ alive \subseteq DOMAIN visibleGraph
  <1>1. alive \subseteq DOMAIN visibleGraph
    BY AliveMeans
  <1>2. ASSUME NEW r \in Root PROVE visibleRoots[r] \in alive \union {Nil}
    BY AliveMeans DEF follows
  <1>3. ASSUME NEW j \in alive, NEW f \in Field,
               \/ f = 0
               \/ ~visibleGraph[j].special
               \/ visibleGraph[j].fields[Key] \in alive \union {Nil}
        PROVE  visibleGraph[j].fields[f] \in alive \union {Nil}
    <2>1. ASSUME NEW S \in SUBSET DOMAIN visibleGraph, follows(S)
          PROVE  visibleGraph[j].fields[f] \in S \union {Nil}
      BY <1>3, <2>1, AliveLeast DEF follows
    <2> QED
      BY <1>1, <2>1, AliveMeans
  <1> QED
    BY <1>1, <1>2, <1>3 DEF follows

(* The same, of the objects in the heap.                                   *)
LEMMA AccessibleWhole ==
  ASSUME TypeOK, GraphOK, UniqueIds
  PROVE  /\ Whole(accessible)
         /\ DOMAIN visibleGraph = ids(accessible)
         /\ \A x \in accessible :
              /\ visibleGraph[heap[x].id] = visible(heap[x])
              /\ visibleGraph[heap[x].id].special = heap[x].special
              /\ \A f \in Field :
                   visibleGraph[heap[x].id].fields[f] = idOf(heap[x].fields[f])
  <1>1. accessible \subseteq DOMAIN heap /\ accessible \subseteq Address
    BY AccessibleClosed DEF TypeOK
  <1>2. Whole(accessible)
    BY <1>1, AccessibleClosed DEF Whole, GraphOK, UniqueIds
  <1>3. /\ DOMAIN visibleGraph = ids(accessible)
        /\ \A x \in accessible : visibleGraph[heap[x].id] = visible(heap[x])
    BY <1>1, GraphOf DEF UniqueIds, visibleGraph
  <1> QED
    BY <1>2, <1>3, Visible

(* A reference that a root or a reachable object holds is to the object    *)
(* that is seen there, whether or not it was corrected.                    *)
LEMMA ReferenceVisible ==
  ASSUME TypeOK, GraphOK, SameIds, NEW ref,
         \/ \E r \in Root : roots[r] = ref
         \/ \E x \in accessible, f \in Field : heap[x].fields[f] = ref
  PROVE  /\ ref = Nil => idOf(ref) = Nil
         /\ ref # Nil => /\ ref \in DOMAIN heap /\ newest(ref) \in accessible
                         /\ idOf(ref) = heap[ref].id
                         /\ idOf(ref) = heap[newest(ref)].id
                         /\ idOf(ref) \in ids(accessible) /\ idOf(ref) # Nil
  <1>1. ref \in DOMAIN heap \union {Nil}
    BY DEF GraphOK, Valid
  <1>2. ASSUME ref \in DOMAIN heap
        PROVE  /\ newest(ref) \in accessible
               /\ idOf(ref) = heap[ref].id
               /\ idOf(ref) = heap[newest(ref)].id
               /\ idOf(ref) # Nil
    <2>1. newest(ref) \in DOMAIN heap /\ idOf(ref) = heap[ref].id /\ idOf(ref) \in Id
          /\ heap[newest(ref)].id = heap[ref].id /\ Nil \notin Id
      BY <1>2, IdOf
    <2>2. newest(ref) \in accessible
      BY <2>1, AccessibleClosed DEF closed, holds
    <2> QED
      BY <2>1, <2>2
  <1> QED
    BY <1>1, <1>2, IdOf DEF ids

(* The same of the objects in the heap: what the roots and the followed    *)
(* fields of live objects refer to is alive.                               *)
LEMMA AliveIsClosed ==
  ASSUME TypeOK, GraphOK, SameIds, UniqueIds
  PROVE  /\ alive \subseteq ids(accessible)
         /\ \A r \in Root : idOf(roots[r]) \in alive \union {Nil}
         /\ \A x \in accessible, f \in Field :
              /\ heap[x].id \in alive
              /\ f = 0 \/ ~heap[x].special \/ keyAlive(visible(heap[x]))
              => idOf(heap[x].fields[f]) \in alive \union {Nil}
         /\ \A x \in accessible :
              keyAlive(visible(heap[x])) <=> idOf(heap[x].fields[Key]) \in alive \union {Nil}
  <1>1. /\ DOMAIN visibleGraph = ids(accessible)
        /\ \A x \in accessible :
             /\ visibleGraph[heap[x].id].special = heap[x].special
             /\ \A f \in Field :
                  visibleGraph[heap[x].id].fields[f] = idOf(heap[x].fields[f])
    BY AccessibleWhole
  <1>2. \A r \in Root : visibleRoots[r] = idOf(roots[r])
    BY DEF visibleRoots
  <1>3. \A r \in Root : idOf(roots[r]) \in ids(accessible) \union {Nil}
    BY ReferenceVisible
  <1>4. \A x \in accessible, f \in Field :
          idOf(heap[x].fields[f]) \in ids(accessible) \union {Nil}
    BY ReferenceVisible
  <1>5. \A j \in ids(accessible), f \in Field :
          visibleGraph[j].fields[f] \in ids(accessible) \union {Nil}
    BY <1>1, <1>4 DEF ids
  <1>6. follows(alive) /\ alive \subseteq ids(accessible)
    BY <1>1, <1>2, <1>3, <1>5, AliveFollows
  <1>7. Key \in Field
    BY FieldAssumption DEF Key, Field
  <1>8. \A x \in accessible :
          keyAlive(visible(heap[x])) <=> idOf(heap[x].fields[Key]) \in alive \union {Nil}
    <2>1. \A x \in accessible : visible(heap[x]).fields[Key] = idOf(heap[x].fields[Key])
      BY <1>7, Visible
    <2> QED
      BY <2>1 DEF keyAlive, Promise!KeyIn, Key, Promise!Key
  <1>9. ASSUME NEW x \in accessible, NEW f \in Field, heap[x].id \in alive,
               f = 0 \/ ~heap[x].special \/ keyAlive(visible(heap[x]))
        PROVE  idOf(heap[x].fields[f]) \in alive \union {Nil}
    <2>1. PICK j : j = heap[x].id
      OBVIOUS
    <2>2. /\ j \in alive
          /\ f = 0 \/ ~visibleGraph[j].special
             \/ visibleGraph[j].fields[Key] \in alive \union {Nil}
      BY <1>1, <1>7, <1>8, <1>9, <2>1
    <2>3. visibleGraph[j].fields[f] \in alive \union {Nil}
      BY <1>6, <2>2 DEF follows
    <2> QED
      BY <1>1, <2>1, <2>3
  <1> QED
    BY <1>2, <1>3, <1>6, <1>8, <1>9 DEF follows

(* A set of reachable objects that is closed in this sense holds all that  *)
(* is alive.                                                               *)
LEMMA AliveIsLeast ==
  ASSUME TypeOK, GraphOK, SameIds, UniqueIds, NEW S \in SUBSET accessible,
         \A r \in Root : idOf(roots[r]) \in ids(S) \union {Nil},
         \A x \in S, f \in Field :
           \/ f = 0
           \/ ~heap[x].special
           \/ idOf(heap[x].fields[Key]) \in ids(S) \union {Nil}
           => idOf(heap[x].fields[f]) \in ids(S) \union {Nil}
  PROVE  alive \subseteq ids(S)
  <1>1. /\ DOMAIN visibleGraph = ids(accessible)
        /\ \A x \in accessible :
             /\ visibleGraph[heap[x].id].special = heap[x].special
             /\ \A f \in Field :
                  visibleGraph[heap[x].id].fields[f] = idOf(heap[x].fields[f])
    BY AccessibleWhole
  <1>2. \A r \in Root : visibleRoots[r] = idOf(roots[r])
    BY DEF visibleRoots
  <1>3. ids(S) \in SUBSET DOMAIN visibleGraph
    BY <1>1 DEF ids
  <1>4. Key \in Field
    BY FieldAssumption DEF Key, Field
  <1>5. ASSUME NEW j \in ids(S), NEW f \in Field,
               \/ f = 0
               \/ ~visibleGraph[j].special
               \/ visibleGraph[j].fields[Key] \in ids(S) \union {Nil}
        PROVE  visibleGraph[j].fields[f] \in ids(S) \union {Nil}
    <2>1. PICK x \in S : j = heap[x].id
      BY DEF ids
    <2>2. /\ visibleGraph[j].special = heap[x].special
          /\ visibleGraph[j].fields[f] = idOf(heap[x].fields[f])
          /\ visibleGraph[j].fields[Key] = idOf(heap[x].fields[Key])
      BY <1>1, <1>4, <2>1
    <2> QED
      BY <1>5, <2>1, <2>2
  <1>6. follows(ids(S))
    BY <1>2, <1>5 DEF follows
  <1> QED
    BY <1>3, <1>6, AliveLeast

-----------------------------------------------------------------------------
(* Steps of the trace.                                                     *)

(* Whether the key of an object is alive does not change if what is seen   *)
(* does not.                                                               *)
LEMMA KeyAliveKept ==
  ASSUME alive' = alive, NEW x, visible(heap[x])' = visible(heap[x])
  PROVE  keyAlive(visible(heap[x]))' <=> keyAlive(visible(heap[x]))
  BY DEF keyAlive, Promise!KeyIn

(* resolveObject_ keeps the invariant if what it is called on is alive     *)
(* while nothing is rescued, and the caller queues no more of an ephemeron *)
(* than its behavior.                                                      *)
LEMMA ResolvingKeeps ==
  ASSUME Inv, RInv, Collecting, NEW a, NEW d, Resolving(a, d),
         UNCHANGED <<unreached, rescued, done>>,
         phase \in {"roots", "check"} /\ ~Rescuing => heap[a].id \in alive,
         phase = "check" /\ done => unreached = {},
         \A x : \A k \in Field : queued(x, k)' =>
           \/ queued(x, k)
           \/ x = d /\ a \notin seen /\ (heap[a].special => k = 0)
  PROVE  RInv' /\ visibleRoots' = visibleRoots /\ visibleGraph' = visibleGraph
  <1>1. /\ TypeOK /\ SpansOK /\ ListsOK /\ GraphOK /\ ForwardedOK /\ RoomOK
        /\ OnlyReachableSeen
        /\ UniqueIds /\ SameIds /\ ListedOK /\ LivesOK /\ RescueOK
    BY DEF Inv, RInv
  <1>2. /\ a \in DOMAIN heap /\ d = resolved(a)
        /\ DOMAIN heap' = DOMAIN heap \union {d}
        /\ evacuated' = evacuated /\ phase' = phase
        /\ \A x \in DOMAIN heap :
             heap'[x].id = heap[x].id /\ heap'[x].special = heap[x].special
        /\ a \notin seen => heap'[d].special = heap[a].special
    BY DEF Resolving
  <1>3. PICK corrected : resolveObject(a, corrected)
    BY DEF Resolving
  <1>4. /\ UniqueIds' /\ SameIds'
        /\ visibleRoots' = visibleRoots /\ visibleGraph' = visibleGraph
        /\ heap'[d].id = heap[a].id
        /\ \A x \in accessible : visible(heap[x])' = visible(heap[x])
    BY <1>1, ResolvingInvisible
  <1>5. alive' = alive /\ dying' = dying
    BY <1>4, SameAlive
  <1>6. survivors' = survivors \union {d} /\ survivors \subseteq DOMAIN heap
        /\ survivors \subseteq accessible
    BY <1>1, <1>2, <1>3, Resolved, SurvivorsAccessible DEF survivors, TypeOK
  <1>7. \A x \in unchecked' : x \in unchecked \/ (x = d /\ a \notin seen /\ heap[a].special)
    BY <1>2, <1>3 DEF resolveObject, isSeen
  <1>8. Rescuing' = Rescuing /\ unreachable' = unreachable
    BY <1>2 DEF Rescuing, unreachable
  <1>9. ids(survivors)' = ids(survivors) \union {heap[a].id}
        /\ ids(unreachable)' = ids(unreachable)
    <2>1. ids(survivors)' = {heap'[x].id : x \in survivors \union {d}}
      BY <1>6 DEF ids
    <2>2. unreachable \subseteq DOMAIN heap
      BY <1>1, <1>6 DEF unreachable, ListsOK
    <2>3. ids(unreachable)' = {heap'[x].id : x \in unreachable}
      BY <1>8 DEF ids
    <2> QED
      BY <1>2, <1>4, <1>6, <2>1, <2>2, <2>3 DEF ids
  <1>10. ListedOK'
    <2>1. SUFFICES ASSUME phase \in {"roots", "check", "rescue", "strengthen"}
          PROVE  /\ \A e \in unchecked' \union unreached \union rescued : heap'[e].special
                 /\ phase = "roots" => unreached = {} /\ rescued = {}
                 /\ phase = "rescue" => unreached \union rescued # {}
                 /\ phase = "check" /\ done => unreached = {}
      BY <1>2 DEF ListedOK
    <2>2. \A e \in unchecked \union unreached \union rescued :
            heap[e].special /\ e \in DOMAIN heap
      BY <1>1, <1>6, <2>1 DEF ListedOK, ListsOK
    <2> QED
      BY <1>1, <1>2, <1>7, <2>1, <2>2 DEF ListedOK
  <1>11. LivesOK'
    <2>1. SUFFICES ASSUME phase \in {"roots", "check"}, ~Rescuing
          PROVE  /\ ids(survivors)' \subseteq alive
                 /\ \A x \in survivors', f \in Field \ {0} :
                      queued(x, f)' /\ heap'[x].special => keyAlive(visible(heap[x]))'
      BY <1>2, <1>5, <1>8 DEF LivesOK
    <2>2. /\ ids(survivors) \subseteq alive
          /\ \A x \in survivors, f \in Field \ {0} :
               queued(x, f) /\ heap[x].special => keyAlive(visible(heap[x]))
      BY <1>1, <2>1 DEF LivesOK
    <2>3. ASSUME NEW x \in survivors', NEW f \in Field \ {0},
                 queued(x, f)', heap'[x].special
          PROVE  keyAlive(visible(heap[x]))'
      <3>1. CASE queued(x, f)
        <4>1. x \in survivors
          BY <1>1, <3>1 DEF queued, SpansOK
        <4>2. keyAlive(visible(heap[x]))
          BY <1>2, <1>6, <2>2, <2>3, <3>1, <4>1
        <4>3. visible(heap[x])' = visible(heap[x])
          BY <1>4, <1>6, <4>1
        <4> QED
          BY <1>5, <4>2, <4>3, KeyAliveKept
      <3>2. CASE ~queued(x, f)
        <4>1. x = d /\ a \notin seen /\ (heap[a].special => f = 0)
          BY <2>3, <3>2
        <4> QED
          BY <1>2, <2>3, <4>1
      <3> QED
        BY <3>1, <3>2
    <2> QED
      BY <1>9, <2>1, <2>2, <2>3
  <1>12. RescueOK'
    BY <1>1, <1>2, <1>5, <1>8, <1>9 DEF RescueOK
  <1> QED
    BY <1>4, <1>10, <1>11, <1>12 DEF RInv

(* Steps that touch lists and spans only.                                  *)
LEMMA OnlyLists ==
  ASSUME Inv, UNCHANGED <<roots, heap, seen, forwarder, evacuated>>
  PROVE  /\ UniqueIds' = UniqueIds /\ SameIds' = SameIds
         /\ visibleRoots' = visibleRoots /\ visibleGraph' = visibleGraph
         /\ alive' = alive /\ dying' = dying
         /\ survivors' = survivors
         /\ \A S : ids(S)' = ids(S)
         /\ \A x \in survivors :
              keyAlive(visible(heap[x]))' <=> keyAlive(visible(heap[x]))
  <1>1. survivors' = survivors /\ survivors \subseteq DOMAIN heap
    BY DEF survivors, Inv, TypeOK
  <1>2. \A S : ids(S)' = ids(S)
    BY DEF ids
  <1>3. /\ UniqueIds' = UniqueIds /\ SameIds' = SameIds
        /\ visibleRoots' = visibleRoots /\ visibleGraph' = visibleGraph
        /\ \A a \in DOMAIN heap : visible(heap[a])' = visible(heap[a])
    BY UntouchedInvisible
  <1>4. alive' = alive /\ dying' = dying
    BY <1>3, SameAlive
  <1>5. ASSUME NEW x \in survivors
        PROVE  keyAlive(visible(heap[x]))' <=> keyAlive(visible(heap[x]))
    <2>1. visible(heap[x])' = visible(heap[x])
      BY <1>1, <1>3
    <2> QED
      BY <1>4, <2>1, KeyAliveKept
  <1> QED
    BY <1>1, <1>2, <1>3, <1>4, <1>5

(* Only the behavior of a special object is queued when it is reached.     *)
LEMMA SpecialQueued ==
  ASSUME Inv, Collecting, NEW a \in DOMAIN heap, NEW d, d = resolved(a),
         NEW s, s = span(d, 0, strongPointersSize(heap[a]))
  PROVE  /\ s \in Span /\ s.object = d /\ s.index = 0 /\ s.index <= s.limit
         /\ heap[a].special => s.limit = 0
  <1>1. TypeOK /\ ForwardedOK /\ RoomOK
    BY DEF Inv
  <1>2. d \in Address
    BY <1>1, Evacuated DEF TypeOK
  <1>3. /\ strongPointersSize(heap[a]) \in 0 .. LastField
        /\ heap[a].special => strongPointersSize(heap[a]) = 0
    BY FieldAssumption DEF strongPointersSize
  <1> QED
    BY <1>2, <1>3, NewSpan, FieldAssumption

(* What scanRoot_ reaches is alive: it is a root.                          *)
LEMMA ScanRootKeepsRInv ==
  ASSUME Inv, RInv, NEW r \in rootsLeft, ScanRoot(r)
  PROVE  RInv' /\ visibleRoots' = visibleRoots /\ visibleGraph' = visibleGraph
  <1>a. PICK a : a = roots[r]
    OBVIOUS
  <1>1. /\ TypeOK /\ SpansOK /\ GraphOK
        /\ UniqueIds /\ SameIds /\ ListedOK /\ LivesOK /\ RescueOK
    BY DEF Inv, RInv
  <1>2. /\ phase = "roots" /\ phase' = phase /\ r \in Root
        /\ UNCHANGED <<evacuated, scanned, unreached, rescued, done>>
    BY <1>1 DEF ScanRoot, ephemeronVars, TypeOK
  <1>3. Collecting
    BY <1>2 DEF Collecting
  <1>4. CASE a = Nil
    <2>1. UNCHANGED <<roots, heap, seen, forwarder, evacuated, unchecked, stack>>
      BY <1>a, <1>2, <1>4 DEF ScanRoot, markVars
    <2>2. /\ UniqueIds' = UniqueIds /\ SameIds' = SameIds
          /\ visibleRoots' = visibleRoots /\ visibleGraph' = visibleGraph
          /\ alive' = alive /\ dying' = dying /\ survivors' = survivors
          /\ \A S : ids(S)' = ids(S)
          /\ \A x \in survivors :
               keyAlive(visible(heap[x]))' <=> keyAlive(visible(heap[x]))
      BY <2>1, OnlyLists
    <2>3. \A x, k : queued(x, k)' <=> queued(x, k)
      BY <1>2, <2>1 DEF queued, pending, isScanning
    <2>4. Rescuing' = Rescuing
      BY <1>2 DEF Rescuing
    <2>5. ListedOK'
      BY <1>1, <1>2, <2>1 DEF ListedOK
    <2>6. LivesOK'
      <3>1. ids(survivors)' = ids(survivors)
        BY <2>1, <2>2 DEF ids
      <3> QED
        BY <1>1, <1>2, <2>1, <2>2, <2>3, <2>4, <3>1 DEF LivesOK
    <2>7. RescueOK'
      BY <1>2 DEF RescueOK
    <2> QED
      BY <1>1, <2>2, <2>5, <2>6, <2>7 DEF RInv
  <1>5. CASE a # Nil
    <2>d. PICK d : d = resolved(a)
      OBVIOUS
    <2>1. Resolving(a, d) /\ a \in DOMAIN heap
      BY <1>a, <1>5, <2>d, ScanRootResolves DEF Resolving
    <2>2. heap[a].id \in alive
      <3>1. idOf(a) = heap[a].id /\ heap[a].id \in Id /\ Nil \notin Id
        BY <1>1, <2>1, IdOf
      <3>2. idOf(roots[r]) \in alive \union {Nil}
        BY <1>1, <1>2, AliveIsClosed
      <3> QED
        BY <1>a, <3>1, <3>2
    <2>3. ASSUME NEW x, NEW k \in Field, queued(x, k)', ~queued(x, k)
          PROVE  x = d /\ a \notin seen /\ (heap[a].special => k = 0)
      <3>s. PICK s : s = span(d, 0, strongPointersSize(heap[a]))
        OBVIOUS
      <3>1. stack' = IF a \in seen THEN stack ELSE Append(stack, s)
        BY <1>a, <2>d, <1>5, <3>s DEF ScanRoot, isSeen
      <3>2. a \notin seen
        BY <1>2, <2>3, <3>1 DEF queued, pending, isScanning
      <3>3. s \in Span /\ s.object = d /\ s.index = 0 /\ (heap[a].special => s.limit = 0)
        BY <1>3, <2>d, <2>1, <3>s, SpecialQueued
      <3>4. ToSet(stack') = ToSet(stack) \union {s}
        BY <1>1, <3>1, <3>2, <3>3, Pushed DEF SpansOK
      <3>5. pending' = pending \union {s}
        BY <1>2, <3>4 DEF pending, isScanning
      <3>6. s.object = x /\ s.index <= k /\ k <= s.limit
        BY <2>3, <3>5 DEF queued
      <3> QED
        BY <3>2, <3>3, <3>6, FieldAssumption DEF Field
    <2>4. phase = "check" /\ done => unreached = {}
      BY <1>2
    <2> QED
      BY <1>2, <1>3, <2>1, <2>2, <2>3, <2>4, ResolvingKeeps
  <1> QED
    BY <1>4, <1>5

(* What followObjects reaches is alive while nothing is rescued: the field *)
(* was queued, so the object that holds it is alive and is no ephemeron,   *)
(* or one whose key is alive.                                              *)
LEMMA ScanFieldKeepsRInv ==
  ASSUME Inv, RInv, ScanField
  PROVE  RInv' /\ visibleRoots' = visibleRoots /\ visibleGraph' = visibleGraph
  <1>c. PICK current : current = spanToScan
    OBVIOUS
  <1>r. PICK rest : rest = IF isScanning THEN stack ELSE Front(stack)
    OBVIOUS
  <1>b. PICK b : b = current.object
    OBVIOUS
  <1>f. PICK f : f = current.index
    OBVIOUS
  <1>a. PICK a : a = referenceToScan
    OBVIOUS
  <1>n. PICK next : next = [current EXCEPT !.index = @ + 1]
    OBVIOUS
  <1>1. /\ TypeOK /\ SpansOK /\ ListsOK /\ GraphOK /\ ForwardedOK /\ OnlyReachableSeen
        /\ UniqueIds /\ SameIds /\ ListedOK /\ LivesOK /\ RescueOK
    BY DEF Inv, RInv
  <1>2. /\ phase \in {"check", "rescue"} /\ phase' = phase
        /\ UNCHANGED <<roots, evacuated, unreached, rescued, done>>
    BY DEF ScanField, ephemeronVars, programVars
  <1>3. Collecting
    BY <1>2 DEF Collecting
  <1>4. /\ current \in Span /\ current \in pending
        /\ rest \in Seq(Span) /\ ToSet(rest) \subseteq pending
    BY <1>c, <1>r, <1>1, CurrentSpan DEF ScanField, spanToScan
  <1>5. b \in survivors /\ b \in accessible
    BY <1>b, <1>1, <1>3, <1>4, SurvivorsAccessible DEF SpansOK
  <1>6. f \in Field /\ f <= current.limit
    BY <1>f, <1>1, <1>4, FieldAssumption DEF SpansOK, Span, Field
  <1>7. /\ next \in Span /\ next.object = b /\ next.index = f + 1
        /\ next.limit = current.limit
    BY <1>b, <1>f, <1>n, <1>4, Advanced
  <1>8. queued(b, f)
    BY <1>b, <1>f, <1>4, <1>6, FieldAssumption DEF queued, Field
  <1>9. ASSUME NEW x, NEW k \in Field, NEW s, s \in ToSet(rest) \/ s = next,
               s.object = x, s.index <= k, k <= s.limit
        PROVE  queued(x, k)
    <2>1. CASE s \in ToSet(rest)
      BY <1>4, <1>9, <2>1 DEF queued
    <2>2. CASE s = next
      <3>1. f <= k /\ k <= current.limit /\ x = b
        BY <1>6, <1>7, <1>9, <2>2, FieldAssumption DEF Field
      <3> QED
        BY <1>b, <1>f, <1>4, <3>1 DEF queued
    <2> QED
      BY <1>9, <2>1, <2>2
  <1>10. phase = "check" /\ done => unreached = {}
    BY <1>1, <1>2 DEF ListedOK, ClosureFollowed, ScanField
  <1>11. CASE a = Nil
    <2>1. /\ UNCHANGED <<roots, heap, seen, forwarder, evacuated, unchecked>>
          /\ scanned' = next /\ stack' = rest
      BY <1>a, <1>c, <1>n, <1>r, <1>2, <1>11 DEF ScanField, markVars, spanToScan,
         referenceToScan
    <2>2. /\ UniqueIds' = UniqueIds /\ SameIds' = SameIds
          /\ visibleRoots' = visibleRoots /\ visibleGraph' = visibleGraph
          /\ alive' = alive /\ dying' = dying /\ survivors' = survivors
          /\ \A S : ids(S)' = ids(S)
          /\ \A x \in survivors :
               keyAlive(visible(heap[x]))' <=> keyAlive(visible(heap[x]))
      BY <2>1, OnlyLists
    <2>3. ASSUME NEW x, NEW k \in Field, queued(x, k)' PROVE queued(x, k)
      <3>1. \A s \in pending' : s \in ToSet(rest) \/ s = next
        BY <1>n, <1>4, <2>1, SpanAdvanced
      <3> QED
        BY <1>9, <2>3, <3>1 DEF queued
    <2>4. Rescuing' = Rescuing /\ unreachable' = unreachable
      BY <1>2 DEF Rescuing, unreachable
    <2>5. ListedOK'
      BY <1>1, <1>2, <1>10, <2>1 DEF ListedOK
    <2>6. ids(survivors)' = ids(survivors) /\ ids(unreachable)' = ids(unreachable)
      BY <2>1, <2>2, <2>4 DEF ids
    <2>7. LivesOK'
      BY <1>1, <1>2, <2>1, <2>2, <2>3, <2>4, <2>6 DEF LivesOK
    <2>8. RescueOK'
      BY <1>1, <1>2, <2>2, <2>4, <2>6 DEF RescueOK
    <2> QED
      BY <1>1, <2>2, <2>5, <2>7, <2>8 DEF RInv
  <1>12. CASE a # Nil
    <2>d. PICK d : d = resolved(a)
      OBVIOUS
    <2>1. Resolving(a, d) /\ a \in DOMAIN heap
      BY <1>a, <1>12, <2>d, ScanFieldResolves DEF Resolving
    <2>2. a = heap[b].fields[f]
      BY <1>a, <1>b, <1>c, <1>f DEF referenceToScan
    <2>3. ASSUME phase = "check", ~Rescuing PROVE heap[a].id \in alive
      <3>1. idOf(a) = heap[a].id /\ heap[a].id \in Id /\ Nil \notin Id
        BY <1>1, <2>1, IdOf
      <3>2. heap[b].id \in alive
        BY <1>1, <1>5, <2>3 DEF LivesOK, ids
      <3>3. f = 0 \/ ~heap[b].special \/ keyAlive(visible(heap[b]))
        BY <1>1, <1>5, <1>6, <1>8, <2>3 DEF LivesOK
      <3>4. idOf(a) \in alive \union {Nil}
        BY <1>1, <1>5, <1>6, <2>2, <3>2, <3>3, AliveIsClosed
      <3> QED
        BY <3>1, <3>4
    <2>4. ASSUME NEW x, NEW k \in Field, queued(x, k)', ~queued(x, k)
          PROVE  x = d /\ a \notin seen /\ (heap[a].special => k = 0)
      <3>s. PICK s : s = span(d, 0, strongPointersSize(heap[a]))
        OBVIOUS
      <3>0. /\ a \in seen => scanned' = next /\ stack' = rest
            /\ a \notin seen => scanned' = s /\ stack' = queueCurrent(current, rest)
        BY <1>a, <1>c, <1>n, <1>r, <2>d, <3>s, <1>12 DEF ScanField, isSeen, spanToScan,
           referenceToScan
      <3>1. CASE a \in seen
        <4>1. \A t \in pending' : t \in ToSet(rest) \/ t = next
          BY <1>n, <1>4, <3>0, <3>1, SpanAdvanced
        <4> QED
          BY <1>9, <2>4, <4>1 DEF queued
      <3>2. CASE a \notin seen
        <4>1. /\ s \in Span /\ s.object = d /\ s.index = 0 /\ s.index <= s.limit
              /\ heap[a].special => s.limit = 0
          BY <1>3, <2>d, <2>1, <3>s, SpecialQueued
        <4>2. \A t \in pending' : t \in ToSet(rest) \/ t = s \/ t = next
          BY <1>n, <1>4, <3>0, <3>2, <4>1, SpanQueued
        <4>3. PICK t \in pending' : t.object = x /\ t.index <= k /\ k <= t.limit
          BY <2>4 DEF queued
        <4>4. t = s
          BY <1>9, <2>4, <4>2, <4>3
        <4> QED
          BY <3>2, <4>1, <4>3, <4>4, FieldAssumption DEF Field
      <3> QED
        BY <3>1, <3>2
    <2> QED
      BY <1>2, <1>3, <1>10, <2>1, <2>3, <2>4, ResolvingKeeps
  <1> QED
    BY <1>11, <1>12

-----------------------------------------------------------------------------
(* Steps between closures.                                                 *)

(* What a set of objects becomes after one.                                *)
LEMMA OnlyListsKeep ==
  ASSUME Inv, RInv, UNCHANGED <<roots, heap, seen, forwarder, evacuated>>,
         ListedOK',
         phase' \in {"roots", "check"} /\ ~Rescuing' =>
           /\ ids(survivors) \subseteq alive
           /\ \A x \in survivors, f \in Field \ {0} :
                queued(x, f)' /\ heap[x].special => keyAlive(visible(heap[x])),
         phase' \in {"check", "rescue", "strengthen"} /\ Rescuing' =>
           /\ alive \subseteq ids(survivors)
           /\ ids(unreachable') \subseteq dying
           /\ dying \intersect alive \subseteq ids(unreachable')
  PROVE  RInv' /\ visibleRoots' = visibleRoots /\ visibleGraph' = visibleGraph
  <1>1. /\ UniqueIds' = UniqueIds /\ SameIds' = SameIds
        /\ visibleRoots' = visibleRoots /\ visibleGraph' = visibleGraph
        /\ alive' = alive /\ dying' = dying /\ survivors' = survivors
        /\ \A x \in survivors :
             keyAlive(visible(heap[x]))' <=> keyAlive(visible(heap[x]))
    BY OnlyLists
  <1>2. ids(survivors)' = ids(survivors) /\ ids(unreachable)' = ids(unreachable')
    BY <1>1 DEF ids
  <1>3. LivesOK'
    BY <1>1, <1>2 DEF LivesOK
  <1>4. RescueOK'
    BY <1>1, <1>2 DEF RescueOK
  <1> QED
    BY <1>1, <1>3, <1>4 DEF RInv

(* followRoots has reached what the roots refer to.                        *)
LEMMA RootsScannedKeepsRInv ==
  ASSUME Inv, RInv, RootsScanned
  PROVE  RInv' /\ visibleRoots' = visibleRoots /\ visibleGraph' = visibleGraph
  <1>1. /\ phase = "roots" /\ phase' = "check"
        /\ UNCHANGED <<roots, heap, seen, forwarder, unchecked, unreached, rescued,
                       evacuated, stack, scanned>>
    BY DEF RootsScanned, programVars, markVars
  <1>2. unreached = {} /\ rescued = {} /\ ListedOK'
    BY <1>1 DEF RInv, ListedOK
  <1>3. /\ ids(survivors) \subseteq alive
        /\ \A x \in survivors, f \in Field \ {0} :
             queued(x, f) /\ heap[x].special => keyAlive(visible(heap[x]))
    BY <1>1, <1>2 DEF RInv, LivesOK, Rescuing
  <1>4. \A x, k : queued(x, k)' <=> queued(x, k)
    BY <1>1 DEF queued, pending, isScanning
  <1>5. ~Rescuing'
    BY <1>1, <1>2 DEF Rescuing
  <1> QED
    BY <1>1, <1>2, <1>3, <1>4, <1>5, OnlyListsKeep

(* A key that was reached is alive as long as only what is alive is seen.  *)
LEMMA ReachedKeyAlive ==
  ASSUME Inv, RInv, phase = "check", ~Rescuing, NEW e \in survivors,
         checkReachableProperty(e)
  PROVE  keyAlive(visible(heap[e]))
  <1>1. /\ TypeOK /\ GraphOK /\ ForwardedOK /\ OnlyReachableSeen
        /\ UniqueIds /\ SameIds /\ LivesOK
    BY DEF Inv, RInv
  <1>2. Collecting
    BY DEF Collecting
  <1>3. e \in accessible
    BY <1>1, <1>2, SurvivorsAccessible
  <1>k. PICK key : key = heap[e].fields[Key]
    OBVIOUS
  <1>4. key = Nil \/ key \in seen
    BY <1>k DEF checkReachableProperty, isSeen
  <1>5. ids(survivors) \subseteq alive
    BY <1>1 DEF LivesOK
  <1>6. idOf(key) \in alive \union {Nil}
    <2>1. CASE key = Nil
      BY <2>1 DEF idOf
    <2>2. CASE key \in seen
      <3>1. key \in DOMAIN heap
        BY <1>1, <2>2 DEF TypeOK
      <3>2. newest(key) \in survivors
        BY <1>1, <1>2, <2>2 DEF newest, ForwardedOK, survivors
      <3>3. idOf(key) = heap[newest(key)].id
        BY <1>1, <3>1, IdOf
      <3> QED
        BY <1>5, <3>2, <3>3 DEF ids
    <2> QED
      BY <1>4, <2>1, <2>2
  <1> QED
    BY <1>1, <1>3, <1>6, <1>k, AliveIsClosed

(* checkEphemerons queues the fields of an ephemeron whose key was         *)
(* reached, and is alive for that.                                         *)
LEMMA FollowEphemeronKeepsRInv ==
  ASSUME Inv, RInv, NEW e \in unchecked, FollowEphemeron(e)
  PROVE  RInv' /\ visibleRoots' = visibleRoots /\ visibleGraph' = visibleGraph
  <1>1. /\ phase = "check" /\ phase' = phase /\ done' = FALSE /\ ClosureFollowed
        /\ checkReachableProperty(e)
        /\ unchecked' = unchecked \ {e} /\ followEphemeronWeaks(e)
        /\ UNCHANGED <<roots, heap, seen, forwarder, unreached, rescued, evacuated>>
    BY DEF FollowEphemeron, followEphemeronWeaks, programVars
  <1>2. e \in survivors /\ e \in Address /\ SpansOK
    BY DEF Inv, ListsOK, survivors, TypeOK
  <1>3. ListedOK'
    BY <1>1 DEF RInv, ListedOK
  <1>4. Rescuing' = Rescuing /\ unreachable' = unreachable
    BY <1>1 DEF Rescuing, unreachable
  <1>5. ASSUME ~Rescuing
        PROVE  /\ ids(survivors) \subseteq alive
               /\ \A x \in survivors, f \in Field \ {0} :
                    queued(x, f)' /\ heap[x].special => keyAlive(visible(heap[x]))
    <2>1. ids(survivors) \subseteq alive
      BY <1>1, <1>5 DEF RInv, LivesOK
    <2>2. \A x, k : queued(x, k)' => x = e
      BY <1>1, <1>2, WeaksQueued DEF queued
    <2>3. keyAlive(visible(heap[e]))
      BY <1>1, <1>2, <1>5, ReachedKeyAlive
    <2> QED
      BY <2>1, <2>2, <2>3
  <1>6. Rescuing => /\ alive \subseteq ids(survivors)
                    /\ ids(unreachable) \subseteq dying
                    /\ dying \intersect alive \subseteq ids(unreachable)
    BY <1>1 DEF RInv, RescueOK
  <1> QED
    BY <1>1, <1>3, <1>4, <1>5, <1>6, OnlyListsKeep

(* checkEphemerons sets aside the others.                                  *)
LEMMA SetAsideKeepsRInv ==
  ASSUME Inv, RInv, NEW e \in unchecked, SetAsideEphemeron(e)
  PROVE  RInv' /\ visibleRoots' = visibleRoots /\ visibleGraph' = visibleGraph
  <1>1. /\ phase = "check" /\ phase' = phase /\ ClosureFollowed /\ ~checkReachableProperty(e)
        /\ unchecked' = unchecked \ {e} /\ unreached' = unreached \union {e}
        /\ UNCHANGED <<roots, heap, seen, forwarder, rescued, evacuated, done, stack, scanned>>
    BY DEF SetAsideEphemeron, programVars
  <1>2. ListedOK'
    BY <1>1 DEF RInv, ListedOK, ClosureFollowed, isScanning, checkReachableProperty, isSeen
  <1>3. Rescuing' = Rescuing /\ unreachable' = unreachable
    BY <1>1 DEF Rescuing, unreachable
  <1>4. \A x, k : queued(x, k)' <=> queued(x, k)
    BY <1>1 DEF queued, pending, isScanning
  <1>5. LivesOK /\ RescueOK
    BY DEF RInv
  <1> QED
    BY <1>1, <1>2, <1>3, <1>4, <1>5, OnlyListsKeep DEF LivesOK, RescueOK

(* followLiveEphemerons checks again those that were set aside.            *)
LEMMA SwapKeepsRInv ==
  ASSUME Inv, RInv, SwapUncheckedWithUnreached
  PROVE  RInv' /\ visibleRoots' = visibleRoots /\ visibleGraph' = visibleGraph
  <1>1. /\ phase = "check" /\ phase' = phase /\ unchecked' = unreached /\ unreached' = {}
        /\ UNCHANGED <<roots, heap, seen, forwarder, rescued, evacuated, stack, scanned>>
    BY DEF SwapUncheckedWithUnreached, programVars
  <1>2. ListedOK'
    BY <1>1 DEF RInv, ListedOK
  <1>3. Rescuing' = Rescuing /\ unreachable' = unreachable
    BY <1>1 DEF Rescuing, unreachable
  <1>4. \A x, k : queued(x, k)' <=> queued(x, k)
    BY <1>1 DEF queued, pending, isScanning
  <1>5. LivesOK /\ RescueOK
    BY DEF RInv
  <1> QED
    BY <1>1, <1>2, <1>3, <1>4, <1>5, OnlyListsKeep DEF LivesOK, RescueOK

(* When no ephemeron was followed since the last swap, what survives is    *)
(* closed under the rule of ephemerons, and those set aside keep only      *)
(* their behaviors alive.                                                  *)
LEMMA UnseenKeys ==
  ASSUME Inv, RInv, phase = "check", ClosureFollowed, done, NEW e \in unreached
  PROVE  /\ e \in accessible /\ heap[e].special
         /\ idOf(heap[e].fields[Key]) \notin ids(survivors) \union {Nil}
  <1>1. /\ TypeOK /\ ListsOK /\ GraphOK /\ ForwardedOK /\ OnlyReachableSeen
        /\ UniqueIds /\ SameIds /\ ListedOK
    BY DEF Inv, RInv
  <1>2. Collecting
    BY DEF Collecting
  <1>3. e \in accessible /\ survivors \subseteq accessible
    BY <1>1, <1>2, SurvivorsAccessible DEF ListsOK
  <1>k. PICK key : key = heap[e].fields[Key]
    OBVIOUS
  <1>4. heap[e].special /\ key # Nil /\ key \notin seen
    BY <1>1, <1>k DEF ListedOK, checkReachableProperty, isSeen
  <1>5. Key \in Field
    BY FieldAssumption DEF Key, Field
  <1>6. /\ key \in DOMAIN heap /\ newest(key) \in accessible
        /\ idOf(key) = heap[newest(key)].id /\ idOf(key) # Nil
    BY <1>1, <1>3, <1>4, <1>5, <1>k, ReferenceVisible
  <1>7. newest(key) = key
    BY <1>1, <1>2, <1>4 DEF newest, ForwardedOK
  <1>8. ASSUME NEW x \in survivors, idOf(key) = heap[x].id
        PROVE  FALSE
    <2>1. x = key
      BY <1>1, <1>3, <1>6, <1>7, <1>8 DEF UniqueIds, OneEach
    <2> QED
      BY <1>4, <1>8, <2>1 DEF survivors
  <1> QED
    BY <1>3, <1>4, <1>6, <1>8, <1>k DEF ids

(* When followLiveEphemerons ends, all that is alive was reached: what was *)
(* reached is closed, since the ephemerons that were set aside still have  *)
(* keys that were not.                                                     *)
LEMMA AliveSurvives ==
  ASSUME Inv, RInv, phase = "check", ClosureFollowed, unchecked = {}, done
  PROVE  alive \subseteq ids(survivors)
  <1>1. /\ TypeOK /\ ListsOK /\ GraphOK /\ ForwardedOK /\ OnlyReachableSeen
        /\ FieldsOK /\ RootsOK /\ UniqueIds /\ SameIds
    BY DEF Inv, RInv
  <1>2. Collecting /\ rootsLeft = {}
    BY <1>1 DEF Collecting, ListsOK
  <1>3. survivors \in SUBSET accessible /\ survivors \subseteq DOMAIN heap
    BY <1>1, <1>2, SurvivorsAccessible DEF survivors, TypeOK
  <1>4. \A ref \in survivors \union {Nil} : idOf(ref) \in ids(survivors) \union {Nil}
    BY <1>1, <1>3, IdOf DEF ids
  <1>5. \A r \in Root : idOf(roots[r]) \in ids(survivors) \union {Nil}
    BY <1>1, <1>2, <1>4 DEF RootsOK
  <1>6. ASSUME NEW x \in survivors, NEW f \in Field,
               \/ f = 0
               \/ ~heap[x].special
               \/ idOf(heap[x].fields[Key]) \in ids(survivors) \union {Nil}
        PROVE  idOf(heap[x].fields[f]) \in ids(survivors) \union {Nil}
    <2>1. heap[x].fields[f] \in survivors \union {Nil} \/ (f # 0 /\ x \in unreached)
      BY <1>1, <1>2, NothingPending DEF FieldsOK
    <2>2. ASSUME f # 0, x \in unreached PROVE FALSE
      BY <1>6, <2>2, UnseenKeys
    <2> QED
      BY <1>4, <2>1, <2>2
  <1> QED
    BY <1>1, <1>3, <1>5, <1>6, AliveIsLeast

(* Then the ephemerons that were set aside have keys that are dead, and    *)
(* those that are alive with dead keys are among them.                     *)
LEMMA RescueUnreachableKeepsRInv ==
  ASSUME Inv, RInv, RescueUnreachable
  PROVE  RInv' /\ visibleRoots' = visibleRoots /\ visibleGraph' = visibleGraph
  <1>1. /\ phase = "check" /\ ClosureFollowed /\ unchecked = {} /\ done
        /\ phase' = IF unreached = {} THEN "strengthen" ELSE "rescue"
        /\ UNCHANGED <<roots, heap, seen, forwarder, unchecked, unreached, rescued, evacuated,
                       done>>
    BY DEF RescueUnreachable, programVars, markVars, ephemeronVars
  <1>2. /\ TypeOK /\ ListsOK /\ GraphOK /\ ForwardedOK /\ OnlyReachableSeen
        /\ FieldsOK /\ UniqueIds /\ SameIds /\ ListedOK /\ LivesOK /\ RescueOK
    BY DEF Inv, RInv
  <1>3. Collecting
    BY <1>1 DEF Collecting
  <1>4. survivors \subseteq accessible
    BY <1>2, <1>3, SurvivorsAccessible
  <1>5. alive \subseteq ids(survivors)
    BY <1>1, AliveSurvives
  <1>6. Rescuing' /\ unreachable' = rescued \union unreached
    BY <1>1 DEF Rescuing, unreachable
  <1>7. /\ DOMAIN visibleGraph = ids(accessible)
        /\ \A x \in accessible : /\ visibleGraph[heap[x].id] = visible(heap[x])
                                 /\ visibleGraph[heap[x].id].special = heap[x].special
    BY <1>2, AccessibleWhole
  <1>8. \A x \in accessible :
          keyAlive(visible(heap[x])) <=> idOf(heap[x].fields[Key]) \in alive \union {Nil}
    BY <1>2, AliveIsClosed
  <1>9. \A x \in accessible :
          heap[x].id \in dying <=> heap[x].special /\ ~keyAlive(visible(heap[x]))
    BY <1>7 DEF dying, ids
  <1>10. ids(unreached) \subseteq dying
    <2>1. ASSUME NEW e \in unreached PROVE heap[e].id \in dying
      <3>1. /\ e \in accessible /\ heap[e].special
            /\ idOf(heap[e].fields[Key]) \notin ids(survivors) \union {Nil}
        BY <1>1, UnseenKeys
      <3> QED
        BY <1>5, <1>8, <1>9, <3>1
    <2> QED
      BY <2>1 DEF ids
  <1>11. ids(rescued) \subseteq dying
    BY <1>1, <1>2 DEF RescueOK, Rescuing, unreachable, ids
  <1>12. dying \intersect alive \subseteq ids(rescued \union unreached)
    <2>1. CASE Rescuing
      BY <1>1, <1>2, <2>1 DEF RescueOK, unreachable, ids
    <2>2. CASE ~Rescuing
      <3>1. ids(survivors) \subseteq alive
        BY <1>1, <1>2, <2>2 DEF LivesOK
      <3>2. ASSUME NEW i \in dying \intersect alive PROVE i \in ids(unreached)
        <4>1. PICK x \in survivors : i = heap[x].id
          BY <1>5 DEF ids
        <4>2. heap[x].special /\ idOf(heap[x].fields[Key]) \notin alive \union {Nil}
          BY <1>4, <1>8, <1>9, <3>2, <4>1
        <4>k. PICK key : key = heap[x].fields[Key]
          OBVIOUS
        <4>3. key \notin survivors \union {Nil}
          <5>1. key \in survivors => idOf(key) \in ids(survivors)
            BY <1>2, IdOf DEF ids, survivors, TypeOK
          <5> QED
            BY <1>2, <3>1, <4>2, <4>k, <5>1, IdOf
        <4>4. Key \in Field
          BY FieldAssumption DEF Key, Field
        <4>5. x \in unreached
          BY <1>1, <1>2, <1>3, <4>1, <4>3, <4>4, <4>k, NothingPending DEF FieldsOK
        <4> QED
          BY <4>1, <4>5 DEF ids
      <3> QED
        BY <3>2 DEF ids
    <2> QED
      BY <2>1, <2>2
  <1>13. ids(rescued \union unreached) \subseteq dying
    BY <1>10, <1>11 DEF ids
  <1>14. ListedOK'
    BY <1>1, <1>2 DEF ListedOK
  <1> QED
    BY <1>1, <1>5, <1>6, <1>12, <1>13, <1>14, OnlyListsKeep

(* rescueUnreachableEphemerons moves them from one list to the other.      *)
LEMMA RescueEphemeronKeepsRInv ==
  ASSUME Inv, RInv, NEW e \in unreached, RescueEphemeron(e)
  PROVE  RInv' /\ visibleRoots' = visibleRoots /\ visibleGraph' = visibleGraph
  <1>1. /\ phase = "rescue" /\ phase' = phase
        /\ unreached' = unreached \ {e} /\ rescued' = rescued \union {e}
        /\ UNCHANGED <<roots, heap, seen, forwarder, unchecked, evacuated, done>>
    BY DEF RescueEphemeron, followEphemeronWeaks, programVars
  <1>2. ListedOK'
    BY <1>1 DEF RInv, ListedOK
  <1>3. Rescuing' /\ Rescuing /\ unreachable' = unreachable
    BY <1>1 DEF Rescuing, unreachable
  <1>4. RescueOK
    BY DEF RInv
  <1> QED
    BY <1>1, <1>2, <1>3, <1>4, OnlyListsKeep DEF RescueOK

(* When it ends they are checked again, those that it reached among them:  *)
(* the keys of those are dead as well.                                     *)
LEMMA RescuedKeepsRInv ==
  ASSUME Inv, RInv, Rescued
  PROVE  RInv' /\ visibleRoots' = visibleRoots /\ visibleGraph' = visibleGraph
  <1>1. /\ phase = "rescue" /\ phase' = "check" /\ unreached = {}
        /\ UNCHANGED <<roots, heap, seen, forwarder, unchecked, unreached, rescued, evacuated>>
    BY DEF Rescued, programVars, markVars
  <1>2. ListedOK'
    BY <1>1 DEF RInv, ListedOK
  <1>3. Rescuing' /\ Rescuing /\ unreachable' = unreachable
    BY <1>1 DEF Rescuing, unreachable, RInv, ListedOK
  <1>4. RescueOK
    BY DEF RInv
  <1> QED
    BY <1>1, <1>2, <1>3, <1>4, OnlyListsKeep DEF RescueOK

(* At the start nothing was reached.                                       *)
LEMMA StartCollectionKeepsRInv ==
  ASSUME Inv, RInv, NEW evacuees, StartCollection(evacuees)
  PROVE  RInv' /\ visibleRoots' = visibleRoots /\ visibleGraph' = visibleGraph
  <1>1. /\ phase = "mutator" /\ phase' = "roots" /\ seen' = {}
        /\ UNCHANGED <<roots, heap, forwarder, unchecked, unreached, rescued>>
    BY DEF StartCollection, programVars, ephemeronVars
  <1>2. unchecked = {} /\ unreached = {} /\ rescued = {}
    BY <1>1 DEF Inv, ListsOK
  <1>3. /\ UniqueIds' = UniqueIds /\ SameIds' = SameIds
        /\ visibleRoots' = visibleRoots /\ visibleGraph' = visibleGraph
    BY <1>1, UntouchedInvisible
  <1>4. survivors' = {} /\ ids(survivors)' = {}
    BY <1>1 DEF survivors, ids
  <1>5. ListedOK' /\ LivesOK' /\ RescueOK'
    BY <1>1, <1>2, <1>4 DEF ListedOK, LivesOK, RescueOK
  <1> QED
    BY <1>3, <1>5 DEF RInv

(* What is released was not accessible, and what is kept stays in place.   *)
LEMMA ReleaseKeepsRInv ==
  ASSUME Inv, RInv, NEW released \in SUBSET recyclable, ReleaseLocals(released)
  PROVE  RInv' /\ visibleRoots' = visibleRoots /\ visibleGraph' = visibleGraph
  <1>1. /\ TypeOK /\ ListsOK /\ GraphOK /\ ForwardedOK /\ OnlyReachableSeen
        /\ UniqueIds /\ SameIds
    BY DEF Inv, RInv
  <1>2. /\ phase = "release" /\ phase' = "mutator"
        /\ heap' = [a \in DOMAIN heap \ released |-> heap[a]]
        /\ DOMAIN forwarder' = {} /\ roots' = roots
    BY DEF ReleaseLocals, programVars
  <1>3. Collecting
    BY <1>2 DEF Collecting
  <1>4. /\ \A r \in Root : roots[r] \in survivors \union {Nil}
        /\ \A x \in survivors, f \in Field : heap[x].fields[f] \in survivors \union {Nil}
    BY <1>2, TraceIsComplete DEF TraceComplete, survivors
  <1>5. /\ survivors \subseteq DOMAIN heap /\ survivors \subseteq DOMAIN heap'
        /\ \A x \in survivors : heap'[x] = heap[x]
        /\ Nil \notin DOMAIN heap /\ Nil \notin DOMAIN heap'
    BY <1>1, <1>2, AddressAssumption DEF recyclable, survivors, TypeOK
  <1>6. \A ref \in survivors \union {Nil} : newest(ref) = ref /\ newest(ref)' = ref
    BY <1>1, <1>2, <1>5 DEF newest, survivors, TypeOK
  <1>7. accessible = survivors
    <2>1. closed(survivors)
      BY <1>4, <1>5, <1>6 DEF closed, holds
    <2> QED
      BY <1>1, <1>3, <1>5, <2>1, AccessibleLeast, SurvivorsAccessible
  <1>m. PICK m : m = [x \in accessible |-> x]
    OBVIOUS
  <1>8. accessible' = {m[x] : x \in accessible}
    <2>1. ASSUME NEW old \in survivors \union {Nil}, NEW new, new = old
          PROVE  sameReference(m, newest(old), newest(new)')
      BY <1>5, <1>6, <1>7, <1>m, <2>1 DEF sameReference
    <2>2. \A r \in Root : sameReference(m, newest(roots[r]), newest(roots[r])')
      BY <1>2, <1>4, <2>1
    <2>3. ASSUME NEW x \in accessible, NEW f \in Field
          PROVE  sameReference(m, newest(heap[x].fields[f]), newest(heap[m[x]].fields[f])')
      <3>1. heap'[m[x]].fields[f] = heap[x].fields[f]
        BY <1>5, <1>7, <1>m
      <3>2. heap[x].fields[f] \in survivors \union {Nil}
        BY <1>4, <1>7
      <3> QED
        BY <2>1, <3>1, <3>2
    <2>4. \A x \in accessible : m[x] \in DOMAIN heap'
      BY <1>5, <1>7, <1>m
    <2> QED
      BY <2>2, <2>3, <2>4, Moved
  <1>9. \A ref \in survivors \union {Nil} : idOf(ref)' = idOf(ref)
    BY <1>5 DEF idOf
  <1>10. ASSUME NEW x \in accessible
         PROVE  /\ heap'[m[x]].id = heap[x].id
                /\ visible(heap[m[x]])' = visible(heap[x])
    <2>1. m[x] = x /\ heap'[x] = heap[x]
      BY <1>5, <1>7, <1>m
    <2>2. \A f \in Field : idOf(heap[x].fields[f])' = idOf(heap[x].fields[f])
      BY <1>4, <1>7, <1>9, <2>1
    <2>3. visible(heap[x])' = visible(heap[x])
      BY <2>1, <2>2 DEF visible
    <2> QED
      BY <2>1, <2>3
  <1>11. visibleGraph' = visibleGraph /\ UniqueIds'
    <2>1. DOMAIN heap' \subseteq Address
      BY <1>1, <1>2 DEF TypeOK
    <2> QED
      BY <1>1, <1>8, <1>10, <2>1, GraphKept
  <1>12. visibleRoots' = visibleRoots
    <2>1. \A r \in Root : idOf(roots[r])' = idOf(roots[r])
      BY <1>2, <1>4, <1>9
    <2> QED
      BY <2>1 DEF visibleRoots
  <1>13. SameIds'
    BY <1>2 DEF SameIds
  <1>14. ListedOK' /\ LivesOK' /\ RescueOK'
    BY <1>2 DEF ListedOK, LivesOK, RescueOK
  <1> QED
    BY <1>11, <1>12, <1>13, <1>14 DEF RInv

-----------------------------------------------------------------------------
(* What is visible after a step that changes it.                           *)

(* The lemma above for every set, to be used in the next state.            *)
LEMMA ReachableEach ==
  \A S : TypeOK /\ SameIds /\ Whole(S) =>
           Promise!Reachable(visibleRoots, graphOf[S]) = ids(accessible)
  BY ReachableIsAccessible

(* The same in the next state.                                             *)
LEMMA ReachableNext ==
  \A S : TypeOK' /\ SameIds' /\ Whole(S)' =>
           Promise!Reachable(visibleRoots', graphOf'[S]) = {heap'[a].id : a \in accessible'}
  <1>1. (\A S : TypeOK /\ SameIds /\ Whole(S) =>
                  Promise!Reachable(visibleRoots, graphOf[S]) = ids(accessible))'
    BY ReachableEach, PTL
  <1> QED
    BY <1>1 DEF ids, Promise!Reachable, Promise!Closure

(* The graph g is that of the objects in S, from which no reference leads  *)
(* out: the program sees what it can reach of it.                          *)
LEMMA SeesGraph ==
  ASSUME TypeOK', SameIds', NEW S, Whole(S)',
         NEW g, g = [i \in {heap'[a].id : a \in S} |-> g[i]],
         \A a \in S : g[heap'[a].id] = visible(heap[a])'
  PROVE  Promise!Sees(g) /\ UniqueIds'
  <1>1. /\ S \subseteq DOMAIN heap' /\ S \subseteq Address /\ closed(S)'
        /\ \A a, b \in S : heap'[a].id = heap'[b].id => a = b
    BY DEF Whole, OneEach
  <1>2. /\ graphOf'[S] = [i \in {heap'[a].id : a \in S} |-> graphOf'[S][i]]
        /\ \A a \in S : graphOf'[S][heap'[a].id] = visible(heap[a])'
    BY <1>1, GraphOfNext
  <1>3. graphOf'[S] = g
    <2>1. \A i \in {heap'[a].id : a \in S} : graphOf'[S][i] = g[i]
      BY <1>2
    <2> QED
      BY <1>2, <2>1
  <1>4. Promise!Reachable(visibleRoots', g) = {heap'[a].id : a \in accessible'}
    BY <1>3, ReachableNext
  <1>5. accessible' \subseteq S
    BY <1>1, AccessibleLeastNext
  <1>6. \A a, b \in accessible' : heap'[a].id = heap'[b].id => a = b
    BY <1>1, <1>5
  <1>7. /\ visibleGraph' = [i \in {heap'[a].id : a \in accessible'} |-> visibleGraph'[i]]
        /\ \A a \in accessible' : visibleGraph'[heap'[a].id] = visible(heap[a])'
    BY <1>1, <1>5, <1>6, GraphOfNext DEF visibleGraph
  <1>8. \A i \in {heap'[a].id : a \in accessible'} : visibleGraph'[i] = g[i]
    BY <1>5, <1>7
  <1>9. visibleGraph' = [i \in Promise!Reachable(visibleRoots', g) |-> g[i]]
    BY <1>4, <1>7, <1>8
  <1>10. UniqueIds'
    BY <1>6 DEF UniqueIds, OneEach
  <1> QED
    BY <1>9, <1>10 DEF Promise!Sees

(* The ephemerons that are rescued stop being special.                     *)
weakened(object) == [object EXCEPT !.special = FALSE]

(* What that makes of a record.                                            *)
LEMMA Weakened ==
  \A special, fields : weakened([special |-> special, fields |-> fields])
                        = [special |-> FALSE, fields |-> fields]
  <1> SUFFICES ASSUME NEW special, NEW fields
               PROVE  weakened([special |-> special, fields |-> fields])
                      = [special |-> FALSE, fields |-> fields]
    OBVIOUS
  <1>1. [special |-> special, fields |-> fields] \in [special : {special}, fields : {fields}]
    OBVIOUS
  <1>2. ASSUME NEW object \in [special : {special}, fields : {fields}]
        PROVE  weakened(object) \in [special : {FALSE}, fields : {fields}]
    BY DEF weakened
  <1>3. ASSUME NEW object \in [special : {FALSE}, fields : {fields}]
        PROVE  object = [special |-> FALSE, fields |-> fields]
    OBVIOUS
  <1> QED
    BY <1>1, <1>2, <1>3

(* strengthenAndMigrateEphemerons is the step of the abstract heap in      *)
(* which ephemerons are rescued: those whose keys are dead and that are    *)
(* alive, and others with dead keys that those keep.                       *)
LEMMA StrengthenRescues ==
  ASSUME Inv, Inv', RInv, StrengthenEphemerons
  PROVE  RInv' /\ \E R \in SUBSET DOMAIN visibleGraph : Promise!Rescue(R)
  <1>1. /\ TypeOK /\ ListsOK /\ GraphOK /\ ForwardedOK /\ OnlyReachableSeen /\ TypeOK'
        /\ UniqueIds /\ SameIds /\ RescueOK
    BY DEF Inv, RInv
  <1>2. /\ phase = "strengthen" /\ phase' = "release"
        /\ heap' = [a \in DOMAIN heap |->
                      IF a \in rescued THEN weakened(heap[a]) ELSE heap[a]]
        /\ UNCHANGED <<roots, seen, forwarder, evacuated>>
    BY DEF StrengthenEphemerons, programVars, weakened
  <1>3. Collecting
    BY <1>2 DEF Collecting
  <1>4. /\ DOMAIN heap' = DOMAIN heap
        /\ \A x \in DOMAIN heap :
             /\ heap'[x].id = heap[x].id
             /\ heap'[x].fields = heap[x].fields
             /\ heap'[x].special = (IF x \in rescued THEN FALSE ELSE heap[x].special)
    BY <1>1, <1>2 DEF TypeOK, Object, weakened
  <1>5. rescued \subseteq accessible
    BY <1>1, <1>3, SurvivorsAccessible DEF ListsOK
  <1>S. PICK S : S = accessible
    OBVIOUS
  <1>R. PICK R : R = ids(rescued)
    OBVIOUS
  <1>6. /\ S \subseteq DOMAIN heap /\ S \subseteq Address /\ closed(S)
        /\ \A a, b \in S : heap[a].id = heap[b].id => a = b
        /\ \A r \in Root : Valid(roots[r])
        /\ \A a \in S, f \in Field : Valid(heap[a].fields[f])
    BY <1>1, <1>S, AccessibleWhole DEF Whole, OneEach
  <1>7. Whole(S)'
    <2>1. closed(S)'
      BY <1>2, <1>4, <1>6 DEF closed, holds, newest
    <2>2. \A a \in S : heap'[a].id = heap[a].id /\ heap'[a].fields = heap[a].fields
      BY <1>4, <1>6
    <2>3. \A a, b \in S : heap'[a].id = heap'[b].id => a = b
      BY <1>6, <2>2
    <2>4. \A r \in Root : Valid(roots[r])'
      BY <1>2, <1>4, <1>6 DEF Valid
    <2>5. \A a \in S, f \in Field : Valid(heap[a].fields[f])'
      BY <1>4, <1>6, <2>2 DEF Valid
    <2> QED
      BY <1>4, <1>6, <2>1, <2>3, <2>4, <2>5 DEF Whole, OneEach
  <1>8. SameIds'
    BY <1>1, <1>2, <1>4 DEF SameIds, TypeOK
  <1>g. PICK g : g = [i \in DOMAIN visibleGraph |->
                        IF i \in R THEN weakened(visibleGraph[i]) ELSE visibleGraph[i]]
    OBVIOUS
  <1>9. /\ DOMAIN visibleGraph = ids(accessible)
        /\ \A x \in accessible : visibleGraph[heap[x].id] = visible(heap[x])
    BY <1>1, AccessibleWhole
  <1>10. {heap'[a].id : a \in S} = ids(accessible)
    <2>1. \A a \in S : heap'[a].id = heap[a].id
      BY <1>4, <1>6
    <2> QED
      BY <1>S, <2>1 DEF ids
  <1>11. ASSUME NEW x \in S PROVE g[heap'[x].id] = visible(heap[x])'
    <2>1. x \in DOMAIN heap /\ heap'[x].id = heap[x].id /\ heap[x].id \in ids(accessible)
      BY <1>4, <1>6, <1>S DEF ids
    <2>2. heap[x].id \in R <=> x \in rescued
      BY <1>R, <1>S, <1>5, <1>6 DEF ids
    <2>3. g[heap[x].id] = IF x \in rescued THEN weakened(visible(heap[x]))
                                           ELSE visible(heap[x])
      BY <1>g, <1>9, <1>S, <2>1, <2>2
    <2>4. \A f \in Field : idOf(heap[x].fields[f])' = idOf(heap[x].fields[f])
      <3>1. ASSUME NEW f \in Field, NEW ref, ref = heap[x].fields[f]
            PROVE  idOf(ref)' = idOf(ref)
        <4>1. ref \in DOMAIN heap \union {Nil}
          BY <1>6, <3>1 DEF Valid
        <4> QED
          BY <1>4, <4>1 DEF idOf
      <3> QED
        BY <1>4, <2>1, <3>1
    <2>5. CASE x \in rescued
      <3>1. heap'[x].special = FALSE
        BY <1>4, <2>1, <2>5
      <3>2. weakened(visible(heap[x])) =
              [special |-> FALSE, fields |-> [f \in Field |-> idOf(heap[x].fields[f])]]
        BY Weakened DEF visible
      <3>3. visible(heap[x])' =
              [special |-> heap'[x].special,
               fields |-> [f \in Field |-> idOf(heap[x].fields[f])']]
        BY DEF visible
      <3>4. [f \in Field |-> idOf(heap[x].fields[f])'] = [f \in Field |-> idOf(heap[x].fields[f])]
        BY <2>4
      <3> QED
        BY <2>1, <2>3, <2>5, <3>1, <3>2, <3>3, <3>4
    <2>6. CASE x \notin rescued
      <3>1. heap'[x].special = heap[x].special
        BY <1>4, <2>1, <2>6
      <3> QED
        BY <2>1, <2>3, <2>4, <2>6, <3>1 DEF visible
    <2> QED
      BY <2>5, <2>6
  <1>12. g = [i \in {heap'[a].id : a \in S} |-> g[i]]
    BY <1>g, <1>9, <1>10
  <1>13. Promise!Sees(g) /\ UniqueIds'
    BY <1>1, <1>7, <1>8, <1>11, <1>12, SeesGraph
  <1>14. visibleRoots' = visibleRoots
    <2>1. \A r \in Root : idOf(roots[r])' = idOf(roots[r])
      BY <1>2, <1>4, <1>6 DEF idOf, Valid
    <2> QED
      BY <2>1 DEF visibleRoots
  <1>15. Promise!Rescue(R) /\ R \in SUBSET DOMAIN visibleGraph
    <2>1. dying \intersect alive \subseteq R /\ R \subseteq dying
      BY <1>1, <1>2, <1>R DEF RescueOK, Rescuing, unreachable
    <2>2. R \in SUBSET DOMAIN visibleGraph
      BY <2>1 DEF dying
    <2>3. Promise!Sees([i \in DOMAIN visibleGraph |->
             IF i \in R THEN [visibleGraph[i] EXCEPT !.special = FALSE] ELSE visibleGraph[i]])
      BY <1>13, <1>g DEF weakened
    <2> QED
      BY <1>14, <2>1, <2>2, <2>3 DEF Promise!Rescue, dying, alive, keyAlive
  <1>16. ListedOK' /\ LivesOK' /\ RescueOK'
    BY <1>2 DEF ListedOK, LivesOK, RescueOK
  <1> QED
    BY <1>8, <1>13, <1>15, <1>16 DEF RInv

-----------------------------------------------------------------------------
(* Steps of the program.                                                   *)

(* After one, the program sees what it can reach of the graph of any       *)
(* objects from which no reference leads out.                              *)
LEMMA ProgramSees ==
  ASSUME Inv', phase' = "mutator", NEW S, S \subseteq DOMAIN heap',
         \A r \in Root : roots'[r] \in S \union {Nil},
         \A x \in S, f \in Field : heap'[x].fields[f] \in S \union {Nil},
         \A x, y \in S : heap'[x].id = heap'[y].id => x = y,
         NEW g, g = [i \in {heap'[x].id : x \in S} |-> g[i]],
         \A x \in S : g[heap'[x].id] = visible(heap[x])'
  PROVE  Promise!Sees(g) /\ RInv'
  <1>1. TypeOK' /\ ListsOK'
    BY DEF Inv
  <1>2. DOMAIN forwarder' = {} /\ DOMAIN heap' \subseteq Address
    BY <1>1 DEF ListsOK, TypeOK
  <1>3. SameIds'
    BY <1>2 DEF SameIds
  <1>4. closed(S)'
    <2>1. ASSUME NEW ref \in S \union {Nil} PROVE holds(S, ref)'
      BY <1>2, <2>1, AddressAssumption DEF holds, newest
    <2>2. \A r \in Root : holds(S, roots[r])'
      BY <2>1
    <2>3. \A x \in S, f \in Field : holds(S, heap[x].fields[f])'
      BY <2>1
    <2> QED
      BY <2>2, <2>3 DEF closed
  <1>5. Whole(S)'
    <2>1. \A r \in Root : Valid(roots[r])'
      BY DEF Valid
    <2>2. \A x \in S, f \in Field : Valid(heap[x].fields[f])'
      BY DEF Valid
    <2> QED
      BY <1>2, <1>4, <2>1, <2>2 DEF Whole, OneEach
  <1>6. Promise!Sees(g) /\ UniqueIds'
    BY <1>1, <1>3, <1>5, SeesGraph
  <1>7. ListedOK' /\ LivesOK' /\ RescueOK'
    BY DEF ListedOK, LivesOK, RescueOK
  <1> QED
    BY <1>3, <1>6, <1>7 DEF RInv

(* Before one.                                                             *)
LEMMA ProgramGraph ==
  ASSUME Inv, RInv, phase = "mutator"
  PROVE  /\ accessible \subseteq DOMAIN heap /\ accessible \subseteq Address
         /\ \A r \in Root : roots[r] \in accessible \union {Nil}
         /\ \A x \in accessible, f \in Field : heap[x].fields[f] \in accessible \union {Nil}
         /\ \A x, y \in accessible : heap[x].id = heap[y].id => x = y
         /\ visibleGraph = [i \in ids(accessible) |-> visibleGraph[i]]
         /\ \A x \in accessible : visibleGraph[heap[x].id] = visible(heap[x])
         /\ \A x \in accessible : idOf(x) = heap[x].id /\ idOf(x) \in DOMAIN visibleGraph
         /\ idOf(Nil) = Nil
  <1>1. TypeOK /\ ListsOK /\ GraphOK /\ SameIds /\ UniqueIds /\ ~Collecting
    BY DEF Inv, RInv, Collecting
  <1>2. /\ accessible \subseteq DOMAIN heap /\ accessible \subseteq Address
        /\ \A r \in Root : roots[r] \in accessible \union {Nil}
        /\ \A x \in accessible, f \in Field : heap[x].fields[f] \in accessible \union {Nil}
    BY <1>1, AccessibleValid DEF TypeOK
  <1>3. /\ visibleGraph = [i \in ids(accessible) |-> visibleGraph[i]]
        /\ \A x \in accessible : visibleGraph[heap[x].id] = visible(heap[x])
    BY <1>1, <1>2, GraphOfEach DEF UniqueIds, visibleGraph
  <1>4. \A x \in accessible : idOf(x) = heap[x].id /\ idOf(x) \in DOMAIN visibleGraph
    BY <1>1, <1>2, <1>3, IdOf DEF ids
  <1> QED
    BY <1>1, <1>2, <1>3, <1>4, IdOf DEF UniqueIds, OneEach

(* A root that is set is set for what is seen, and what it hid is lost.    *)
LEMMA SetRootSeen ==
  ASSUME Inv, Inv', RInv, NEW r \in Root, NEW ref \in accessible \union {Nil}, SetRoot(r, ref)
  PROVE  RInv' /\ Promise!SetRoot(r, idOf(ref)) /\ idOf(ref) \in Promise!Refs(visibleGraph)
  <1>1. /\ phase = "mutator" /\ phase' = "mutator" /\ heap' = heap
        /\ roots' = [roots EXCEPT ![r] = ref] /\ roots \in [Root -> Reference]
    BY DEF SetRoot, Running, Inv, TypeOK
  <1>S. PICK S : S = accessible
    OBVIOUS
  <1>2. /\ S \subseteq DOMAIN heap
        /\ \A q \in Root : roots[q] \in S \union {Nil}
        /\ \A x \in S, f \in Field : heap[x].fields[f] \in S \union {Nil}
        /\ \A x, y \in S : heap[x].id = heap[y].id => x = y
        /\ visibleGraph = [i \in ids(S) |-> visibleGraph[i]]
        /\ \A x \in S : visibleGraph[heap[x].id] = visible(heap[x])
        /\ \A x \in S : idOf(x) = heap[x].id /\ idOf(x) \in DOMAIN visibleGraph
        /\ idOf(Nil) = Nil
    BY <1>1, <1>S, ProgramGraph
  <1>g. PICK g : g = visibleGraph
    OBVIOUS
  <1>3. \A q \in Root : roots'[q] \in S \union {Nil}
    BY <1>1, <1>2, <1>S
  <1>4. \A old : visible(old)' = visible(old)
    BY <1>1 DEF visible, idOf
  <1>5. Promise!Sees(g) /\ RInv'
    <2>1. g = [i \in {heap'[x].id : x \in S} |-> g[i]]
      BY <1>1, <1>2, <1>g DEF ids
    <2>2. \A x \in S : g[heap'[x].id] = visible(heap[x])'
      BY <1>1, <1>2, <1>4, <1>g
    <2> QED
      BY <1>1, <1>2, <1>3, <2>1, <2>2, ProgramSees
  <1>6. visibleRoots' = [visibleRoots EXCEPT ![r] = idOf(ref)]
    <2>1. \A q \in Root : idOf(roots[q])' = IF q = r THEN idOf(ref) ELSE idOf(roots[q])
      BY <1>1 DEF idOf
    <2> QED
      BY <2>1 DEF visibleRoots
  <1>7. idOf(ref) \in Promise!Refs(visibleGraph)
    BY <1>2, <1>S DEF Promise!Refs
  <1> QED
    BY <1>5, <1>6, <1>7, <1>g DEF Promise!SetRoot

(* A field of an object in the graph is set.                               *)
withSlot(g, j, f, i) == [g EXCEPT ![j].fields[f] = i]

(* What that makes of a graph.                                             *)
LEMMA WithSlot ==
  ASSUME NEW g, g = [k \in DOMAIN g |-> g[k]], NEW j \in DOMAIN g, NEW f \in Field, NEW i,
         NEW special, NEW fields, fields = [k \in Field |-> fields[k]],
         g[j] = [special |-> special, fields |-> fields],
         NEW h, h = withSlot(g, j, f, i)
  PROVE  /\ h = [k \in DOMAIN g |-> h[k]]
         /\ \A k \in DOMAIN g : k # j => h[k] = g[k]
         /\ h[j] = [special |-> special,
                    fields |-> [k \in Field |-> IF k = f THEN i ELSE fields[k]]]
  <1>1. /\ h = [k \in DOMAIN g |-> h[k]]
        /\ \A k \in DOMAIN g : k # j => h[k] = g[k]
    BY DEF withSlot
  <1>2. PICK new : new = [k \in Field |-> IF k = f THEN i ELSE fields[k]]
    OBVIOUS
  <1>3. [fields EXCEPT ![f] = i] = new
    BY <1>2
  <1>4. g[j] \in [special : {special}, fields : {fields}]
    OBVIOUS
  <1>5. h[j] \in [special : {special}, fields : {new}]
    BY <1>3, <1>4 DEF withSlot
  <1>6. ASSUME NEW object \in [special : {special}, fields : {new}]
        PROVE  object = [special |-> special, fields |-> new]
    OBVIOUS
  <1> QED
    BY <1>1, <1>2, <1>5, <1>6

(* What is seen of an object in the next state, from its fields.           *)
LEMMA VisibleAfter ==
  ASSUME NEW x, NEW special, NEW fields, fields = [k \in Field |-> fields[k]],
         heap'[x].special = special,
         \A k \in Field : idOf(heap[x].fields[k])' = fields[k]
  PROVE  visible(heap[x])' = [special |-> special, fields |-> fields]
  <1>1. visible(heap[x])' = [special |-> heap'[x].special,
                             fields |-> [k \in Field |-> idOf(heap[x].fields[k])']]
    BY DEF visible
  <1>2. [k \in Field |-> idOf(heap[x].fields[k])'] = fields
    OBVIOUS
  <1> QED
    BY <1>1, <1>2

(* A field that is written is written for what is seen.                    *)
LEMMA StoreSeen ==
  ASSUME Inv, Inv', RInv, NEW a \in accessible, NEW f \in Written,
         NEW ref \in accessible \union {Nil}, Store(a, f, ref)
  PROVE  RInv' /\ \E j \in DOMAIN visibleGraph, i \in Promise!Refs(visibleGraph) :
                    Promise!Store(j, f, i)
  <1>1. /\ phase = "mutator" /\ phase' = "mutator" /\ roots' = roots
        /\ heap' = withField(heap, a, f, ref) /\ TypeOK
    BY DEF Store, Running, Inv, programVars, withField
  <1>S. PICK S : S = accessible
    OBVIOUS
  <1>v. PICK v : v = visibleGraph
    OBVIOUS
  <1>2. /\ S \subseteq DOMAIN heap
        /\ \A q \in Root : roots[q] \in S \union {Nil}
        /\ \A x \in S, k \in Field : heap[x].fields[k] \in S \union {Nil}
        /\ \A x, y \in S : heap[x].id = heap[y].id => x = y
        /\ v = [i \in ids(S) |-> v[i]]
        /\ \A x \in S : v[heap[x].id] = visible(heap[x])
        /\ \A x \in S : idOf(x) = heap[x].id /\ idOf(x) \in DOMAIN v
        /\ idOf(Nil) = Nil
    BY <1>1, <1>S, <1>v, ProgramGraph
  <1>3. f \in Field /\ ref \in Reference /\ a \in S /\ ref \in S \union {Nil}
    BY <1>1, <1>2, <1>S, FieldAssumption DEF TypeOK, Field, Reference
  <1>4. /\ DOMAIN heap' = DOMAIN heap
        /\ \A x \in DOMAIN heap :
             /\ heap'[x].id = heap[x].id /\ heap'[x].special = heap[x].special
             /\ \A k \in Field :
                  heap'[x].fields[k] = IF x = a /\ k = f THEN ref ELSE heap[x].fields[k]
    <2>1. PICK h : h = heap
      OBVIOUS
    <2>2. PICK g : g = withField(h, a, f, ref)
      OBVIOUS
    <2>3. a \in DOMAIN h /\ \A x \in DOMAIN h : h[x] \in Object
      BY <1>1, <1>2, <1>3, <2>1 DEF TypeOK
    <2>4. /\ DOMAIN g = DOMAIN h
          /\ \A x \in DOMAIN h, k \in Field :
               g[x].fields[k] = IF x = a /\ k = f THEN ref ELSE h[x].fields[k]
      BY <1>3, <2>2, <2>3, Corrected
    <2>5. \A x \in DOMAIN h : g[x].id = h[x].id /\ g[x].special = h[x].special
      BY <1>3, <2>2, <2>3, SameObjects
    <2> QED
      BY <1>1, <2>1, <2>2, <2>4, <2>5
  <1>5. \A old : idOf(old)' = idOf(old)
    BY <1>4 DEF idOf
  <1>j. PICK j : j = heap[a].id
    OBVIOUS
  <1>i. PICK i : i = idOf(ref)
    OBVIOUS
  <1>g. PICK g : g = withSlot(v, j, f, i)
    OBVIOUS
  <1>6. /\ v = [k \in DOMAIN v |-> v[k]] /\ j \in DOMAIN v /\ DOMAIN v = ids(S)
        /\ i \in Promise!Refs(v)
    BY <1>2, <1>3, <1>j, <1>i DEF ids, Promise!Refs
  <1>F. PICK fields : fields = [k \in Field |-> idOf(heap[a].fields[k])]
    OBVIOUS
  <1>7. /\ g = [k \in DOMAIN v |-> g[k]]
        /\ \A k \in DOMAIN v : k # j => g[k] = v[k]
        /\ g[j] = [special |-> heap[a].special,
                   fields |-> [k \in Field |-> IF k = f THEN i ELSE fields[k]]]
    <2>1. v[j] = [special |-> heap[a].special, fields |-> fields]
      BY <1>2, <1>3, <1>j, <1>F DEF visible
    <2>2. PICK special : special = heap[a].special
      OBVIOUS
    <2>3. fields = [k \in Field |-> fields[k]]
      BY <1>F
    <2> QED
      BY <1>3, <1>6, <1>g, <2>1, <2>2, <2>3, WithSlot
  <1>8. ASSUME NEW x \in S PROVE g[heap'[x].id] = visible(heap[x])'
    <2>1. x \in DOMAIN heap /\ heap'[x].id = heap[x].id /\ heap'[x].special = heap[x].special
      BY <1>2, <1>4
    <2>2. CASE x = a
      <3>1. PICK new : new = [k \in Field |-> IF k = f THEN i ELSE fields[k]]
        OBVIOUS
      <3>2. \A k \in Field : idOf(heap[x].fields[k])' = new[k]
        BY <1>4, <1>5, <1>i, <1>F, <2>1, <2>2, <3>1
      <3>3. new = [k \in Field |-> new[k]]
        BY <3>1
      <3>4. visible(heap[x])' = [special |-> heap[x].special, fields |-> new]
        BY <2>1, <3>2, <3>3, VisibleAfter
      <3> QED
        BY <1>7, <1>j, <2>1, <2>2, <3>1, <3>4
    <2>3. CASE x # a
      <3>1. heap[x].id # j /\ heap[x].id \in DOMAIN v
        BY <1>2, <1>3, <1>6, <1>j, <2>3 DEF ids
      <3>2. \A k \in Field : idOf(heap[x].fields[k])' = idOf(heap[x].fields[k])
        BY <1>4, <1>5, <2>1, <2>3
      <3>3. visible(heap[x])' = visible(heap[x])
        BY <2>1, <3>2 DEF visible
      <3> QED
        BY <1>2, <1>7, <2>1, <3>1, <3>3
    <2> QED
      BY <2>2, <2>3
  <1>9. Promise!Sees(g) /\ RInv'
    <2>1. \A x \in S : heap'[x].id = heap[x].id
      BY <1>2, <1>4
    <2>2. g = [k \in {heap'[x].id : x \in S} |-> g[k]]
      <3>1. {heap'[x].id : x \in S} = ids(S)
        BY <2>1 DEF ids
      <3> QED
        BY <1>6, <1>7, <3>1
    <2>3. \A x \in S, k \in Field : heap'[x].fields[k] \in S \union {Nil}
      BY <1>2, <1>3, <1>4
    <2>4. \A x, y \in S : heap'[x].id = heap'[y].id => x = y
      BY <1>2, <2>1
    <2>5. S \subseteq DOMAIN heap' /\ \A q \in Root : roots'[q] \in S \union {Nil}
      BY <1>1, <1>2, <1>4
    <2> QED
      BY <1>1, <1>8, <2>2, <2>3, <2>4, <2>5, ProgramSees
  <1>10. visibleRoots' = visibleRoots
    BY <1>1, <1>5 DEF visibleRoots
  <1>11. Promise!Store(j, f, i)
    BY <1>9, <1>10, <1>g, <1>v DEF Promise!Store, withSlot
  <1> QED
    BY <1>6, <1>9, <1>11, <1>v

(* A new object, and the graph with it.                                    *)
Blank(ephemeron) == [special |-> ephemeron, fields |-> [f \in Field |-> Nil]]

OfObjects(w, S) ==
  DOMAIN w = {heap'[x].id : x \in S} /\ w = [i \in DOMAIN w |-> w[i]]

Adding(id, ephemeron, a, S, w) ==
  /\ id \in freshIds /\ a \in Address \ DOMAIN heap
  /\ DOMAIN heap' = DOMAIN heap \union {a}
  /\ \A x \in DOMAIN heap : heap'[x].id = heap[x].id
  /\ heap'[a].id = id
  /\ S = accessible \union {a} /\ w = Promise!WithNew(id, ephemeron)

(* The graph with a new object in it is that of the objects that could be  *)
(* reached and the new one.                                                *)
LEMMA NewInGraph ==
  ASSUME Inv, RInv, phase = "mutator",
         NEW id, NEW ephemeron, NEW a, NEW S, NEW w, Adding(id, ephemeron, a, S, w)
  PROVE  /\ id \in Id /\ id \notin DOMAIN visibleGraph /\ idOf(a)' = id
         /\ \A ref \in accessible \union {Nil} : idOf(ref)' = idOf(ref)
         /\ \A x, y \in S : heap'[x].id = heap'[y].id => x = y
         /\ OfObjects(w, S)
         /\ \A x \in accessible : heap'[x].id = heap[x].id /\ w[heap[x].id] = visible(heap[x])
         /\ w[id] = Blank(ephemeron)
  <1>0. /\ id \in freshIds /\ a \in Address \ DOMAIN heap
        /\ DOMAIN heap' = DOMAIN heap \union {a}
        /\ \A x \in DOMAIN heap : heap'[x].id = heap[x].id
        /\ heap'[a].id = id
        /\ S = accessible \union {a} /\ w = Promise!WithNew(id, ephemeron)
    BY DEF Adding
  <1>v. PICK v : v = visibleGraph
    OBVIOUS
  <1>1. /\ accessible \subseteq DOMAIN heap
        /\ \A x, y \in accessible : heap[x].id = heap[y].id => x = y
        /\ v = [i \in ids(accessible) |-> v[i]]
        /\ \A x \in accessible : v[heap[x].id] = visible(heap[x])
    BY <1>v, ProgramGraph
  <1>2. id \in Id /\ \A x \in DOMAIN heap : heap[x].id # id
    BY <1>0, <1>0 DEF freshIds
  <1>3. id \notin DOMAIN v
    BY <1>1, <1>2 DEF ids
  <1>4. Nil \notin DOMAIN heap'
    BY <1>0, AddressAssumption DEF Inv, TypeOK
  <1>5. idOf(a)' = id
    BY <1>0, <1>4 DEF idOf
  <1>6. \A ref \in accessible \union {Nil} : idOf(ref)' = idOf(ref)
    BY <1>0, <1>1, <1>4 DEF idOf
  <1>7. \A x, y \in S : heap'[x].id = heap'[y].id => x = y
    BY <1>0, <1>1, <1>2
  <1>8. \A x \in accessible : heap'[x].id = heap[x].id /\ x \in S
    BY <1>0, <1>1
  <1>9. {heap'[x].id : x \in S} = DOMAIN v \union {id}
    <2>1. {heap'[x].id : x \in S} = {heap'[x].id : x \in accessible} \union {heap'[a].id}
      BY <1>0
    <2>2. {heap'[x].id : x \in accessible} = ids(accessible)
      BY <1>8 DEF ids
    <2> QED
      BY <1>0, <1>1, <2>1, <2>2
  <1>10. w = [i \in DOMAIN v \union {id} |-> IF i = id THEN Blank(ephemeron) ELSE v[i]]
    BY <1>0, <1>v DEF Promise!WithNew, Promise!Blank, Blank
  <1>11. \A x \in accessible : w[heap[x].id] = visible(heap[x])
    <2>1. \A x \in accessible : heap[x].id \in DOMAIN v /\ heap[x].id # id
      BY <1>1, <1>2 DEF ids
    <2> QED
      BY <1>1, <1>10, <2>1
  <1>12. OfObjects(w, S)
    BY <1>9, <1>10 DEF OfObjects
  <1> QED
    BY <1>2, <1>3, <1>5, <1>6, <1>7, <1>8, <1>10, <1>11, <1>12, <1>v

(* An allocation adds a blank object of a fresh identity, and stores it.   *)
LEMMA NewSeen ==
  ASSUME Inv, Inv', RInv, NEW ephemeron \in BOOLEAN, New(ephemeron)
  PROVE  RInv' /\ \E i \in Id :
                    \/ \E r \in Root : Promise!NewInRoot(i, ephemeron, r)
                    \/ \E j \in DOMAIN visibleGraph, f \in Field :
                         Promise!NewInField(i, ephemeron, j, f)
  <1>1. PICK id \in freshIds :
          /\ Running /\ free # {}
          /\ \/ \E r \in Root :
                  /\ roots' = [roots EXCEPT ![r] = freeAddress]
                  /\ heap' = put(freeAddress, newObject(id, ephemeron))
             \/ \E b \in accessible, f \in Written :
                  /\ heap' = withField(put(freeAddress, newObject(id, ephemeron)),
                                       b, f, freeAddress)
                  /\ roots' = roots
    BY DEF New, withField
  <1>0. id \in freshIds
    BY <1>1
  <1>a. PICK a : a = freeAddress
    OBVIOUS
  <1>h. PICK h : h = put(a, newObject(id, ephemeron))
    OBVIOUS
  <1>2. /\ a \in Address \ DOMAIN heap
        /\ DOMAIN h = DOMAIN heap \union {a}
        /\ \A x \in DOMAIN heap : h[x] = heap[x]
        /\ \A x \in DOMAIN h : h[x] \in Object
        /\ \A f \in Field : h[a].fields[f] = Nil
        /\ h[a].id = id /\ h[a].special = ephemeron
    <2>1. h[a] = newObject(id, ephemeron)
      BY <1>h DEF put
    <2>2. h[a].id = id /\ h[a].special = ephemeron
      BY <2>1 DEF newObject
    <2> QED
      BY <1>a, <1>h, <1>1, <2>2, NewObject
  <1>3. TypeOK /\ phase = "mutator" /\ phase' = "mutator"
    BY <1>1 DEF Inv, Running
  <1>4. /\ accessible \subseteq DOMAIN heap
        /\ \A r \in Root : roots[r] \in accessible \union {Nil}
        /\ \A x \in accessible, f \in Field : heap[x].fields[f] \in accessible \union {Nil}
        /\ \A x \in accessible : heap[x].id \in DOMAIN visibleGraph
    BY <1>3, ProgramGraph
  <1>S. PICK S : S = accessible \union {a}
    OBVIOUS
  <1>e. PICK special : special = ephemeron
    OBVIOUS
  <1>w. PICK w : w = Promise!WithNew(id, special)
    OBVIOUS
  <1>5. ASSUME DOMAIN heap' = DOMAIN heap \union {a},
               \A x \in DOMAIN heap : heap'[x].id = heap[x].id,
               heap'[a].id = id
        PROVE  /\ id \in Id /\ id \notin DOMAIN visibleGraph /\ idOf(a)' = id
               /\ \A ref \in accessible \union {Nil} : idOf(ref)' = idOf(ref)
               /\ \A x, y \in S : heap'[x].id = heap'[y].id => x = y
               /\ OfObjects(w, S)
               /\ \A x \in accessible :
                    heap'[x].id = heap[x].id /\ w[heap[x].id] = visible(heap[x])
               /\ w[id] = Blank(special)
               /\ S \subseteq DOMAIN heap' /\ idOf(Nil)' = Nil
    <2>1. idOf(Nil)' = Nil
      BY DEF idOf
    <2>2. S \subseteq DOMAIN heap'
      BY <1>4, <1>5, <1>S
    <2>3. /\ id \in Id /\ id \notin DOMAIN visibleGraph /\ idOf(a)' = id
          /\ \A ref \in accessible \union {Nil} : idOf(ref)' = idOf(ref)
          /\ \A x, y \in S : heap'[x].id = heap'[y].id => x = y
          /\ OfObjects(w, S)
          /\ \A x \in accessible :
               heap'[x].id = heap[x].id /\ w[heap[x].id] = visible(heap[x])
          /\ w[id] = Blank(special)
      <3>1. Adding(id, special, a, S, w)
        BY <1>0, <1>2, <1>5, <1>S, <1>w DEF Adding
      <3> QED
        BY <1>3, <3>1, NewInGraph
    <2> QED
      BY <2>1, <2>2, <2>3
  <1>6. ASSUME NEW r \in Root, roots' = [roots EXCEPT ![r] = a], heap' = h
        PROVE  RInv' /\ id \in Id /\ Promise!NewInRoot(id, ephemeron, r)
    <2>1. /\ id \in Id /\ id \notin DOMAIN visibleGraph /\ idOf(a)' = id
          /\ \A ref \in accessible \union {Nil} : idOf(ref)' = idOf(ref)
          /\ \A x, y \in S : heap'[x].id = heap'[y].id => x = y
          /\ OfObjects(w, S)
          /\ \A x \in accessible :
               heap'[x].id = heap[x].id /\ w[heap[x].id] = visible(heap[x])
          /\ w[id] = Blank(special)
          /\ S \subseteq DOMAIN heap' /\ idOf(Nil)' = Nil
      BY <1>2, <1>5, <1>6
    <2>o. DOMAIN w = {heap'[x].id : x \in S} /\ w = [i \in DOMAIN w |-> w[i]]
      BY <2>1 DEF OfObjects
    <2>2. ASSUME NEW x \in S PROVE w[heap'[x].id] = visible(heap[x])'
      <3>1. CASE x \in accessible
        <4>1. /\ heap'[x] = heap[x]
              /\ \A f \in Field : idOf(heap[x].fields[f])' = idOf(heap[x].fields[f])
          BY <1>2, <1>4, <1>6, <2>1, <3>1
        <4>2. visible(heap[x])' = visible(heap[x])
          BY <4>1 DEF visible
        <4> QED
          BY <2>1, <3>1, <4>2
      <3>2. CASE x = a
        <4>1. PICK fields : fields = [f \in Field |-> Nil]
          OBVIOUS
        <4>2. \A f \in Field : idOf(heap[x].fields[f])' = fields[f]
          BY <1>2, <1>6, <2>1, <3>2, <4>1
        <4>3. heap'[x].special = ephemeron /\ heap'[x].id = id
          BY <1>2, <1>6, <3>2
        <4>4. fields = [f \in Field |-> fields[f]]
          BY <4>1
        <4>s. heap'[x].special = special
          BY <1>e, <4>3
        <4>5. visible(heap[x])' = [special |-> special, fields |-> fields]
          BY <4>s, <4>2, <4>4, VisibleAfter
        <4> QED
          BY <2>1, <4>1, <4>3, <4>5, <4>s DEF Blank
      <3> QED
        BY <1>S, <3>1, <3>2
    <2>3. Promise!Sees(w) /\ RInv'
      <3>1. \A q \in Root : roots'[q] \in S \union {Nil}
        BY <1>3, <1>4, <1>6, <1>S DEF TypeOK
      <3>2. \A x \in S, f \in Field : heap'[x].fields[f] \in S \union {Nil}
        BY <1>2, <1>4, <1>6, <1>S
      <3> QED
        BY <1>3, <2>1, <2>2, <2>o, <3>1, <3>2, ProgramSees
    <2>4. visibleRoots' = [visibleRoots EXCEPT ![r] = id]
      <3>1. \A q \in Root : idOf(roots[q])' = IF q = r THEN id ELSE idOf(roots[q])
        BY <1>3, <1>4, <1>6, <2>1 DEF TypeOK
      <3> QED
        BY <3>1 DEF visibleRoots
    <2> QED
      BY <2>1, <2>3, <2>4, <1>e, <1>w DEF Promise!NewInRoot
  <1>7. ASSUME NEW b \in accessible, NEW f \in Written,
               heap' = withField(h, b, f, a), roots' = roots
        PROVE  /\ RInv' /\ id \in Id
               /\ \E j \in DOMAIN visibleGraph, k \in Field :
                    Promise!NewInField(id, ephemeron, j, k)
    <2>0. b \in DOMAIN h /\ b # a /\ b \in S /\ f \in Field /\ a \in Reference
      BY <1>2, <1>4, <1>S, FieldAssumption DEF Field, Reference
    <2>1. /\ DOMAIN heap' = DOMAIN heap \union {a}
          /\ \A x \in DOMAIN heap' :
               /\ heap'[x].id = h[x].id /\ heap'[x].special = h[x].special
               /\ \A k \in Field :
                    heap'[x].fields[k] = IF x = b /\ k = f THEN a ELSE h[x].fields[k]
      <3>1. PICK g : g = withField(h, b, f, a)
        OBVIOUS
      <3>2. /\ DOMAIN g = DOMAIN h
            /\ \A x \in DOMAIN h, k \in Field :
                 g[x].fields[k] = IF x = b /\ k = f THEN a ELSE h[x].fields[k]
        BY <1>2, <2>0, <3>1, Corrected
      <3>3. \A x \in DOMAIN h : g[x].id = h[x].id /\ g[x].special = h[x].special
        BY <1>2, <2>0, <3>1, SameObjects
      <3> QED
        BY <1>2, <1>7, <3>1, <3>2, <3>3
    <2>2. /\ id \in Id /\ id \notin DOMAIN visibleGraph /\ idOf(a)' = id
          /\ \A ref \in accessible \union {Nil} : idOf(ref)' = idOf(ref)
          /\ \A x, y \in S : heap'[x].id = heap'[y].id => x = y
          /\ OfObjects(w, S)
          /\ \A x \in accessible :
               heap'[x].id = heap[x].id /\ w[heap[x].id] = visible(heap[x])
          /\ w[id] = Blank(special)
          /\ S \subseteq DOMAIN heap' /\ idOf(Nil)' = Nil
      BY <1>2, <1>5, <2>1
    <2>o. DOMAIN w = {heap'[x].id : x \in S} /\ w = [i \in DOMAIN w |-> w[i]]
      BY <2>2 DEF OfObjects
    <2>j. PICK j : j = heap[b].id
      OBVIOUS
    <2>g. PICK g : g = withSlot(w, j, f, id)
      OBVIOUS
    <2>3. j \in DOMAIN visibleGraph /\ j \in DOMAIN w /\ j # id
      BY <1>4, <2>0, <2>2, <2>o, <2>j
    <2>F. PICK fields : fields = [k \in Field |-> idOf(heap[b].fields[k])]
      OBVIOUS
    <2>4. /\ g = [k \in DOMAIN w |-> g[k]]
          /\ \A k \in DOMAIN w : k # j => g[k] = w[k]
          /\ g[j] = [special |-> heap[b].special,
                     fields |-> [k \in Field |-> IF k = f THEN id ELSE fields[k]]]
      <3>1. w[j] = [special |-> heap[b].special, fields |-> fields]
        BY <2>2, <2>F, <2>j DEF visible
      <3>2. PICK active : active = heap[b].special
        OBVIOUS
      <3>3. fields = [k \in Field |-> fields[k]]
        BY <2>F
      <3> QED
        BY <2>0, <2>2, <2>3, <2>o, <2>g, <3>1, <3>2, <3>3, WithSlot
    <2>5. ASSUME NEW x \in S PROVE g[heap'[x].id] = visible(heap[x])'
      <3>1. CASE x \in accessible
        <4>1. /\ x \in DOMAIN heap /\ heap'[x].id = heap[x].id
              /\ heap'[x].special = heap[x].special
              /\ \A k \in Field :
                   heap'[x].fields[k] = IF x = b /\ k = f THEN a ELSE heap[x].fields[k]
              /\ \A k \in Field : heap[x].fields[k] \in accessible \union {Nil}
          BY <1>2, <1>4, <2>1, <3>1
        <4>2. CASE x = b
          <5>1. PICK new : new = [k \in Field |-> IF k = f THEN id ELSE fields[k]]
            OBVIOUS
          <5>2. \A k \in Field : idOf(heap[x].fields[k])' = new[k]
            BY <2>2, <2>F, <4>1, <4>2, <5>1
          <5>3. new = [k \in Field |-> new[k]]
            BY <5>1
          <5>4. visible(heap[x])' = [special |-> heap[x].special, fields |-> new]
            BY <4>1, <5>2, <5>3, VisibleAfter
          <5> QED
            BY <2>4, <2>j, <4>1, <4>2, <5>1, <5>4
        <4>3. CASE x # b
          <5>1. heap[x].id # j /\ heap[x].id \in DOMAIN w
            BY <1>S, <2>0, <2>2, <2>o, <2>j, <3>1, <4>1, <4>3
          <5>2. \A k \in Field : idOf(heap[x].fields[k])' = idOf(heap[x].fields[k])
            BY <2>2, <4>1, <4>3
          <5>3. visible(heap[x])' = visible(heap[x])
            BY <4>1, <5>2 DEF visible
          <5> QED
            BY <2>2, <2>4, <3>1, <4>1, <5>1, <5>3
        <4> QED
          BY <4>2, <4>3
      <3>2. CASE x = a
        <4>1. PICK new : new = [k \in Field |-> Nil]
          OBVIOUS
        <4>2. \A k \in Field : idOf(heap[x].fields[k])' = new[k]
          BY <1>2, <2>0, <2>1, <2>2, <3>2, <4>1
        <4>3. heap'[x].special = ephemeron /\ heap'[x].id = id
          BY <1>2, <2>1, <3>2
        <4>s. heap'[x].special = special
          BY <1>e, <4>3
        <4>n. new = [k \in Field |-> new[k]]
          BY <4>1
        <4>4. visible(heap[x])' = [special |-> special, fields |-> new]
          BY <4>s, <4>n, <4>2, VisibleAfter
        <4>5. w[id] = [special |-> special, fields |-> new]
          BY <2>2, <4>1 DEF Blank
        <4>6. id \in DOMAIN w
          BY <2>2, <2>o, <3>2, <4>3
        <4> QED
          BY <2>3, <2>4, <3>2, <4>s, <4>3, <4>4, <4>5, <4>6
      <3> QED
        BY <1>S, <3>1, <3>2
    <2>6. Promise!Sees(g) /\ RInv'
      <3>1. \A q \in Root : roots'[q] \in S \union {Nil}
        BY <1>4, <1>7, <1>S
      <3>2. \A x \in S, k \in Field : heap'[x].fields[k] \in S \union {Nil}
        BY <1>2, <1>4, <1>S, <2>1
      <3>3. g = [i \in {heap'[x].id : x \in S} |-> g[i]]
        BY <2>o, <2>4
      <3> QED
        BY <1>3, <2>2, <2>5, <3>1, <3>2, <3>3, ProgramSees
    <2>7. visibleRoots' = visibleRoots
      BY <1>4, <1>7, <2>2 DEF visibleRoots
    <2>8. Promise!NewInField(id, ephemeron, j, f)
      BY <2>2, <2>3, <2>6, <2>7, <1>e, <1>w, <2>g DEF Promise!NewInField, withSlot
    <2> QED
      BY <2>0, <2>2, <2>3, <2>6, <2>8
  <1> QED
    BY <1>a, <1>h, <1>1, <1>6, <1>7

-----------------------------------------------------------------------------
(* The theorem.                                                            *)

(* In the beginning there are no objects.                                  *)
LEMMA InitRefines ==
  ASSUME Init
  PROVE  RInv /\ Promise!Init
  <1>1. /\ DOMAIN heap = {} /\ DOMAIN forwarder = {} /\ phase = "mutator" /\ rescued = {}
        /\ roots = [r \in Root |-> Nil]
    BY DEF Init
  <1>2. accessible = {}
    BY <1>1 DEF accessible
  <1>3. RInv
    BY <1>1, <1>2 DEF RInv, UniqueIds, OneEach, SameIds, ListedOK, LivesOK, RescueOK, Rescuing
  <1>4. visibleRoots = [r \in Root |-> Nil]
    BY <1>1 DEF visibleRoots, idOf
  <1>5. visibleGraph = [i \in {} |-> Nil]
    <2>1. {} \in SUBSET Address /\ {heap[a].id : a \in {}} = {}
      OBVIOUS
    <2>2. graphOf[{}] = [i \in {heap[a].id : a \in {}} |->
                           visible(heap[CHOOSE a \in {} : heap[a].id = i])]
      BY <2>1 DEF graphOf
    <2> QED
      BY <1>2, <2>1, <2>2 DEF visibleGraph
  <1> QED
    BY <1>3, <1>4, <1>5 DEF Promise!Init

(* What the program does, the abstract program does.                       *)
LEMMA ProgramRefines ==
  ASSUME ~Switching, Inv, Inv', RInv, Program
  PROVE  RInv' /\ [Promise!Next]_(Promise!vars)
  <1> SUFFICES RInv' /\ (Promise!vars' # Promise!vars => Promise!Next)
    OBVIOUS
  <1>1. ASSUME NEW ephemeron \in Ephemerons, New(ephemeron)
        PROVE  RInv' /\ (Promise!vars' # Promise!vars => Promise!Next)
    <2>1. ephemeron \in BOOLEAN
      BY ProgramAssumption
    <2>2. /\ RInv'
          /\ \E i \in Id :
                \/ \E r \in Root : Promise!NewInRoot(i, ephemeron, r)
                \/ \E j \in DOMAIN visibleGraph, f \in Field :
                     Promise!NewInField(i, ephemeron, j, f)
      BY <1>1, <2>1, NewSeen
    <2>3. \E i \in Id, active \in BOOLEAN :
             \/ \E r \in Root : Promise!NewInRoot(i, active, r)
             \/ \E j \in DOMAIN visibleGraph, f \in Field :
                  Promise!NewInField(i, active, j, f)
      BY <2>1, <2>2
    <2> QED
      BY <2>2, <2>3 DEF Promise!Next
  <1>2. ASSUME NEW r \in Root, NEW ref \in accessible \union {Nil}, SetRoot(r, ref)
        PROVE  RInv' /\ (Promise!vars' # Promise!vars => Promise!Next)
    BY <1>2, SetRootSeen DEF Promise!Next
  <1>3. ASSUME NEW a \in accessible, NEW f \in Written,
               NEW ref \in accessible \union {Nil}, Store(a, f, ref)
        PROVE  RInv' /\ (Promise!vars' # Promise!vars => Promise!Next)
    <2>1. f \in Field
      BY FieldAssumption DEF Field
    <2>2. RInv' /\ \E j \in DOMAIN visibleGraph, i \in Promise!Refs(visibleGraph) :
                     Promise!Store(j, f, i)
      BY <1>3, StoreSeen
    <2> QED
      BY <2>1, <2>2 DEF Promise!Next
  <1> QED
    BY <1>1, <1>2, <1>3 DEF Program, ContextSwitch

(* Of a collection the program sees nothing, except that ephemerons are    *)
(* rescued.                                                                *)
LEMMA CollectRefines ==
  ASSUME Inv, Inv', RInv, Collect
  PROVE  RInv' /\ [Promise!Next]_(Promise!vars)
  <1>1. CASE UNCHANGED <<visibleRoots, visibleGraph>> /\ RInv'
    BY <1>1 DEF Promise!vars
  <1>2. CASE StrengthenEphemerons
    <2>1. RInv' /\ \E R \in SUBSET DOMAIN visibleGraph : Promise!Rescue(R)
      BY <1>2, StrengthenRescues
    <2> QED
      BY <2>1 DEF Promise!Next
  <1>3. CASE Trace
    BY <1>1, <1>3, ScanRootKeepsRInv, RootsScannedKeepsRInv, ScanFieldKeepsRInv DEF Trace
  <1>4. CASE FollowEphemerons
    BY <1>1, <1>2, <1>4, FollowEphemeronKeepsRInv, SetAsideKeepsRInv, SwapKeepsRInv,
       RescueUnreachableKeepsRInv, RescueEphemeronKeepsRInv, RescuedKeepsRInv
       DEF FollowEphemerons
  <1>5. CASE Release
    BY <1>1, <1>5, ReleaseKeepsRInv DEF Release
  <1> QED
    BY <1>3, <1>4, <1>5 DEF Collect

(* Any step is one of the abstract heap, or is not seen.                   *)
LEMMA StepRefines ==
  ASSUME ~Switching, Inv, Inv', RInv, [Next]_vars
  PROVE  RInv' /\ [Promise!Next]_(Promise!vars)
  <1>1. CASE Program
    BY <1>1, ProgramRefines
  <1>2. ASSUME NEW evacuees, StartCollection(evacuees)
        PROVE  RInv' /\ [Promise!Next]_(Promise!vars)
    BY <1>2, StartCollectionKeepsRInv DEF Promise!vars
  <1>3. CASE Collect
    BY <1>3, CollectRefines
  <1>4. CASE UNCHANGED vars
    <2>1. UNCHANGED <<roots, heap, seen, forwarder, unchecked, unreached, rescued, done,
                      phase, evacuated, stack, scanned>>
      BY <1>4 DEF vars, programVars, markVars, ephemeronVars
    <2>2. ListedOK' /\ LivesOK /\ RescueOK
      BY <2>1 DEF RInv, ListedOK, ClosureFollowed, isScanning, checkReachableProperty, isSeen
    <2>3. /\ Rescuing' = Rescuing /\ unreachable' = unreachable
          /\ \A x, k : queued(x, k)' <=> queued(x, k)
      BY <2>1 DEF Rescuing, unreachable, queued, pending, isScanning
    <2>4. RInv' /\ visibleRoots' = visibleRoots /\ visibleGraph' = visibleGraph
      BY <2>1, <2>2, <2>3, OnlyListsKeep DEF LivesOK, RescueOK
    <2> QED
      BY <2>4 DEF Promise!vars
  <1> QED
    BY <1>1, <1>2, <1>3, <1>4 DEF Next

(* Whatever GarbageCollector copies, corrects, frees and lets be used      *)
(* again, at any moment of the program, and whichever ephemerons there     *)
(* are: the program sees what it would see if there were no collector and  *)
(* no addresses, and rescueUnreachableEphemerons rescues every ephemeron   *)
(* that loses its key and none whose key stays alive.                      *)
THEOREM CollectionsAreInvisible ==
  ASSUME ~Switching
  PROVE  Spec => CollectionIsInvisible
<1>1. Init => RInv /\ Promise!Init
  BY InitRefines
<1>2. IInv => Inv
  BY DEF IInv, NoStaleFrame
<1>3. IInv /\ IInv' /\ RInv /\ [Next]_vars => RInv' /\ [Promise!Next]_(Promise!vars)
  <2>1. IInv' => Inv'
    BY DEF IInv, NoStaleFrame
  <2> QED
    BY <1>2, <2>1, StepRefines
<1> QED
  BY <1>1, <1>3, CollectorInvariant, PTL DEF Spec, CollectionIsInvisible, Promise!Spec

=============================================================================
