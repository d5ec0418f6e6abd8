--------------------------- MODULE GCHeap_proofs ---------------------------
(***************************************************************************)
(* Proofs about the old zone and its collector, for every size of the      *)
(* spaces, every number of regions and every set of body sizes.            *)
(***************************************************************************)
EXTENDS GCHeap, FiniteSetTheorems, TLAPS

-----------------------------------------------------------------------------
(* Lemmas about a single space.                                            *)

(* Rounding up to a page never yields less than the address.               *)
LEMMA PageAlign == \A a \in Nat : pagealign(a) \in Int /\ pagealign(a) >= a
  BY PageSizeAssumption DEF pagealign

(* Committing an empty space commits all of it.                            *)
LEMMA CommitAllOfEmpty == commitAll(emptySpace) = fullyCommitted
  <1>1. pagealign(SPACE_SIZE) \in Int /\ pagealign(SPACE_SIZE) >= SPACE_SIZE
    BY PageAlign, SpaceSizeAssumption
  <1>2. commitLimit(SPACE_SIZE) = SPACE_SIZE
    BY <1>1, SpaceSizeAssumption DEF commitLimit
  <1>3. canCommitUpTo(SPACE_SIZE)
    BY <1>2, SpaceSizeAssumption DEF canCommitUpTo
  <1>4. emptySpace.committedLimit + SPACE_SIZE = SPACE_SIZE
    BY SpaceSizeAssumption DEF emptySpace
  <1>5. commitMemoryUpTo(emptySpace, SPACE_SIZE)
          = [next |-> 0, softLimit |-> 0, committedLimit |-> SPACE_SIZE]
    BY <1>2, <1>3 DEF commitMemoryUpTo, emptySpace
  <1> QED
    BY <1>4, <1>5 DEF commitAll, fullyCommitted

(* In a wholly committed space there is nothing left to commit, so a copy  *)
(* fits exactly when it ends within the space.                             *)
LEMMA CopyIntoCommitted ==
  ASSUME NEW s \in Space, NEW size \in Nat, s.softLimit = SPACE_SIZE
  PROVE  /\ canAllocateCommitting(s, size) <=> s.next + size <= SPACE_SIZE
         /\ canAllocateCommitting(s, size) =>
              allocateCommitting(s, size) = allocate(s, size)
  <1>1. s.next \in Nat BY DEF Space, Offset
  <1>2. pagealign(s.next + size) \in Int
    BY <1>1, PageAlign
  <1>3. commitLimit(s.next + size) <= SPACE_SIZE
    BY <1>2, SpaceSizeAssumption DEF commitLimit
  <1>4. commitLimit(s.next + size) \in Int
    BY <1>2, SpaceSizeAssumption DEF commitLimit
  <1>5. canCommitUpTo(s.next + size) => s.next + size <= SPACE_SIZE
    BY <1>1, <1>3, <1>4, SpaceSizeAssumption DEF canCommitUpTo
  <1> QED
    BY <1>1, <1>5 DEF canAllocateCommitting, allocateCommitting

-----------------------------------------------------------------------------
(* Lemmas about the zone.                                                  *)

(* The fields of a zone.                                                   *)
LEMMA ZoneFields ==
  ASSUME NEW z \in Zone
  PROVE  /\ z.spaces \in [Region -> Space]
         /\ z.created \in Nat /\ z.created <= REGIONS
         /\ z.emptySpaces \in Seq(Region)
         /\ z.current \in Region /\ z.next \in Region
         /\ z.occupancy \in [Region -> Nat]
         /\ z = [spaces |-> z.spaces, created |-> z.created,
                 emptySpaces |-> z.emptySpaces, current |-> z.current,
                 next |-> z.next, occupancy |-> z.occupancy]
  BY RegionsAssumption DEF Zone

(* A freshly built zone is well formed.                                    *)
LEMMA BuiltZone == ZoneInv(builtZone)
  <1>1. builtZone \in Zone
    BY SpaceSizeAssumption, RegionsAssumption
    DEF builtZone, Zone, Region, Space, Offset, fullyCommitted, emptySpace
  <1> QED
    BY <1>1, SpaceSizeAssumption, RegionsAssumption
    DEF ZoneInv, builtZone, Region, fullyCommitted, emptySpace, isFree

(* Both ways bumpSpace finds a space give an empty one, and take it off    *)
(* the stack.                                                              *)
LEMMA BumpTakesEmpty ==
  ASSUME NEW z, ZoneInv(z), canBump(z)
  PROVE  LET b == bumpSpace(z) IN
         /\ b.next \in Region
         /\ b.next \notin {z.current, z.next}
         /\ z.spaces[b.next] = emptySpace
         /\ b.next <= b.created
         /\ b.created \in z.created .. REGIONS
         /\ b.emptySpaces \in Seq(Region)
         /\ \A i \in DOMAIN b.emptySpaces :
              /\ b.emptySpaces[i] # b.next
              /\ i \in DOMAIN z.emptySpaces
              /\ b.emptySpaces[i] = z.emptySpaces[i]
         /\ b.spaces = [z.spaces EXCEPT ![b.next] = fullyCommitted]
         /\ b.occupancy = [z.occupancy EXCEPT ![b.next] = SPACE_SIZE]
         /\ b.current = z.next
         /\ b = [spaces |-> b.spaces, created |-> b.created,
                 emptySpaces |-> b.emptySpaces, current |-> b.current,
                 next |-> b.next, occupancy |-> b.occupancy]
  <1> DEFINE w == withEmptySpace(z)
             n == w.emptySpaces[Len(w.emptySpaces)]
             b == bumpSpace(z)
  <1>1. z \in Zone BY DEF ZoneInv
  <1>2. b = [spaces      |-> [w.spaces EXCEPT ![n] = commitAll(w.spaces[n])],
             created     |-> w.created,
             emptySpaces |-> SubSeq(w.emptySpaces, 1, Len(w.emptySpaces) - 1),
             current     |-> z.next,
             next        |-> n,
             occupancy   |-> [w.occupancy EXCEPT ![n] = SPACE_SIZE]]
    BY DEF bumpSpace
  <1>3. /\ n \in Region
        /\ n \notin {z.current, z.next}
        /\ z.spaces[n] = emptySpace
        /\ w.spaces = z.spaces
        /\ w.occupancy = z.occupancy
        /\ w.created \in z.created .. REGIONS
        /\ n <= w.created
        /\ LET e == SubSeq(w.emptySpaces, 1, Len(w.emptySpaces) - 1) IN
           /\ e \in Seq(Region)
           /\ \A i \in DOMAIN e :
                e[i] # n /\ i \in DOMAIN z.emptySpaces /\ e[i] = z.emptySpaces[i]
    <2>1. CASE z.emptySpaces = <<>>
      <3> DEFINE k == z.created + 1
      <3>1. w = createEmptySpace(z) BY <2>1 DEF withEmptySpace
      <3>0. z.created < REGIONS BY <2>1 DEF canBump, canCreateSpace
      <3>2. k \in Region /\ k <= REGIONS
        BY <3>0, <1>1, ZoneFields, RegionsAssumption DEF Region
      <3>3. z.spaces[k] = emptySpace
        BY <3>2, <1>1, RegionsAssumption DEF ZoneInv, Zone
      <3>4. /\ w.spaces = [z.spaces EXCEPT ![k] = emptySpace]
            /\ w.created = k
            /\ w.emptySpaces = Append(z.emptySpaces, k)
            /\ w.occupancy = z.occupancy
        BY <3>1, <1>1 DEF createEmptySpace, Zone
      <3>5. w.spaces = z.spaces BY <3>2, <3>3, <3>4, <1>1 DEF Zone
      <3>6. w.emptySpaces = <<k>> BY <3>4, <2>1
      <3>7. n = k /\ SubSeq(w.emptySpaces, 1, Len(w.emptySpaces) - 1) = <<>>
        BY <3>6, <3>2
      <3>8. k \notin {z.current, z.next}
        BY <1>1 DEF ZoneInv, Zone, Region
      <3>9. k \in z.created .. REGIONS
        BY <1>1, <3>2, RegionsAssumption DEF Zone
      <3>10. <<>> \in Seq(Region) /\ DOMAIN <<>> = {}
        OBVIOUS
      <3> HIDE DEF k
      <3> QED BY <3>2, <3>3, <3>4, <3>5, <3>7, <3>8, <3>9, <3>10,
                 RegionsAssumption DEF Region
    <2>2. CASE z.emptySpaces # <<>>
      <3>1. w = z BY <2>2 DEF withEmptySpace
      <3>2. z.emptySpaces \in Seq(Region) BY <1>1 DEF Zone
      <3> DEFINE L == Len(z.emptySpaces)
      <3>3. L \in Nat /\ L >= 1 /\ L \in DOMAIN z.emptySpaces
        BY <2>2, <3>2
      <3>4. n = z.emptySpaces[L] /\ n \in Region
        BY <3>1, <3>2, <3>3
      <3>5. z.spaces[n] = emptySpace /\ n <= z.created
        BY <3>3, <3>4 DEF ZoneInv
      <3>6. n # z.next
        BY <3>5, SpaceSizeAssumption DEF ZoneInv, emptySpace, fullyCommitted
      <3>7. n # z.current
        BY <3>5, SpaceSizeAssumption DEF ZoneInv, emptySpace, isFree
      <3> DEFINE e == SubSeq(z.emptySpaces, 1, L - 1)
      <3>8. /\ e \in Seq(Region)
            /\ \A i \in DOMAIN e : i \in DOMAIN z.emptySpaces
                                /\ e[i] = z.emptySpaces[i] /\ i # L
        BY <3>2, <3>3
      <3>9. \A i \in DOMAIN e : e[i] # n
        BY <3>3, <3>4, <3>8 DEF ZoneInv
      <3> HIDE DEF e
      <3>10. z.created \in z.created .. REGIONS BY <1>1, RegionsAssumption DEF Zone
      <3> QED BY <3>1, <3>4, <3>5, <3>6, <3>7, <3>8, <3>9, <3>10 DEF e
    <2> QED BY <2>1, <2>2
  <1>4. commitAll(w.spaces[n]) = fullyCommitted
    BY <1>3, CommitAllOfEmpty
  <1> HIDE DEF w, n
  <1>5. b = [spaces      |-> [z.spaces EXCEPT ![n] = fullyCommitted],
             created     |-> w.created,
             emptySpaces |-> SubSeq(w.emptySpaces, 1, Len(w.emptySpaces) - 1),
             current     |-> z.next,
             next        |-> n,
             occupancy   |-> [z.occupancy EXCEPT ![n] = SPACE_SIZE]]
    BY <1>2, <1>3, <1>4
  <1> QED BY <1>3, <1>5

(* bumpSpace keeps the zone well formed.                                   *)
LEMMA BumpKeepsZoneInv ==
  ASSUME NEW z, ZoneInv(z), canBump(z)
  PROVE  ZoneInv(bumpSpace(z))
  <1> DEFINE b == bumpSpace(z)
  <1>1. z \in Zone BY DEF ZoneInv
  <1>2. /\ b.next \in Region
        /\ b.next \notin {z.current, z.next}
        /\ z.spaces[b.next] = emptySpace
        /\ b.next <= b.created
        /\ b.created \in z.created .. REGIONS
        /\ b.emptySpaces \in Seq(Region)
        /\ \A i \in DOMAIN b.emptySpaces :
             /\ b.emptySpaces[i] # b.next
             /\ i \in DOMAIN z.emptySpaces
             /\ b.emptySpaces[i] = z.emptySpaces[i]
        /\ b.spaces = [z.spaces EXCEPT ![b.next] = fullyCommitted]
        /\ b.occupancy = [z.occupancy EXCEPT ![b.next] = SPACE_SIZE]
        /\ b.current = z.next
    BY BumpTakesEmpty
  <1>3. b \in Zone
    <2>0. fullyCommitted \in Space
      BY SpaceSizeAssumption DEF Space, Offset, fullyCommitted
    <2>1. b.spaces \in [Region -> Space]
      BY <2>0, <1>1, <1>2, ZoneFields
    <2>2. b.occupancy \in [Region -> Nat]
      BY <1>1, <1>2, SpaceSizeAssumption DEF Zone
    <2>3. b.created \in 0 .. REGIONS /\ b.current \in Region
      BY <1>1, <1>2, RegionsAssumption DEF Zone
    <2>4. b = [spaces |-> b.spaces, created |-> b.created,
               emptySpaces |-> b.emptySpaces, current |-> b.current,
               next |-> b.next, occupancy |-> b.occupancy]
      BY BumpTakesEmpty
    <2> HIDE DEF b
    <2> QED BY <2>1, <2>2, <2>3, <2>4, <1>2 DEF Zone
  <1> HIDE DEF b
  <1>4. \A r \in Region : r # b.next => b.spaces[r] = z.spaces[r]
                                     /\ b.occupancy[r] = z.occupancy[r]
    BY <1>1, <1>2 DEF Zone
  <1>5. b.spaces[b.next] = fullyCommitted /\ b.occupancy[b.next] = SPACE_SIZE
    BY <1>1, <1>2 DEF Zone
  <1>6. z.created \in Nat /\ z.next \in Region /\ b.created \in Nat /\ b.created >= z.created
    BY <1>1, <1>2, RegionsAssumption DEF Zone
  <1>7. b.current # b.next /\ b.current <= b.created /\ b.next <= b.created
    BY <1>2, <1>6 DEF ZoneInv, Region
  <1>8. \A r \in Region :
          \/ b.spaces[r] = emptySpace /\ b.occupancy[r] = 0
          \/ /\ b.spaces[r].softLimit = SPACE_SIZE
             /\ b.spaces[r].committedLimit = SPACE_SIZE
             /\ r <= b.created
    <2> SUFFICES ASSUME NEW r \in Region
                 PROVE  \/ b.spaces[r] = emptySpace /\ b.occupancy[r] = 0
                        \/ /\ b.spaces[r].softLimit = SPACE_SIZE
                           /\ b.spaces[r].committedLimit = SPACE_SIZE
                           /\ r <= b.created
      OBVIOUS
    <2>1. CASE r = b.next BY <2>1, <1>5, <1>2 DEF fullyCommitted
    <2>2. CASE r # b.next BY <2>2, <1>4, <1>6 DEF ZoneInv, Region
    <2> QED BY <2>1, <2>2
  <1>9. /\ ~isFree(b.spaces[b.current])
        /\ b.occupancy[b.current] >= SPACE_SIZE
    BY <1>2, <1>4, <1>6, SpaceSizeAssumption DEF ZoneInv, isFree, fullyCommitted
  <1>10. \A i \in DOMAIN b.emptySpaces :
           /\ b.emptySpaces[i] <= b.created
           /\ b.spaces[b.emptySpaces[i]] = emptySpace
           /\ \A j \in DOMAIN b.emptySpaces :
                i # j => b.emptySpaces[i] # b.emptySpaces[j]
    <2> SUFFICES ASSUME NEW i \in DOMAIN b.emptySpaces
                 PROVE  /\ b.emptySpaces[i] <= b.created
                        /\ b.spaces[b.emptySpaces[i]] = emptySpace
                        /\ \A j \in DOMAIN b.emptySpaces :
                             i # j => b.emptySpaces[i] # b.emptySpaces[j]
      OBVIOUS
    <2>1. b.emptySpaces[i] \in Region BY <1>2
    <2>2. b.emptySpaces[i] <= z.created /\ z.spaces[b.emptySpaces[i]] = emptySpace
      BY <1>2 DEF ZoneInv
    <2>3. b.spaces[b.emptySpaces[i]] = emptySpace
      BY <2>1, <2>2, <1>2, <1>4
    <2>4. \A j \in DOMAIN b.emptySpaces :
            i # j => b.emptySpaces[i] # b.emptySpaces[j]
      BY <1>2 DEF ZoneInv
    <2> QED BY <2>1, <2>2, <2>3, <2>4, <1>6 DEF Region
  <1>11. b.occupancy[b.next] >= SPACE_SIZE BY <1>5, SpaceSizeAssumption
  <1>12. ZoneInv(b)
    BY <1>3, <1>5, <1>7, <1>8, <1>9, <1>10, <1>11 DEF ZoneInv
  <1> QED BY <1>12 DEF b

(* What ZoneInv says of the two kinds of spaces.                           *)
LEMMA SpaceKinds ==
  ASSUME NEW z, ZoneInv(z), NEW r \in Region
  PROVE  /\ isFree(z.spaces[r]) => z.spaces[r] = emptySpace /\ z.occupancy[r] = 0
         /\ ~isFree(z.spaces[r]) => /\ z.spaces[r].softLimit = SPACE_SIZE
                                    /\ z.spaces[r].committedLimit = SPACE_SIZE
                                    /\ r <= z.created
         /\ z.spaces[r] = emptySpace => isFree(z.spaces[r])
         /\ \A i \in DOMAIN z.emptySpaces : isFree(z.spaces[z.emptySpaces[i]])
         /\ ~isFree(z.spaces[z.current]) /\ ~isFree(z.spaces[z.next])
  BY SpaceSizeAssumption DEF ZoneInv, isFree, emptySpace, fullyCommitted

(* Bumping the allocation pointer of the current space, as allocation and  *)
(* evacuation both do.                                                     *)
LEMMA AllocateKeepsZoneInv ==
  ASSUME NEW z, ZoneInv(z), NEW size \in Nat,
         z.spaces[z.current].next + size <= SPACE_SIZE
  PROVE  LET a == allocateInCurrent(z, size) IN
         /\ ZoneInv(a)
         /\ a = copyIntoCurrent(z, size)
         /\ a.current = z.current /\ a.next = z.next
         /\ a.created = z.created
         /\ a.occupancy = z.occupancy
         /\ a.spaces[z.current].next = z.spaces[z.current].next + size
         /\ \A r \in Region : isFree(a.spaces[r]) <=> isFree(z.spaces[r])
         /\ \A r \in Region \ {z.current} : a.spaces[r] = z.spaces[r]
  <1> DEFINE c == z.current
             s == z.spaces[c]
             t == allocate(s, size)
             a == allocateInCurrent(z, size)
  <1>1. z \in Zone BY DEF ZoneInv
  <1>2. c \in Region /\ s \in Space BY <1>1, ZoneFields
  <1>3. s.softLimit = SPACE_SIZE /\ s.committedLimit = SPACE_SIZE
    BY <1>2, SpaceKinds
  <1>4. t = [next |-> s.next + size, softLimit |-> SPACE_SIZE,
             committedLimit |-> SPACE_SIZE]
    BY <1>2, <1>3 DEF allocate, Space
  <1>5. t \in Space
    BY <1>2, <1>4, SpaceSizeAssumption DEF Space, Offset
  <1>6. /\ a.spaces = [z.spaces EXCEPT ![c] = t]
        /\ a.current = c /\ a.next = z.next /\ a.created = z.created
        /\ a.occupancy = z.occupancy /\ a.emptySpaces = z.emptySpaces
    BY <1>1 DEF allocateInCurrent, Zone
  <1>. [z.spaces EXCEPT ![c] = t] \in [Region -> Space]
    BY <1>1, <1>5, ZoneFields
  <1>11. a \in Zone
    BY <1>1 DEF allocateInCurrent, Zone
  <1>7. allocateCommitting(s, size) = t
    BY <1>2, <1>3 DEF allocateCommitting
  <1>8. a = copyIntoCurrent(z, size)
    BY <1>7 DEF allocateInCurrent, copyIntoCurrent
  <1> HIDE DEF t, a
  <1>9. a.spaces[c] = t /\ \A r \in Region \ {c} : a.spaces[r] = z.spaces[r]
    BY <1>1, <1>2, <1>6, ZoneFields
  <1>10. \A r \in Region : isFree(a.spaces[r]) <=> isFree(z.spaces[r])
    BY <1>9, <1>2, <1>3, <1>4 DEF isFree
  <1>12. \A r \in Region :
           \/ a.spaces[r] = emptySpace /\ a.occupancy[r] = 0
           \/ /\ a.spaces[r].softLimit = SPACE_SIZE
              /\ a.spaces[r].committedLimit = SPACE_SIZE
              /\ r <= a.created
    BY <1>9, <1>4, <1>6, <1>2 DEF ZoneInv
  <1>13. \A i \in DOMAIN a.emptySpaces : a.emptySpaces[i] \in Region \ {c}
    BY <1>1, <1>2, <1>6, SpaceKinds, ZoneFields
  <1>14. a.next \in Region \ {c} BY <1>1, <1>6, ZoneFields DEF ZoneInv
  <1>16. /\ ~isFree(a.spaces[a.current])
         /\ a.spaces[a.next] = fullyCommitted
    BY <1>2, <1>6, <1>9, <1>10, <1>14, SpaceKinds DEF ZoneInv
  <1>17. \A i \in DOMAIN a.emptySpaces :
           /\ a.emptySpaces[i] <= a.created
           /\ a.spaces[a.emptySpaces[i]] = emptySpace
           /\ \A j \in DOMAIN a.emptySpaces :
                i # j => a.emptySpaces[i] # a.emptySpaces[j]
    BY <1>6, <1>9, <1>13 DEF ZoneInv
  <1>18. /\ a.current # a.next
         /\ a.current <= a.created /\ a.next <= a.created
         /\ a.occupancy[a.current] >= SPACE_SIZE
         /\ a.occupancy[a.next] >= SPACE_SIZE
    BY <1>6 DEF ZoneInv
  <1>19. ZoneInv(a)
    BY <1>11, <1>12, <1>16, <1>17, <1>18 DEF ZoneInv
  <1> QED
    BY <1>4, <1>6, <1>8, <1>9, <1>10, <1>19 DEF a

(* recycleSpace_ on a space that is in use by nobody and not yet empty.    *)
LEMMA RecycleKeepsZoneInv ==
  ASSUME NEW z, ZoneInv(z), NEW r \in Region,
         r # z.current, r # z.next, ~isFree(z.spaces[r]), z.occupancy[r] = 0
  PROVE  LET a == recycleSpace(z, r) IN
         /\ ZoneInv(a)
         /\ a.current = z.current /\ a.next = z.next
         /\ a.occupancy = z.occupancy
         /\ \A q \in Region \ {r} : a.spaces[q] = z.spaces[q]
  <1> DEFINE a == recycleSpace(z, r)
             e == z.emptySpaces
  <1>1. z \in Zone BY DEF ZoneInv
  <1>2. /\ a.spaces = [z.spaces EXCEPT ![r] = emptySpace]
        /\ a.created = z.created
        /\ a.emptySpaces = Append(e, r)
        /\ a.current = z.current /\ a.next = z.next
        /\ a.occupancy = z.occupancy
    BY <1>1 DEF recycleSpace, Zone
  <1>3. emptySpace \in Space BY SpaceSizeAssumption DEF emptySpace, Space, Offset
  <1>6. a \in Zone
    <2>1. [z.spaces EXCEPT ![r] = emptySpace] \in [Region -> Space]
      BY <1>1, <1>3, ZoneFields
    <2>2. Append(e, r) \in Seq(Region) BY <1>1, ZoneFields
    <2> QED BY <2>1, <2>2, <1>1 DEF recycleSpace, Zone
  <1> HIDE DEF a
  <1>4. a.spaces[r] = emptySpace /\ \A q \in Region \ {r} : a.spaces[q] = z.spaces[q]
    BY <1>1, <1>2, ZoneFields
  <1>5. e \in Seq(Region) /\ \A i \in DOMAIN e : e[i] \in Region \ {r}
    BY <1>1, ZoneFields, SpaceKinds
  <1>7. \A q \in Region :
          \/ a.spaces[q] = emptySpace /\ a.occupancy[q] = 0
          \/ /\ a.spaces[q].softLimit = SPACE_SIZE
             /\ a.spaces[q].committedLimit = SPACE_SIZE
             /\ q <= a.created
    BY <1>2, <1>4 DEF ZoneInv
  <1>8. /\ a.current \in Region \ {r} /\ a.next \in Region \ {r}
    BY <1>1, <1>2, ZoneFields
  <1>9. r <= z.created BY SpaceKinds
  <1>10. \A i \in DOMAIN a.emptySpaces :
           \/ i \in DOMAIN e /\ a.emptySpaces[i] = e[i]
           \/ i = Len(e) + 1 /\ a.emptySpaces[i] = r
    BY <1>2, <1>5
  <1>11. \A i \in DOMAIN a.emptySpaces :
           /\ a.emptySpaces[i] <= a.created
           /\ a.spaces[a.emptySpaces[i]] = emptySpace
    BY <1>2, <1>4, <1>5, <1>9, <1>10 DEF ZoneInv
  <1>12. \A i, j \in DOMAIN a.emptySpaces :
           i # j => a.emptySpaces[i] # a.emptySpaces[j]
    BY <1>5, <1>10 DEF ZoneInv
  <1>14. /\ a.current # a.next
         /\ a.current <= a.created /\ a.next <= a.created
         /\ a.occupancy[a.current] >= SPACE_SIZE
         /\ a.occupancy[a.next] >= SPACE_SIZE
         /\ ~isFree(a.spaces[a.current])
         /\ a.spaces[a.next] = fullyCommitted
    BY <1>2, <1>4, <1>8 DEF ZoneInv
  <1>15. ZoneInv(a)
    BY <1>6, <1>7, <1>11, <1>12, <1>14 DEF ZoneInv
  <1> QED BY <1>2, <1>4, <1>15 DEF a

(* resetOccupancy leaves only the two spaces in use counted, as full.      *)
LEMMA ResetKeepsZoneInv ==
  ASSUME NEW z, ZoneInv(z)
  PROVE  LET a == resetOccupancy(z) IN
         /\ ZoneInv(a)
         /\ a.current = z.current /\ a.next = z.next /\ a.spaces = z.spaces
         /\ \A r \in Region \ {z.current, z.next} : a.occupancy[r] = 0
  <1> DEFINE a == resetOccupancy(z)
             o == [r \in Region |-> IF r \in {z.current, z.next} THEN SPACE_SIZE ELSE 0]
  <1>1. z \in Zone BY DEF ZoneInv
  <1>2. /\ a.spaces = z.spaces /\ a.created = z.created
        /\ a.emptySpaces = z.emptySpaces
        /\ a.current = z.current /\ a.next = z.next
        /\ a.occupancy = o
    BY <1>1 DEF resetOccupancy, Zone
  <1>3. a \in Zone
    <2>1. o \in [Region -> Nat] BY SpaceSizeAssumption
    <2> QED BY <2>1, <1>1 DEF resetOccupancy, Zone
  <1> HIDE DEF a
  <1>4. \A r \in Region : a.spaces[r] = emptySpace => a.occupancy[r] = 0
    BY <1>2, SpaceKinds
  <1>5. a.occupancy[a.current] >= SPACE_SIZE /\ a.occupancy[a.next] >= SPACE_SIZE
    BY <1>1, <1>2, ZoneFields, SpaceSizeAssumption
  <1>7. \A q \in Region :
          \/ a.spaces[q] = emptySpace /\ a.occupancy[q] = 0
          \/ /\ a.spaces[q].softLimit = SPACE_SIZE
             /\ a.spaces[q].committedLimit = SPACE_SIZE
             /\ q <= a.created
    BY <1>4, <1>2 DEF ZoneInv
  <1>8. ZoneInv(a)
    BY <1>3, <1>4, <1>5, <1>2, <1>7 DEF ZoneInv
  <1> QED BY <1>2, <1>8 DEF a

(* updateRegionOccupancy_ on a region in use, or for a bare header.        *)
LEMMA CountKeepsZoneInv ==
  ASSUME NEW z, ZoneInv(z), NEW r \in Region, NEW body \in Nat,
         ~isFree(z.spaces[r]) \/ body = 0
  PROVE  LET a == updateRegionOccupancy(z, r, body) IN
         /\ ZoneInv(a)
         /\ a.current = z.current /\ a.next = z.next /\ a.spaces = z.spaces
         /\ a.occupancy[r] = z.occupancy[r] + body
         /\ \A q \in Region \ {r} : a.occupancy[q] = z.occupancy[q]
  <1> DEFINE a == updateRegionOccupancy(z, r, body)
  <1>1. z \in Zone BY DEF ZoneInv
  <1>2. /\ a.spaces = z.spaces /\ a.created = z.created
        /\ a.emptySpaces = z.emptySpaces
        /\ a.current = z.current /\ a.next = z.next
        /\ a.occupancy = [z.occupancy EXCEPT ![r] = z.occupancy[r] + body]
    BY <1>1 DEF updateRegionOccupancy, Zone
  <1>3. z.occupancy \in [Region -> Nat] BY <1>1, ZoneFields
  <1>5. a \in Zone
    <2>1. [z.occupancy EXCEPT ![r] = z.occupancy[r] + body] \in [Region -> Nat]
      BY <1>3
    <2> QED BY <2>1, <1>1 DEF updateRegionOccupancy, Zone
  <1> HIDE DEF a
  <1>4. /\ a.occupancy[r] = z.occupancy[r] + body
        /\ \A q \in Region \ {r} : a.occupancy[q] = z.occupancy[q]
    BY <1>2, <1>3
  <1>6. \A q \in Region : a.spaces[q] = emptySpace => a.occupancy[q] = 0
    BY <1>2, <1>4, SpaceKinds
  <1>7. a.occupancy[a.current] >= SPACE_SIZE /\ a.occupancy[a.next] >= SPACE_SIZE
    BY <1>1, <1>2, <1>3, <1>4, ZoneFields, SpaceSizeAssumption DEF ZoneInv
  <1>9. \A q \in Region :
          \/ a.spaces[q] = emptySpace /\ a.occupancy[q] = 0
          \/ /\ a.spaces[q].softLimit = SPACE_SIZE
             /\ a.spaces[q].committedLimit = SPACE_SIZE
             /\ q <= a.created
    BY <1>6, <1>2 DEF ZoneInv
  <1>10. ZoneInv(a)
    BY <1>5, <1>6, <1>7, <1>2, <1>9 DEF ZoneInv
  <1> QED BY <1>2, <1>4, <1>10 DEF a

-----------------------------------------------------------------------------
(* The region invariant is inductive, whatever the sizes of the objects.   *)

(* It holds of a heap that was just built.                                 *)
LEMMA InitRegions == Init => RegionsInv
  <1> SUFFICES ASSUME Init PROVE RegionsInv OBVIOUS
  <1>1. ZoneInv(zone) BY BuiltZone DEF Init
  <1>2. zone \in Zone BY <1>1 DEF ZoneInv
  <1>3. TypeOK
    <2>1. guards \in Seq(BOOLEAN) BY DEF Init
    <2>2. gcNeeded \in BOOLEAN /\ atUnsafepoint \in BOOLEAN BY DEF Init
    <2> QED BY <1>2, <2>1, <2>2 DEF Init, TypeOK, Phase
  <1>4. EvacuatedInv /\ TraceInv /\ RequestInv /\ GuardsInv
    BY DEF Init, EvacuatedInv, TraceInv, RequestInv, GuardsInv, Collecting,
           ResolvedOutsideEvacuated, NoCollectionAtUnsafepoint, NoRequest
  <1> QED BY <1>1, <1>3, <1>4 DEF RegionsInv

(* Steps that leave the zone, the objects and the collector alone.         *)
LEMMA QuietSteps ==
  ASSUME RegionsInv,
         \/ \E object \in objects : Forget(object)
         \/ ForgetLarge
         \/ \E body \in Bodies : AllocateLarge(body)
         \/ UNCHANGED vars
         \/ OutOfSpace
  PROVE  RegionsInv'
  <1> USE DEF RegionsInv, TypeOK, EvacuatedInv, TraceInv, RequestInv, GuardsInv,
              Collecting, Phase, ResolvedOutsideEvacuated, NoCollectionAtUnsafepoint,
              zoneVars, policyVars, gcVars
  <1>1. ASSUME NEW object \in objects, Forget(object) PROVE RegionsInv'
    BY <1>1 DEF Forget
  <1>2. ASSUME ForgetLarge PROVE RegionsInv'
    BY <1>2 DEF ForgetLarge
  <1>3. ASSUME NEW body \in Bodies, AllocateLarge(body) PROVE RegionsInv'
    BY <1>3 DEF AllocateLarge
  <1>4. ASSUME UNCHANGED vars PROVE RegionsInv'
    BY <1>4 DEF vars
  <1>5. ASSUME OutOfSpace PROVE RegionsInv'
    BY <1>5 DEF OutOfSpace
  <1> QED BY <1>1, <1>2, <1>3, <1>4, <1>5

(* Removing the last element of a sequence.                                *)
LEMMA WithoutLast ==
  ASSUME NEW S, NEW s \in Seq(S), s # <<>>
  PROVE  LET f == SubSeq(s, 1, Len(s) - 1) IN
         /\ f \in Seq(S) /\ Len(f) = Len(s) - 1
         /\ \A i \in DOMAIN f : i \in DOMAIN s /\ f[i] = s[i]
  OBVIOUS

(* The steps of the mutator that are not allocations in the zone.          *)
LEMMA PolicySteps ==
  ASSUME RegionsInv,
         \/ \E body \in Bodies, atSafepoint \in BOOLEAN : AllocateSlow(body, atSafepoint)
         \/ Return
         \/ EnterUnsafepoint
         \/ LeaveUnsafepoint
  PROVE  RegionsInv'
  <1> USE DEF RegionsInv, TypeOK, EvacuatedInv, TraceInv, RequestInv, GuardsInv,
              Collecting, Phase, ResolvedOutsideEvacuated, NoCollectionAtUnsafepoint,
              zoneVars, policyVars, gcVars
  <1>1. ASSUME NEW body \in Bodies, NEW atSafepoint \in BOOLEAN,
               AllocateSlow(body, atSafepoint)
        PROVE  RegionsInv'
    <2>1. body \in Nat /\ body # NoRequest BY BodiesAssumption DEF NoRequest
    <2>2. gcNeeded' \in BOOLEAN BY <1>1 DEF AllocateSlow
    <2>3. CASE startCollection
      BY <1>1, <2>1, <2>2, <2>3 DEF AllocateSlow, startCollection
    <2>4. CASE phase' = "allocating" /\ UNCHANGED gcVars
      BY <1>1, <2>1, <2>2, <2>4 DEF AllocateSlow
    <2> QED BY <1>1, <2>3, <2>4 DEF AllocateSlow
  <1>2. ASSUME Return PROVE RegionsInv'
    BY <1>2 DEF Return, startCollection
  <1>3. ASSUME EnterUnsafepoint PROVE RegionsInv'
    <2>1. guards' = Append(guards, atUnsafepoint) /\ atUnsafepoint'
      BY <1>3 DEF EnterUnsafepoint
    <2>2. guards' \in Seq(BOOLEAN) /\ guards' # <<>> /\ atUnsafepoint' \in BOOLEAN
      BY <1>3 DEF EnterUnsafepoint
    <2>3. \A i \in DOMAIN guards' :
            \/ i \in DOMAIN guards /\ guards'[i] = guards[i]
            \/ i = Len(guards) + 1 /\ guards'[i] = atUnsafepoint
      BY <2>1
    <2>4. guards # <<>> <=> Len(guards) + 1 > 1
      OBVIOUS
    <2>5. \A i \in DOMAIN guards' : guards'[i] <=> i > 1
      BY <2>3, <2>4
    <2> QED BY <1>3, <2>1, <2>2, <2>5 DEF EnterUnsafepoint
  <1>4. ASSUME LeaveUnsafepoint PROVE RegionsInv'
    <2> DEFINE L == Len(guards)
    <2>1. L \in Nat /\ L >= 1 /\ L \in DOMAIN guards
      BY <1>4 DEF LeaveUnsafepoint
    <2>2. atUnsafepoint' = guards[L] /\ guards' = SubSeq(guards, 1, L - 1)
      BY <1>4 DEF LeaveUnsafepoint
    <2>3. /\ guards' \in Seq(BOOLEAN) /\ Len(guards') = L - 1
          /\ \A i \in DOMAIN guards' : i \in DOMAIN guards /\ guards'[i] = guards[i]
      BY <1>4, <2>2, WithoutLast DEF LeaveUnsafepoint
    <2>4. atUnsafepoint' \in BOOLEAN /\ (atUnsafepoint' <=> L > 1)
      BY <2>1, <2>2
    <2>5. guards' # <<>> <=> L > 1
      BY <2>1, <2>3
    <2> HIDE DEF L
    <2> QED BY <1>4, <2>3, <2>4, <2>5 DEF LeaveUnsafepoint
  <1> QED BY <1>1, <1>2, <1>3, <1>4

(* Where an object that is allocated or copied ends up.                    *)
LEMMA NewObject ==
  ASSUME NEW z, ZoneInv(z), NEW body \in Nat,
         z.spaces[z.current].next + sizeFor(body) <= SPACE_SIZE
  PROVE  LET o == objectAtNext(z, body) IN
         /\ o \in Object
         /\ o.region = z.current /\ o.body = body
         /\ o.start = z.spaces[z.current].next
         /\ z.occupancy[z.current] > 0
         /\ sizeFor(body) \in Nat
  <1>1. z \in Zone BY DEF ZoneInv
  <1>2. z.spaces[z.current] \in Space /\ z.current \in Region BY <1>1, ZoneFields
  <1>3. z.spaces[z.current].next \in Offset BY <1>2 DEF Space
  <1>4. z.occupancy[z.current] \in Nat BY <1>1, <1>2, ZoneFields
  <1> QED BY <1>2, <1>3, <1>4, HeaderAssumption, SpaceSizeAssumption
          DEF objectAtNext, currentSpace, Object, sizeFor, ZoneInv

(* After a bump there is room for every object that is not large.          *)
LEMMA RoomAfterBump ==
  ASSUME NEW z, ZoneInv(z), canBump(z), NEW body \in Nat, ~isLarge(body)
  PROVE  LET b == bumpSpace(z) IN
         /\ b.spaces[b.current].next + sizeFor(body) <= SPACE_SIZE
         /\ \A r \in Region : /\ ~isFree(z.spaces[r]) => ~isFree(b.spaces[r])
                              /\ b.spaces[r].next = z.spaces[r].next
                              /\ z.occupancy[r] > 0 => b.occupancy[r] > 0
         /\ \A r \in Region : ~isFree(z.spaces[r]) => r # b.next
         /\ \A r \in Region : r # b.next => b.occupancy[r] = z.occupancy[r]
         /\ b.current = z.next
  <1> DEFINE b == bumpSpace(z)
  <1>1. z \in Zone BY DEF ZoneInv
  <1>2. /\ b.next \in Region /\ b.current = z.next /\ b.next # z.next
        /\ b.spaces = [z.spaces EXCEPT ![b.next] = fullyCommitted]
        /\ b.occupancy = [z.occupancy EXCEPT ![b.next] = SPACE_SIZE]
        /\ z.spaces[b.next] = emptySpace
    BY BumpTakesEmpty
  <1> HIDE DEF b
  <1>3. \A r \in Region \ {b.next} : /\ b.spaces[r] = z.spaces[r]
                                     /\ b.occupancy[r] = z.occupancy[r]
    BY <1>1, <1>2, ZoneFields
  <1>4. b.spaces[b.next] = fullyCommitted /\ b.occupancy[b.next] = SPACE_SIZE
    BY <1>1, <1>2, ZoneFields
  <1>5. b.spaces[b.current].next = 0
    BY <1>1, <1>2, <1>3, ZoneFields DEF ZoneInv, fullyCommitted
  <1>6. sizeFor(body) \in Nat /\ sizeFor(body) <= SPACE_SIZE
    BY HeaderAssumption, LargeThresholdAssumption, SpaceSizeAssumption
    DEF isLarge, sizeFor
  <1>7. \A r \in Region : /\ ~isFree(z.spaces[r]) => ~isFree(b.spaces[r])
                          /\ b.spaces[r].next = z.spaces[r].next
                          /\ z.occupancy[r] > 0 => b.occupancy[r] > 0
    BY <1>2, <1>3, <1>4, SpaceSizeAssumption DEF isFree, emptySpace, fullyCommitted
  <1>8. \A r \in Region : ~isFree(z.spaces[r]) => r # b.next
    BY <1>2 DEF isFree, emptySpace
  <1> QED BY <1>2, <1>3, <1>5, <1>6, <1>7, <1>8 DEF b

(* The steps that allocate in the zone.                                    *)
LEMMA AllocationSteps ==
  ASSUME RegionsInv,
         (\E body \in Bodies : AllocateInCurrent(body)) \/ AllocateBumping
  PROVE  RegionsInv'
  <1> USE DEF RegionsInv, TypeOK, EvacuatedInv, TraceInv, RequestInv, GuardsInv,
              Collecting, Phase, ResolvedOutsideEvacuated, NoCollectionAtUnsafepoint,
              zoneVars, policyVars, gcVars
  <1>1. ASSUME NEW z, ZoneInv(z), NEW body \in Bodies,
               z.spaces[z.current].next + sizeFor(body) <= SPACE_SIZE,
               \A r \in Region : ~isFree(zone.spaces[r]) => ~isFree(z.spaces[r]),
               zone' = allocateInCurrent(z, sizeFor(body)),
               objects' = objects \union {objectAtNext(z, body)},
               phase \in {"mutator", "allocating"}, phase' = "mutator",
               request' = NoRequest,
               UNCHANGED <<large, gcNeeded, atUnsafepoint, guards, gcVars>>
        PROVE  RegionsInv'
    <2> DEFINE o == objectAtNext(z, body)
    <2>0. body \in Nat BY BodiesAssumption
    <2>1. /\ o \in Object /\ o.region = z.current /\ o.body = body
          /\ sizeFor(body) \in Nat
      BY <1>1, <2>0, NewObject
    <2>2. /\ ZoneInv(zone')
          /\ \A r \in Region : isFree(zone'.spaces[r]) <=> isFree(z.spaces[r])
      BY <1>1, <2>1, AllocateKeepsZoneInv
    <2>3. z.current \in Region /\ ~isFree(z.spaces[z.current])
      BY <1>1, ZoneFields DEF ZoneInv
    <2>4. zone' \in Zone BY <2>2 DEF ZoneInv
    <2>5. \A p \in objects' : p.body \in Bodies /\ (p.body > 0 => ~isFree(zone'.spaces[p.region]))
      BY <1>1, <2>1, <2>2, <2>3 DEF Object
    <2> HIDE DEF o
    <2> QED BY <1>1, <2>1, <2>2, <2>4, <2>5 DEF o
  <1>2. ASSUME NEW body \in Nat, fitsInCurrent(body)
        PROVE  zone.spaces[zone.current].next + sizeFor(body) <= SPACE_SIZE
    <2>1. zone.spaces[zone.current] \in Space BY ZoneFields
    <2> QED BY <1>2, <2>1, HeaderAssumption, SpaceSizeAssumption
            DEF fitsInCurrent, canAllocate, currentSpace, Space, Offset, sizeFor
  <1>3. ASSUME NEW body \in Bodies, AllocateInCurrent(body) PROVE RegionsInv'
    <2>1. request = NoRequest
      BY <1>3 DEF AllocateInCurrent
    <2> QED BY <1>1, <1>2, <1>3, <2>1, BodiesAssumption DEF AllocateInCurrent
  <1>4. ASSUME AllocateBumping PROVE RegionsInv'
    <2>1. request \in Bodies /\ request \in Nat /\ ~isLarge(request)
      BY <1>4, BodiesAssumption DEF AllocateBumping
    <2>2. CASE fitsInCurrent(request)
      BY <1>1, <1>2, <1>4, <2>1, <2>2 DEF AllocateBumping
    <2>3. CASE ~fitsInCurrent(request)
      <3>1. canBump(zone) /\ zone' = allocateInCurrent(bumpSpace(zone), sizeFor(request))
        BY <1>4, <2>3 DEF AllocateBumping
      <3>2. ZoneInv(bumpSpace(zone)) BY <3>1, BumpKeepsZoneInv
      <3>3. objects' = objects \union {objectAtNext(bumpSpace(zone), request)}
        BY <1>4, <2>3 DEF AllocateBumping
      <3> QED BY <1>1, <1>4, <2>1, <3>1, <3>2, <3>3, RoomAfterBump DEF AllocateBumping
    <2> QED BY <2>2, <2>3
  <1> QED BY <1>3, <1>4

(* The collector's passes before and after the trace.                      *)
LEMMA PassSteps ==
  ASSUME RegionsInv,
         \/ \E r \in Region : ChooseRegion(r)
         \/ StartTracing
         \/ EndTracing
         \/ \E r \in Region : ReleaseRegion(r)
         \/ FinishCollection
  PROVE  RegionsInv'
  <1> USE DEF RegionsInv, TypeOK, EvacuatedInv, TraceInv, RequestInv, GuardsInv,
              Collecting, Phase, ResolvedOutsideEvacuated, NoCollectionAtUnsafepoint,
              zoneVars, policyVars, gcVars
  <1>0. /\ zone.occupancy \in [Region -> Nat]
        /\ zone.current \in Region /\ zone.next \in Region
        /\ zone.occupancy[zone.current] >= SPACE_SIZE
        /\ zone.occupancy[zone.next] >= SPACE_SIZE
    BY ZoneFields DEF ZoneInv
  <1>1. ASSUME NEW r \in Region, ChooseRegion(r) PROVE RegionsInv'
    <2>1. 0 < zone.occupancy[r] /\ zone.occupancy[r] < evacuationThreshold
      BY <1>1 DEF ChooseRegion, isNextCandidate, isCandidate
    <2>2. evacuationThreshold \in Int /\ evacuationThreshold <= SPACE_SIZE
      BY SpaceSizeAssumption DEF evacuationThreshold
    <2>3. r # zone.current /\ r # zone.next
      BY <1>0, <2>1, <2>2, SpaceSizeAssumption
    <2>4. ~isFree(zone.spaces[r])
      BY <1>0, <2>1, SpaceKinds
    <2>5. index' \in Nat BY <1>1, RegionsAssumption DEF ChooseRegion, Region
    <2> QED BY <1>1, <2>3, <2>4, <2>5 DEF ChooseRegion
  <1>2. ASSUME StartTracing PROVE RegionsInv'
    <2>1. /\ ZoneInv(zone') /\ zone'.current = zone.current /\ zone'.next = zone.next
          /\ zone'.spaces = zone.spaces
          /\ \A r \in Region \ {zone.current, zone.next} : zone'.occupancy[r] = 0
      BY <1>2, ResetKeepsZoneInv DEF StartTracing
    <2>2. zone' \in Zone BY <2>1 DEF ZoneInv
    <2> QED BY <1>2, <2>1, <2>2 DEF StartTracing
  <1>3. ASSUME EndTracing PROVE RegionsInv'
    BY <1>3 DEF EndTracing
  <1>4. ASSUME NEW r \in Region, ReleaseRegion(r) PROVE RegionsInv'
    <2>1. /\ r >= index /\ hasToRecycle(zone, r, evacuated)
          /\ zone' = recycleSpace(zone, r)
      BY <1>4, ZoneFields DEF ReleaseRegion, isNextToRecycle, releaseLimit, Region
    <2>2. /\ r # zone.current /\ r # zone.next
          /\ ~isFree(zone.spaces[r]) /\ zone.occupancy[r] = 0
      BY <1>0, <1>4, <2>1, SpaceSizeAssumption DEF ReleaseRegion, hasToRecycle, Region
    <2>3. /\ ZoneInv(zone') /\ zone'.current = zone.current /\ zone'.next = zone.next
          /\ zone'.occupancy = zone.occupancy
          /\ \A q \in Region \ {r} : zone'.spaces[q] = zone.spaces[q]
      BY <2>1, <2>2, RecycleKeepsZoneInv
    <2>4. zone' \in Zone BY <2>3 DEF ZoneInv
    <2>5. \A o \in objects : o.body > 0 => o.region \in Region \ {r}
      BY <1>0, <1>4, <2>2 DEF ReleaseRegion, Object
    <2>6. index' = r + 1 /\ index' \in Nat /\ index' >= 1
      BY <1>4, RegionsAssumption DEF ReleaseRegion, Region
    <2>7. \A q \in Region : index' <= q => q # r /\ index <= q
      BY <2>1, <2>6 DEF Region
    <2> QED BY <1>4, <2>2, <2>3, <2>4, <2>5, <2>6, <2>7 DEF ReleaseRegion
  <1>5. ASSUME FinishCollection PROVE RegionsInv'
    BY <1>5 DEF FinishCollection
  <1> QED BY <1>1, <1>2, <1>3, <1>4, <1>5

(* The steps of the trace: an object is counted, or copied into the        *)
(* current space, into a large space, or into the reserve.                 *)
LEMMA TraceSteps ==
  ASSUME RegionsInv,
         NEW object \in unseen,
         CountObject(object) \/ EvacuateObject(object)
  PROVE  RegionsInv'
  <1> USE DEF RegionsInv, TypeOK, EvacuatedInv, TraceInv, RequestInv, GuardsInv,
              Collecting, Phase, ResolvedOutsideEvacuated, NoCollectionAtUnsafepoint,
              zoneVars, policyVars, gcVars
  <1>0. /\ object \in objects /\ object.region \in Region /\ object.body \in Nat
        /\ phase = "tracing"
    BY DEF Object, CountObject, EvacuateObject
  <1>1. ASSUME CountObject(object) PROVE RegionsInv'
    <2>1. ~isFree(zone.spaces[object.region]) \/ object.body = 0
      BY <1>0
    <2>2. /\ ZoneInv(zone') /\ zone'.current = zone.current /\ zone'.next = zone.next
          /\ zone'.spaces = zone.spaces
          /\ zone'.occupancy[object.region] = zone.occupancy[object.region] + object.body
          /\ \A q \in Region \ {object.region} : zone'.occupancy[q] = zone.occupancy[q]
      BY <1>0, <1>1, <2>1, CountKeepsZoneInv DEF CountObject
    <2>3. zone' \in Zone /\ zone.occupancy \in [Region -> Nat]
      BY <2>2, ZoneFields DEF ZoneInv
    <2>4. \A o \in objects' : o.body > 0 /\ o \notin unseen' => zone'.occupancy[o.region] > 0
      <3> SUFFICES ASSUME NEW o \in objects, o.body > 0, o \notin unseen'
                   PROVE  zone'.occupancy[o.region] > 0
        BY <1>1 DEF CountObject
      <3>1. o.region \in Region /\ o.body \in Nat BY DEF Object
      <3>2. CASE o.region = object.region
        <4>1. o = object \/ o \notin unseen BY <1>1 DEF CountObject
        <4>2. o = object \/ zone.occupancy[o.region] > 0 BY <1>0, <4>1
        <4> QED BY <1>0, <2>2, <2>3, <3>1, <3>2, <4>2
      <3>3. CASE o.region # object.region
        <4>1. o \notin unseen BY <1>1, <3>3 DEF CountObject
        <4> QED BY <1>0, <2>2, <3>1, <3>3, <4>1
      <3> QED BY <3>2, <3>3
    <2> QED BY <1>0, <1>1, <2>2, <2>3, <2>4 DEF CountObject
  <1>2. ASSUME NEW z, ZoneInv(z),
               z.spaces[z.current].next + sizeFor(object.body) <= SPACE_SIZE,
               \A r \in Region : /\ ~isFree(zone.spaces[r]) => ~isFree(z.spaces[r])
                                 /\ zone.occupancy[r] > 0 => z.occupancy[r] > 0,
               \A r \in evacuated : /\ r # z.current /\ r # z.next
                                    /\ z.occupancy[r] = zone.occupancy[r],
               moveTo(object, z), EvacuateObject(object)
        PROVE  RegionsInv'
    <2> DEFINE c == objectAtNext(z, object.body)
    <2>1. /\ c \in Object /\ c.region = z.current /\ c.body = object.body
          /\ z.occupancy[z.current] > 0 /\ sizeFor(object.body) \in Nat
      BY <1>0, <1>2, NewObject
    <2>2. LET a == allocateInCurrent(z, sizeFor(object.body)) IN
          /\ ZoneInv(a)
          /\ a = copyIntoCurrent(z, sizeFor(object.body))
          /\ a.current = z.current /\ a.next = z.next
          /\ a.occupancy = z.occupancy
          /\ \A r \in Region : isFree(a.spaces[r]) <=> isFree(z.spaces[r])
      BY <1>2, <2>1, AllocateKeepsZoneInv
    <2>3. /\ ZoneInv(zone')
          /\ zone'.current = z.current /\ zone'.next = z.next
          /\ zone'.occupancy = z.occupancy
          /\ \A r \in Region : isFree(zone'.spaces[r]) <=> isFree(z.spaces[r])
      BY <1>2, <2>2 DEF moveTo
    <2>4. z.current \in Region /\ ~isFree(z.spaces[z.current]) /\ zone' \in Zone
      BY <1>2, <2>3, ZoneFields DEF ZoneInv
    <2>5. /\ objects' = (objects \ {object}) \union {c} /\ unseen' = unseen \ {object}
          /\ UNCHANGED <<large, policyVars, phase, request, index, headroom, evacuated>>
      BY <1>2 DEF moveTo, EvacuateObject
    <2> HIDE DEF c
    <2>6. /\ objects' \subseteq Object
          /\ \A o \in objects' \ {c} : o \in objects /\ (o \in unseen <=> o \in unseen')
      BY <2>1, <2>5
    <2>7. unseen' \subseteq objects' BY <2>5
    <2>8. TraceInv'
      BY <1>0, <1>2, <2>1, <2>3, <2>4, <2>5, <2>6, <2>7 DEF Object
    <2>9. EvacuatedInv'
      BY <1>0, <1>2, <2>3, <2>5
    <2> QED BY <2>3, <2>4, <2>5, <2>6, <2>8, <2>9
  <1>3. ASSUME EvacuateObject(object) PROVE RegionsInv'
    <2>1. CASE fitsCopy(object) /\ moveTo(object, zone)
      <3>1. sizeFor(object.body) \in Nat BY <1>0, HeaderAssumption DEF sizeFor
      <3>2. /\ zone.current \in Region /\ zone.spaces[zone.current] \in Space
            /\ ~isFree(zone.spaces[zone.current])
        BY ZoneFields DEF ZoneInv
      <3>3. zone.spaces[zone.current].softLimit = SPACE_SIZE
        BY <3>2, SpaceKinds
      <3>4. zone.spaces[zone.current].next + sizeFor(object.body) <= SPACE_SIZE
        BY <2>1, <3>1, <3>2, <3>3, CopyIntoCommitted DEF fitsCopy, currentSpace
      <3> QED BY <1>2, <1>3, <2>1, <3>4
    <2>2. CASE objects' = objects \ {object} /\ large' = large + 1 /\ UNCHANGED zone
      BY <1>0, <1>3, <2>2 DEF EvacuateObject
    <2>3. CASE ~isLarge(object.body) /\ canBump(zone) /\ moveTo(object, bumpSpace(zone))
      <3>1. ZoneInv(bumpSpace(zone)) BY <2>3, BumpKeepsZoneInv
      <3>2. \A r \in evacuated :
              /\ r # bumpSpace(zone).current /\ r # bumpSpace(zone).next
              /\ bumpSpace(zone).occupancy[r] = zone.occupancy[r]
        BY <1>0, <2>3, RoomAfterBump
      <3> QED BY <1>0, <1>2, <1>3, <2>3, <3>1, <3>2, RoomAfterBump
    <2> QED BY <1>3, <2>1, <2>2, <2>3 DEF EvacuateObject
  <1> QED BY <1>1, <1>3

(* RegionsInv is preserved by every step.                                  *)
LEMMA RegionsStep == RegionsInv /\ [Next]_vars => RegionsInv'
  BY QuietSteps, PolicySteps, AllocationSteps, PassSteps, TraceSteps
  DEF Next, Mutator, Collector

(* So it always holds.                                                     *)
LEMMA RegionsAlways == Spec => []RegionsInv
  BY InitRegions, RegionsStep, PTL DEF Spec

-----------------------------------------------------------------------------
(* What RegionsInv gives, for every size of the heap and of the objects.   *)

(* Every variable keeps its shape: in particular a bump pointer never      *)
(* leaves its space.                                                       *)
THEOREM TypeCorrect == Spec => []TypeOK
  BY RegionsAlways, PTL DEF RegionsInv

(* bumpSpace and recycleSpace_ never hand out a space twice.               *)
THEOREM SpacesStayDistinct == Spec => []SpacesDistinct
  <1>1. RegionsInv => SpacesDistinct
    BY SpaceSizeAssumption
    DEF RegionsInv, ZoneInv, SpacesDistinct, isFree, emptySpace, fullyCommitted
  <1> QED BY <1>1, RegionsAlways, PTL

(* After every step the reserve is an empty, wholly committed space.       *)
THEOREM ReserveStaysReady == Spec => []ReserveIsReady
  <1>1. RegionsInv => ReserveIsReady
    BY DEF RegionsInv, ZoneInv, ReserveIsReady
  <1> QED BY <1>1, RegionsAlways, PTL

(* No copy lands in a region that is about to be decommitted.              *)
THEOREM ResolvedStaysOutside == Spec => []ResolvedOutsideEvacuated
  BY RegionsAlways, PTL DEF RegionsInv, TraceInv

(* However unsafepoint guards nest, no collection runs below one.          *)
THEOREM UnsafepointsHold == Spec => []NoCollectionAtUnsafepoint
  BY RegionsAlways, PTL DEF RegionsInv, GuardsInv

-----------------------------------------------------------------------------
(* Where the objects lie.                                                  *)

(* Fewer objects, or spaces used further, leave the objects intact.        *)
LEMMA IntactSubset ==
  ASSUME NEW z, NEW objs, NEW fewer \in SUBSET objs, intact(z, objs)
  PROVE  intact(z, fewer)
  BY DEF intact

(* An object placed at the end of the used part of the current space.      *)
LEMMA IntactNewObject ==
  ASSUME NEW z, ZoneInv(z), NEW objs, objs \subseteq Object, intact(z, objs),
         NEW body \in Nat,
         z.spaces[z.current].next + sizeFor(body) <= SPACE_SIZE
  PROVE  LET c == objectAtNext(z, body)
             a == allocateInCurrent(z, sizeFor(body))
         IN  intact(a, objs \union {c}) /\ c \notin objs
  <1> DEFINE c == objectAtNext(z, body)
             a == allocateInCurrent(z, sizeFor(body))
  <1>1. /\ c \in Object /\ c.region = z.current /\ c.body = body
        /\ c.start = z.spaces[z.current].next
        /\ sizeFor(body) \in Nat
    BY NewObject
  <1>2. /\ a.spaces[z.current].next = z.spaces[z.current].next + sizeFor(body)
        /\ \A r \in Region \ {z.current} : a.spaces[r] = z.spaces[r]
    BY <1>1, AllocateKeepsZoneInv
  <1> HIDE DEF c, a
  <1>3. sizeFor(body) > 0 BY HeaderAssumption DEF sizeFor
  <1>4. \A o \in objs \union {c} : o.start \in Nat /\ end(o) \in Nat /\ o.region \in Region
    BY <1>1, HeaderAssumption DEF Object, Offset, end, sizeFor
  <1>5. end(c) = a.spaces[z.current].next
    BY <1>1, <1>2 DEF end
  <1>6. c.start \in Nat /\ end(c) > c.start
    BY <1>1, <1>3, <1>4 DEF end
  <1>7. \A o \in objs : o.region = z.current => end(o) <= c.start
    BY <1>1 DEF intact
  <1>8. c \notin objs
    <2>1. ASSUME c \in objs PROVE end(c) <= c.start BY <1>1, <1>7, <2>1
    <2> QED BY <1>4, <1>6, <2>1
  <1>9. \A o \in objs \union {c} : end(o) <= a.spaces[o.region].next
    <2> SUFFICES ASSUME NEW o \in objs PROVE end(o) <= a.spaces[o.region].next
      BY <1>1, <1>4, <1>5
    <2>1. CASE o.region = z.current BY <2>1, <1>4, <1>5, <1>6, <1>7
    <2>2. CASE o.region # z.current BY <2>2, <1>2, <1>4 DEF intact
    <2> QED BY <2>1, <2>2
  <1>10. \A o, p \in objs \union {c} :
           o # p /\ o.region = p.region => end(o) <= p.start \/ end(p) <= o.start
    BY <1>1, <1>7 DEF intact
  <1>11. intact(a, objs \union {c})
    BY <1>9, <1>10 DEF intact
  <1> QED BY <1>8, <1>11 DEF a, c

(* Taking a new reserve moves no bump pointer.                             *)
LEMMA IntactBump ==
  ASSUME NEW z, ZoneInv(z), canBump(z), NEW objs, objs \subseteq Object,
         intact(z, objs), NEW body \in Nat, ~isLarge(body)
  PROVE  intact(bumpSpace(z), objs)
  <1>1. \A r \in Region : bumpSpace(z).spaces[r].next = z.spaces[r].next
    BY RoomAfterBump
  <1> QED BY <1>1 DEF intact, Object

(* Every object has a body if none may be a bare header.                   *)
LEMMA PositiveBodies ==
  ASSUME 0 \notin Bodies
  PROVE  \A b \in Bodies : b \in Nat /\ b > 0
  <1> SUFFICES ASSUME NEW b \in Bodies PROVE b \in Nat /\ b > 0 OBVIOUS
  <1>1. b \in Nat BY BodiesAssumption
  <1>2. b # 0 OBVIOUS
  <1> QED BY <1>1, <1>2

(* The whole invariant is preserved if no object is a bare header.         *)
LEMMA IntactStep ==
  ASSUME 0 \notin Bodies, IInv, [Next]_vars
  PROVE  ObjectsIntact'
  <1> USE DEF IInv, RegionsInv, ObjectsIntact
  <1>0. objects \subseteq Object /\ ZoneInv(zone)
    BY DEF TypeOK
  <1>1. ASSUME UNCHANGED zone, objects' \subseteq objects
        PROVE  ObjectsIntact'
    BY <1>1, IntactSubset
  <1>2. ASSUME zone'.spaces = zone.spaces, objects' = objects
        PROVE  ObjectsIntact'
    BY <1>2 DEF intact
  <1>3. ASSUME NEW z, ZoneInv(z), NEW fewer \in SUBSET objects, intact(z, objects),
               NEW body \in Nat,
               z.spaces[z.current].next + sizeFor(body) <= SPACE_SIZE,
               zone' = allocateInCurrent(z, sizeFor(body)),
               objects' = fewer \union {objectAtNext(z, body)}
        PROVE  ObjectsIntact'
    <2>1. intact(z, fewer) /\ fewer \subseteq Object BY <1>0, <1>3, IntactSubset
    <2> QED BY <1>3, <2>1, IntactNewObject
  <1>4. ASSUME NEW body \in Bodies, AllocateInCurrent(body) PROVE ObjectsIntact'
    <2>1. zone.spaces[zone.current] \in Space BY ZoneFields DEF ZoneInv
    <2>2. zone.spaces[zone.current].next + sizeFor(body) <= SPACE_SIZE /\ body \in Nat
      BY <1>4, <2>1, HeaderAssumption, SpaceSizeAssumption, BodiesAssumption
      DEF AllocateInCurrent, fitsInCurrent, canAllocate, currentSpace, Space, Offset, sizeFor
    <2> QED BY <1>0, <1>3, <1>4, <2>2 DEF AllocateInCurrent
  <1>5. ASSUME AllocateBumping PROVE ObjectsIntact'
    <2>1. request \in Nat /\ ~isLarge(request)
      BY <1>5, BodiesAssumption DEF AllocateBumping, RequestInv
    <2>2. CASE fitsInCurrent(request)
      <3>1. zone.spaces[zone.current] \in Space BY ZoneFields DEF ZoneInv
      <3>2. zone.spaces[zone.current].next + sizeFor(request) <= SPACE_SIZE
        BY <2>1, <2>2, <3>1, HeaderAssumption, SpaceSizeAssumption
        DEF fitsInCurrent, canAllocate, currentSpace, Space, Offset, sizeFor
      <3> QED BY <1>0, <1>3, <1>5, <2>1, <2>2, <3>2 DEF AllocateBumping
    <2>3. CASE ~fitsInCurrent(request)
      <3>1. canBump(zone) BY <1>5, <2>3 DEF AllocateBumping
      <3>2. ZoneInv(bumpSpace(zone)) /\ intact(bumpSpace(zone), objects)
        BY <1>0, <2>1, <3>1, BumpKeepsZoneInv, IntactBump
      <3>3. bumpSpace(zone).spaces[bumpSpace(zone).current].next + sizeFor(request)
              <= SPACE_SIZE
        BY <2>1, <3>1, RoomAfterBump
      <3> QED BY <1>3, <1>5, <2>1, <2>3, <3>2, <3>3 DEF AllocateBumping
    <2> QED BY <2>2, <2>3
  <1>6. ASSUME StartTracing PROVE ObjectsIntact'
    BY <1>2, <1>6, ResetKeepsZoneInv DEF StartTracing
  <1>7. ASSUME NEW object \in unseen, CountObject(object) PROVE ObjectsIntact'
    <2>1. /\ object.region \in Region /\ object.body \in Nat
          /\ ~isFree(zone.spaces[object.region])
      BY BodiesAssumption DEF TraceInv, TypeOK, Object
    <2> QED BY <1>2, <1>7, <2>1, CountKeepsZoneInv DEF CountObject
  <1>8. ASSUME NEW object \in unseen, EvacuateObject(object) PROVE ObjectsIntact'
    <2>1. object.body \in Nat /\ sizeFor(object.body) \in Nat
      BY HeaderAssumption DEF TypeOK, Object, sizeFor
    <2>2. ASSUME NEW z, ZoneInv(z), intact(z, objects), moveTo(object, z),
                 z.spaces[z.current].next + sizeFor(object.body) <= SPACE_SIZE
          PROVE  ObjectsIntact'
      <3>1. zone' = allocateInCurrent(z, sizeFor(object.body))
        BY <2>1, <2>2, AllocateKeepsZoneInv DEF moveTo
      <3> QED BY <1>3, <2>1, <2>2, <3>1 DEF moveTo
    <2>3. CASE fitsCopy(object) /\ moveTo(object, zone)
      <3>1. /\ zone.current \in Region /\ zone.spaces[zone.current] \in Space
            /\ ~isFree(zone.spaces[zone.current])
        BY ZoneFields DEF ZoneInv
      <3>2. zone.spaces[zone.current].softLimit = SPACE_SIZE
        BY <3>1, SpaceKinds
      <3>3. zone.spaces[zone.current].next + sizeFor(object.body) <= SPACE_SIZE
        BY <2>1, <2>3, <3>1, <3>2, CopyIntoCommitted DEF fitsCopy, currentSpace
      <3> QED BY <1>0, <2>2, <2>3, <3>3
    <2>4. CASE objects' = objects \ {object} /\ UNCHANGED zone
      BY <1>1, <2>4
    <2>5. CASE ~isLarge(object.body) /\ canBump(zone) /\ moveTo(object, bumpSpace(zone))
      BY <1>0, <2>1, <2>2, <2>5, BumpKeepsZoneInv, IntactBump, RoomAfterBump
    <2> QED BY <1>8, <2>3, <2>4, <2>5 DEF EvacuateObject
  <1>9. ASSUME NEW r \in Region, ReleaseRegion(r) PROVE ObjectsIntact'
    <2>1. /\ zone.occupancy \in [Region -> Nat]
          /\ zone.occupancy[zone.current] >= SPACE_SIZE
          /\ zone.occupancy[zone.next] >= SPACE_SIZE
          /\ zone.created \in Nat /\ index \in Nat
      BY ZoneFields DEF ZoneInv, TypeOK
    <2>2. /\ r >= index /\ hasToRecycle(zone, r, evacuated)
          /\ zone' = recycleSpace(zone, r) /\ UNCHANGED objects
          /\ phase = "releasing"
      BY <1>9, <2>1 DEF ReleaseRegion, isNextToRecycle, releaseLimit, Region
    <2>3. /\ r # zone.current /\ r # zone.next
          /\ ~isFree(zone.spaces[r]) /\ zone.occupancy[r] = 0
      BY <2>1, <2>2, SpaceSizeAssumption DEF hasToRecycle, EvacuatedInv
    <2>4. \A q \in Region \ {r} : zone'.spaces[q] = zone.spaces[q]
      BY <2>2, <2>3, RecycleKeepsZoneInv
    <2>5. \A o \in objects : o.body \in Nat /\ o.body > 0
      BY PositiveBodies DEF TraceInv
    <2>6. \A o \in objects : o.region \in Region \ {r}
      BY <1>0, <2>2, <2>3, <2>5 DEF TraceInv, Object
    <2> QED BY <2>2, <2>4, <2>6 DEF intact
  <1>10. CASE UNCHANGED vars
    BY <1>1, <1>10 DEF vars, zoneVars
  <1>11. CASE \/ \E object \in objects : Forget(object)
              \/ ForgetLarge
              \/ \E body \in Bodies : AllocateLarge(body)
              \/ \E body \in Bodies, atSafepoint \in BOOLEAN : AllocateSlow(body, atSafepoint)
              \/ Return \/ EnterUnsafepoint \/ LeaveUnsafepoint
              \/ \E r \in Region : ChooseRegion(r)
              \/ EndTracing \/ FinishCollection \/ OutOfSpace
    BY <1>1, <1>11
    DEF Forget, ForgetLarge, AllocateLarge, AllocateSlow, Return, EnterUnsafepoint,
        LeaveUnsafepoint, ChooseRegion, EndTracing, FinishCollection, OutOfSpace, zoneVars
  <1> QED
    BY <1>4, <1>5, <1>6, <1>7, <1>8, <1>9, <1>10, <1>11 DEF Next, Mutator, Collector

(* No reachable object is lost, cut or overwritten by any sequence of      *)
(* allocations and collections, provided that every object has a body.     *)
THEOREM ObjectsStayIntact ==
  ASSUME 0 \notin Bodies
  PROVE  Spec => []ObjectsIntact
  <1>1. Init => IInv
    BY InitRegions DEF IInv, Init, ObjectsIntact, intact
  <1>2. IInv /\ [Next]_vars => IInv'
    BY IntactStep, RegionsStep DEF IInv
  <1>3. IInv => ObjectsIntact BY DEF IInv
  <1> QED BY <1>1, <1>2, <1>3, PTL DEF Spec

(* Under the same proviso, a space in which nothing was counted is indeed  *)
(* free to be released.                                                    *)
THEOREM ReadySpacesStayUnused ==
  ASSUME 0 \notin Bodies
  PROVE  Spec => []ReadySpacesAreUnused
  <1>1. RegionsInv => ReadySpacesAreUnused
    <2> SUFFICES ASSUME RegionsInv, phase = "releasing", NEW o \in objects
                 PROVE  zone.occupancy[o.region] # 0
      BY DEF ReadySpacesAreUnused
    <2>1. o.body > 0 BY PositiveBodies DEF RegionsInv, TraceInv
    <2>2. zone.occupancy[o.region] > 0 BY <2>1 DEF RegionsInv, TraceInv
    <2>3. zone.occupancy[o.region] \in Nat
      BY ZoneFields DEF RegionsInv, ZoneInv, TypeOK, Object
    <2> QED BY <2>2, <2>3
  <1> QED BY <1>1, RegionsAlways, PTL

-----------------------------------------------------------------------------
(* How many objects there are.                                             *)

(* Replacing an element of a finite set by one that is not in the set.     *)
LEMMA ReplaceElement ==
  ASSUME NEW S, IsFiniteSet(S), NEW x \in S, NEW y, y \notin S \ {x}
  PROVE  Cardinality((S \ {x}) \union {y}) = Cardinality(S)
  <1>1. IsFiniteSet(S \ {x}) /\ Cardinality(S \ {x}) = Cardinality(S) - 1
    BY FS_RemoveElement
  <1>2. Cardinality((S \ {x}) \union {y}) = Cardinality(S \ {x}) + 1
    BY <1>1, FS_AddElement
  <1>3. Cardinality(S) \in Nat BY FS_CardinalityType
  <1> QED BY <1>1, <1>2, <1>3

(* There are finitely many reachable objects.                              *)
LEMMA FiniteObjects == Spec => []IsFiniteSet(objects)
  <1>1. Init => IsFiniteSet(objects)
    BY FS_EmptySet DEF Init
  <1>2. IsFiniteSet(objects) /\ [Next]_vars => IsFiniteSet(objects)'
    <2> SUFFICES ASSUME IsFiniteSet(objects), [Next]_vars
                 PROVE  IsFiniteSet(objects')
      OBVIOUS
    <2>1. objects' \subseteq objects \/ \E c : objects' \subseteq objects \union {c}
      BY DEF Next, Mutator, Collector, Forget, ForgetLarge, AllocateInCurrent,
             AllocateLarge, AllocateSlow, AllocateBumping, Return, EnterUnsafepoint,
             LeaveUnsafepoint, ChooseRegion, StartTracing, CountObject,
             EvacuateObject, moveTo, EndTracing, ReleaseRegion, FinishCollection,
             OutOfSpace, vars, zoneVars
    <2>2. \A c : IsFiniteSet(objects \union {c})
      BY FS_AddElement
    <2> QED BY <2>1, <2>2, FS_Subset
  <1> QED BY <1>1, <1>2, PTL DEF Spec

(* A collection moves objects but neither drops one nor lets two become    *)
(* one, provided that every object has a body.                             *)
THEOREM CollectionsConserve ==
  ASSUME 0 \notin Bodies
  PROVE  Spec => CollectionConserves
  <1> DEFINE Conserved == phase \in Collecting => population' = population
  <1>1. ASSUME IInv, IsFiniteSet(objects), [Next]_vars
        PROVE  [Conserved]_vars
    <2> SUFFICES ASSUME Next, phase \in Collecting
                 PROVE  population' = population
      BY <1>1
    <2> USE DEF Collecting
    <2>1. CASE UNCHANGED <<objects, large>>
      BY <2>1 DEF population
    <2>2. ASSUME NEW object \in unseen, EvacuateObject(object)
          PROVE  population' = population
      <3>1. /\ object \in objects /\ object.body \in Nat /\ objects \subseteq Object
            /\ sizeFor(object.body) \in Nat /\ large \in Nat /\ ZoneInv(zone)
            /\ intact(zone, objects)
        BY <1>1, HeaderAssumption
        DEF IInv, RegionsInv, TraceInv, TypeOK, Object, sizeFor, ObjectsIntact
      <3>2. ASSUME NEW z, ZoneInv(z), intact(z, objects), moveTo(object, z),
                   z.spaces[z.current].next + sizeFor(object.body) <= SPACE_SIZE
            PROVE  population' = population
        <4>1. objectAtNext(z, object.body) \notin objects
          BY <3>1, <3>2, IntactNewObject
        <4>2. Cardinality(objects') = Cardinality(objects)
          BY <1>1, <3>1, <3>2, <4>1, ReplaceElement DEF moveTo
        <4> QED BY <3>2, <4>2 DEF moveTo, population
      <3>3. CASE fitsCopy(object) /\ moveTo(object, zone)
        <4>1. /\ zone.current \in Region /\ zone.spaces[zone.current] \in Space
              /\ ~isFree(zone.spaces[zone.current])
          BY <3>1, ZoneFields DEF ZoneInv
        <4>2. zone.spaces[zone.current].softLimit = SPACE_SIZE
          BY <3>1, <4>1, SpaceKinds
        <4>3. zone.spaces[zone.current].next + sizeFor(object.body) <= SPACE_SIZE
          BY <3>1, <3>3, <4>1, <4>2, CopyIntoCommitted DEF fitsCopy, currentSpace
        <4> QED BY <3>1, <3>2, <3>3, <4>3
      <3>4. CASE objects' = objects \ {object} /\ large' = large + 1
        <4>1. Cardinality(objects') = Cardinality(objects) - 1 /\ Cardinality(objects) \in Nat
          BY <1>1, <3>1, <3>4, FS_RemoveElement, FS_CardinalityType
        <4> QED BY <3>1, <3>4, <4>1 DEF population
      <3>5. CASE ~isLarge(object.body) /\ canBump(zone) /\ moveTo(object, bumpSpace(zone))
        BY <3>1, <3>2, <3>5, BumpKeepsZoneInv, IntactBump, RoomAfterBump
      <3> QED BY <2>2, <3>3, <3>4, <3>5 DEF EvacuateObject
    <2>3. UNCHANGED <<objects, large>> \/ \E object \in unseen : EvacuateObject(object)
      BY DEF Next, Mutator, Collector, Forget, ForgetLarge, AllocateInCurrent,
             AllocateLarge, AllocateSlow, AllocateBumping, Return, EnterUnsafepoint,
             LeaveUnsafepoint, ChooseRegion, StartTracing, CountObject,
             EndTracing, ReleaseRegion, FinishCollection, OutOfSpace, zoneVars
    <2> QED BY <2>1, <2>2, <2>3
  <1>2. Init => IInv
    BY InitRegions DEF IInv, Init, ObjectsIntact, intact
  <1>3. IInv /\ [Next]_vars => IInv'
    BY IntactStep, RegionsStep DEF IInv
  <1> QED BY <1>1, <1>2, <1>3, FiniteObjects, PTL DEF Spec, CollectionConserves
=============================================================================
