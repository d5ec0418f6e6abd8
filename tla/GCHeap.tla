------------------------------- MODULE GCHeap -------------------------------
(***************************************************************************)
(* Allocation and garbage-first collection of the old zone, seen at the    *)
(* granularity of regions: GCHeap::allocate_ with its safepoint policy     *)
(* (runtime/cpp/Allocator/GCHeap.cpp, GCGuard.h), the zone it allocates in *)
(* (AllocationZone) and the collector's passes over the regions (G1GC.cpp):*)
(* choosing the regions to evacuate, moving or counting each object that   *)
(* the trace reaches, and releasing the regions that became empty.         *)
(*                                                                         *)
(* The interpreter is single threaded: a collection runs to its end before *)
(* the mutator goes on.  Its loops are steps here, so that each of them    *)
(* can be reasoned about.  Which objects the trace reaches, and in which   *)
(* order, is not decided here (module G1GC does): the mutator forgets      *)
(* objects at will, and the trace reaches the others in any order.         *)
(***************************************************************************)
EXTENDS AllocationZone, FiniteSets

CONSTANTS
  HeaderSize,       \* size of an object header
  Bodies,           \* body sizes the mutator allocates
  MaxObjects,       \* bound: objects alive at the same time
  MaxGuards         \* bound: nested unsafepoint guards

ASSUME HeaderAssumption == HeaderSize \in Nat \ {0}
ASSUME BodiesAssumption == Bodies \subseteq Nat
ASSUME BoundsAssumption == MaxObjects \in Nat /\ MaxGuards \in Nat

VARIABLES
  zone,             \* the AllocationZone
  objects,          \* the objects of the zone the program can still reach
  large,            \* number of reachable objects outside the zone
  countdown,        \* G1GC::_countdown
  gcNeeded,         \* GCHeap::_gcNeeded
  atUnsafepoint,    \* GCHeap::_atGCUnsafepoint
  guards,           \* the _prev of each live unsafepoint GCGuard
  phase,            \* what the thread is doing
  request,          \* body size of the allocation in progress, or NoRequest
  index,            \* loop index of the collector's passes over the regions
  headroom,         \* space left for evacuating, while regions are chosen
  evacuated,        \* regions being evacuated: G1GC::_evacuated
  unseen            \* objects the trace has not reached yet

zoneVars   == <<zone, objects, large>>
policyVars == <<countdown, gcNeeded, atUnsafepoint, guards>>
gcVars     == <<index, headroom, evacuated, unseen>>
vars == <<zoneVars, policyVars, phase, request, gcVars>>

NoRequest == -1

(* An object of the zone is where it lies: a region and an offset in it.   *)
Object == [region : Region, start : Offset, body : Nat]

sizeFor(body) == HeaderSize + body
end(object) == object.start + sizeFor(object.body)

objectAtNext(z, body) ==
  [region |-> z.current, start |-> currentSpace(z).next, body |-> body]

fitsInCurrent(body) == canAllocate(currentSpace(zone), sizeFor(body))
isLarge(body) == sizeFor(body) > LargeThreshold
hasReachedCountdown == countdown <= 0
(* tenured_: only whether the countdown is spent is ever asked, so it does *)
(* not go below zero here.                                                 *)
tenured(size) == IF countdown > size THEN countdown - size ELSE 0

population == Cardinality(objects) + large

-----------------------------------------------------------------------------
Init ==
  /\ zone = builtZone
  /\ objects = {}
  /\ large = 0
  /\ countdown = 4 * SPACE_SIZE
  /\ gcNeeded = FALSE
  /\ atUnsafepoint = FALSE
  /\ guards = <<>>
  /\ phase = "mutator"
  /\ request = NoRequest
  /\ index = 0
  /\ headroom = 0
  /\ evacuated = {}
  /\ unseen = {}

-----------------------------------------------------------------------------
(* The mutator.                                                            *)

(* The last reference to an object goes away.                              *)
Forget(object) ==
  /\ phase = "mutator"
  /\ objects' = objects \ {object}
  /\ UNCHANGED <<zone, large, policyVars, phase, request, gcVars>>

ForgetLarge ==
  /\ phase = "mutator"
  /\ large > 0
  /\ large' = large - 1
  /\ UNCHANGED <<zone, objects, policyVars, phase, request, gcVars>>

(* GCHeap::allocate_, fast path: the object fits in the current space.     *)
AllocateInCurrent(body) ==
  /\ phase = "mutator"
  /\ population < MaxObjects
  /\ fitsInCurrent(body)
  /\ zone' = allocateInCurrent(zone, sizeFor(body))
  /\ objects' = objects \union {objectAtNext(zone, body)}
  /\ countdown' = tenured(sizeFor(body))
  /\ UNCHANGED <<large, gcNeeded, atUnsafepoint, guards, phase, request, gcVars>>

(* GCHeap::allocateLarge_: a space of its own, outside the zone.           *)
AllocateLarge(body) ==
  /\ phase = "mutator"
  /\ population < MaxObjects
  /\ ~fitsInCurrent(body)
  /\ isLarge(body)
  /\ large' = large + 1
  /\ UNCHANGED <<zone, objects, policyVars, phase, request, gcVars>>

(* collectOld: every object is unmarked, and initializeLocals starts on    *)
(* determineEvacuatedSpaces.                                               *)
startCollection ==
  /\ phase' = "choosing"
  /\ unseen' = objects
  /\ evacuated' = {}
  /\ headroom' = (availableBytes(zone) * 9) \div 10
  /\ index' = 1

collectIsDue == gcNeeded \/ hasReachedCountdown

(* The slow path of allocate_.  Only the primitives that hold a safepoint  *)
(* guard may collect, and not below an unsafepoint; all others leave a     *)
(* request for the next return.                                            *)
AllocateSlow(body, atSafepoint) ==
  LET isGCAllowed == atSafepoint /\ ~atUnsafepoint IN
  /\ phase = "mutator"
  /\ population < MaxObjects
  /\ ~fitsInCurrent(body)
  /\ ~isLarge(body)
  /\ request' = body
  /\ \/ isGCAllowed /\ collectIsDue /\ startCollection /\ UNCHANGED gcNeeded
     \/ /\ ~(isGCAllowed /\ collectIsDue)
        /\ phase' = "allocating"
        /\ gcNeeded' = (gcNeeded \/ ~isGCAllowed)
        /\ UNCHANGED gcVars
  /\ UNCHANGED <<zoneVars, countdown, atUnsafepoint, guards>>

(* The rest of allocate_: tenured_, then allocateIfPossibleBumping_.       *)
AllocateBumping ==
  LET z == IF fitsInCurrent(request) THEN zone ELSE bumpSpace(zone) IN
  /\ phase = "allocating"
  /\ fitsInCurrent(request) \/ canBump(zone)
  /\ zone' = allocateInCurrent(z, sizeFor(request))
  /\ objects' = objects \union {objectAtNext(z, request)}
  /\ countdown' = tenured(sizeFor(request))
  /\ phase' = "mutator"
  /\ request' = NoRequest
  /\ UNCHANGED <<large, gcNeeded, atUnsafepoint, guards, gcVars>>

(* Evaluator::visitOpReturn collects, if it is time, on every return that  *)
(* is not below an unsafepoint.                                            *)
Return ==
  /\ phase = "mutator"
  /\ ~atUnsafepoint
  /\ collectIsDue
  /\ startCollection
  /\ UNCHANGED <<zoneVars, policyVars, request>>

(* GCGuard: callbacks and module loading re-enter the evaluator below an   *)
(* unsafepoint, and may nest.                                              *)
EnterUnsafepoint ==
  /\ phase = "mutator"
  /\ Len(guards) < MaxGuards
  /\ guards' = Append(guards, atUnsafepoint)
  /\ atUnsafepoint' = TRUE
  /\ UNCHANGED <<zoneVars, countdown, gcNeeded, phase, request, gcVars>>

(* Mutant: the end of any guard ends the unsafepoint.                      *)
ClearUnsafepoint ==
  /\ phase = "mutator"
  /\ guards # <<>>
  /\ atUnsafepoint' = FALSE
  /\ guards' = SubSeq(guards, 1, Len(guards) - 1)
  /\ UNCHANGED <<zoneVars, countdown, gcNeeded, phase, request, gcVars>>

LeaveUnsafepoint ==
  /\ phase = "mutator"
  /\ guards # <<>>
  /\ atUnsafepoint' = guards[Len(guards)]
  /\ guards' = SubSeq(guards, 1, Len(guards) - 1)
  /\ UNCHANGED <<zoneVars, countdown, gcNeeded, phase, request, gcVars>>

-----------------------------------------------------------------------------
(* The collector.                                                          *)

(* determineEvacuatedSpaces: a region whose occupancy, as computed by the  *)
(* previous pass, is below 80% is evacuated if the copies of all it holds  *)
(* are sure to find room.                                                  *)
evacuationThreshold == (SPACE_SIZE * 8) \div 10

(* Mutant: full regions are evacuated as well.                             *)
isOccupied(r) ==
  /\ 0 < zone.occupancy[r]
  /\ r # zone.current
  /\ headroom > zone.spaces[r].next

isCandidate(r) ==
  /\ 0 < zone.occupancy[r]
  /\ zone.occupancy[r] < evacuationThreshold
  /\ r # zone.current
  /\ headroom > zone.spaces[r].next

(* The loop over the regions, in order: what it decides at one candidate,  *)
(* and its end.  The regions it steps over leave nothing behind.           *)
isNextCandidate(r) ==
  /\ r \in index .. zone.created
  /\ isCandidate(r)
  /\ \A q \in index .. r - 1 : ~isCandidate(q)

ChooseRegion(r) ==
  /\ phase = "choosing"
  /\ isNextCandidate(r)
  /\ evacuated' = evacuated \union {r}
  /\ headroom' = headroom - zone.spaces[r].next
  /\ index' = r + 1
  /\ UNCHANGED <<zoneVars, policyVars, phase, request, unseen>>

(* Mutant: the loop does not step over the regions it keeps.               *)
StartTracingAtLast ==
  /\ phase = "choosing"
  /\ index > zone.created
  /\ zone' = resetOccupancy(zone)
  /\ phase' = "tracing"
  /\ headroom' = 0
  /\ index' = 0
  /\ UNCHANGED <<objects, large, policyVars, request, evacuated, unseen>>

StartTracing ==
  /\ phase = "choosing"
  /\ \A r \in index .. zone.created : ~isCandidate(r)
  /\ zone' = resetOccupancy(zone)
  /\ phase' = "tracing"
  /\ headroom' = 0
  /\ index' = 0
  /\ UNCHANGED <<objects, large, policyVars, request, evacuated, unseen>>

(* resolveObject_ on an object of a region that is not being evacuated.    *)
CountObject(object) ==
  /\ phase = "tracing"
  /\ object.region \notin evacuated
  /\ unseen' = unseen \ {object}
  /\ zone' = updateRegionOccupancy(zone, object.region, object.body)
  /\ UNCHANGED <<objects, large, policyVars, phase, request,
                 index, headroom, evacuated>>

fitsCopy(object) == canAllocateCommitting(currentSpace(zone), sizeFor(object.body))

moveTo(object, z) ==
  /\ zone' = copyIntoCurrent(z, sizeFor(object.body))
  /\ objects' = (objects \ {object}) \union {objectAtNext(z, object.body)}
  /\ UNCHANGED large

(* resolveObject_ on an object to evacuate: shallowCopyCommiting_ copies   *)
(* it into the current space, into a large space of its own, or into the   *)
(* next current space.                                                     *)
EvacuateObject(object) ==
  /\ phase = "tracing"
  /\ object.region \in evacuated
  /\ unseen' = unseen \ {object}
  /\ \/ fitsCopy(object) /\ moveTo(object, zone)
     \/ /\ ~fitsCopy(object)
        /\ isLarge(object.body)
        /\ objects' = objects \ {object}
        /\ large' = large + 1
        /\ UNCHANGED zone
     \/ /\ ~fitsCopy(object)
        /\ ~isLarge(object.body)
        /\ canBump(zone)
        /\ moveTo(object, bumpSpace(zone))
  /\ UNCHANGED <<policyVars, phase, request, index, headroom, evacuated>>

EndTracing ==
  /\ phase = "tracing"
  /\ unseen = {}
  /\ phase' = "releasing"
  /\ index' = 1
  /\ UNCHANGED <<zoneVars, policyVars, request, headroom, evacuated, unseen>>

(* releaseEvacuated_: the loop runs while i < _spaces.size(), with i from  *)
(* 1, so it never looks at the space created last.                         *)
releaseLimit == zone.created - 1

isNextToRecycle(r) ==
  /\ r \in index .. releaseLimit
  /\ hasToRecycle(zone, r, evacuated)
  /\ \A q \in index .. r - 1 : ~hasToRecycle(zone, q, evacuated)

ReleaseRegion(r) ==
  /\ phase = "releasing"
  /\ isNextToRecycle(r)
  /\ zone' = recycleSpace(zone, r)
  /\ index' = r + 1
  /\ UNCHANGED <<objects, large, policyVars, phase, request,
                 headroom, evacuated, unseen>>

(* resetCountdown: a quarter of what is used less what is known to be      *)
(* garbage, within what is available, but never less than three regions.   *)
nextCountdown ==
  LET garbage   == committedBytes(zone) - occupiedBytes(zone)
      desired   == usedBytes(zone) \div 4 - garbage
      available == (availableBytes(zone) * 9) \div 10
  IN  Max({3 * SPACE_SIZE, Min({desired, available})})

(* The end of releaseLocals, and of collectOld; allocate_ goes on if it    *)
(* was what started the collection.                                        *)
FinishCollection ==
  /\ phase = "releasing"
  /\ \A r \in index .. releaseLimit : ~hasToRecycle(zone, r, evacuated)
  /\ evacuated' = {}
  /\ countdown' = nextCountdown
  /\ gcNeeded' = FALSE
  /\ phase' = IF request = NoRequest THEN "mutator" ELSE "allocating"
  /\ index' = 0
  /\ UNCHANGED <<zoneVars, atUnsafepoint, guards, request, headroom, unseen>>

-----------------------------------------------------------------------------
(* error_("Out of space in old zone") ends the process, be it while        *)
(* allocating or while evacuating.                                         *)
OutOfSpace ==
  /\ ~canBump(zone)
  /\ \/ phase = "allocating" /\ ~fitsInCurrent(request)
     \/ /\ phase = "tracing"
        /\ \E object \in unseen :
             /\ object.region \in evacuated
             /\ ~fitsCopy(object)
             /\ ~isLarge(object.body)
  /\ phase' = "halted"
  /\ UNCHANGED <<zoneVars, policyVars, request, gcVars>>

-----------------------------------------------------------------------------
Mutator ==
  \/ \E object \in objects : Forget(object)
  \/ ForgetLarge
  \/ \E body \in Bodies : AllocateInCurrent(body)
  \/ \E body \in Bodies : AllocateLarge(body)
  \/ \E body \in Bodies, atSafepoint \in BOOLEAN : AllocateSlow(body, atSafepoint)
  \/ Return
  \/ EnterUnsafepoint
  \/ LeaveUnsafepoint

Collector ==
  \/ \E r \in Region : ChooseRegion(r)
  \/ StartTracing
  \/ \E object \in unseen : CountObject(object)
  \/ \E object \in unseen : EvacuateObject(object)
  \/ EndTracing
  \/ \E r \in Region : ReleaseRegion(r)
  \/ FinishCollection

Next == Mutator \/ AllocateBumping \/ Collector \/ OutOfSpace

Spec == Init /\ [][Next]_vars

(* The thread that collects or allocates never stops half way.             *)
Fairness == WF_vars(AllocateBumping \/ Collector \/ OutOfSpace)

FairSpec == Spec /\ Fairness

-----------------------------------------------------------------------------
(* Properties.                                                             *)

Phase == {"mutator", "allocating", "choosing", "tracing", "releasing", "halted"}
Collecting == {"choosing", "tracing", "releasing"}

(* Every variable keeps the shape its C++ counterpart has.  (countdown and *)
(* headroom are numbers that no other variable's shape depends on.)        *)
TypeOK ==
  /\ zone \in Zone
  /\ objects \subseteq Object
  /\ large \in Nat
  /\ gcNeeded \in BOOLEAN
  /\ atUnsafepoint \in BOOLEAN
  /\ guards \in Seq(BOOLEAN)
  /\ phase \in Phase
  /\ request \in {NoRequest} \union Nat
  /\ index \in Nat
  /\ evacuated \subseteq Region
  /\ unseen \subseteq Object

(* bumpSpace and recycleSpace_ never hand out a space twice: the current   *)
(* space, the reserve and the spaces on the empty stack are all different, *)
(* and the empty ones hold nothing.                                        *)
SpacesDistinct ==
  /\ zone.current # zone.next
  /\ \A i \in DOMAIN zone.emptySpaces :
       /\ zone.emptySpaces[i] \notin {zone.current, zone.next}
       /\ isFree(zone.spaces[zone.emptySpaces[i]])
       /\ \A j \in DOMAIN zone.emptySpaces :
            i # j => zone.emptySpaces[i] # zone.emptySpaces[j]

(* The reserve is empty and wholly committed whenever it may be needed, so *)
(* the allocation after a bump in allocateIfPossibleBumping_ (and the copy *)
(* after a bump in shallowCopyCommiting_) cannot answer a null pointer.    *)
ReserveIsReady == zone.spaces[zone.next] = fullyCommitted

(* The objects lie in the used part of their spaces and do not overlap.    *)
intact(z, objs) ==
  \A o \in objs :
    /\ end(o) <= z.spaces[o.region].next
    /\ \A p \in objs \ {o} :
         o.region = p.region => end(o) <= p.start \/ end(p) <= o.start

(* No reachable object is lost or overwritten: it lies in the used part of *)
(* its space, which is not on the empty stack, and overlaps no other.      *)
ObjectsIntact == intact(zone, objects)

(* Once the trace has resolved an object, the object is not in a region    *)
(* that releaseEvacuated_ is about to decommit: no copy lands in from-space*)
ResolvedOutsideEvacuated ==
  phase \in {"tracing", "releasing"} =>
    \A o \in objects \ unseen : o.region \notin evacuated

(* Callers that hold raw pointers below an unsafepoint guard, however the  *)
(* guards nest, never see objects move (GCGuard.h).                        *)
NoCollectionAtUnsafepoint == phase \in Collecting => guards = <<>>

(* A collection neither drops nor merges reachable objects: two copies at  *)
(* one address, or a forgotten one, would change how many there are.       *)
CollectionConserves ==
  [][(phase \in Collecting) => population' = population]_vars

(* AllocationZone::markAsFull_: a space that the collector sees as ready   *)
(* to be freed, because nothing was counted in it, holds no reachable      *)
(* object.                                                                 *)
ReadySpacesAreUnused ==
  phase = "releasing" =>
    \A o \in objects :
      zone.occupancy[o.region] = 0 => o.region \in evacuated

(* A collection, and the allocation that started it, comes to an end.      *)
CollectionEnds == phase \in Collecting ~> phase \in {"mutator", "halted"}

-----------------------------------------------------------------------------
(* The inductive invariant behind these properties.  RegionsInv does not   *)
(* depend on where the objects lie within their spaces; IInv does, and     *)
(* holds only if no object is a bare header (0 \notin Bodies).             *)

(* A zone between any two calls on it: a space is either empty or wholly   *)
(* committed, empty spaces were not counted as occupied, and the two       *)
(* spaces in use are counted as full.                                      *)
ZoneInv(z) ==
  /\ z \in Zone
  /\ z.current # z.next
  /\ z.current <= z.created /\ z.next <= z.created
  /\ \A r \in Region :
       \/ z.spaces[r] = emptySpace /\ z.occupancy[r] = 0
       \/ /\ z.spaces[r].softLimit = SPACE_SIZE
          /\ z.spaces[r].committedLimit = SPACE_SIZE
          /\ r <= z.created
  /\ ~isFree(z.spaces[z.current])
  /\ z.spaces[z.next] = fullyCommitted
  /\ z.occupancy[z.current] >= SPACE_SIZE
  /\ z.occupancy[z.next] >= SPACE_SIZE
  /\ \A i \in DOMAIN z.emptySpaces :
       /\ z.emptySpaces[i] <= z.created
       /\ z.spaces[z.emptySpaces[i]] = emptySpace
       /\ \A j \in DOMAIN z.emptySpaces :
            i # j => z.emptySpaces[i] # z.emptySpaces[j]

(* The regions being evacuated are in use by nobody else, and hold their   *)
(* objects until ReleaseRegion passes over them.                           *)
EvacuatedInv ==
  /\ phase \in {"mutator", "allocating"} => evacuated = {}
  /\ phase = "releasing" => index >= 1
  /\ \A r \in evacuated :
       /\ r # zone.current /\ r # zone.next
       /\ phase # "releasing" \/ index <= r => ~isFree(zone.spaces[r])
       /\ phase # "choosing" => zone.occupancy[r] = 0

(* What the trace has resolved is in regions that are kept; and a region   *)
(* that holds an object with a body is committed and, once the object is   *)
(* resolved, counts as occupied.                                           *)
TraceInv ==
  /\ unseen \subseteq objects
  /\ phase = "choosing" => unseen = objects
  /\ phase \in {"mutator", "allocating", "releasing"} => unseen = {}
  /\ ResolvedOutsideEvacuated
  /\ \A o \in objects :
       /\ o.body \in Bodies
       /\ o.body > 0 =>
            /\ ~isFree(zone.spaces[o.region])
            /\ phase \in {"tracing", "releasing"} /\ o \notin unseen =>
                 zone.occupancy[o.region] > 0

(* An allocation that has to wait for a collection is of a small object.   *)
RequestInv ==
  /\ request # NoRequest => request \in Bodies /\ ~isLarge(request)
  /\ phase = "allocating" => request # NoRequest
  /\ phase = "mutator" => request = NoRequest

(* Each guard remembers whether it is the outermost one.                   *)
GuardsInv ==
  /\ atUnsafepoint <=> guards # <<>>
  /\ \A i \in DOMAIN guards : guards[i] <=> i > 1
  /\ NoCollectionAtUnsafepoint

RegionsInv ==
  /\ TypeOK
  /\ ZoneInv(zone)
  /\ EvacuatedInv
  /\ TraceInv
  /\ RequestInv
  /\ GuardsInv

IInv == RegionsInv /\ ObjectsIntact
=============================================================================
