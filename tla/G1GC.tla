-------------------------------- MODULE G1GC --------------------------------
(***************************************************************************)
(* One pass of the collector over the object graph (G1GC.cpp and the       *)
(* passes it inherits from GarbageCollector.cpp): marking and evacuating   *)
(* are a single traversal, which copies an object of an evacuated region   *)
(* when it first reaches it, leaves a forwarder, and corrects each         *)
(* reference as it passes over it.  Ephemerons are set aside and followed  *)
(* once their keys are known to be reachable; those whose keys are not are *)
(* rescued.                                                                *)
(*                                                                         *)
(* An address stands for the place of an object.  Which regions are        *)
(* evacuated is decided by occupancy (module GCHeap); here any set of      *)
(* objects may lie in them.  The id of an object is not in the code: it    *)
(* says which object of the program (module AbstractHeap) an address       *)
(* holds, so that a copy can be told to be the same object.                *)
(***************************************************************************)
EXTENDS Integers, SequencesExt, FiniteSets

CONSTANTS
  Id,            \* identities: bounds the objects in the heap
  Address,       \* where objects can be
  Root,          \* registers, live stack slots and GCedRefs
  LastField,     \* fields 1 .. LastField follow the behavior, field 0
  Written,       \* fields the program writes to
  Overwriting,   \* whether it writes to a root or field more than once
  Ephemerons,    \* whether new objects may be, or not be, active ephemerons
  Switching,     \* whether the program switches processes
  Nil,
  MaxCollections \* bound: collections in a behavior

ASSUME AddressAssumption == Address \subseteq Nat /\ IsFiniteSet(Address) /\ Nil \notin Address
ASSUME IdAssumption == Id \subseteq Nat \ {0} /\ Nil \notin Id
ASSUME FieldAssumption == LastField \in Nat \ {0} /\ Written \subseteq 0 .. LastField
ASSUME ProgramAssumption == Ephemerons \union {Overwriting, Switching} \subseteq BOOLEAN
ASSUME CollectionsAssumption == MaxCollections \in Nat

VARIABLES
  roots,         \* what each root refers to
  heap,          \* the objects, by address
  frame,         \* what the stack of a suspended process refers to
  phase,
  evacuated,     \* addresses in the regions being evacuated
  seen,          \* objects marked as seen
  forwarder,     \* where the copy of an evacuated object is: copyOf_
  stack,         \* G1GC::_stack: fields still to be scanned
  scanned,       \* _scanned, _index and _limit; Idle between two of them
  rootsLeft,     \* roots that have not been scanned
  unchecked,     \* _uncheckedEphemerons
  unreached,     \* _unreachedEphemerons
  rescued,       \* _rescuedEphemerons
  done,          \* no ephemeron was followed since the last swap
  collections    \* collections so far

programVars   == <<roots, frame>>
markVars      == <<heap, seen, forwarder, unchecked>>
ephemeronVars == <<unreached, rescued, done>>
vars == <<programVars, markVars, ephemeronVars, phase, evacuated, stack, scanned,
          rootsLeft, collections>>

Field == 0 .. LastField
Key == 1
Reference == Address \union {Nil}
Span == [object : Address, index : Nat, limit : 0 .. LastField]
Idle == [index |-> 1, limit |-> 0]

Object == [id : Id, special : BOOLEAN, fields : [Field -> Reference]]

(* Where something new goes; the heap module has shown that there is room. *)
free == Address \ DOMAIN heap
freeAddress == CHOOSE a \in free : \A b \in free : a <= b

strongPointersSize(object) == IF object.special THEN 0 ELSE LastField

span(a, from, to) == [object |-> a, index |-> from, limit |-> to]

put(a, object) ==
  [b \in DOMAIN heap \union {a} |-> IF b = a THEN object ELSE heap[b]]

-----------------------------------------------------------------------------
Init ==
  /\ roots = [r \in Root |-> Nil]
  /\ heap = [a \in {} |-> Nil]
  /\ frame = Nil
  /\ phase = "mutator"
  /\ evacuated = {}
  /\ seen = {}
  /\ forwarder = [a \in {} |-> Nil]
  /\ stack = <<>>
  /\ scanned = Idle
  /\ rootsLeft = {}
  /\ unchecked = {}
  /\ unreached = {}
  /\ rescued = {}
  /\ done = TRUE
  /\ collections = 0

-----------------------------------------------------------------------------
(* The program.                                                            *)

(* What it can reach through any field: the least set of objects that      *)
(* holds what the roots refer to and what its own objects refer to.        *)
(* During a collection an object that was copied is where its copy is.     *)
newest(a) == IF a \in DOMAIN forwarder THEN forwarder[a] ELSE a

holds(S, ref) == newest(ref) \in DOMAIN heap => newest(ref) \in S

closed(S) ==
  /\ \A r \in Root : holds(S, roots[r])
  /\ \A a \in S, f \in Field : holds(S, heap[a].fields[f])

accessible ==
  LET closedSets == {S \in SUBSET DOMAIN heap : closed(S)}
  IN  {a \in DOMAIN heap : \A S \in closedSets : a \in S}

Running ==
  /\ phase = "mutator"
  /\ collections < MaxCollections
  /\ UNCHANGED <<phase, evacuated, seen, forwarder, stack, scanned, rootsLeft,
                 unchecked, ephemeronVars, collections>>

newObject(id, ephemeron) ==
  [id |-> id, special |-> ephemeron, fields |-> [f \in Field |-> Nil]]

writable(ref) == ref = Nil \/ Overwriting

freshIds == Id \ {heap[a].id : a \in DOMAIN heap}

New(ephemeron) ==
  \E id \in freshIds :
    LET a == freeAddress IN
    /\ Running
    /\ free # {}
    /\ \A other \in freshIds : id <= other
    /\ UNCHANGED frame
    /\ \/ \E r \in Root :
            /\ writable(roots[r])
            /\ roots' = [roots EXCEPT ![r] = a]
            /\ heap' = put(a, newObject(id, ephemeron))
       \/ \E b \in accessible, f \in Written :
            /\ writable(heap[b].fields[f])
            /\ heap' = [put(a, newObject(id, ephemeron)) EXCEPT ![b].fields[f] = a]
            /\ UNCHANGED roots

SetRoot(r, ref) ==
  /\ Running
  /\ writable(roots[r])
  /\ roots' = [roots EXCEPT ![r] = ref]
  /\ UNCHANGED <<heap, frame>>

Store(a, f, ref) ==
  /\ Running
  /\ writable(heap[a].fields[f])
  /\ heap' = [heap EXCEPT ![a].fields[f] = ref]
  /\ UNCHANGED programVars

(* primitiveProcessVMStackContextSwitchTo: the buffer that the evaluator   *)
(* was bound to keeps its references, and the other one becomes live.  The *)
(* stack of a suspended process is no root: rememberSpecial_ gives it to   *)
(* scanStacks only if it is marked special, and nothing marks one (the     *)
(* primitive UnderBeSpecial is called for ephemerons and weak containers   *)
(* only); scanStack_ would, besides, pass over a process that has no       *)
(* topContext, which is what one with its frames on the stack looks like.  *)
ContextSwitch(r) ==
  /\ Running
  /\ Switching
  /\ roots' = [roots EXCEPT ![r] = frame]
  /\ frame' = roots[r]
  /\ UNCHANGED heap

-----------------------------------------------------------------------------
(* The collector.                                                          *)

(* Mutant of StartCollection: the marks of the last pass are not removed.  *)
StartCollectionMarked(evacuees) ==
  /\ phase = "mutator"
  /\ collections < MaxCollections
  /\ Cardinality(evacuees) <= Cardinality(free)
  /\ collections' = collections + 1
  /\ phase' = "roots"
  /\ evacuated' = evacuees
  /\ rootsLeft' = Root
  /\ UNCHANGED <<programVars, markVars, ephemeronVars, stack, scanned>>

(* collectOld unmarks every object and initializeLocals chooses the        *)
(* regions to evacuate, as far as there is room for what is in them.       *)
StartCollection(evacuees) ==
  /\ phase = "mutator"
  /\ collections < MaxCollections
  /\ Cardinality(evacuees) <= Cardinality(free)
  /\ collections' = collections + 1
  /\ phase' = "roots"
  /\ evacuated' = evacuees
  /\ rootsLeft' = Root
  /\ seen' = {}
  /\ UNCHANGED <<programVars, heap, forwarder, unchecked, ephemeronVars, stack, scanned>>

(* resolveObject_: the reference to put where a was found, and what        *)
(* reaching an object for the first time does: mark it, copy it if it has  *)
(* to be evacuated, and set it aside if it is special.                     *)
isSeen(a) == a \in seen
hasToEvacuate(a) == a \in evacuated

(* Mutants: the reference to an object that was already copied is left as  *)
(* it is; a copy is made, but the original is returned.                    *)
copyOfUncorrected(a) == IF isSeen(a) THEN a ELSE freeAddress
resolvedInPlace(a) == a

copyOf(a) == IF isSeen(a) THEN forwarder[a] ELSE freeAddress
resolved(a) == IF hasToEvacuate(a) THEN copyOf(a) ELSE a

(* The heap with the copy in it.                                           *)
evacuate(a) ==
  IF hasToEvacuate(a) /\ ~isSeen(a) THEN put(freeAddress, heap[a]) ELSE heap

(* corrected is that heap after the reference was written back.            *)
resolveObject(a, corrected) ==
  /\ heap' = corrected
  /\ IF isSeen(a)
     THEN UNCHANGED <<seen, forwarder, unchecked>>
     ELSE /\ seen' = seen \union {a, resolved(a)}
          /\ forwarder' = IF hasToEvacuate(a)
                          THEN [b \in DOMAIN forwarder \union {a} |->
                                  IF b = a THEN freeAddress ELSE forwarder[b]]
                          ELSE forwarder
          /\ unchecked' = IF heap[a].special THEN unchecked \union {resolved(a)}
                                             ELSE unchecked

(* scanRoot_: scanCurrentContext and followGCedRefs.                       *)
ScanRoot(r) ==
  LET a == roots[r] IN
  /\ phase = "roots"
  /\ rootsLeft' = rootsLeft \ {r}
  /\ IF a = Nil
     THEN UNCHANGED <<roots, markVars, stack>>
     ELSE /\ roots' = [roots EXCEPT ![r] = resolved(a)]
          /\ resolveObject(a, evacuate(a))
          /\ stack' = IF isSeen(a) THEN stack
                      ELSE Append(stack, span(resolved(a), 0, strongPointersSize(heap[a])))
  /\ UNCHANGED <<frame, ephemeronVars, phase, evacuated, scanned, collections>>

RootsScanned ==
  /\ phase = "roots"
  /\ rootsLeft = {}
  /\ phase' = "check"
  /\ done' = TRUE
  /\ UNCHANGED <<programVars, markVars, unreached, rescued, evacuated, stack, scanned,
                 rootsLeft, collections>>

(* followObjects: the fields of the current span are scanned one by one    *)
(* (scanBehavior, scanSlot), and then those of the next one on the stack.  *)
(* An object reached for the first time is scanned at once, and the rest   *)
(* of the current span is queued.                                          *)
isScanning == scanned.index <= scanned.limit

(* Mutant: the last field of the span is not queued.                       *)
queueCurrentButLast(current, rest) ==
  IF current.index + 1 < current.limit
  THEN Append(rest, [current EXCEPT !.index = @ + 1])
  ELSE rest

queueCurrent(current, rest) ==
  IF current.index < current.limit
  THEN Append(rest, [current EXCEPT !.index = @ + 1])
  ELSE rest

ScanField ==
  LET current == IF isScanning THEN scanned ELSE Last(stack)
      rest    == IF isScanning THEN stack ELSE Front(stack)
      b == current.object
      f == current.index
      a == heap[b].fields[f]
  IN
  /\ phase \in {"check", "rescue"}
  /\ isScanning \/ stack # <<>>
  /\ IF a = Nil
     THEN UNCHANGED markVars
     ELSE resolveObject(a, [evacuate(a) EXCEPT ![b].fields[f] = resolved(a)])
  /\ IF a = Nil \/ isSeen(a)
     THEN /\ scanned' = [current EXCEPT !.index = @ + 1]
          /\ stack' = rest
     ELSE /\ scanned' = span(resolved(a), 0, strongPointersSize(heap[a]))
          /\ stack' = queueCurrent(current, rest)
  /\ UNCHANGED <<programVars, ephemeronVars, phase, evacuated, rootsLeft, collections>>

(* followClosure has nothing left to do.                                   *)
ClosureFollowed == stack = <<>> /\ ~isScanning

(* checkEphemerons: one whose key was reached is followed, and its closure *)
(* with it.                                                                *)
checkReachableProperty(e) ==
  heap[e].fields[Key] = Nil \/ isSeen(heap[e].fields[Key])

(* Mutant: the key is skipped.                                             *)
followEphemeronValue(e) ==
  /\ stack' = <<span(e, Key + 1, LastField)>>
  /\ UNCHANGED <<programVars, heap, seen, forwarder, evacuated, scanned, rootsLeft,
                 collections>>

followEphemeronWeaks(e) ==
  /\ stack' = <<span(e, 1, LastField)>>
  /\ UNCHANGED <<programVars, heap, seen, forwarder, evacuated, scanned, rootsLeft,
                 collections>>

FollowEphemeron(e) ==
  /\ phase = "check"
  /\ ClosureFollowed
  /\ checkReachableProperty(e)
  /\ unchecked' = unchecked \ {e}
  /\ done' = FALSE
  /\ followEphemeronWeaks(e)
  /\ UNCHANGED <<unreached, rescued, phase>>

SetAsideEphemeron(e) ==
  /\ phase = "check"
  /\ ClosureFollowed
  /\ ~checkReachableProperty(e)
  /\ unchecked' = unchecked \ {e}
  /\ unreached' = unreached \union {e}
  /\ UNCHANGED <<programVars, heap, seen, forwarder, rescued, done, phase, evacuated,
                 stack, scanned, rootsLeft, collections>>

(* Mutant: the ephemerons are checked again whether or not any was         *)
(* followed.                                                               *)
SwapAlways ==
  /\ phase = "check"
  /\ ClosureFollowed
  /\ unchecked = {}
  /\ unchecked' = unreached
  /\ unreached' = {}
  /\ done' = TRUE
  /\ UNCHANGED <<programVars, heap, seen, forwarder, rescued, phase, evacuated, stack,
                 scanned, rootsLeft, collections>>

(* followLiveEphemerons: as long as one was followed, the others may have  *)
(* become reachable.                                                       *)
SwapUncheckedWithUnreached ==
  /\ phase = "check"
  /\ ClosureFollowed
  /\ unchecked = {}
  /\ ~done
  /\ unchecked' = unreached
  /\ unreached' = {}
  /\ done' = TRUE
  /\ UNCHANGED <<programVars, heap, seen, forwarder, rescued, phase, evacuated, stack,
                 scanned, rootsLeft, collections>>

(* followEphemerons: those that stay unreached are rescued, which may      *)
(* reach new ones.                                                         *)
RescueUnreachable ==
  /\ phase = "check"
  /\ ClosureFollowed
  /\ unchecked = {}
  /\ done
  /\ phase' = IF unreached = {} THEN "strengthen" ELSE "rescue"
  /\ UNCHANGED <<programVars, markVars, ephemeronVars, evacuated, stack, scanned,
                 rootsLeft, collections>>

RescueEphemeron(e) ==
  /\ phase = "rescue"
  /\ ClosureFollowed
  /\ rescued' = rescued \union {e}
  /\ unreached' = unreached \ {e}
  /\ followEphemeronWeaks(e)
  /\ UNCHANGED <<unchecked, done, phase>>

Rescued ==
  /\ phase = "rescue"
  /\ ClosureFollowed
  /\ unreached = {}
  /\ phase' = "check"
  /\ done' = TRUE
  /\ UNCHANGED <<programVars, markVars, unreached, rescued, evacuated, stack, scanned,
                 rootsLeft, collections>>

(* strengthenAndMigrateEphemerons.                                         *)
StrengthenEphemerons ==
  /\ phase = "strengthen"
  /\ heap' = [a \in DOMAIN heap |->
                IF a \in rescued THEN [heap[a] EXCEPT !.special = FALSE] ELSE heap[a]]
  /\ phase' = "release"
  /\ UNCHANGED <<programVars, seen, forwarder, unchecked, ephemeronVars, evacuated, stack,
                 scanned, rootsLeft, collections>>

(* releaseLocals: the regions that were evacuated and those in which       *)
(* nothing was seen are decommitted; which of them really are, module      *)
(* GCHeap says.  The marks stay until the next collection.                 *)
ReleaseLocals(released) ==
  /\ phase = "release"
  /\ heap' = [a \in DOMAIN heap \ released |-> heap[a]]
  /\ phase' = "mutator"
  /\ evacuated' = {}
  /\ seen' = seen \ released
  /\ forwarder' = [a \in {} |-> Nil]
  /\ rescued' = {}
  /\ scanned' = Idle
  /\ UNCHANGED <<programVars, unchecked, unreached, done, stack, rootsLeft, collections>>

-----------------------------------------------------------------------------
Program ==
  LET reached == accessible IN
  /\ phase = "mutator"
  /\ \/ \E ephemeron \in Ephemerons : New(ephemeron)
     \/ \E r \in Root, ref \in reached \union {Nil} : SetRoot(r, ref)
     \/ \E a \in reached, f \in Written, ref \in reached \union {Nil} : Store(a, f, ref)
     \/ \E r \in Root : ContextSwitch(r)

Trace ==
  \/ \E r \in rootsLeft : ScanRoot(r)
  \/ RootsScanned
  \/ ScanField

FollowEphemerons ==
  \/ \E e \in unchecked : FollowEphemeron(e) \/ SetAsideEphemeron(e)
  \/ SwapUncheckedWithUnreached
  \/ RescueUnreachable
  \/ \E e \in unreached : RescueEphemeron(e)
  \/ Rescued
  \/ StrengthenEphemerons

recyclable == evacuated \union (DOMAIN heap \ seen)

Release == \E released \in SUBSET recyclable : ReleaseLocals(released)

Collect == Trace \/ FollowEphemerons \/ Release

(* Garbage may lie in evacuated regions too, but nothing tells it apart    *)
(* from garbage elsewhere: either may be released.                         *)
Next ==
  \/ Program
  \/ phase = "mutator" /\ \E evacuees \in SUBSET accessible : StartCollection(evacuees)
  \/ Collect

Spec == Init /\ [][Next]_vars

(* A collection, once started, is run to its end by the same thread.       *)
FairSpec == Spec /\ WF_vars(Collect)

-----------------------------------------------------------------------------
(* Properties.                                                             *)

(* Type correctness of the program's graph and of every list and register  *)
(* that a collection (GarbageCollector, G1GC) works with.                  *)
TypeOK ==
  /\ roots \in [Root -> Reference]
  /\ DOMAIN heap \subseteq Address
  /\ \A a \in DOMAIN heap : heap[a] \in Object
  /\ frame \in Reference
  /\ phase \in {"mutator", "roots", "check", "rescue", "strengthen", "release"}
  /\ evacuated \subseteq DOMAIN heap
  /\ seen \subseteq DOMAIN heap
  /\ DOMAIN forwarder \subseteq evacuated
  /\ \A a \in DOMAIN forwarder : forwarder[a] \in DOMAIN heap \ evacuated
  /\ \A k \in DOMAIN stack : stack[k].object \in DOMAIN heap \ evacuated
  /\ isScanning => scanned.object \in DOMAIN heap \ evacuated
  /\ rootsLeft \subseteq Root
  /\ unchecked \union unreached \union rescued \subseteq DOMAIN heap \ evacuated
  /\ done \in BOOLEAN
  /\ collections \in 0 .. MaxCollections

(* When tracing is over (followRoots has returned), everything that was    *)
(* kept refers only to things that were kept, where they are now: the one  *)
(* pass that both marks and moves (G1GC.h) has left no field uncorrected   *)
(* and none unvisited, those of ephemerons included.                       *)
TraceComplete ==
  phase \in {"strengthen", "release"} =>
    LET kept == seen \ evacuated IN
    /\ \A r \in Root : roots[r] \in kept \union {Nil}
    /\ \A a \in kept, f \in Field : heap[a].fields[f] \in kept \union {Nil}

(* Tracing marks, counts and copies nothing that the program could not     *)
(* reach when the collection started (resolveObject_ is never called on    *)
(* garbage), so that regions of garbage are found to be empty.             *)
OnlyReachableSeen ==
  phase # "mutator" => {newest(a) : a \in seen} \subseteq accessible

(* The program's graph: what each reachable object holds is found where    *)
(* its newest version is.                                                  *)
Dangling == 0

idOf(ref) ==
  IF ref = Nil THEN Nil ELSE IF ref \in DOMAIN heap THEN heap[ref].id ELSE Dangling

visibleRoots == [r \in Root |-> idOf(roots[r])]

visible(object) ==
  [special |-> object.special, fields |-> [f \in Field |-> idOf(object.fields[f])]]

graphOf[reached \in SUBSET Address] ==
  [i \in {heap[a].id : a \in reached} |->
     visible(heap[CHOOSE a \in reached : heap[a].id = i])]

visibleGraph == graphOf[accessible]

Promise == INSTANCE AbstractHeap WITH roots <- visibleRoots, graph <- visibleGraph

(* Collections are invisible: whatever is copied, freed and reused, the    *)
(* program sees the same objects with the same fields, and an ephemeron    *)
(* stops being active only when its key would have become garbage          *)
(* (checkEphemerons, rescueUnreachableEphemerons,                          *)
(* strengthenAndMigrateEphemerons).                                        *)
CollectionIsInvisible == Promise!Spec

(* Every collection comes to its end, whatever the ephemerons do: the      *)
(* loops of followLiveEphemerons and followEphemerons terminate.           *)
CollectionEnds == phase = "roots" ~> phase = "mutator"

(* What a suspended process has on its stack survives collections: "If the *)
(* process has no topContext, it means is nativeStack contains all of its  *)
(* frames" (Process.st), which scanStack_ is there to scan.                *)
SuspendedFramesValid ==
  phase = "mutator" => frame \in DOMAIN heap \union {Nil}
=============================================================================
