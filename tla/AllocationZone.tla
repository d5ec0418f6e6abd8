--------------------------- MODULE AllocationZone ---------------------------
(***************************************************************************)
(* The old zone (runtime/cpp/Allocator/AllocationZone.cpp) as a value: the *)
(* spaces created so far, which of them is being allocated in (current),   *)
(* which is held in reserve for the next bump (next), the stack of empty   *)
(* spaces, and the occupancy the marking pass computes for each region.    *)
(* Region i of the zone holds space i and, in its second half, the         *)
(* forwarders of the objects evacuated from it.                            *)
(***************************************************************************)
EXTENDS GCSpace, Sequences, FiniteSetsExt

CONSTANTS
  REGIONS,          \* number of regions the zone's reservation holds
  LargeThreshold    \* GCHeap::LargeThreshold (64 KB, a quarter of a space)

ASSUME RegionsAssumption == REGIONS \in Nat /\ REGIONS >= 2
ASSUME LargeThresholdAssumption ==
  LargeThreshold \in Nat /\ LargeThreshold < SPACE_SIZE

Region == 1 .. REGIONS

Zone == [spaces      : [Region -> Space],
         created     : 0 .. REGIONS,       \* _spaces.size(); _nextFree follows from it
         emptySpaces : Seq(Region),
         current     : Region,
         next        : Region,
         occupancy   : [Region -> Nat]]

fullyCommitted ==
  [next |-> 0, softLimit |-> SPACE_SIZE, committedLimit |-> SPACE_SIZE]

(* createEmptySpace: fails with "Out of space in old zone" at the limit.   *)
canCreateSpace(zone) == zone.created < REGIONS

createEmptySpace(zone) ==
  [zone EXCEPT !.created = @ + 1,
               !.spaces[zone.created + 1] = emptySpace,
               !.emptySpaces = Append(@, zone.created + 1)]

canBump(zone) == zone.emptySpaces # <<>> \/ canCreateSpace(zone)

withEmptySpace(zone) ==
  IF zone.emptySpaces = <<>> THEN createEmptySpace(zone) ELSE zone

(* What bumpSpace does to the space it takes: commit all of it, and let    *)
(* the soft limit follow.                                                  *)
commitAll(space) ==
  LET c == commitMemoryUpTo(space, space.committedLimit + SPACE_SIZE)
  IN  [c EXCEPT !.softLimit = c.committedLimit]

(* bumpSpace: the reserve becomes current and the most recently emptied    *)
(* space, wholly committed and marked as full, becomes the reserve.        *)
bumpSpace(zone) ==
  LET z == withEmptySpace(zone)
      n == z.emptySpaces[Len(z.emptySpaces)]
  IN  [spaces      |-> [z.spaces EXCEPT ![n] = commitAll(@)],
       created     |-> z.created,
       emptySpaces |-> SubSeq(z.emptySpaces, 1, Len(z.emptySpaces) - 1),
       current     |-> zone.next,
       next        |-> n,
       occupancy   |-> [z.occupancy EXCEPT ![n] = SPACE_SIZE]]

(* build: two bumps on a zone with no spaces leave regions 1 and 2 as      *)
(* current and reserve.                                                    *)
builtZone ==
  [spaces      |-> [r \in Region |-> IF r <= 2 THEN fullyCommitted ELSE emptySpace],
   created     |-> 2,
   emptySpaces |-> <<>>,
   current     |-> 1,
   next        |-> 2,
   occupancy   |-> [r \in Region |-> IF r <= 2 THEN SPACE_SIZE ELSE 0]]

currentSpace(zone) == zone.spaces[zone.current]

allocateInCurrent(zone, size) ==
  [zone EXCEPT !.spaces[zone.current] = allocate(@, size)]

(* Mutant: the bump pointer is not written back after a copy.              *)
copyInPlace(zone, size) == zone

copyIntoCurrent(zone, size) ==
  [zone EXCEPT !.spaces[zone.current] = allocateCommitting(@, size)]

(* Mutant: an empty space looks unoccupied, too.                           *)
hasToRecycleFree(zone, r, evacuated) ==
  r \in evacuated \/ zone.occupancy[r] = 0

(* releaseEvacuated_ on one space: evacuated, or committed and unoccupied. *)
hasToRecycle(zone, r, evacuated) ==
  \/ r \in evacuated
  \/ zone.occupancy[r] = 0 /\ ~isFree(zone.spaces[r])

recycleSpace(zone, r) ==
  [zone EXCEPT !.spaces[r] = emptySpace,
               !.emptySpaces = Append(@, r)]

(* Mutant: the reserve is not marked as full.                              *)
resetOccupancyOfReserve(zone) ==
  [zone EXCEPT !.occupancy =
     [r \in Region |-> IF r = zone.current THEN SPACE_SIZE ELSE 0]]

resetOccupancy(zone) ==
  [zone EXCEPT !.occupancy =
     [r \in Region |-> IF r \in {zone.current, zone.next} THEN SPACE_SIZE ELSE 0]]

(* Mutants: an object is not counted, or is counted without its last byte. *)
doNotCount(zone, r, body) == zone

countAllButLast(zone, r, body) ==
  [zone EXCEPT !.occupancy[r] = @ + body - 1]

updateRegionOccupancy(zone, r, body) ==
  [zone EXCEPT !.occupancy[r] = @ + body]

Created(zone) == 1 .. zone.created

committedBytes(zone) ==
  MapThenSumSet(LAMBDA r : zone.spaces[r].committedLimit, Created(zone))

usedBytes(zone) == MapThenSumSet(LAMBDA r : zone.spaces[r].next, Created(zone))

occupiedBytes(zone) ==
  MapThenSumSet(LAMBDA r : zone.occupancy[r],
                {r \in Created(zone) : ~isFree(zone.spaces[r])})

(* Half of every region is held for forwarders and is not usable.          *)
usableBytes == REGIONS * SPACE_SIZE

availableBytes(zone) == usableBytes - committedBytes(zone)
=============================================================================
