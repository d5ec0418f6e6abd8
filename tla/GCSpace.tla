------------------------------ MODULE GCSpace ------------------------------
(***************************************************************************)
(* One GCSpace of the old zone (runtime/cpp/Allocator/GCSpace.cpp): a      *)
(* contiguous reservation with a bump pointer and two limits.  Addresses   *)
(* are offsets from _base, so _base is 0 and _reservedLimit is SPACE_SIZE. *)
(* Committing and decommitting pages is an operating-system call; what it  *)
(* leaves behind in the space is committedLimit.                           *)
(***************************************************************************)
EXTENDS Integers

CONSTANTS
  SPACE_SIZE,   \* reserved size of a space (256 KB in AllocationZone.h)
  PAGE_SIZE     \* granularity at which memory is committed

ASSUME SpaceSizeAssumption == SPACE_SIZE \in Nat \ {0}
ASSUME PageSizeAssumption == PAGE_SIZE \in Nat \ {0}

Offset == 0 .. SPACE_SIZE

Space == [next : Offset, softLimit : Offset, committedLimit : Offset]

(* GCSpace::allocatedAt_limit_ with empty = true.                          *)
emptySpace == [next |-> 0, softLimit |-> 0, committedLimit |-> 0]

isFree(space) == space.committedLimit = 0

pagealign(address) == ((address + PAGE_SIZE - 1) \div PAGE_SIZE) * PAGE_SIZE

(* commitMemoryUpTo_: the limit that would be committed ...                *)
commitLimit(address) ==
  IF pagealign(address) < SPACE_SIZE THEN pagealign(address) ELSE SPACE_SIZE

(* ... and whether it covers the address, that is, whether it returns true *)
canCommitUpTo(address) == commitLimit(address) >= address

commitMemoryUpTo(space, address) ==
  IF canCommitUpTo(address)
  THEN [space EXCEPT !.committedLimit = commitLimit(address)]
  ELSE space

(* Mutant: only the start of the object is checked against the limit.      *)
canAllocateStart(space, size) == space.next <= space.softLimit

(* The fast path allocates only strictly below the soft limit.             *)
canAllocate(space, size) == space.next + size < space.softLimit

allocate(space, size) == [space EXCEPT !.next = @ + size]

(* allocateCommittingIfNeeded_ may use the space up to its last byte, and  *)
(* commits more memory, as far as the reservation goes, when it must.      *)
canAllocateCommitting(space, size) ==
  \/ space.next + size <= space.softLimit
  \/ canCommitUpTo(space.next + size)

allocateCommitting(space, size) ==
  IF space.next + size <= space.softLimit
  THEN allocate(space, size)
  ELSE [next           |-> space.next + size,
        softLimit      |-> commitLimit(space.next + size),
        committedLimit |-> commitLimit(space.next + size)]
=============================================================================
