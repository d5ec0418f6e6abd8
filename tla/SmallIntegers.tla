--------------------------- MODULE SmallIntegers ----------------------------
(***************************************************************************)
(* SmallInteger and the primitives and underprimitives on it.              *)
(*                                                                         *)
(* A SmallInteger is a word with its lowest bit set: the number takes the  *)
(* other bits, so it has one bit less than intptr_t.  An operation is a    *)
(* function of the native values a (receiver) and b (argument).  It gives  *)
(* <<n>>, or <<>> when the primitive fails or the underprimitive answers   *)
(* nil.                                                                    *)
(***************************************************************************)
EXTENDS Integers, FiniteSetsExt

CONSTANT PointerBits  \* the bits of intptr_t

ASSUME PointerBitsAssumption == PointerBits \in Nat /\ PointerBits >= 3

SMALLINT_MIN == -(2 ^ (PointerBits - 2))

SMALLINT_MAX == 2 ^ (PointerBits - 2) - 1

SmallInts == SMALLINT_MIN .. SMALLINT_MAX

-----------------------------------------------------------------------------
(* Words.                                                                  *)

(* What remains of n in a word, as a signed number.                        *)
Word(n) ==
  LET u == n % 2 ^ PointerBits
  IN IF u >= 2 ^ (PointerBits - 1) THEN u - 2 ^ PointerBits ELSE u

from(n) == Word(2 * n + 1)

asNative(word) == word \div 2

newIntObject(n) == <<asNative(from(n))>>

(* The C++ operators: << and >> on words, / and % toward zero.             *)
ShiftLeft(a, k) == Word(a * 2 ^ k)

ShiftRight(a, k) == a \div 2 ^ k

Abs(a) == IF a < 0 THEN -a ELSE a

Quotient(a, b) == (IF (a < 0) # (b < 0) THEN -1 ELSE 1) * (Abs(a) \div Abs(b))

Remainder(a, b) == a - b * Quotient(a, b)

Bits(a) == {i \in 0 .. PointerBits - 1 : ShiftRight(a, i) % 2 = 1}

OfBits(bits) == Word(MapThenSumSet(LAMBDA i : 2 ^ i, bits))

-----------------------------------------------------------------------------
(* What SMIPlus, SMIMinus and SMITimes do with their result.               *)
InRangeOrFail(n) ==
  IF n < SMALLINT_MIN \/ n > SMALLINT_MAX THEN <<>> ELSE newIntObject(n)

primitiveSMIPlus(a, b) == InRangeOrFail(a + b)

primitiveSMIMinus(a, b) == InRangeOrFail(a - b)

primitiveSMITimes(a, b) == InRangeOrFail(a * b)

primitiveSMIBitAnd(a, b) == newIntObject(OfBits(Bits(a) \cap Bits(b)))

primitiveSMIBitOr(a, b) == newIntObject(OfBits(Bits(a) \cup Bits(b)))

primitiveSMIBitXor(a, b) == newIntObject(OfBits((Bits(a) \cup Bits(b)) \ (Bits(a) \cap Bits(b))))

ShiftOverflows(a, k) ==
  k >= PointerBits - 1 \/ (a # 0 /\ (a > ShiftRight(SMALLINT_MAX, k) \/ a < ShiftRight(SMALLINT_MIN, k)))

primitiveSMIBitShift(a, b) ==
  CASE b > 0 -> IF ShiftOverflows(a, b) THEN <<>> ELSE newIntObject(ShiftLeft(a, b))
    [] -b >= PointerBits - 1 -> newIntObject(IF a < 0 THEN -1 ELSE 0)
    [] OTHER -> newIntObject(ShiftRight(a, -b))

(* Division toward zero, corrected to round down. b is not 0: the code     *)
(* does not look.                                                          *)
SignsDiffer(a, b) == (a < 0) # (b < 0)

primitiveSMIIntDiv(a, b) ==
  newIntObject(Quotient(a, b) - IF Remainder(a, b) # 0 /\ SignsDiffer(a, b) THEN 1 ELSE 0)

primitiveSMIIntQuot(a, b) ==
  newIntObject(Remainder(a, b) + IF Remainder(a, b) # 0 /\ SignsDiffer(a, b) THEN b ELSE 0)

(* log2 of a number that is not negative.                                  *)
primitiveSMIHighBit(a) ==
  newIntObject(IF a = 0 THEN 0 ELSE 1 + CHOOSE k \in 0 .. PointerBits : 2 ^ k <= a /\ a < 2 ^ (k + 1))

(* The underprimitives shift by counts that are not negative.              *)
underprimitiveSMIBitShiftLeft(a, b) ==
  IF b >= PointerBits - 1 \/ (b > 0 /\ ShiftOverflows(a, b)) THEN <<>> ELSE newIntObject(ShiftLeft(a, b))

underprimitiveSMIBitShiftRight(a, b) ==
  newIntObject(IF b >= PointerBits - 1 THEN (IF a < 0 THEN -1 ELSE 0) ELSE ShiftRight(a, b))

underprimitiveSMIQuotientTowardZero(a, b) == newIntObject(Quotient(a, b))

underprimitiveSMIRemainderTowardZero(a, b) == newIntObject(Remainder(a, b))

-----------------------------------------------------------------------------
(* The operations by the name of the primitive or undermessage.            *)

ChecksArgument == {"SMIPlus", "SMIMinus", "SMITimes", "SMIBitAnd", "SMIBitOr", "SMIBitXor"}

Arithmetic ==
  ChecksArgument \cup {"SMIIntDiv", "SMIIntQuot", "SMIBitShift"}

Calculated(name, a, b) ==
  CASE name \in {"SMIPlus", "_smiPlus:"}     -> primitiveSMIPlus(a, b)
    [] name \in {"SMIMinus", "_smiMinus:"}   -> primitiveSMIMinus(a, b)
    [] name \in {"SMITimes", "_smiTimes:"}   -> primitiveSMITimes(a, b)
    [] name \in {"SMIBitAnd", "_smiBitAnd:"} -> primitiveSMIBitAnd(a, b)
    [] name \in {"SMIBitOr", "_smiBitOr:"}   -> primitiveSMIBitOr(a, b)
    [] name = "SMIBitXor"   -> primitiveSMIBitXor(a, b)
    [] name = "SMIIntDiv"   -> primitiveSMIIntDiv(a, b)
    [] name = "SMIIntQuot"  -> primitiveSMIIntQuot(a, b)
    [] name = "SMIBitShift" -> primitiveSMIBitShift(a, b)
    [] name = "_bitShiftLeft:"  -> underprimitiveSMIBitShiftLeft(a, b)
    [] name = "_bitShiftRight:" -> underprimitiveSMIBitShiftRight(a, b)
    [] name = "_quotientTowardZero:"  -> underprimitiveSMIQuotientTowardZero(a, b)
    [] name = "_remainderTowardZero:" -> underprimitiveSMIRemainderTowardZero(a, b)

UnderArithmetic ==
  {"_smiPlus:", "_smiMinus:", "_smiTimes:", "_smiBitAnd:", "_smiBitOr:", "_bitShiftLeft:",
   "_bitShiftRight:", "_quotientTowardZero:", "_remainderTowardZero:"}

Comparisons == {"SMIEqual", "SMINotEqual", "SMIGreaterThan", "SMIGreaterEqualThan"}

UnderComparisons ==
  {"_smiEquals:", "_smiGreaterThan:", "_smiGreaterEqualThan:", "_smiLowerThan:", "_smiLowerEqualThan:"}

Compared(name, a, b) ==
  CASE name \in {"SMIEqual", "_smiEquals:"} -> a = b
    [] name = "SMINotEqual" -> a # b
    [] name \in {"SMIGreaterThan", "_smiGreaterThan:"} -> a > b
    [] name \in {"SMIGreaterEqualThan", "_smiGreaterEqualThan:"} -> a >= b
    [] name = "_smiLowerThan:" -> a < b
    [] name = "_smiLowerEqualThan:" -> a <= b
=============================================================================
