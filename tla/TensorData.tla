----------------------------- MODULE TensorData -----------------------------
(* The sizes and the values of tensors: how many elements and bytes            *)
(* data_util.cpp and io_tensor.cpp compute for one, in integers of the widths  *)
(* of the machine, and how floats become fixed point numbers and back.         *)
EXTENDS Integers, Sequences

CONSTANTS
    IntValues,    \* how many values an int has: 2^32
    SizeValues,   \* a size_t: 2^64
    ByteValues,   \* and a byte: 2^g_bitsPerByte
    One           \* the float 1.0, in units small enough to be counted

ASSUME WidthAssumption ==
    /\ ByteValues \in Nat /\ ByteValues > 1
    /\ IntValues \in Nat /\ IntValues > ByteValues * ByteValues
    /\ SizeValues \in Nat /\ SizeValues >= 8 * IntValues
    /\ One \in Nat \ {0}

Types == {"INT_8", "INT_16", "INT_32", "INT_64", "UINT_8", "UINT_16", "UINT_32",
          "UINT_64", "FLOAT_16", "FLOAT_32", "FLOAT_64", "SFIXED_POINT_8",
          "SFIXED_POINT_16", "SFIXED_POINT_32", "UFIXED_POINT_8",
          "UFIXED_POINT_16", "UFIXED_POINT_32", "BOOL_8", "UNDEFINED"}

\* g_dataTypeToSize, and the zero of a type that it does not hold.
SizeInBytes(type) ==
    CASE type \in {"INT_8", "UINT_8", "SFIXED_POINT_8", "UFIXED_POINT_8", "BOOL_8"} -> 1
      [] type \in {"INT_16", "UINT_16", "FLOAT_16", "SFIXED_POINT_16",
                   "UFIXED_POINT_16"} -> 2
      [] type \in {"INT_32", "UINT_32", "FLOAT_32", "SFIXED_POINT_32",
                   "UFIXED_POINT_32"} -> 4
      [] type \in {"INT_64", "UINT_64", "FLOAT_64"} -> 8
      [] OTHER -> 0

\* The types allocateBuffer() has a case for.
Allocatable == {"FLOAT_32", "UINT_8", "UFIXED_POINT_8", "UINT_16", "UFIXED_POINT_16",
                "UINT_32", "UINT_64", "INT_8", "INT_16", "INT_32", "INT_64", "BOOL_8"}

Quantized == {"UFIXED_POINT_8", "UFIXED_POINT_16"}

Signed == {"INT_8", "INT_16", "INT_32", "INT_64"}

\* The types copyFromFloatToNative() has a case for ...
Converted ==
    {"UFIXED_POINT_8", "UFIXED_POINT_16", "UINT_8", "UINT_16", "UINT_32", "UINT_64",
     "INT_8", "INT_16", "INT_32", "INT_64", "BOOL_8"}

\* ... and convertToFloat(): the same.
Readable == Converted

-----------------------------------------------------------------------------
(* Sizes.                                                                      *)

\* What an int, or a size_t, makes of a number.
AsInt(n) ==
    LET m == n % IntValues IN IF 2 * m >= IntValues THEN m - IntValues ELSE m

AsSize(n) == n % SizeValues

\* std::accumulate over the dimensions with 1, an int, to begin with: each
\* product is a size_t, and an int again before the next one.
Accumulate(dims) ==
    LET product[n \in 0..Len(dims)] ==
          IF n = 0 THEN 1 ELSE AsInt(AsSize(product[n - 1] * dims[n]))
    IN  AsSize(product[Len(dims)])

\* calculateElementCount(): no dimensions, no elements ...
ElementCount(dims) == IF dims = <<>> THEN 0 ELSE Accumulate(dims)

\* ... and calculateLength().
Length(dims, type) ==
    IF dims = <<>> THEN 0 ELSE AsSize(SizeInBytes(type) * ElementCount(dims))

\* What allocateBuffer() asks for: one element if there are no dimensions.
BufferBytes(dims, type) == AsSize(Accumulate(dims) * SizeInBytes(type))

\* malloc() refuses more than PTRDIFF_MAX.
Obtainable(bytes) == 2 * bytes < SizeValues

-----------------------------------------------------------------------------
(* Values: a float is a number of units, and so is the scale.                  *)

\* Mutant: the fraction is cut off, as the int it is given to would.
CutQuotient(n, scale) ==
    IF n >= 0 THEN n \div scale ELSE -((-n) \div scale)

\* round(): to the nearest integer, halves away from zero.
RoundedQuotient(n, scale) ==
    IF n >= 0 THEN (2 * n + scale) \div (2 * scale)
    ELSE -((2 * (-n) + scale) \div (2 * scale))

Clamp(n, max) == IF n < 0 THEN 0 ELSE IF n > max THEN max ELSE n

QuantizedMax(type) == ByteValues^SizeInBytes(type) - 1

InIntRange(n) == AsInt(n) = n

\* floatToTfN(): the double is converted to an int before it is clamped. Beyond
\* the range of int that is undefined: the conversion saturates, or gives the
\* smallest int. A scale of 0 divides by zero, and the scale may be negative.
FloatToTfN(x, offset, scale, type) ==
    LET above == x - offset * scale
        n == IF scale > 0 THEN RoundedQuotient(above, scale)
             ELSE RoundedQuotient(-above, -scale)
        max == QuantizedMax(type)
    IN  IF scale = 0 THEN {0, max}
        ELSE IF InIntRange(n) THEN {Clamp(n, max)} ELSE {Clamp(n, max), 0}

\* tfNToFloat().
TfNToFloat(quantized, offset, scale) == (quantized + offset) * scale

\* The integers a type has, from the lowest on.
IntegersOf(type) == ByteValues^SizeInBytes(type)
Lowest(type) == IF type \in Signed THEN -(IntegersOf(type) \div 2) ELSE 0
Fits(n, type) == Lowest(type) <= n /\ n < Lowest(type) + IntegersOf(type)

Truncated(x) == IF x >= 0 THEN x \div One ELSE -((-x) \div One)

\* castFromFloat(): undefined if the type does not have the integer. The cast
\* saturates, wraps around, or gives the lowest one.
CastFromFloat(x, type) ==
    LET n == Truncated(x)
        lowest == Lowest(type)
        range == IntegersOf(type)
    IN  IF Fits(n, type) THEN {n}
        ELSE {lowest, lowest + range - 1, lowest + ((n - lowest) % range)}

\* castToFloat().
CastToFloat(n) == n * One
=============================================================================
