--------------------------- MODULE UtilAlgorithms ---------------------------
(***************************************************************************)
(* The numeric and bit-slice helpers of src/vm/src/util.rs, as operators.  *)
(* Integers are TLA+ integers; the machine word of load_int_from_slice is  *)
(* the constant width WORD (64 in the code) so that the wrapping of u64    *)
(* shifts and multiplications is kept.  A bit slice is a sequence of 0/1.  *)
(***************************************************************************)
EXTENDS Integers, Sequences, SequencesExt, Bitwise

CONSTANTS WORD,     \* width of the machine word of load_int_from_slice
          BYTE      \* width of a byte of the BigInt byte encodings (8)

AbsVal(x) == IF x < 0 THEN -x ELSE x

(* BigInt::bits(): the number of bits of the magnitude, 0 for zero. *)
RECURSIVE MagnitudeBits(_)
MagnitudeBits(n) == IF n = 0 THEN 0 ELSE 1 + MagnitudeBits(n \div 2)

(* u64::is_power_of_two *)
RECURSIVE IsPowerOfTwo(_)
IsPowerOfTwo(n) == n = 1 \/ (n > 1 /\ n % 2 = 0 /\ IsPowerOfTwo(n \div 2))

(* Variant of ShiftCeilPrice that always rounds up. *)
ShiftCeilPriceAlwaysUp(value) == (value \div 65536) + 1

(* shift_ceil_price (lines 135-138): value >> 16, plus one if any of the   *)
(* low 16 bits is set.                                                     *)
ShiftCeilPrice(value) ==
    (value \div 65536) + (IF (value & 65535) # 0 THEN 1 ELSE 0)

(* Variant of Bitsize that always adds a sign bit to negative numbers. *)
BitsizeNoPowerOfTwoCase(int, signed) ==
    LET bits == MagnitudeBits(AbsVal(int)) IN
    IF ~signed \/ int = 0 THEN bits ELSE bits + 1

(* bitsize (lines 241-261).  A negative number whose magnitude is a power  *)
(* of two needs no extra sign bit; the highest u64 digit being a power of  *)
(* two and all lower digits zero is the magnitude being a power of two.    *)
Bitsize(int, signed) ==
    LET bits == MagnitudeBits(AbsVal(int)) IN
    IF ~signed \/ int = 0 THEN bits
    ELSE IF int > 0 THEN bits + 1
    ELSE IF ~IsPowerOfTwo(AbsVal(int)) THEN bits + 1
    ELSE bits

(* in_bitsize_range (lines 263-265). *)
InBitsizeRange(x, signed) == signed \/ x >= 0

(* store_int_to_builder (lines 181-192): IntOverflow when the width is     *)
(* below the bit size of the number.                                       *)
StoreIntOverflows(x, bits, signed) == bits < Bitsize(x, signed)

(* Variants of load_uint_leq: one bit too wide, and without the bound     *)
(* check.                                                                  *)
LoadUintLeqBitsWide(upper) == MagnitudeBits(upper) + 1
LoadUintLeqUnchecked(raw, upper) == [ok |-> TRUE, value |-> raw]

(* load_uint_leq (lines 232-239): read the bit length of the bound, fail   *)
(* with IntOverflow above the bound.                                       *)
LoadUintLeqBits(upper) == MagnitudeBits(upper)
LoadUintLeq(raw, upper) ==
    IF raw > upper THEN [ok |-> FALSE] ELSE [ok |-> TRUE, value |-> raw]

(* Variant of LoadIntFromSlice that reads the sign from bit `bits`, one  *)
(* above the highest bit read.                                             *)
LoadIntFromSliceSignFromBits(raw, bits, signed) ==
    LET word == 2^WORD
        high == ((((raw \div 2^bits) * (word - 1)) % word) * 2^(bits - 1)) % word
        int == IF bits < WORD THEN raw | high ELSE raw
    IN IF bits = 0 THEN 0
       ELSE IF ~signed THEN raw
       ELSE IF int >= word \div 2 THEN int - word ELSE int

(* load_int_from_slice for 1..WORD bits (lines 148-163): `raw` is the      *)
(* unsigned value of the bits read; a signed load clones the sign bit into *)
(* the high bits with wrapping word arithmetic, then reinterprets the word *)
(* as a two's-complement i64.                                              *)
LoadIntFromSlice(raw, bits, signed) ==
    LET word == 2^WORD
        wordMax == word - 1
        signBit == raw \div 2^(bits - 1)
        high == (((signBit * wordMax) % word) * 2^(bits - 1)) % word
        int == IF bits < WORD THEN raw | high ELSE raw
    IN IF bits = 0 THEN 0
       ELSE IF ~signed THEN raw
       ELSE IF int >= word \div 2 THEN int - word ELSE int

-----------------------------------------------------------------------------
(* Bit and byte encodings of the cell builder and of BigInt.  A slice is a *)
(* sequence of bits, most significant first; a byte string is a sequence   *)
(* of numbers 0..2^BYTE-1.                                                 *)

(* The n low bits of v (taken modulo 2^n), most significant first. *)
ValueBits(v, n) == [i \in 1..n |-> (v \div 2^(n - i)) % 2]

(* The unsigned value of a bit sequence. *)
BitsValue(s) ==
    LET acc[i \in 0..Len(s)] == IF i = 0 THEN 0 ELSE 2 * acc[i - 1] + s[i]
    IN acc[Len(s)]

(* The bits of a byte string, each byte most significant bit first. *)
BytesBits(bs) ==
    [i \in 1..(Len(bs) * BYTE) |->
        (bs[(i - 1) \div BYTE + 1] \div 2^(BYTE - 1 - ((i - 1) % BYTE))) % 2]

(* The k low bytes of v in two's complement, least significant first. *)
BytesLE(v, k) == [i \in 1..k |-> ((v % 2^(k * BYTE)) \div 2^((i - 1) * BYTE)) % 2^BYTE]

(* BigInt::to_signed_bytes_le: the fewest bytes (at least one) holding v   *)
(* in two's complement; BigInt::to_bytes_le(): the fewest holding |v|.     *)
SignedByteCount(v) ==
    CHOOSE k \in 1..64 : -(2^(k * BYTE - 1)) <= v /\ v < 2^(k * BYTE - 1)
                         /\ (k = 1 \/ ~(-(2^((k - 1) * BYTE - 1)) <= v /\ v < 2^((k - 1) * BYTE - 1)))
UnsignedByteCount(v) ==
    CHOOSE k \in 1..64 : AbsVal(v) < 2^(k * BYTE) /\ (k = 1 \/ AbsVal(v) >= 2^((k - 1) * BYTE))
ToSignedBytesLE(v) == BytesLE(v, SignedByteCount(v))
ToBytesLE(v) == BytesLE(AbsVal(v), UnsignedByteCount(v))

(* Vec::resize: truncate, or pad at the end with the fill byte. *)
Resize(bs, n, fill) ==
    IF Len(bs) >= n THEN SubSeq(bs, 1, n) ELSE bs \o [i \in 1..(n - Len(bs)) |-> fill]

(* CellBuilder::store_uint: the low bits of value, zero-extended past the  *)
(* word; CellBuilder::store_raw: the first bits of a byte string.          *)
StoreUint(value, bits) == ValueBits(value, bits)
StoreRaw(bytes, bits) == SubSeq(BytesBits(bytes), 1, bits)

(* BigInt::from_signed_bytes_be / from_bytes_be. *)
FromBytesBE(bs, signed) ==
    LET v == BitsValue(BytesBits(bs))
    IN IF signed /\ Len(bs) > 0 /\ v >= 2^(Len(bs) * BYTE - 1) THEN v - 2^(Len(bs) * BYTE) ELSE v

(* Variant of StoreIntToBuilderUnchecked that writes the number without    *)
(* first aligning it to the top of its last byte.                          *)
StoreIntToBuilderUncheckedNoAlign(x, bits, signed) ==
    IF 0 <= x /\ x < 2^WORD THEN StoreUint(x, bits)
    ELSE LET minimalBytes == (bits + BYTE - 1) \div BYTE
             bytes == IF signed THEN ToSignedBytesLE(x) ELSE ToBytesLE(x)
             prefix == IF signed THEN (bytes[Len(bytes)] \div 2^(BYTE - 1)) * (2^BYTE - 1) ELSE 0
         IN StoreRaw(Reverse(Resize(bytes, minimalBytes, prefix)), bits)

(* store_int_to_builder_unchecked (lines 194-230): a number that is a u64  *)
(* is stored with store_uint; any other is shifted to the top of its last  *)
(* byte, encoded little-endian, resized to the bytes the width needs with  *)
(* the sign byte as fill, reversed, and its first `bits` bits stored.      *)
StoreIntToBuilderUnchecked(x, bits, signed) ==
    IF 0 <= x /\ x < 2^WORD THEN StoreUint(x, bits)
    ELSE LET int == IF bits % BYTE # 0 THEN x * 2^(BYTE - (bits % BYTE)) ELSE x
             minimalBytes == (bits + BYTE - 1) \div BYTE
             bytes == IF signed THEN ToSignedBytesLE(int) ELSE ToBytesLE(int)
             prefix == IF signed THEN (bytes[Len(bytes)] \div 2^(BYTE - 1)) * (2^BYTE - 1) ELSE 0
         IN StoreRaw(Reverse(Resize(bytes, minimalBytes, prefix)), bits)

(* store_int_to_builder (lines 181-192): IntOverflow when the width is     *)
(* below the bitsize, otherwise the unchecked store.                       *)
StoreIntToBuilder(x, bits, signed) ==
    IF StoreIntOverflows(x, bits, signed) THEN [ok |-> FALSE]
    ELSE [ok |-> TRUE, bits |-> StoreIntToBuilderUnchecked(x, bits, signed)]

(* Variant of LoadIntWide that shifts by the leftover bits, not by the     *)
(* padding.                                                                *)
LoadIntWideShiftRem(s, bits, signed) ==
    LET rem == bits % BYTE
        buffer == SubSeq(s, 1, bits) \o [i \in 1..((BYTE - rem) % BYTE) |-> 0]
        int == FromBytesBE([i \in 1..(Len(buffer) \div BYTE) |->
                               BitsValue(SubSeq(buffer, (i - 1) * BYTE + 1, i * BYTE))], signed)
    IN IF rem # 0 THEN int \div 2^rem ELSE int

(* load_int_from_slice above WORD bits (lines 164-177): load_raw fills the *)
(* bytes the width needs, padding the last with zeros; they are decoded    *)
(* big-endian and shifted right (rounding down) by the padding.            *)
LoadIntWide(s, bits, signed) ==
    LET rem == bits % BYTE
        buffer == SubSeq(s, 1, bits) \o [i \in 1..((BYTE - rem) % BYTE) |-> 0]
        int == FromBytesBE([i \in 1..(Len(buffer) \div BYTE) |->
                               BitsValue(SubSeq(buffer, (i - 1) * BYTE + 1, i * BYTE))], signed)
    IN IF rem # 0 THEN int \div 2^(BYTE - rem) ELSE int

(* load_int_from_slice (lines 148-178) on a slice of bits: zero for no   *)
(* bits, a word load up to WORD bits, the byte path above.                 *)
LoadIntFromSliceBits(s, bits, signed) ==
    IF bits <= WORD THEN LoadIntFromSlice(BitsValue(SubSeq(s, 1, bits)), bits, signed)
    ELSE LoadIntWide(s, bits, signed)

(* remove_trailing (lines 267-276): drop the trailing zeros and the one    *)
(* bit before them (the completion tag), or everything if all bits are 0. *)
RECURSIVE CountTrailingZeros(_)
CountTrailingZeros(s) ==
    IF s = <<>> \/ s[Len(s)] = 1 THEN 0
    ELSE 1 + CountTrailingZeros(SubSeq(s, 1, Len(s) - 1))
(* Variant of RemoveTrailing that keeps the completion tag. *)
RemoveTrailingKeepTag(s) ==
    IF Len(s) = 0 THEN s ELSE SubSeq(s, 1, Len(s) - CountTrailingZeros(s))

RemoveTrailing(s) ==
    LET bits == Len(s)
        n == CountTrailingZeros(s)
    IN IF bits = 0 THEN s
       ELSE SubSeq(s, 1, bits - (n + (IF n # bits THEN 1 ELSE 0)))
=============================================================================
