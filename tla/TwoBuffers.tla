---------------------------- MODULE TwoBuffers ----------------------------
(***************************************************************************)
(* The length-prefixed pair of buffers every prove_* call brings back      *)
(* across JNI: two_buffers_to_concat (lib.rs) writes it, byte_array_       *)
(* from_slice of the jni crate hands it to the JVM, and splitTwoBuffers    *)
(* (OnymJni.kt) takes it apart.                                            *)
(*                                                                         *)
(* The header is four digits in base Base: 256 in the code, a small even   *)
(* number in a run, so that a run reaches the ends of the u32 and of the   *)
(* signed Int that decodes it.  Only the header's digits are bytes here;   *)
(* the elements of a buffer are any values at all.                         *)
(***************************************************************************)
EXTENDS Integers, Sequences, SequencesExt

CONSTANT Base   \* values of one byte

ASSUME BaseAssumption == Base \in Nat /\ Base >= 2 /\ Base % 2 = 0

WordMod == Base * Base * Base * Base    \* 2^32: the values of a u32
MaxInt  == WordMod \div 2 - 1           \* Int.MAX_VALUE

Bytes == 0 .. Base - 1
Words == 0 .. WordMod - 1
Ints  == -(MaxInt + 1) .. MaxInt

HeaderSize == 4

(* The 32-bit two's complement value of an integer: what a Kotlin Int      *)
(* expression yields after it has wrapped, and Rust's `as i32`.            *)
ToInt32(x) == ((x + MaxInt + 1) % WordMod) - (MaxInt + 1)

ToU32(n) == n % WordMod

(* u32::to_be_bytes: four digits, the most significant first. *)
ToBeBytes(n) ==
  LET q1 == n \div Base
      q2 == q1 \div Base
      q3 == q2 \div Base
  IN  << q3 % Base, q2 % Base, q1 % Base, n % Base >>

(* Four bytes shifted and or-ed together, as the unsigned number they spell. *)
FromBeBytes(w) == ((w[1] * Base + w[2]) * Base + w[3]) * Base + w[4]

---------------------------------------------------------------------------
(* two_buffers_to_concat: `len_a as u32` big-endian, then both buffers. *)

(* mutant: the prefix is the length of the second buffer *)
ConcatMeasuringSecond(a, b) == ToBeBytes(ToU32(Len(b))) \o a \o b

Concat(a, b) == ToBeBytes(ToU32(Len(a))) \o a \o b

(***************************************************************************)
(* JNIEnv::byte_array_from_slice of jni 0.21: the length is cast to i32,   *)
(* a negative one makes NewByteArray throw, and otherwise that many bytes  *)
(* are copied.  [ok |-> FALSE] is its Err.                                 *)
(***************************************************************************)
NewJavaArray(s) ==
  LET n == ToInt32(Len(s))
  IN  IF n < 0 THEN [ok |-> FALSE] ELSE [ok |-> TRUE, bytes |-> SubSeq(s, 1, n)]

---------------------------------------------------------------------------
(***************************************************************************)
(* ByteArray.copyOfRange(from, to) on the JVM: Kotlin refuses to > size,   *)
(* then java.util.Arrays.copyOfRange computes the new length in an Int and *)
(* refuses a negative one, or a from outside the array.  A length that     *)
(* wrapped to a huge positive Int asks for more than the source holds: the *)
(* copy is padded with zeros (or the JVM is out of memory, which is one    *)
(* more way to fail, and SplitMeetsReference shows Split fails there       *)
(* either way).                                                            *)
(***************************************************************************)
CopyOfRange(s, from, to) ==
  LET n == ToInt32(to - from)
  IN  IF to > Len(s) \/ n < 0 \/ from < 0 \/ from > Len(s)
      THEN [ok |-> FALSE]
      ELSE [ok |-> TRUE, bytes |->
              [i \in 1 .. n |-> IF from + i <= Len(s) THEN s[from + i] ELSE 0]]

(* Kotlin's Int: four bytes shifted and or-ed, the top one into the sign. *)
DecodedLength(w) == ToInt32(FromBeBytes(w))

(* mutant: an array that ends where the second buffer would begin is refused *)
FitsStrictly(w) == ToInt32(HeaderSize + DecodedLength(w)) < Len(w)

(* require(4 + aLen <= concat.size): the sum is an Int and wraps. *)
Fits(w) == ToInt32(HeaderSize + DecodedLength(w)) <= Len(w)

(* mutant: the length is taken as an unsigned number, and clamped to what is there *)
SplitClamped(w) ==
  IF Len(w) < HeaderSize THEN [ok |-> FALSE]
  ELSE LET cut == HeaderSize + FromBeBytes(w)
           end == IF cut > Len(w) THEN Len(w) ELSE cut
       IN  [ok |-> TRUE, first  |-> SubSeq(w, HeaderSize + 1, end),
                         second |-> SubSeq(w, end + 1, Len(w))]

(***************************************************************************)
(* splitTwoBuffers.  [ok |-> FALSE] is an exception in Kotlin: either      *)
(* require, or one of the two copies.                                      *)
(***************************************************************************)
Split(w) ==
  IF Len(w) < HeaderSize \/ ~Fits(w) THEN [ok |-> FALSE]
  ELSE LET cut    == ToInt32(HeaderSize + DecodedLength(w))
           first  == CopyOfRange(w, HeaderSize, cut)
           second == CopyOfRange(w, cut, Len(w))
       IN  IF first.ok /\ second.ok
           THEN [ok |-> TRUE, first |-> first.bytes, second |-> second.bytes]
           ELSE [ok |-> FALSE]

(* What the header means to someone who reads it as the doc does: an       *)
(* unsigned big-endian length, which must leave room for itself.           *)
ReferenceSplit(w) ==
  IF Len(w) < HeaderSize \/ FromBeBytes(w) > Len(w) - HeaderSize
  THEN [ok |-> FALSE]
  ELSE LET cut == HeaderSize + FromBeBytes(w)
       IN  [ok |-> TRUE, first  |-> SubSeq(w, HeaderSize + 1, cut),
                         second |-> SubSeq(w, cut + 1, Len(w))]
===========================================================================
