------------------------- MODULE TwoBufferChannel -------------------------
(***************************************************************************)
(* One pair of buffers on its way from two_buffers_to_concat through the   *)
(* JVM's array to splitTwoBuffers, and any other byte[] splitTwoBuffers    *)
(* may be given.                                                           *)
(***************************************************************************)
EXTENDS TwoBuffers

CONSTANTS FirstBuffers, SecondBuffers,   \* what the FFI may return as a pair
          RawArrays                      \* arrays no encoder wrote

(* Buffers are strings of bytes; a raw one is as long as a Java array can be. *)
ASSUME BufferAssumption ==
  /\ FirstBuffers \subseteq Seq(Bytes) /\ SecondBuffers \subseteq Seq(Bytes)
  /\ RawArrays \subseteq {w \in Seq(Bytes) : Len(w) <= MaxInt}

VARIABLES phase,    \* where the pair is
          sent,     \* the pair of buffers, or NoPair for a raw array
          wire,     \* the Rust Vec, then the Java array
          got       \* what splitTwoBuffers answered

vars == << phase, sent, wire, got >>

NoPair == << >>
NoAnswer == [ok |-> FALSE]

Init ==
  /\ phase = "idle" /\ sent = NoPair /\ wire = << >> /\ got = NoAnswer

Encode(a, b) ==
  /\ phase = "idle"
  /\ phase' = "vec" /\ sent' = << a, b >> /\ wire' = Concat(a, b)
  /\ UNCHANGED got

(* mutant: the result of byte_array_from_slice is not looked at *)
HandOverUnchecked ==
  /\ phase = "vec"
  /\ phase' = "java"
  /\ UNCHANGED << sent, wire, got >>

(* byte_array_from_slice: an array, or a pending exception and null. *)
HandOver ==
  /\ phase = "vec"
  /\ LET array == NewJavaArray(wire)
     IN  \/ array.ok  /\ phase' = "java"   /\ wire' = array.bytes
         \/ ~array.ok /\ phase' = "thrown" /\ wire' = << >>
  /\ UNCHANGED << sent, got >>

ReceiveRaw(w) ==
  /\ phase = "idle"
  /\ phase' = "java" /\ wire' = w
  /\ UNCHANGED << sent, got >>

Decode ==
  /\ phase = "java"
  /\ phase' = "split" /\ got' = Split(wire)
  /\ UNCHANGED << sent, wire >>

Forget ==
  /\ phase \in {"split", "thrown"}
  /\ phase' = "idle" /\ sent' = NoPair /\ wire' = << >> /\ got' = NoAnswer

Next ==
  \/ \E a \in FirstBuffers, b \in SecondBuffers : Encode(a, b)
  \/ \E w \in RawArrays : ReceiveRaw(w)
  \/ HandOver
  \/ Decode
  \/ Forget

Spec == Init /\ [][Next]_vars

---------------------------------------------------------------------------
(* Type invariant, with what the JVM guarantees of the length of an array. *)
TypeOK ==
  /\ phase \in {"idle", "vec", "java", "split", "thrown"}
  /\ sent \in {NoPair} \cup (FirstBuffers \X SecondBuffers)
  /\ wire \in Seq(Bytes)
  /\ phase \in {"java", "split"} => Len(wire) <= MaxInt

Total == HeaderSize + Len(sent[1]) + Len(sent[2])

(***************************************************************************)
(* A pair that fits a Java array is split into exactly the two buffers the *)
(* FFI returned, empty ones included: lib.rs 717-744 against OnymJni.kt    *)
(* 204-219.                                                                *)
(***************************************************************************)
RoundTrip ==
  (phase \in {"split", "thrown"} /\ sent # NoPair /\ Total <= MaxInt) =>
    /\ phase = "split"
    /\ got = [ok |-> TRUE, first |-> sent[1], second |-> sent[2]]

(***************************************************************************)
(* A pair too long for a Java array is an exception and never a wrong cut, *)
(* as long as the whole concat is shorter than 2^32: the casts to u32 and  *)
(* i32, the signed Int of the decoder and its wrapping sum may each go     *)
(* wrong, but never into an answer.                                        *)
(***************************************************************************)
NoMisSplit ==
  (phase = "split" /\ sent # NoPair /\ Total < WordMod /\ got.ok) =>
    got.first = sent[1] /\ got.second = sent[2]

(***************************************************************************)
(* Whatever array arrives, splitTwoBuffers answers what the unsigned       *)
(* reading of the documented format says: its signed Ints, with a header   *)
(* at or above 2^31 and a sum that wraps, refuse exactly the arrays whose  *)
(* header promises more than follows (OnymJni.kt 7-22 and 199-219).        *)
(***************************************************************************)
SplitMeetsReference == phase = "split" => got = ReferenceSplit(wire)
===========================================================================
