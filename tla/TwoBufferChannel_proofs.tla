---------------------- MODULE TwoBufferChannel_proofs ----------------------
(***************************************************************************)
(* The codec on the channel: what the lemmas of TwoBuffers_proofs say of   *)
(* one pair holds of every pair and every array that is sent.              *)
(***************************************************************************)
EXTENDS TwoBufferChannel, TwoBuffers_proofs

---------------------------------------------------------------------------
(* The channel. *)

(* Whatever byte[] is on the wire, the decoder does as the reference does. *)
LEMMA DecodedAsReference ==
  ASSUME NEW w \in Seq(Bytes), Len(w) <= MaxInt
  PROVE  Split(w) = ReferenceSplit(w)
<1>1. Len(w) >= HeaderSize => \A i \in 1 .. 4 : w[i] \in Bytes
  BY LenProperties DEF HeaderSize
<1> QED
  BY <1>1, SplitIsReference

(* Type correctness, with the length of a Java array. *)
THEOREM TypeCorrect == Spec => []TypeOK
<1>1. Init => TypeOK
  BY DEF Init, TypeOK
<1>2. TypeOK /\ [Next]_vars => TypeOK'
  <2> SUFFICES ASSUME TypeOK, [Next]_vars PROVE TypeOK'
    OBVIOUS
  <2> USE DEF TypeOK
  <2>1. ASSUME NEW a \in FirstBuffers, NEW b \in SecondBuffers, Encode(a, b) PROVE TypeOK'
    <3>1. ToU32(Len(a)) \in Words /\ a \in Seq(Bytes) /\ b \in Seq(Bytes)
      <4>1. a \in Seq(Bytes) /\ b \in Seq(Bytes) /\ Len(a) \in Nat
        BY BufferAssumption, LenProperties
      <4> QED
        BY <4>1, WordWidth, DivMod DEF ToU32, Words
    <3>2. ToBeBytes(ToU32(Len(a))) \in Seq(Bytes)
      BY <3>1, HeaderRoundTrip
    <3>3. Concat(a, b) \in Seq(Bytes)
      BY <3>1, <3>2, ConcatProperties DEF Concat
    <3> QED
      BY <2>1, <3>3 DEF Encode
  <2>2. ASSUME NEW w \in RawArrays, ReceiveRaw(w) PROVE TypeOK'
    BY <2>2, BufferAssumption DEF ReceiveRaw
  <2>3. CASE HandOver
    <3> DEFINE n == ToInt32(Len(wire))
    <3>1. ASSUME n >= 0
          PROVE  /\ SubSeq(wire, 1, n) \in Seq(Bytes)
                 /\ Len(SubSeq(wire, 1, n)) <= MaxInt
      <4>1. Len(wire) \in Nat
        BY LenProperties
      <4>2. n \in Int /\ n <= MaxInt /\ n <= Len(wire)
        BY <4>1, Int32Bounds DEF Ints
      <4> HIDE DEF n
      <4>3. /\ SubSeq(wire, 0 + 1, n) \in Seq(Bytes)
            /\ Len(SubSeq(wire, 0 + 1, n)) = n - 0
        BY <3>1, <4>1, <4>2, Slice
      <4> QED
        BY <4>2, <4>3
    <3>2. << >> \in Seq(Bytes)
      OBVIOUS
    <3>3. n \in Int /\ MaxInt \in Nat
      BY LenProperties, Int32Bounds, WordWidth DEF Ints
    <3>4. NewJavaArray(wire) =
            IF n < 0 THEN [ok |-> FALSE] ELSE [ok |-> TRUE, bytes |-> SubSeq(wire, 1, n)]
      BY DEF NewJavaArray
    <3> HIDE DEF n
    <3>5. CASE n >= 0
      <4>1. phase' = "java" /\ wire' = SubSeq(wire, 1, n) /\ sent' = sent
        BY <2>3, <3>3, <3>4, <3>5 DEF HandOver
      <4> QED
        BY <3>1, <3>5, <4>1
    <3>6. CASE n < 0
      <4>1. phase' = "thrown" /\ wire' = << >> /\ sent' = sent
        BY <2>3, <3>3, <3>4, <3>6 DEF HandOver
      <4> QED
        BY <3>2, <4>1
    <3> QED
      BY <3>3, <3>5, <3>6
  <2>4. CASE Decode
    BY <2>4 DEF Decode
  <2>5. CASE Forget
    BY <2>5 DEF Forget
  <2>6. CASE UNCHANGED vars
    BY <2>6 DEF vars
  <2> QED
    BY <2>1, <2>2, <2>3, <2>4, <2>5, <2>6 DEF Next
<1> QED
  BY <1>1, <1>2, PTL DEF Spec

(***************************************************************************)
(* The inductive invariant behind the three properties: in every phase the *)
(* wire is what the last conversion made of the pair, and the answer is    *)
(* what the reference makes of the wire.                                   *)
(***************************************************************************)
Wired ==
  LET w == Concat(sent[1], sent[2])
  IN  sent # NoPair =>
        /\ phase \in {"vec", "java", "split", "thrown"}
        /\ phase = "vec" => wire = w
        /\ phase \in {"java", "split"} => NewJavaArray(w) = [ok |-> TRUE, bytes |-> wire]
        /\ phase = "thrown" => NewJavaArray(w) = [ok |-> FALSE]

Inv == Wired /\ (phase \in {"vec", "thrown"} => sent # NoPair) /\ SplitMeetsReference

(* The components of a pair on its way are strings of bytes. *)
LEMMA PairParts ==
  ASSUME TypeOK, sent # NoPair
  PROVE  /\ sent[1] \in Seq(Bytes) /\ sent[2] \in Seq(Bytes)
         /\ Len(sent[1]) \in Nat /\ Len(sent[2]) \in Nat
<1>1. sent[1] \in Seq(Bytes) /\ sent[2] \in Seq(Bytes)
  BY BufferAssumption DEF TypeOK
<1> QED
  BY <1>1, LenProperties

(* The invariant is inductive. *)
THEOREM Invariance == Spec => []Inv
<1>1. Init => Inv
  BY DEF Init, Inv, Wired, SplitMeetsReference
<1>2. TypeOK /\ Inv /\ [Next]_vars => Inv'
  <2> SUFFICES ASSUME TypeOK, Inv, [Next]_vars PROVE Inv'
    OBVIOUS
  <2> USE DEF Inv, Wired, SplitMeetsReference
  <2>1. ASSUME NEW a \in FirstBuffers, NEW b \in SecondBuffers, Encode(a, b) PROVE Inv'
    BY <2>1 DEF Encode, NoPair
  <2>2. ASSUME NEW w \in RawArrays, ReceiveRaw(w) PROVE Inv'
    BY <2>2 DEF ReceiveRaw
  <2>3. CASE HandOver
    <3>1. CASE /\ NewJavaArray(wire).ok
               /\ phase' = "java" /\ wire' = NewJavaArray(wire).bytes
      <4>1. NewJavaArray(wire) = [ok |-> TRUE, bytes |-> NewJavaArray(wire).bytes]
        BY <3>1 DEF NewJavaArray
      <4> QED
        BY <2>3, <3>1, <4>1 DEF HandOver
    <3>2. CASE ~NewJavaArray(wire).ok /\ phase' = "thrown"
      <4>1. NewJavaArray(wire) = [ok |-> FALSE]
        BY <3>2 DEF NewJavaArray
      <4> QED
        BY <2>3, <3>2, <4>1 DEF HandOver
    <3> QED
      BY <2>3, <3>1, <3>2 DEF HandOver
  <2>4. CASE Decode
    <3>1. Split(wire) = ReferenceSplit(wire)
      BY <2>4, DecodedAsReference DEF Decode, TypeOK
    <3> QED
      BY <2>4, <3>1 DEF Decode
  <2>5. CASE Forget
    BY <2>5 DEF Forget
  <2>6. CASE UNCHANGED vars
    BY <2>6 DEF vars
  <2> QED
    BY <2>1, <2>2, <2>3, <2>4, <2>5, <2>6 DEF Next
<1> QED
  BY <1>1, <1>2, TypeCorrect, PTL DEF Spec

(***************************************************************************)
(* splitTwoBuffers agrees with the unsigned reading of the documented      *)
(* format on every array it may be given.                                  *)
(***************************************************************************)
THEOREM DecoderMeetsFormat == Spec => []SplitMeetsReference
BY Invariance, PTL DEF Inv

(***************************************************************************)
(* A pair that fits a Java array comes out as it went in, and no pair that *)
(* is shorter than 2^32 is ever cut wrongly.                               *)
(***************************************************************************)
THEOREM CodecIsFaithful == Spec => [](RoundTrip /\ NoMisSplit)
<1>1. TypeOK /\ Inv => RoundTrip /\ NoMisSplit
  <2> SUFFICES ASSUME TypeOK, Inv, sent # NoPair, phase \in {"split", "thrown"}, Total < WordMod
               PROVE  /\ Total <= MaxInt => /\ phase = "split"
                                            /\ got = [ok |-> TRUE, first |-> sent[1],
                                                                    second |-> sent[2]]
                      /\ phase = "split" => Total <= MaxInt
    <3>1. MaxInt < WordMod /\ MaxInt \in Nat /\ WordMod \in Nat
      BY WordWidth
    <3>2. ASSUME TypeOK, sent # NoPair PROVE Total \in Nat
      <4> DEFINE m == Len(sent[1])
                 k == Len(sent[2])
      <4>1. m \in Nat /\ k \in Nat
        BY <3>2, PairParts
      <4>2. Total = 4 + m + k
        BY DEF Total, HeaderSize
      <4> HIDE DEF m, k
      <4> QED
        BY <4>1, <4>2
    <3> QED
      BY <3>1, <3>2 DEF RoundTrip, NoMisSplit
  <2> DEFINE w == Concat(sent[1], sent[2])
  <2>1. /\ sent[1] \in Seq(Bytes) /\ sent[2] \in Seq(Bytes)
        /\ Len(sent[1]) \in Nat /\ Len(sent[2]) \in Nat
        /\ Total = 4 + Len(sent[1]) + Len(sent[2])
    BY PairParts DEF Total, HeaderSize
  <2>2. w \in Seq(Bytes) /\ Len(w) = Total
    <3>1. WordMod \in Nat /\ Total < WordMod
      BY WordWidth
    <3>2. Len(sent[1]) < WordMod
      <4> DEFINE m == Len(sent[1])
                 k == Len(sent[2])
      <4>1. m \in Nat /\ k \in Nat /\ Total = 4 + m + k
        BY <2>1
      <4> HIDE DEF m, k
      <4>2. m < WordMod
        BY <3>1, <4>1
      <4> QED
        BY <4>2 DEF m
    <3>3. w \in Seq(Bytes) /\ Spells(w, sent[1], sent[2])
      BY <2>1, <3>2, ConcatElements
    <3>4. Len(w) = 4 + Len(sent[1]) + Len(sent[2])
      BY <3>3 DEF Spells
    <3> QED
      BY <2>1, <3>3, <3>4
  <2>3. NewJavaArray(w) = IF Total <= MaxInt THEN [ok |-> TRUE, bytes |-> w] ELSE [ok |-> FALSE]
    BY <2>2, HandedOver
  <2>4. /\ phase = "split" => NewJavaArray(w) = [ok |-> TRUE, bytes |-> wire]
        /\ phase = "thrown" => NewJavaArray(w) = [ok |-> FALSE]
    BY DEF Inv, Wired
  <2>5. /\ phase = "split" => Total <= MaxInt /\ wire = w
        /\ phase = "thrown" => ~(Total <= MaxInt)
    BY <2>3, <2>4
  <2>6. phase = "split" => got = Split(w)
    <3>1. ASSUME phase = "split" PROVE got = Split(wire)
      BY <3>1, DecodedAsReference DEF Inv, SplitMeetsReference, TypeOK
    <3> QED
      BY <2>5, <3>1
  <2>7. Total <= MaxInt => Split(w) = [ok |-> TRUE, first |-> sent[1], second |-> sent[2]]
    BY <2>1, SplitOfConcat DEF HeaderSize
  <2> QED
    BY <2>5, <2>6, <2>7
<1> QED
  BY <1>1, TypeCorrect, Invariance, PTL

(* A pair that fits a Java array comes out of splitTwoBuffers as it went   *)
(* into two_buffers_to_concat (lib.rs 717-744, OnymJni.kt 199-219).        *)
THEOREM PairsComeBack == Spec => []RoundTrip
BY CodecIsFaithful, PTL
============================================================================
