------------------------- MODULE TwoBuffers_proofs -------------------------
(***************************************************************************)
(* What the codec does to a buffer of any length, for every width of a     *)
(* byte: for Base = 256, so for the u32 and the Int of the code.  Only the *)
(* header is made of bytes; a buffer is a sequence of anything.            *)
(***************************************************************************)
EXTENDS TwoBuffers, SequenceTheorems, TLAPS

---------------------------------------------------------------------------
(* Arithmetic. *)

(* Euclidean division by a positive number. *)
LEMMA DivMod ==
  ASSUME NEW n \in Int, NEW w \in Nat, w > 0
  PROVE  /\ n \div w \in Int /\ n % w \in 0 .. w - 1
         /\ n = w * (n \div w) + (n % w)
OBVIOUS

(* A positive multiple of w is at least w. *)
LEMMA MultipleAbove == ASSUME NEW w \in Nat, NEW q \in Int, q >= 1 PROVE w * q >= w
OBVIOUS

(* A negative multiple of w is at most -w. *)
LEMMA MultipleBelow == ASSUME NEW w \in Nat, NEW q \in Int, q <= -1 PROVE w * q <= -w
OBVIOUS

(* Quotient and remainder are unique. *)
LEMMA DivModUnique ==
  ASSUME NEW w \in Nat, w > 0, NEW n \in Int,
         NEW q \in Int, NEW r \in 0 .. w - 1, n = w * q + r
  PROVE  n % w = r /\ n \div w = q
<1> DEFINE d == n \div w
           m == n % w
<1>1. d \in Int /\ m \in 0 .. w - 1 /\ n = w * d + m
  BY DivMod
<1>2. w * d - w * q = w * (d - q)
  BY <1>1
<1>3. r - m = w * (d - q)
  BY <1>1, <1>2
<1>4. d - q < 1
  BY <1>1, <1>3, MultipleAbove
<1>5. d - q > -1
  BY <1>1, <1>3, MultipleBelow
<1>6. d = q
  BY <1>1, <1>4, <1>5
<1> QED
  BY <1>1, <1>6

(* The width of a word: even, and wide enough for a header. *)
LEMMA WordWidth ==
  /\ Base \in Nat /\ Base >= 2
  /\ WordMod \in Nat /\ MaxInt \in Nat /\ MaxInt >= 7
  /\ WordMod = 2 * MaxInt + 2
<1>1. Base \in Nat /\ Base >= 2
  BY BaseAssumption
<1>2. PICK k \in Nat : Base = 2 * k
  BY <1>1, DivMod, BaseAssumption
<1> DEFINE b3 == Base * Base * Base
<1>3. b3 \in Nat /\ b3 >= 8
  <2>1. Base * Base \in Nat /\ Base * Base >= 4
    BY <1>1
  <2> QED
    BY <1>1, <2>1
<1>4. WordMod = b3 * Base
  BY <1>1 DEF WordMod
<1>5. WordMod \in Nat /\ WordMod >= 16
  BY <1>1, <1>3, <1>4
<1>6. k * b3 \in Nat /\ WordMod = 2 * (k * b3) + 0
  BY <1>1, <1>2, <1>3, <1>4
<1>7. WordMod \div 2 = k * b3
  BY <1>5, <1>6, DivModUnique
<1> QED
  BY <1>1, <1>5, <1>6, <1>7 DEF MaxInt

(* What wrapping to 32 bits does to a number less than one wrap away. *)
LEMMA Int32Cases ==
  ASSUME NEW n \in Int
  PROVE  /\ n \in Ints => ToInt32(n) = n
         /\ n \in MaxInt + 1 .. MaxInt + WordMod => ToInt32(n) = n - WordMod
         /\ n \in -(MaxInt + 1) - WordMod .. -(MaxInt + 2) => ToInt32(n) = n + WordMod
<1> DEFINE h == MaxInt + 1
           r == n + MaxInt + 1
<1>1. WordMod \in Nat /\ MaxInt \in Nat /\ WordMod = 2 * h /\ WordMod > 0
  BY WordWidth
<1>2. ToInt32(n) = (r % WordMod) - h
  BY DEF ToInt32
<1>3. ASSUME n \in Ints PROVE r % WordMod = r
  <2>1. r \in 0 .. WordMod - 1 /\ r = WordMod * 0 + r
    BY <1>1, <1>3 DEF Ints
  <2> QED
    BY <1>1, <2>1, DivModUnique
<1>4. ASSUME n \in MaxInt + 1 .. MaxInt + WordMod PROVE r % WordMod = r - WordMod
  <2>1. r - WordMod \in 0 .. WordMod - 1 /\ r = WordMod * 1 + (r - WordMod)
    BY <1>1, <1>4
  <2> QED
    BY <1>1, <2>1, DivModUnique
<1>5. ASSUME n \in -(MaxInt + 1) - WordMod .. -(MaxInt + 2) PROVE r % WordMod = r + WordMod
  <2>1. r + WordMod \in 0 .. WordMod - 1 /\ r = WordMod * (-1) + (r + WordMod)
    BY <1>1, <1>5
  <2> QED
    BY <1>1, <2>1, DivModUnique
<1> QED
  BY <1>1, <1>2, <1>3, <1>4, <1>5 DEF Ints

(* The cast of a length is an Int no greater than the length. *)
LEMMA Int32Bounds ==
  ASSUME NEW n \in Nat
  PROVE  ToInt32(n) \in Ints /\ ToInt32(n) <= n
<1> DEFINE h == MaxInt + 1
           m == n + MaxInt + 1
           r == m % WordMod
           d == m \div WordMod
<1>1. WordMod \in Nat /\ WordMod > 0 /\ h \in Nat /\ WordMod = 2 * h /\ MaxInt \in Nat
  BY WordWidth
<1>2. m \in Int /\ m >= 0
  BY <1>1
<1> HIDE DEF m
<1>3. r \in 0 .. WordMod - 1 /\ d \in Int /\ m = WordMod * d + r
  BY <1>1, <1>2, DivMod
<1> HIDE DEF r, d
<1>4. WordMod * d \in Int /\ WordMod * d >= 0
  <2>1. d <= -1 => WordMod * d <= -WordMod
    BY <1>1, <1>3, MultipleBelow
  <2>2. d = 0 => WordMod * d = 0
    BY <1>1
  <2>3. d >= 1 => WordMod * d >= WordMod
    BY <1>1, <1>3, MultipleAbove
  <2>4. WordMod * d \in Int
    BY <1>1, <1>3
  <2>5. ~(d <= -1)
    BY <1>1, <1>2, <1>3, <2>1, <2>4
  <2> QED
    BY <1>1, <1>3, <2>2, <2>3, <2>4, <2>5
<1>5. ToInt32(n) = r - h
  BY <1>1 DEF ToInt32, r, m
<1>6. r <= n + h
  BY <1>1, <1>3, <1>4 DEF m
<1> QED
  BY <1>1, <1>3, <1>5, <1>6 DEF Ints

---------------------------------------------------------------------------
(* The header. *)

(* Four bytes spell a word. *)
LEMMA HeaderIsWord ==
  ASSUME NEW w, w[1] \in Bytes, w[2] \in Bytes, w[3] \in Bytes, w[4] \in Bytes
  PROVE  FromBeBytes(w) \in Words
<1> DEFINE h2 == w[1] * Base + w[2]
           h3 == h2 * Base + w[3]
           B2 == Base * Base
           B3 == B2 * Base
<1>1. Base \in Nat /\ Base >= 2
  BY WordWidth
<1>2. ASSUME NEW m \in Nat, NEW h \in 0 .. m - 1, NEW d \in Bytes
      PROVE  h * Base + d \in 0 .. (m * Base) - 1
  <2>1. (h + 1) * Base <= m * Base
    BY <1>1, <1>2
  <2> QED
    BY <1>1, <1>2, <2>1 DEF Bytes
<1>3. h2 \in 0 .. B2 - 1 /\ B2 \in Nat
  BY <1>1, <1>2 DEF Bytes
<1>4. h3 \in 0 .. B3 - 1 /\ B3 \in Nat
  BY <1>1, <1>2, <1>3
<1>5. h3 * Base + w[4] \in 0 .. (B3 * Base) - 1
  BY <1>1, <1>2, <1>4
<1> QED
  BY <1>5 DEF FromBeBytes, Words, WordMod

(* to_be_bytes and the shifts of splitTwoBuffers are inverse on a word. *)
LEMMA HeaderRoundTrip ==
  ASSUME NEW n \in Words
  PROVE  /\ ToBeBytes(n) \in Seq(Bytes) /\ Len(ToBeBytes(n)) = 4
         /\ FromBeBytes(ToBeBytes(n)) = n
<1> DEFINE q1 == n \div Base
           q2 == q1 \div Base
           q3 == q2 \div Base
<1>1. Base \in Nat /\ Base >= 2
  BY WordWidth
<1>2. n \in Int /\ n >= 0 /\ n < ((Base * Base) * Base) * Base
  BY <1>1, WordWidth DEF Words, WordMod
<1>3. ASSUME NEW m \in Nat, NEW u \in Int, u >= 0, u < m * Base
      PROVE  /\ u \div Base \in Int /\ u \div Base >= 0 /\ u \div Base < m
             /\ u % Base \in Bytes /\ u = (u \div Base) * Base + (u % Base)
  <2> DEFINE d == u \div Base
  <2>1. d \in Int /\ u % Base \in Bytes /\ u = d * Base + (u % Base)
    BY <1>1, DivMod DEF Bytes
  <2>2. ~(d <= -1)
    <3>1. ASSUME d <= -1 PROVE Base * d <= -Base
      BY <1>1, <2>1, <3>1, MultipleBelow
    <3> QED
      BY <1>1, <1>3, <2>1, <3>1 DEF Bytes
  <2>3. ~(d >= m)
    <3>1. ASSUME d >= m PROVE d * Base >= m * Base
      BY <1>1, <2>1, <3>1
    <3> QED
      BY <1>1, <1>3, <2>1, <3>1 DEF Bytes
  <2> QED
    BY <2>1, <2>2, <2>3
<1>4. Base * Base \in Nat /\ (Base * Base) * Base \in Nat
  BY <1>1
<1>5. /\ q1 \in Int /\ q1 >= 0 /\ q1 < (Base * Base) * Base
      /\ n % Base \in Bytes /\ n = q1 * Base + (n % Base)
  BY <1>2, <1>3, <1>4
<1>6. /\ q2 \in Int /\ q2 >= 0 /\ q2 < Base * Base
      /\ q1 % Base \in Bytes /\ q1 = q2 * Base + (q1 % Base)
  BY <1>3, <1>4, <1>5
<1>7. /\ q3 \in Int /\ q3 >= 0 /\ q3 < Base
      /\ q2 % Base \in Bytes /\ q2 = q3 * Base + (q2 % Base)
  BY <1>1, <1>3, <1>6
<1>8. q3 % Base = q3 /\ q3 \in Bytes
  <2>1. q3 \in 0 .. Base - 1 /\ q3 = Base * 0 + q3
    BY <1>1, <1>7
  <2> QED
    BY <1>1, <2>1, DivModUnique DEF Bytes
<1>9. ToBeBytes(n) = << q3, q2 % Base, q1 % Base, n % Base >>
  BY <1>8 DEF ToBeBytes
<1> QED
  BY <1>5, <1>6, <1>7, <1>8, <1>9 DEF FromBeBytes

---------------------------------------------------------------------------
(* Sequences. *)

(* A slice of a buffer as the function the JVM's copy computes. *)
LEMMA Slice ==
  ASSUME NEW S, NEW s \in Seq(S), NEW from \in Nat, NEW to \in Nat, from <= to, to <= Len(s)
  PROVE  /\ SubSeq(s, from + 1, to) \in Seq(S)
         /\ Len(SubSeq(s, from + 1, to)) = to - from
         /\ SubSeq(s, from + 1, to) = [i \in 1 .. to - from |-> s[from + i]]
<1>1. \A i \in from + 1 .. to : s[i] \in S
  BY LenProperties
<1>2. /\ SubSeq(s, from + 1, to) \in Seq(S)
      /\ Len(SubSeq(s, from + 1, to)) = IF from + 1 <= to THEN to - (from + 1) + 1 ELSE 0
      /\ \A i \in 1 .. to - (from + 1) + 1 : SubSeq(s, from + 1, to)[i] = s[(from + 1) + i - 1]
  BY <1>1, SubSeqProperties
<1>3. Len(SubSeq(s, from + 1, to)) = to - from
  BY <1>2
<1>4. \A i \in 1 .. to - from : SubSeq(s, from + 1, to)[i] = s[from + i]
  BY <1>2
<1>5. SubSeq(s, from + 1, to) \in [1 .. to - from -> S]
  BY <1>2, <1>3, LenProperties
<1> QED
  BY <1>2, <1>3, <1>4, <1>5

(* What a concat of two buffers looks like, element by element. *)
Spells(w, a, b) ==
  /\ Len(w) = 4 + Len(a) + Len(b)
  /\ FromBeBytes(w) = Len(a) /\ \A i \in 1 .. 4 : w[i] \in Bytes
  /\ \A i \in 1 .. Len(a) : w[4 + i] = a[i]
  /\ \A i \in 1 .. Len(b) : w[(4 + Len(a)) + i] = b[i]

(* And what two_buffers_to_concat makes looks so. *)
LEMMA ConcatElements ==
  ASSUME NEW S, Bytes \subseteq S, NEW a \in Seq(S), NEW b \in Seq(S), Len(a) < WordMod
  PROVE  Concat(a, b) \in Seq(S) /\ Spells(Concat(a, b), a, b)
<1> SUFFICES ASSUME NEW w, w = Concat(a, b) PROVE w \in Seq(S) /\ Spells(w, a, b)
  OBVIOUS
<1> DEFINE h == ToBeBytes(Len(a))
<1>1. Len(a) \in Nat /\ Len(b) \in Nat /\ Len(a) \in Words
  BY LenProperties, WordWidth DEF Words
<1>2. ToU32(Len(a)) = Len(a)
  <2>1. Len(a) \in 0 .. WordMod - 1 /\ Len(a) = WordMod * 0 + Len(a)
    BY <1>1, WordWidth DEF Words
  <2> QED
    BY <1>1, <2>1, WordWidth, DivModUnique DEF ToU32
<1>3. w = (h \o a) \o b
  BY <1>2 DEF Concat
<1>4. /\ h \in Seq(S) /\ Len(h) = 4 /\ FromBeBytes(h) = Len(a)
      /\ \A i \in 1 .. 4 : h[i] \in Bytes
  <2>1. h \in Seq(Bytes) /\ Len(h) = 4 /\ FromBeBytes(h) = Len(a)
    BY <1>1, HeaderRoundTrip
  <2> HIDE DEF h
  <2>2. \A i \in 1 .. 4 : h[i] \in Bytes
    BY <2>1, LenProperties
  <2> QED
    BY <2>1, <2>2, SeqMonotonic
<1> HIDE DEF h
<1>5. /\ h \o a \in Seq(S) /\ Len(h \o a) = 4 + Len(a)
      /\ \A i \in 1 .. 4 + Len(a) : (h \o a)[i] = IF i <= 4 THEN h[i] ELSE a[i - 4]
  <2>1. /\ h \o a \in Seq(S) /\ Len(h \o a) = Len(h) + Len(a)
        /\ \A i \in 1 .. Len(h) + Len(a) :
             (h \o a)[i] = IF i <= Len(h) THEN h[i] ELSE a[i - Len(h)]
    BY <1>4, ConcatProperties
  <2> QED
    BY <1>4, <2>1
<1> DEFINE ha == h \o a
<1>6. /\ w \in Seq(S) /\ Len(w) = 4 + Len(a) + Len(b)
      /\ \A i \in 1 .. 4 + Len(a) + Len(b) :
           w[i] = IF i <= 4 + Len(a) THEN ha[i] ELSE b[i - (4 + Len(a))]
  <2>1. ha \in Seq(S) /\ Len(ha) = 4 + Len(a)
    BY <1>5
  <2> HIDE DEF ha
  <2>2. ha \in Seq(S)
    BY <2>1
  <2>4. /\ ha \o b \in Seq(S) /\ Len(ha \o b) = Len(ha) + Len(b)
        /\ \A i \in 1 .. Len(ha) + Len(b) :
             (ha \o b)[i] = IF i <= Len(ha) THEN ha[i] ELSE b[i - Len(ha)]
    BY ONLY b \in Seq(S), <2>2, ConcatProperties
  <2>3. w = ha \o b
    BY <1>3 DEF ha
  <2> QED
    BY <2>1, <2>3, <2>4
<1>7. w[1] = h[1] /\ w[2] = h[2] /\ w[3] = h[3] /\ w[4] = h[4]
  BY <1>1, <1>5, <1>6
<1>8. FromBeBytes(w) = Len(a) /\ \A i \in 1 .. 4 : w[i] \in Bytes
  BY <1>4, <1>7 DEF FromBeBytes
<1>9. \A i \in 1 .. Len(a) : w[4 + i] = a[i]
  BY <1>1, <1>5, <1>6
<1>10. ASSUME NEW i \in 1 .. Len(b) PROVE w[(4 + Len(a)) + i] = b[i]
  <2>1. /\ (4 + Len(a)) + i \in 1 .. 4 + Len(a) + Len(b) /\ ~((4 + Len(a)) + i <= 4 + Len(a))
        /\ ((4 + Len(a)) + i) - (4 + Len(a)) = i
    BY <1>1
  <2> QED
    BY <1>6, <2>1
<1> QED
  BY <1>6, <1>8, <1>9, <1>10 DEF Spells

(* What the reference reads in the concat of two buffers: the buffers. *)
LEMMA ConcatRead ==
  ASSUME NEW S, Bytes \subseteq S, NEW a \in Seq(S), NEW b \in Seq(S), Len(a) < WordMod
  PROVE  ReferenceSplit(Concat(a, b)) = [ok |-> TRUE, first |-> a, second |-> b]
<1> SUFFICES ASSUME NEW w, w = Concat(a, b)
             PROVE  ReferenceSplit(w) = [ok |-> TRUE, first |-> a, second |-> b]
  OBVIOUS
<1>1. Len(a) \in Nat /\ Len(b) \in Nat
  BY LenProperties
<1>2. w \in Seq(S) /\ Spells(w, a, b)
  BY ConcatElements
<1>3. /\ Len(w) = 4 + Len(a) + Len(b) /\ FromBeBytes(w) = Len(a)
      /\ \A i \in 1 .. Len(a) : w[4 + i] = a[i]
      /\ \A i \in 1 .. Len(b) : w[(4 + Len(a)) + i] = b[i]
  BY <1>2 DEF Spells
<1>4. SubSeq(w, 4 + 1, 4 + Len(a)) = a
  <2>1. SubSeq(w, 4 + 1, 4 + Len(a)) = [i \in 1 .. (4 + Len(a)) - 4 |-> w[4 + i]]
    BY <1>1, <1>2, <1>3, Slice
  <2>2. (4 + Len(a)) - 4 = Len(a)
    BY <1>1
  <2>3. a = [i \in 1 .. Len(a) |-> a[i]]
    BY LenProperties
  <2> QED
    BY <1>3, <2>1, <2>2, <2>3
<1>5. SubSeq(w, 4 + Len(a) + 1, Len(w)) = b
  <2> DEFINE c == 4 + Len(a)
  <2>1. SubSeq(w, c + 1, Len(w)) = [i \in 1 .. Len(w) - c |-> w[c + i]]
    BY <1>1, <1>2, <1>3, Slice
  <2>2. Len(w) - c = Len(b)
    BY <1>1, <1>3
  <2>3. b = [i \in 1 .. Len(b) |-> b[i]]
    BY LenProperties
  <2> QED
    BY <1>3, <2>1, <2>2, <2>3
<1>6. ~(Len(w) < 4 \/ Len(a) > Len(w) - 4)
  BY <1>1, <1>3
<1>7. ReferenceSplit(w) =
        IF Len(w) < 4 \/ Len(a) > Len(w) - 4
        THEN [ok |-> FALSE]
        ELSE [ok |-> TRUE, first  |-> SubSeq(w, 4 + 1, 4 + Len(a)),
                           second |-> SubSeq(w, (4 + Len(a)) + 1, Len(w))]
  BY <1>3 DEF ReferenceSplit, HeaderSize
<1> QED
  BY <1>4, <1>5, <1>6, <1>7

---------------------------------------------------------------------------
(* The decoder. *)

(* splitTwoBuffers, with all its wrapping, is the unsigned reading of the  *)
(* format on every array a JVM can hold.                                   *)
THEOREM SplitIsReference ==
  ASSUME NEW S, NEW w \in Seq(S), Len(w) <= MaxInt,
         Len(w) >= HeaderSize => \A i \in 1 .. 4 : w[i] \in Bytes
  PROVE  Split(w) = ReferenceSplit(w)
<1> DEFINE u == FromBeBytes(w)
           n == Len(w)
           cut == ToInt32(HeaderSize + DecodedLength(w))
           first == CopyOfRange(w, HeaderSize, cut)
           second == CopyOfRange(w, cut, n)
<1>1. /\ MaxInt \in Nat /\ MaxInt >= 7 /\ WordMod \in Nat /\ WordMod = 2 * MaxInt + 2
      /\ n \in Nat /\ n <= MaxInt /\ HeaderSize = 4
  BY WordWidth, LenProperties DEF HeaderSize
<1>2. CASE n < HeaderSize
  BY <1>2 DEF Split, ReferenceSplit
<1>3. CASE ~(n < HeaderSize)
  <2>1. u \in 0 .. WordMod - 1
    <3>1. \A i \in 1 .. 4 : w[i] \in Bytes
      BY <1>1, <1>3, LenProperties
    <3> QED
      BY <3>1, HeaderIsWord DEF Words
  <2>2. /\ Split(w) = IF ~(cut <= n) \/ ~(first.ok /\ second.ok) THEN [ok |-> FALSE]
                      ELSE [ok |-> TRUE, first |-> first.bytes, second |-> second.bytes]
        /\ ReferenceSplit(w) =
             IF u > n - 4 THEN [ok |-> FALSE]
             ELSE [ok |-> TRUE, first |-> SubSeq(w, 4 + 1, 4 + u),
                                second |-> SubSeq(w, 4 + u + 1, n)]
    BY <1>1, <1>3 DEF Split, ReferenceSplit, Fits
  <2>3. DecodedLength(w) = ToInt32(u)
    BY DEF DecodedLength
  <2> HIDE DEF u, n, cut, first, second
  <2>4. CASE u + 4 <= MaxInt
    <3>1. cut = 4 + u /\ cut \in Nat
      <4>1. u \in Ints /\ 4 + u \in Ints
        BY <1>1, <2>1, <2>4 DEF Ints
      <4> QED
        BY <1>1, <2>1, <2>3, <4>1, Int32Cases DEF cut
    <3>2. CASE u > n - 4
      BY <1>1, <2>1, <2>2, <3>1, <3>2
    <3>3. CASE ~(u > n - 4)
      <4>1. ToInt32(cut - 4) = u /\ ToInt32(n - cut) = n - cut
        <5>1. cut - 4 \in Ints /\ n - cut \in Ints
          BY <1>1, <2>1, <2>4, <3>1, <3>3 DEF Ints
        <5> QED
          BY <1>1, <2>1, <3>1, <5>1, Int32Cases
      <4>2. first = [ok |-> TRUE, bytes |-> [i \in 1 .. u |-> w[4 + i]]]
        <5>1. first = [ok |-> TRUE, bytes |-> [i \in 1 .. u |-> IF 4 + i <= n THEN w[4 + i] ELSE 0]]
          <6>1. ~(cut > n \/ u < 0 \/ 4 < 0 \/ 4 > n)
            BY <1>1, <1>3, <2>1, <3>1, <3>3
          <6>2. first = IF cut > n \/ u < 0 \/ 4 < 0 \/ 4 > n THEN [ok |-> FALSE]
                        ELSE [ok |-> TRUE,
                              bytes |-> [i \in 1 .. u |-> IF 4 + i <= n THEN w[4 + i] ELSE 0]]
            BY <1>1, <4>1 DEF first, CopyOfRange, n
          <6> QED
            BY <6>1, <6>2
        <5>2. \A i \in 1 .. u : 4 + i <= n
          BY <1>1, <2>1, <3>3
        <5> QED
          BY <5>1, <5>2
      <4>3. second = [ok |-> TRUE, bytes |-> [i \in 1 .. n - cut |-> w[cut + i]]]
        <5>1. second = [ok |-> TRUE, bytes |->
                          [i \in 1 .. n - cut |-> IF cut + i <= n THEN w[cut + i] ELSE 0]]
          <6>1. ~(n > n \/ n - cut < 0 \/ cut < 0 \/ cut > n)
            BY <1>1, <2>1, <3>1, <3>3
          <6>2. second = IF n > n \/ n - cut < 0 \/ cut < 0 \/ cut > n THEN [ok |-> FALSE]
                         ELSE [ok |-> TRUE, bytes |->
                                 [i \in 1 .. n - cut |-> IF cut + i <= n THEN w[cut + i] ELSE 0]]
            BY <4>1 DEF second, CopyOfRange, n
          <6> QED
            BY <6>1, <6>2
        <5>2. \A i \in 1 .. n - cut : cut + i <= n
          BY <1>1, <3>1
        <5> QED
          BY <5>1, <5>2
      <4>4. SubSeq(w, 4 + 1, cut) = [i \in 1 .. u |-> w[4 + i]]
        <5>1. SubSeq(w, 4 + 1, cut) = [i \in 1 .. cut - 4 |-> w[4 + i]]
          BY <1>1, <2>1, <3>1, <3>3, Slice DEF n
        <5> QED
          BY <2>1, <3>1, <5>1
      <4>5. SubSeq(w, cut + 1, n) = [i \in 1 .. n - cut |-> w[cut + i]]
        BY <1>1, <2>1, <3>1, <3>3, Slice DEF n
      <4>6. cut <= n
        BY <1>1, <2>1, <3>1, <3>3
      <4> QED
        BY <2>2, <3>1, <3>3, <4>2, <4>3, <4>4, <4>5, <4>6
    <3> QED
      BY <3>2, <3>3
  <2>5. CASE u + 4 > MaxInt /\ u <= MaxInt
    <3>1. cut = 4 + u - WordMod
      <4>1. u \in Ints /\ 4 + u \in MaxInt + 1 .. MaxInt + WordMod
        BY <1>1, <2>1, <2>5 DEF Ints
      <4> QED
        BY <1>1, <2>1, <2>3, <4>1, Int32Cases DEF cut
    <3>2. second = [ok |-> FALSE]
      BY <1>1, <2>1, <2>5, <3>1 DEF second, CopyOfRange
    <3> QED
      BY <1>1, <2>1, <2>2, <2>5, <3>2
  <2>6. CASE u > MaxInt
    <3>1. cut = 4 + (u - WordMod)
      <4>1. u \in MaxInt + 1 .. MaxInt + WordMod /\ 4 + (u - WordMod) \in Ints
        BY <1>1, <2>1, <2>6 DEF Ints
      <4> QED
        BY <1>1, <2>1, <2>3, <4>1, Int32Cases DEF cut
    <3>2. cut - 4 \in Ints /\ cut - 4 < 0
      BY <1>1, <2>1, <2>6, <3>1 DEF Ints
    <3>3. ToInt32(cut - 4) < 0
      BY <3>2, Int32Cases DEF Ints
    <3>4. first = [ok |-> FALSE]
      BY <1>1, <3>3 DEF first, CopyOfRange
    <3> QED
      BY <1>1, <2>1, <2>2, <2>6, <3>4
  <2> QED
    BY <1>1, <2>1, <2>4, <2>5, <2>6
<1> QED
  BY <1>2, <1>3

(* What NewJavaArray makes of a concat shorter than 2^32: the array, or,   *)
(* past Int.MAX_VALUE, nothing.                                            *)
LEMMA HandedOver ==
  ASSUME NEW S, NEW w \in Seq(S), Len(w) < WordMod
  PROVE  NewJavaArray(w) = IF Len(w) <= MaxInt THEN [ok |-> TRUE, bytes |-> w]
                           ELSE [ok |-> FALSE]
<1>1. Len(w) \in Nat /\ MaxInt \in Nat /\ WordMod = 2 * MaxInt + 2
  BY LenProperties, WordWidth
<1> DEFINE n == ToInt32(Len(w))
<1>2. NewJavaArray(w) = IF n < 0 THEN [ok |-> FALSE] ELSE [ok |-> TRUE, bytes |-> SubSeq(w, 1, n)]
  BY DEF NewJavaArray
<1>3. CASE Len(w) <= MaxInt
  <2>1. n = Len(w)
    BY <1>1, <1>3, Int32Cases DEF Ints
  <2> HIDE DEF n
  <2>2. SubSeq(w, 1, Len(w)) = w
    BY SubSeqFull
  <2>3. ~(n < 0)
    BY <1>1, <2>1
  <2>4. NewJavaArray(w) = [ok |-> TRUE, bytes |-> w]
    BY <1>2, <2>1, <2>2, <2>3
  <2> QED
    BY <1>3, <2>4
<1>4. CASE ~(Len(w) <= MaxInt)
  <2>1. n = Len(w) - WordMod
    BY <1>1, <1>4, Int32Cases
  <2> HIDE DEF n
  <2>2. n < 0
    BY <1>1, <2>1
  <2>3. NewJavaArray(w) = [ok |-> FALSE]
    BY <1>2, <2>2
  <2> QED
    BY <1>4, <2>3
<1> QED
  BY <1>3, <1>4

(* Splitting the array made of a pair that fits one gives the pair. *)
LEMMA SplitOfConcat ==
  ASSUME NEW S, Bytes \subseteq S, NEW a \in Seq(S), NEW b \in Seq(S),
         HeaderSize + Len(a) + Len(b) <= MaxInt
  PROVE  Split(Concat(a, b)) = [ok |-> TRUE, first |-> a, second |-> b]
<1> SUFFICES ASSUME NEW w, w = Concat(a, b)
             PROVE  Split(w) = [ok |-> TRUE, first |-> a, second |-> b]
  OBVIOUS
<1>1. /\ Len(a) \in Nat /\ Len(b) \in Nat /\ HeaderSize = 4
      /\ MaxInt \in Nat /\ WordMod = 2 * MaxInt + 2
  BY LenProperties, WordWidth DEF HeaderSize
<1>2. Len(a) < WordMod
  BY <1>1
<1>3. /\ w \in Seq(S) /\ Len(w) = 4 + Len(a) + Len(b)
      /\ \A i \in 1 .. 4 : w[i] \in Bytes
  <2>1. w \in Seq(S) /\ Spells(w, a, b)
    BY <1>2, ConcatElements
  <2> QED
    BY <2>1 DEF Spells
<1>4. Split(w) = ReferenceSplit(w)
  BY <1>1, <1>3, SplitIsReference
<1>5. ReferenceSplit(Concat(a, b)) = [ok |-> TRUE, first |-> a, second |-> b]
  BY <1>2, ConcatRead
<1> QED
  BY <1>4, <1>5
============================================================================
