----------------------------- MODULE WireProofs -----------------------------
(* Proofs about WireFormat, for every width, limit, digest and value. *)
EXTENDS WireFormat, SequenceTheorems, WellFoundedInduction, TLAPS

(***************************************************************************)
(* Recursion over the numbers up to a bound.                               *)
(***************************************************************************)
\* The least-number principle, for a set.
LEMMA NatLeast ==
  ASSUME NEW T \in SUBSET Nat, T # {}
  PROVE  \E n \in T : \A k \in T : n <= k
<1>1. PICK n \in T : \A k \in T : ~ (<<k, n>> \in OpToRel(<, Nat))
  BY NatLessThanWellFounded, WFMin
<1>2. \A k \in T : ~ (k < n)
  BY <1>1 DEF OpToRel
<1> QED BY <1>2

\* Induction, for a set of numbers.
LEMMA NatSetInduction ==
  ASSUME NEW Q, 0 \in Q, \A n \in Nat : n \in Q => n + 1 \in Q
  PROVE  \A n \in Nat : n \in Q
<1>1. SUFFICES ASSUME Nat \ Q # {} PROVE FALSE
  OBVIOUS
<1>2. PICK n \in Nat \ Q : \A k \in Nat \ Q : n <= k
  BY <1>1, NatLeast
<1>3. n - 1 \in Nat /\ n - 1 \in Q /\ n = (n - 1) + 1
  BY <1>2
<1> QED BY <1>2, <1>3

\* Induction up to a bound.
LEMMA UpTo ==
  ASSUME NEW n \in Nat, NEW Q, 0 \in Q, \A i \in 1 .. n : i - 1 \in Q => i \in Q
  PROVE  \A i \in 0 .. n : i \in Q
<1> DEFINE R == {i \in Nat : i <= n => i \in Q}
<1>1. 0 \in R
  OBVIOUS
<1>2. ASSUME NEW i \in Nat, i \in R PROVE i + 1 \in R
  <2>1. SUFFICES ASSUME i + 1 <= n PROVE i + 1 \in Q
    OBVIOUS
  <2>2. i \in Q /\ i + 1 \in 1 .. n /\ (i + 1) - 1 = i
    BY <1>2, <2>1
  <2> QED BY <2>2
<1> HIDE DEF R
<1>3. \A i \in Nat : i \in R
  BY <1>1, <1>2, NatSetInduction
<1> QED BY <1>3 DEF R

Steps(n, V) == [1 .. n -> [V -> V]]
Iterated(n, V, v, step) ==
  \E f \in [0 .. n -> V] : f[0] = v /\ \A i \in 1 .. n : f[i] = step[i][f[i - 1]]

\* A function that is given its first value, and each further one from the last, exists.
LEMMA Iterates ==
  ASSUME NEW n \in Nat, NEW V, NEW v \in V, NEW step \in Steps(n, V)
  PROVE  Iterated(n, V, v, step)
<1> DEFINE Good(k, f) == f[0] = v /\ \A i \in 1 .. k : f[i] = step[i][f[i - 1]]
           Q == {k \in 0 .. n : \E f \in [0 .. n -> V] : Good(k, f)}
<1>0. step \in [1 .. n -> [V -> V]]
  BY DEF Steps
<1>1. 0 \in Q
  <2> DEFINE f == [i \in 0 .. n |-> v]
  <2>1. f \in [0 .. n -> V] /\ Good(0, f)
    OBVIOUS
  <2> HIDE DEF f, Good
  <2> QED BY <2>1
<1>2. ASSUME NEW k \in 1 .. n, k - 1 \in Q PROVE k \in Q
  <2>1. PICK f \in [0 .. n -> V] : Good(k - 1, f)
    BY <1>2
  <2> DEFINE g == [f EXCEPT ![k] = step[k][f[k - 1]]]
  <2>2. step[k][f[k - 1]] \in V
    BY <1>0
  <2>3. g \in [0 .. n -> V] /\ g[k] = step[k][f[k - 1]] /\ \A i \in 0 .. n : i # k => g[i] = f[i]
    BY <2>2
  <2> HIDE DEF g
  <2>4. g[0] = v
    BY <2>1, <2>3
  <2>5. ASSUME NEW i \in 1 .. k PROVE g[i] = step[i][g[i - 1]]
    <3>1. g[i - 1] = f[i - 1]
      BY <2>3
    <3>2. CASE i = k
      BY <2>3, <3>1, <3>2
    <3>3. CASE i # k
      <4>1. i \in 1 .. (k - 1) /\ g[i] = f[i]
        BY <2>3, <3>3
      <4> QED BY <2>1, <3>1, <4>1
    <3> QED BY <3>2, <3>3
  <2>6. Good(k, g)
    BY <2>4, <2>5
  <2> HIDE DEF Good
  <2> QED BY <2>3, <2>6
<1> HIDE DEF Q
<1>3. \A k \in 0 .. n : k \in Q
  BY <1>1, <1>2, UpTo
<1>4. n \in Q
  BY <1>3
<1> QED BY <1>4 DEF Q, Iterated

(***************************************************************************)
(* Integers and their bytes.                                               *)
(***************************************************************************)
B == ByteMax + 1

LEMMA Base == B \in Nat /\ B >= 4 /\ Byte = 0 .. (B - 1)
BY WireAssumption DEF B, Byte

\* The quotient and the rest of a division by the number of bytes.
LEMMA Divides ==
  ASSUME NEW x \in Nat
  PROVE  /\ x \div B \in Nat /\ x % B \in Byte
         /\ (x % B) + B * (x \div B) = x
BY Base

LEMMA Recomposes ==
  ASSUME NEW q \in Nat, NEW r \in Byte
  PROVE  (r + B * q) \div B = q /\ (r + B * q) % B = r /\ r + B * q \in Nat
BY Base

\* The number of integers of n bytes grows by the number of bytes.
Spans(f, n) == f = [i \in 0 .. n |-> IF i = 0 THEN 1 ELSE (ByteMax + 1) * f[i - 1]]

LEMMA SpanFacts ==
  ASSUME NEW n \in Nat
  PROVE  \E f \in [0 .. n -> Nat] :
           /\ f[0] = 1 /\ \A i \in 1 .. n : f[i] = B * f[i - 1]
           /\ Span(n) = f[n]
<1> DEFINE step == [i \in 1 .. n |-> [x \in Nat |-> B * x]]
           f == CHOOSE f : Spans(f, n)
           Q == {j \in 0 .. n : f[j] \in Nat}
<1>1. step \in Steps(n, Nat)
  BY Base DEF Steps
<1>2. PICK g \in [0 .. n -> Nat] : g[0] = 1 /\ \A i \in 1 .. n : g[i] = step[i][g[i - 1]]
  <2> HIDE DEF step
  <2>1. Iterated(n, Nat, 1, step)
    BY <1>1, Iterates
  <2> QED BY <2>1 DEF Iterated
<1>3. \A i \in 1 .. n : g[i] = B * g[i - 1]
  <2>1. \A i \in 1 .. n : g[i - 1] \in Nat
    OBVIOUS
  <2> QED BY <1>2, <2>1
<1>4. Spans(g, n)
  BY <1>2, <1>3 DEF Spans, B
<1>5. Spans(f, n)
  BY <1>4
<1>6. Span(n) = f[n]
  BY DEF Span, Spans
<1> HIDE DEF f, step
<1>7. f[0] = 1 /\ \A i \in 1 .. n : f[i] = B * f[i - 1]
  BY <1>5 DEF Spans, B
<1>8. \A i \in 0 .. n : i \in Q
  <2>1. 0 \in Q
    BY <1>7
  <2>2. ASSUME NEW i \in 1 .. n, i - 1 \in Q PROVE i \in Q
    <3>1. f[i - 1] \in Nat /\ i \in 0 .. n
      BY <2>2
    <3>2. f[i] \in Nat
      BY <3>1, <1>7, Base
    <3> QED BY <3>1, <3>2
  <2> HIDE DEF Q
  <2> QED BY <2>1, <2>2, UpTo
<1>9. f \in [0 .. n -> Nat]
  BY <1>5, <1>8 DEF Spans
<1> QED BY <1>6, <1>7, <1>9

\* Encoding takes one byte after the other off the value.
Rests(f, value, n) ==
  f = [i \in 0 .. n |-> IF i = 0 THEN value ELSE f[i - 1] \div (ByteMax + 1)]

LEMMA PutFacts ==
  ASSUME NEW n \in Nat, NEW value \in Nat
  PROVE  \E f \in [0 .. n -> Nat] :
           /\ f[0] = value /\ \A i \in 1 .. n : f[i] = f[i - 1] \div B
           /\ put_uint(value, n) = [i \in 1 .. n |-> f[i - 1] % B]
<1> DEFINE step == [i \in 1 .. n |-> [x \in Nat |-> x \div B]]
           f == CHOOSE f : Rests(f, value, n)
           Q == {j \in 0 .. n : f[j] \in Nat}
<1>1. step \in Steps(n, Nat)
  BY Divides DEF Steps
<1>2. PICK g \in [0 .. n -> Nat] : g[0] = value /\ \A i \in 1 .. n : g[i] = step[i][g[i - 1]]
  <2> HIDE DEF step
  <2>1. Iterated(n, Nat, value, step)
    BY <1>1, Iterates
  <2> QED BY <2>1 DEF Iterated
<1>3. \A i \in 1 .. n : g[i] = g[i - 1] \div B
  <2>1. \A i \in 1 .. n : g[i - 1] \in Nat
    OBVIOUS
  <2> QED BY <1>2, <2>1
<1>4. Rests(g, value, n)
  BY <1>2, <1>3 DEF Rests, B
<1>5. Rests(f, value, n)
  BY <1>4
<1>6. put_uint(value, n) = [i \in 1 .. n |-> f[i - 1] % B]
  BY DEF put_uint, Rests, B
<1> HIDE DEF f, step
<1>7. f[0] = value /\ \A i \in 1 .. n : f[i] = f[i - 1] \div B
  BY <1>5 DEF Rests, B
<1>8. \A i \in 0 .. n : i \in Q
  <2>1. 0 \in Q
    BY <1>7
  <2>2. ASSUME NEW i \in 1 .. n, i - 1 \in Q PROVE i \in Q
    <3>1. f[i - 1] \in Nat /\ i \in 0 .. n
      BY <2>2
    <3>2. f[i] \in Nat
      BY <3>1, <1>7, Divides
    <3> QED BY <3>1, <3>2
  <2> HIDE DEF Q
  <2> QED BY <2>1, <2>2, UpTo
<1>9. f \in [0 .. n -> Nat]
  BY <1>5, <1>8 DEF Rests
<1> QED BY <1>6, <1>7, <1>9

\* Decoding puts one byte after the other below the value.
Highs(f, bytes) ==
  f = [i \in 0 .. Len(bytes) |->
         IF i = 0 THEN 0 ELSE bytes[Len(bytes) + 1 - i] + (ByteMax + 1) * f[i - 1]]

LEMMA ReadFacts ==
  ASSUME NEW bytes \in Seq(Byte), NEW n \in Nat, Len(bytes) = n
  PROVE  \E f \in [0 .. n -> Nat] :
           /\ f[0] = 0 /\ \A i \in 1 .. n : f[i] = bytes[n + 1 - i] + B * f[i - 1]
           /\ from_le_bytes(bytes) = f[n]
<1> DEFINE step == [i \in 1 .. n |-> [x \in Nat |-> bytes[n + 1 - i] + B * x]]
           f == CHOOSE f : Highs(f, bytes)
           Q == {j \in 0 .. n : f[j] \in Nat}
<1>0. \A i \in 1 .. n : bytes[n + 1 - i] \in Byte
  BY LenProperties
<1>1. step \in Steps(n, Nat)
  BY <1>0, Recomposes DEF Steps
<1>2. PICK g \in [0 .. n -> Nat] : g[0] = 0 /\ \A i \in 1 .. n : g[i] = step[i][g[i - 1]]
  <2> HIDE DEF step
  <2>1. Iterated(n, Nat, 0, step)
    BY <1>1, Iterates
  <2> QED BY <2>1 DEF Iterated
<1>3. \A i \in 1 .. n : g[i] = bytes[n + 1 - i] + B * g[i - 1]
  <2>1. \A i \in 1 .. n : g[i - 1] \in Nat
    OBVIOUS
  <2> QED BY <1>2, <2>1
<1>4. Highs(g, bytes)
  BY <1>2, <1>3 DEF Highs, B
<1>5. Highs(f, bytes)
  BY <1>4
<1>6. from_le_bytes(bytes) = f[n]
  BY DEF from_le_bytes, Highs
<1> HIDE DEF f, step
<1>7. f[0] = 0 /\ \A i \in 1 .. n : f[i] = bytes[n + 1 - i] + B * f[i - 1]
  BY <1>5 DEF Highs, B
<1>8. \A i \in 0 .. n : i \in Q
  <2>1. 0 \in Q
    BY <1>7
  <2>2. ASSUME NEW i \in 1 .. n, i - 1 \in Q PROVE i \in Q
    <3>1. f[i - 1] \in Nat /\ i \in 0 .. n
      BY <2>2
    <3>2. f[i] \in Nat
      BY <3>1, <1>0, <1>7, Recomposes
    <3> QED BY <3>1, <3>2
  <2> HIDE DEF Q
  <2> QED BY <2>1, <2>2, UpTo
<1>9. f \in [0 .. n -> Nat]
  BY <1>5, <1>8 DEF Highs
<1> QED BY <1>6, <1>7, <1>9

\* Bytes are the sequences of their length.
LEMMA BytesAreSeq ==
  ASSUME NEW n \in Nat, NEW s
  PROVE  s \in Bytes(n) <=> s \in Seq(Byte) /\ Len(s) = n
<1>1. ASSUME s \in Bytes(n) PROVE s \in Seq(Byte) /\ Len(s) = n
  BY <1>1 DEF Bytes
<1>2. ASSUME s \in Seq(Byte), Len(s) = n PROVE s \in Bytes(n)
  BY <1>2, LenProperties DEF Bytes
<1> QED BY <1>1, <1>2

LEMMA DivLess ==
  ASSUME NEW x \in Nat, NEW y \in Nat, x < B * y
  PROVE  x \div B < y
<1>1. PICK q \in Nat : q = x \div B
  BY Divides
<1>2. B * q <= x
  BY <1>1, Divides, Base
<1>3. ASSUME q >= y PROVE FALSE
  <2>1. PICK d \in Nat : q = y + d
    BY <1>3
  <2>2. B * q = B * y + B * d /\ B * d \in Nat
    BY <2>1, Base
  <2> QED BY <1>2, <2>2, Base
<1> QED BY <1>1, <1>3

LEMMA PutTyped ==
  ASSUME NEW n \in Nat, NEW value \in Nat
  PROVE  /\ put_uint(value, n) \in Bytes(n) /\ put_uint(value, n) \in Seq(Byte)
         /\ Len(put_uint(value, n)) = n
<1>1. PICK f \in [0 .. n -> Nat] : put_uint(value, n) = [i \in 1 .. n |-> f[i - 1] % B]
  BY PutFacts
<1>2. put_uint(value, n) \in Bytes(n)
  BY <1>1, Divides DEF Bytes
<1> QED BY <1>2, BytesAreSeq

\* What is left of an integer of n bytes when all are taken off is zero.
LEMMA NothingLeft ==
  ASSUME NEW n \in Nat, NEW value \in Uint(n), NEW f \in [0 .. n -> Nat],
         f[0] = value, \A i \in 1 .. n : f[i] = f[i - 1] \div B
  PROVE  f[n] = 0
<1>1. PICK g \in [0 .. n -> Nat] :
        g[0] = 1 /\ (\A i \in 1 .. n : g[i] = B * g[i - 1]) /\ Span(n) = g[n]
  BY SpanFacts
<1> DEFINE Q == {i \in 0 .. n : f[i] < g[n - i]}
<1>2. 0 \in Q
  BY <1>1 DEF Uint
<1>3. ASSUME NEW i \in 1 .. n, i - 1 \in Q PROVE i \in Q
  <2>1. f[i - 1] < g[n - i + 1]
    <3>1. n - (i - 1) = n - i + 1
      OBVIOUS
    <3> QED BY <1>3, <3>1
  <2>2. g[n - i + 1] = B * g[n - i]
    <3>1. n - i + 1 \in 1 .. n /\ (n - i + 1) - 1 = n - i
      OBVIOUS
    <3> QED BY <1>1, <3>1
  <2>3. f[i - 1] \in Nat /\ g[n - i] \in Nat
    OBVIOUS
  <2>4. f[i] < g[n - i]
    BY <2>1, <2>2, <2>3, DivLess
  <2> QED BY <2>4
<1> HIDE DEF Q
<1>4. \A i \in 0 .. n : i \in Q
  BY <1>2, <1>3, UpTo
<1>5. f[n] < g[0]
  <2>1. n \in Q /\ n - n = 0
    BY <1>4
  <2> QED BY <2>1 DEF Q
<1> QED BY <1>1, <1>5

\* Reading the bytes of an integer gives the integer.
LEMMA ReadPut ==
  ASSUME NEW n \in Nat, NEW value \in Uint(n)
  PROVE  from_le_bytes(put_uint(value, n)) = value /\ value \in Nat
<1>0. value \in Nat
  BY DEF Uint
<1>1. PICK f \in [0 .. n -> Nat] :
        /\ f[0] = value /\ \A i \in 1 .. n : f[i] = f[i - 1] \div B
        /\ put_uint(value, n) = [i \in 1 .. n |-> f[i - 1] % B]
  BY <1>0, PutFacts
<1>2. f[n] = 0
  BY <1>1, NothingLeft
<1>3. PICK bytes \in Seq(Byte) : bytes = put_uint(value, n) /\ Len(bytes) = n
  BY <1>0, PutTyped
<1>4. PICK h \in [0 .. n -> Nat] :
        /\ h[0] = 0 /\ \A i \in 1 .. n : h[i] = bytes[n + 1 - i] + B * h[i - 1]
        /\ from_le_bytes(bytes) = h[n]
  BY <1>3, ReadFacts
<1> DEFINE Q == {i \in 0 .. n : h[i] = f[n - i]}
<1>5. 0 \in Q
  BY <1>2, <1>4
<1>6. ASSUME NEW i \in 1 .. n, i - 1 \in Q PROVE i \in Q
  <2>1. PICK k \in 1 .. n : k = n + 1 - i
    OBVIOUS
  <2>2. n - (i - 1) = k /\ n - i = k - 1
    BY <2>1
  <2>3. h[i - 1] = f[k]
    BY <1>6, <2>2
  <2>4. h[i] = bytes[k] + B * f[k]
    BY <1>4, <2>1, <2>3
  <2>5. bytes[k] = f[k - 1] % B /\ f[k] = f[k - 1] \div B /\ f[k - 1] \in Nat
    BY <1>1, <1>3
  <2>6. h[i] = f[k - 1]
    BY <2>4, <2>5, Divides
  <2> QED BY <2>2, <2>6
<1> HIDE DEF Q
<1>7. \A i \in 0 .. n : i \in Q
  BY <1>5, <1>6, UpTo
<1>8. h[n] = f[0]
  <2>1. n \in Q /\ n - n = 0
    BY <1>7
  <2> QED BY <2>1 DEF Q
<1> QED BY <1>0, <1>1, <1>3, <1>4, <1>8

\* Writing the integer that was read gives the bytes it was read from.
LEMMA PutRead ==
  ASSUME NEW bytes \in Seq(Byte), NEW n \in Nat, Len(bytes) = n
  PROVE  put_uint(from_le_bytes(bytes), n) = bytes /\ from_le_bytes(bytes) \in Nat
<1>1. PICK h \in [0 .. n -> Nat] :
        /\ h[0] = 0 /\ \A i \in 1 .. n : h[i] = bytes[n + 1 - i] + B * h[i - 1]
        /\ from_le_bytes(bytes) = h[n]
  BY ReadFacts
<1>2. PICK value \in Nat : value = from_le_bytes(bytes)
  BY <1>1
<1>3. PICK f \in [0 .. n -> Nat] :
        /\ f[0] = value /\ \A i \in 1 .. n : f[i] = f[i - 1] \div B
        /\ put_uint(value, n) = [i \in 1 .. n |-> f[i - 1] % B]
  BY PutFacts
<1> DEFINE Q == {i \in 0 .. n : f[i] = h[n - i]}
<1>4. ASSUME NEW i \in 1 .. n, f[i - 1] = h[n - (i - 1)]
      PROVE  f[i] = h[n - i] /\ f[i - 1] % B = bytes[i]
  <2>1. PICK k \in 1 .. n : k = n - (i - 1)
    OBVIOUS
  <2>2. n + 1 - k = i /\ n - i = k - 1
    BY <2>1
  <2>3. h[k] = bytes[i] + B * h[k - 1]
    BY <1>1, <2>2
  <2>4. h[k - 1] \in Nat /\ bytes[i] \in Byte
    <3>1. bytes \in [1 .. n -> Byte] /\ k - 1 \in 0 .. n
      BY LenProperties
    <3> QED BY <3>1
  <2>5. h[k] \div B = h[k - 1] /\ h[k] % B = bytes[i]
    <3>1. PICK q \in Nat, r \in Byte : q = h[k - 1] /\ r = bytes[i] /\ h[k] = r + B * q
      BY <2>3, <2>4
    <3>2. (r + B * q) \div B = q /\ (r + B * q) % B = r
      BY Recomposes
    <3> QED BY <3>1, <3>2
  <2> QED BY <1>3, <1>4, <2>1, <2>2, <2>5
<1>5. 0 \in Q
  BY <1>1, <1>2, <1>3
<1>6. ASSUME NEW i \in 1 .. n, i - 1 \in Q PROVE i \in Q
  BY <1>4, <1>6
<1> HIDE DEF Q
<1>7. \A i \in 0 .. n : i \in Q
  BY <1>5, <1>6, UpTo
<1>8. ASSUME NEW i \in 1 .. n PROVE f[i - 1] % B = bytes[i]
  <2>1. i - 1 \in 0 .. n
    OBVIOUS
  <2>2. f[i - 1] = h[n - (i - 1)]
    BY <1>7, <2>1 DEF Q
  <2> QED BY <1>4, <2>2
<1>9. bytes = [i \in 1 .. n |-> bytes[i]]
  BY LenProperties
<1> QED BY <1>2, <1>3, <1>8, <1>9

(***************************************************************************)
(* Fields one after the other.                                             *)
(***************************************************************************)
\* The data has the field f behind its first o bytes.
Holds(data, o, f) == o + Len(f) <= Len(data) /\ read_array(data, o, Len(f)) = f

\* A field of k bytes; the data q is p and f behind it.
Field(f, k) == f \in Seq(Byte) /\ Len(f) = k /\ k \in Nat
Adds(q, p, f) == q = p \o f

\* A new field stands behind the others, which stay where they are.
LEMMA FieldOfConcat ==
  ASSUME NEW p \in Seq(Byte), NEW f \in Seq(Byte)
  PROVE  /\ p \o f \in Seq(Byte) /\ Len(p \o f) = Len(p) + Len(f)
         /\ Holds(p \o f, Len(p), f)
<1>1. p \o f \in Seq(Byte) /\ Len(p \o f) = Len(p) + Len(f) /\ Len(p) \in Nat /\ Len(f) \in Nat
  BY ConcatProperties, LenProperties
<1>2. read_array(p \o f, Len(p), Len(f)) = f
  <2>1. CASE Len(f) = 0
    <3>1. f = << >>
      BY <2>1, EmptySeq
    <3> QED BY <1>1, <2>1, <3>1, SubSeqEmpty DEF read_array
  <2>2. CASE Len(f) > 0
    <3>1. SubSeq(p \o f, Len(p) + 1, Len(p) + Len(f)) = SubSeq(f, (Len(p) + 1) - Len(p), (Len(p) + Len(f)) - Len(p))
      BY <1>1, <2>2, SubSeqOfConcat2
    <3>2. (Len(p) + 1) - Len(p) = 1 /\ (Len(p) + Len(f)) - Len(p) = Len(f)
      BY <1>1
    <3> QED BY <3>1, <3>2, SubSeqFull DEF read_array
  <2> QED BY <1>1, <2>1, <2>2
<1> QED BY <1>1, <1>2 DEF Holds

LEMMA FieldBeforeConcat ==
  ASSUME NEW p \in Seq(Byte), NEW f \in Seq(Byte), NEW o \in Nat, NEW g \in Seq(Byte),
         Holds(p, o, g)
  PROVE  Holds(p \o f, o, g)
<1>1. /\ p \o f \in Seq(Byte) /\ Len(p \o f) = Len(p) + Len(f)
      /\ Len(p) \in Nat /\ Len(f) \in Nat /\ Len(g) \in Nat
  BY ConcatProperties, LenProperties
<1>2. o + Len(g) <= Len(p) /\ SubSeq(p, o + 1, o + Len(g)) = g
  BY DEF Holds, read_array
<1>3. SubSeq(p \o f, o + 1, o + Len(g)) = g
  <2>1. CASE Len(g) = 0
    BY <1>1, <1>2, <2>1, SubSeqEmpty
  <2>2. CASE Len(g) > 0
    <3>1. o + 1 \in 1 .. Len(p) /\ o + Len(g) \in 1 .. Len(p)
      BY <1>1, <1>2, <2>2
    <3> QED BY <1>2, <3>1, SubSeqOfConcat1
  <2>3. Len(g) = 0 \/ Len(g) > 0
    BY <1>1
  <2> QED BY <2>1, <2>2, <2>3, Zenon
<1>4. o + Len(g) <= Len(p \o f)
  BY <1>1, <1>2
<1> QED BY <1>3, <1>4 DEF Holds, read_array

LEMMA FieldAdded ==
  ASSUME NEW p, NEW m, NEW f, NEW k, NEW q, Adds(q, p, f), Field(p, m), Field(f, k)
  PROVE  Field(q, m + k) /\ Holds(q, m, f)
<1>1. p \in Seq(Byte) /\ f \in Seq(Byte) /\ Len(p) = m /\ Len(f) = k /\ m \in Nat /\ k \in Nat
  BY DEF Field
<1>2. q = p \o f
  BY DEF Adds
<1>3. q \in Seq(Byte) /\ Len(q) = m + k /\ Holds(q, m, f)
  BY <1>1, <1>2, FieldOfConcat
<1>4. m + k \in Nat
  BY <1>1
<1> QED BY <1>3, <1>4 DEF Field

LEMMA FieldKept ==
  ASSUME NEW p, NEW m, NEW f, NEW k, NEW q, Adds(q, p, f), Field(p, m), Field(f, k),
         NEW o \in Nat, NEW g, NEW j, Field(g, j), Holds(p, o, g)
  PROVE  Holds(q, o, g)
<1>1. p \in Seq(Byte) /\ f \in Seq(Byte) /\ g \in Seq(Byte)
  BY DEF Field
<1> QED BY <1>1, FieldBeforeConcat DEF Adds

\* Lengths and limits are numbers.
LEMMA Sizes ==
  /\ HashLen \in Nat /\ WordLen \in Nat /\ CountLen \in Nat /\ MaxPayload \in Nat
  /\ MaxOpaqueAccounts \in Nat
  /\ 0 .. MaxPayload \subseteq Uint(CountLen) /\ 0 .. 1 + MaxOpaqueAccounts \subseteq Uint(CountLen)
<1>1. /\ HashLen \in Nat /\ WordLen \in Nat /\ CountLen \in Nat /\ MaxPayload \in Nat
      /\ MaxOpaqueAccounts \in Nat
      /\ MaxPayload \in Uint(CountLen) /\ 1 + MaxOpaqueAccounts \in Uint(CountLen)
  <2>1. /\ {HashLen, WordLen, CountLen} \subseteq Nat \ {0}
        /\ {MaxPayload, MaxOpaqueAccounts, MaxTampered} \subseteq Nat
        /\ {MaxPayload, 1 + MaxOpaqueAccounts} \subseteq Uint(CountLen)
    BY WireAssumption, Zenon
  <2> QED BY <2>1
<1>2. Span(CountLen) \in Nat
  <2>1. PICK f \in [0 .. CountLen -> Nat] : Span(CountLen) = f[CountLen]
    BY <1>1, SpanFacts
  <2>2. CountLen \in 0 .. CountLen
    BY <1>1
  <2> QED BY <2>1, <2>2
<1> QED BY <1>1, <1>2 DEF Uint

\* An integer or a key as a field, and what a reader finds there.
LEMMA UintField ==
  ASSUME NEW n \in Nat, NEW x \in Uint(n), NEW data, NEW o, Holds(data, o, put_uint(x, n))
  PROVE  from_le_bytes(read_array(data, o, n)) = x
<1>1. x \in Nat /\ from_le_bytes(put_uint(x, n)) = x
  BY ReadPut
<1>2. Len(put_uint(x, n)) = n
  BY <1>1, PutTyped
<1> QED BY <1>1, <1>2 DEF Holds

LEMMA UintBytes ==
  ASSUME NEW n \in Nat, NEW x \in Uint(n)
  PROVE  Field(put_uint(x, n), n)
<1>1. x \in Nat
  BY ReadPut
<1> QED BY <1>1, PutTyped DEF Field

LEMMA VersionField == Field(<<PROBE_WIRE_VERSION>>, 1) /\ Holds(<<PROBE_WIRE_VERSION>>, 0, <<PROBE_WIRE_VERSION>>)
<1>1. <<0>> \in Seq(Byte) /\ Len(<<0>>) = 1
  BY Base
<1>2. SubSeq(<<0>>, 1, 1) = <<0>>
  BY <1>1, SubSeqFull
<1> QED BY <1>1, <1>2 DEF Field, Holds, read_array, PROBE_WIRE_VERSION

LEMMA BytesField ==
  ASSUME NEW n \in Nat, NEW s \in Bytes(n), NEW data, NEW o, Holds(data, o, s)
  PROVE  read_array(data, o, n) = s
BY BytesAreSeq DEF Holds

\* A byte of a field stands in the data.
LEMMA HeldByte ==
  ASSUME NEW data, NEW k, Field(data, k), NEW o \in Nat, NEW f, NEW j, Field(f, j),
         Holds(data, o, f), NEW i \in 1 .. j
  PROVE  data[o + i] = f[i]
<1>1. /\ data \in Seq(Byte) /\ Len(data) = k /\ k \in Nat
      /\ Len(f) = j /\ j \in Nat /\ o + j <= k /\ SubSeq(data, o + 1, o + j) = f
  BY DEF Field, Holds, read_array
<1>2. o + 1 \in 1 .. k + 1 /\ o + j \in o .. k
  BY <1>1
<1>3. \A x \in 1 .. (o + j) - (o + 1) + 1 : SubSeq(data, o + 1, o + j)[x] = data[(o + 1) + x - 1]
  BY <1>1, <1>2, SubSeqProperties
<1>4. i \in 1 .. (o + j) - (o + 1) + 1 /\ (o + 1) + i - 1 = o + i
  BY <1>1
<1> QED BY <1>1, <1>3, <1>4

LEMMA HoldsItself ==
  ASSUME NEW f, NEW k, Field(f, k)
  PROVE  Holds(f, 0, f)
<1>1. f \in Seq(Byte) /\ Len(f) = k /\ k \in Nat
  BY DEF Field
<1>2. SubSeq(f, 0 + 1, 0 + Len(f)) = f
  BY <1>1, SubSeqFull
<1>3. 0 + Len(f) <= Len(f)
  BY <1>1
<1> QED BY <1>2, <1>3 DEF Holds, read_array

LEMMA FieldRead ==
  ASSUME NEW data, NEW k, Field(data, k), NEW c \in Nat, NEW n \in Nat, c + n <= k
  PROVE  Field(read_array(data, c, n), n) /\ read_array(data, c, n) \in Bytes(n)
<1>1. data \in Seq(Byte) /\ Len(data) = k /\ k \in Nat
  BY DEF Field
<1>2. c + 1 \in 1 .. Len(data) + 1 /\ c + n \in (c + 1) - 1 .. Len(data)
  BY <1>1
<1>3. /\ SubSeq(data, c + 1, c + n) \in Seq(Byte)
      /\ Len(SubSeq(data, c + 1, c + n)) = IF c + 1 <= c + n THEN (c + n) - (c + 1) + 1 ELSE 0
  BY <1>1, <1>2, SubSeqProperties
<1>4. Len(SubSeq(data, c + 1, c + n)) = n
  BY <1>3
<1> QED BY <1>3, <1>4, BytesAreSeq DEF Field, read_array

(***************************************************************************)
(* The fields of a struct, one after the other.                            *)
(***************************************************************************)
Types == {"u8", "u16", "u64", "key", "payload"}

LEMMA Widths == \A t \in Types : Width[t] \in Nat
BY Sizes DEF Width, Types

\* A list of n fields.
Listed(F, n) ==
  /\ n \in Nat /\ Len(F) = n /\ DOMAIN F = 1 .. n
  /\ \A i \in 1 .. n : F[i].type \in Types

Cursors(f, F) ==
  f = [j \in 0 .. Len(F) |-> IF j = 0 THEN 0 ELSE f[j - 1] + Width[F[j].type]]

\* The cursor starts at zero and moves by the width of each field.
Moves(at, F, n) ==
  /\ at \in [0 .. n -> Nat] /\ at[0] = 0
  /\ \A i \in 1 .. n : at[i] = at[i - 1] + Width[F[i].type]

LEMMA CursorFacts ==
  ASSUME NEW n, NEW F, Listed(F, n)
  PROVE  \E at : Moves(at, F, n) /\ \A i \in 0 .. n : cursor_at(F, i) = at[i]
<1> DEFINE step == [i \in 1 .. n |-> [x \in Nat |-> x + Width[F[i].type]]]
           f == CHOOSE f : Cursors(f, F)
           Q == {j \in 0 .. n : f[j] \in Nat}
<1>0. n \in Nat /\ Len(F) = n /\ \A i \in 1 .. n : Width[F[i].type] \in Nat
  BY Widths DEF Listed
<1>1. step \in Steps(n, Nat)
  BY <1>0 DEF Steps
<1>2. PICK g \in [0 .. n -> Nat] : g[0] = 0 /\ \A i \in 1 .. n : g[i] = step[i][g[i - 1]]
  <2> HIDE DEF step
  <2>1. Iterated(n, Nat, 0, step)
    BY <1>0, <1>1, Iterates
  <2> QED BY <2>1 DEF Iterated
<1>3. \A i \in 1 .. n : g[i] = g[i - 1] + Width[F[i].type]
  <2>1. \A i \in 1 .. n : g[i - 1] \in Nat
    BY <1>0
  <2> QED BY <1>2, <2>1
<1>4. Cursors(g, F)
  BY <1>0, <1>2, <1>3 DEF Cursors
<1>5. Cursors(f, F)
  BY <1>4
<1>6. \A i \in 0 .. n : cursor_at(F, i) = f[i]
  BY DEF cursor_at, Cursors
<1> HIDE DEF f, step
<1>7. f[0] = 0 /\ \A i \in 1 .. n : f[i] = f[i - 1] + Width[F[i].type]
  BY <1>0, <1>5 DEF Cursors
<1>8. \A i \in 0 .. n : i \in Q
  <2>1. 0 \in Q
    BY <1>0, <1>7
  <2>2. ASSUME NEW i \in 1 .. n, i - 1 \in Q PROVE i \in Q
    <3>1. f[i - 1] \in Nat /\ i \in 0 .. n
      BY <2>2, <1>0
    <3>2. PICK x \in Nat, w \in Nat : x = f[i - 1] /\ w = Width[F[i].type]
      BY <3>1, <1>0
    <3>3. f[i] = x + w
      BY <3>2, <1>7
    <3>4. f[i] \in Nat
      BY <3>3
    <3> QED BY <3>1, <3>4
  <2> HIDE DEF Q
  <2> QED BY <1>0, <2>1, <2>2, UpTo
<1>9. f \in [0 .. n -> Nat]
  BY <1>0, <1>5, <1>8 DEF Cursors
<1> QED BY <1>6, <1>7, <1>9 DEF Moves

\* The parts s[1] to s[i], one after the other, for every i.
Flattens(f, s) == f = [i \in 1 .. Len(s) |-> IF i = 1 THEN s[i] ELSE f[i - 1] \o s[i]]
Parts(s, n) == n \in Nat /\ s = [i \in 1 .. n |-> s[i]] /\ \A i \in 1 .. n : s[i] \in Seq(Byte)
Joins(f, s, n) ==
  f \in [0 .. n -> Seq(Byte)] /\ f[0] = << >> /\ \A i \in 1 .. n : Adds(f[i], f[i - 1], s[i])

LEMMA Flattened ==
  ASSUME NEW n, NEW s, Parts(s, n)
  PROVE  \E f : Joins(f, s, n) /\ FlattenSeq(s) = f[n]
<1> DEFINE step == [i \in 1 .. n |-> [x \in Seq(Byte) |-> x \o s[i]]]
           f == CHOOSE f : Flattens(f, s)
<1>0. n \in Nat /\ s = [i \in 1 .. n |-> s[i]] /\ (\A i \in 1 .. n : s[i] \in Seq(Byte))
  BY DEF Parts
<1>s. Len(s) = n
  <2>1. PICK r : r = [i \in 1 .. n |-> s[i]]
    OBVIOUS
  <2>2. Len(r) = n
    BY <1>0, <2>1
  <2> QED BY <1>0, <2>1, <2>2, Zenon
<1>1. step \in Steps(n, Seq(Byte))
  <2>1. \A i \in 1 .. n, x \in Seq(Byte) : x \o s[i] \in Seq(Byte)
    BY <1>0, ConcatProperties
  <2> QED BY <2>1 DEF Steps
<1>2. PICK g \in [0 .. n -> Seq(Byte)] : g[0] = << >> /\ \A i \in 1 .. n : g[i] = step[i][g[i - 1]]
  <2> HIDE DEF step
  <2>0. << >> \in Seq(Byte)
    OBVIOUS
  <2>1. Iterated(n, Seq(Byte), << >>, step)
    BY <1>0, <1>1, <2>0, Iterates
  <2> QED BY <2>1 DEF Iterated
<1>3. \A i \in 1 .. n : g[i] = g[i - 1] \o s[i]
  <2>1. \A i \in 1 .. n : g[i - 1] \in Seq(Byte)
    BY <1>0
  <2> QED BY <1>2, <2>1
<1>4. Joins(g, s, n)
  BY <1>2, <1>3 DEF Joins, Adds
<1>z. CASE n = 0
  <2>1. FlattenSeq(s) = s /\ s = << >>
    BY <1>0, <1>s, <1>z DEF FlattenSeq
  <2>2. FlattenSeq(s) = g[n]
    BY <1>2, <1>z, <2>1
  <2> QED BY <1>4, <2>2
<1>p. CASE n # 0
  <2> DEFINE h == [i \in 1 .. n |-> g[i]]
  <2>4. Flattens(h, s)
    <3>1. ASSUME NEW i \in 1 .. n
          PROVE  g[i] = IF i = 1 THEN s[i] ELSE h[i - 1] \o s[i]
      <4>1. CASE i = 1
        <5>0. g[i] = g[i - 1] \o s[i] /\ s[i] \in Seq(Byte)
          BY <1>0, <1>3
        <5>1. i - 1 = 0 /\ g[i] = g[i - 1] \o s[i] /\ s[i] \in Seq(Byte)
          BY <4>1, <5>0
        <5>2. << >> \o s[i] = s[i]
          BY <5>1, ConcatEmptySeq
        <5>3. g[i] = s[i]
          BY <1>2, <5>1, <5>2, Zenon
        <5> QED BY <4>1, <5>3
      <4>2. CASE i # 1
        <5>1. i - 1 \in 1 .. n
          BY <1>0, <4>2
        <5> QED BY <1>3, <4>2, <5>1
      <4> QED BY <4>1, <4>2
    <3> QED BY <1>s, <3>1 DEF Flattens
  <2>5. Flattens(f, s)
    <3> HIDE DEF h
    <3> QED BY <2>4
  <2>6. FlattenSeq(s) = f[n]
    BY <1>s, <1>p DEF FlattenSeq, Flattens
  <2> HIDE DEF f, step, h
  <2> DEFINE Q == {i \in 0 .. n : i = 0 \/ f[i] = g[i]}
  <2>7. \A i \in 1 .. n : f[i] = IF i = 1 THEN s[i] ELSE f[i - 1] \o s[i]
    BY <1>s, <2>5 DEF Flattens
  <2>8. ASSUME NEW i \in 1 .. n, i - 1 \in Q PROVE i \in Q
    <3>1. CASE i = 1
      <4>1. f[i] = s[i]
        BY <2>7, <3>1
      <4>0. g[i] = g[i - 1] \o s[i] /\ s[i] \in Seq(Byte)
        BY <1>0, <1>3
      <4>2. g[i] = g[i - 1] \o s[i] /\ i - 1 = 0 /\ s[i] \in Seq(Byte)
        BY <4>0, <3>1
      <4>3. << >> \o s[i] = s[i]
        BY <4>2, ConcatEmptySeq
      <4>4. g[i] = s[i]
        BY <1>2, <4>2, <4>3, Zenon
      <4> QED BY <1>0, <4>1, <4>4
    <3>2. CASE i # 1
      <4>1. f[i - 1] = g[i - 1]
        BY <1>0, <2>8, <3>2
      <4>2. g[i] = g[i - 1] \o s[i]
        BY <1>3
      <4>3. f[i] = f[i - 1] \o s[i]
        BY <2>7, <3>2
      <4>4. f[i] = g[i]
        BY <4>1, <4>2, <4>3, Zenon
      <4> QED BY <1>0, <4>4
    <3> QED BY <3>1, <3>2
  <2>9. 0 \in Q
    BY <1>0
  <2> HIDE DEF Q
  <2>10. \A i \in 0 .. n : i \in Q
    BY <1>0, <2>8, <2>9, UpTo
  <2>11. f[n] = g[n]
    BY <1>0, <1>p, <2>10 DEF Q
  <2> QED BY <1>4, <2>6, <2>11
<1> QED BY <1>z, <1>p

\* The parts stand where the cursor was when they were written.
Sized(at, s, n) ==
  at \in [0 .. n -> Nat] /\ at[0] = 0 /\ \A i \in 1 .. n : at[i] = at[i - 1] + Len(s[i])

LEMMA PartsHeld ==
  ASSUME NEW n, NEW s, NEW f, NEW at, Parts(s, n), Joins(f, s, n), Sized(at, s, n)
  PROVE  Field(f[n], at[n]) /\ \A j \in 1 .. n : Holds(f[n], at[j - 1], s[j])
<1> DEFINE Good(i) == Field(f[i], at[i]) /\ \A j \in 1 .. i : Holds(f[i], at[j - 1], s[j])
           Q == {i \in 0 .. n : Good(i)}
<1>0. /\ n \in Nat /\ at \in [0 .. n -> Nat] /\ at[0] = 0
      /\ \A i \in 1 .. n : at[i] = at[i - 1] + Len(s[i])
  BY DEF Sized, Parts
<1>1. f[0] = << >> /\ \A i \in 1 .. n : Adds(f[i], f[i - 1], s[i])
  BY DEF Joins
<1>2. ASSUME NEW i \in 1 .. n PROVE Field(s[i], Len(s[i])) /\ Len(s[i]) \in Nat
  <2>1. s[i] \in Seq(Byte)
    BY DEF Parts
  <2> QED BY <2>1, LenProperties DEF Field
<1>3. 0 \in Q
  <2>1. Field(<< >>, 0)
    BY DEF Field
  <2> QED BY <1>0, <1>1, <2>1
<1>4. ASSUME NEW i \in 1 .. n, i - 1 \in Q PROVE i \in Q
  <2>0. i \in Nat /\ i - 1 \in Nat /\ i - 1 \in 0 .. n /\ i \in 0 .. n
    BY <1>0
  <2>1. Field(f[i - 1], at[i - 1]) /\ \A j \in 1 .. i - 1 : Holds(f[i - 1], at[j - 1], s[j])
    BY <1>4
  <2>2. PICK q, p, r, m, k :
          q = f[i] /\ p = f[i - 1] /\ r = s[i] /\ m = at[i - 1] /\ k = Len(s[i])
    OBVIOUS
  <2>3. Adds(q, p, r) /\ Field(p, m) /\ Field(r, k) /\ at[i] = m + k
    BY <1>0, <1>1, <1>2, <2>1, <2>2
  <2>4. Field(q, m + k) /\ Holds(q, m, r)
    BY <2>3, FieldAdded
  <2>5. ASSUME NEW j \in 1 .. i PROVE Holds(q, at[j - 1], s[j])
    <3>1. CASE j = i
      BY <2>2, <2>4, <3>1
    <3>2. CASE j # i
      <4>1. j \in 1 .. i - 1 /\ j \in 1 .. n /\ j - 1 \in 0 .. n
        BY <2>0, <3>2, <1>0
      <4>2. PICK o, g, l : o \in Nat /\ o = at[j - 1] /\ g = s[j] /\ l = Len(s[j])
        BY <1>0, <4>1
      <4>3. Field(g, l) /\ Holds(p, o, g)
        BY <1>2, <2>1, <2>2, <4>1, <4>2
      <4>4. Holds(q, o, g)
        BY <2>3, <4>2, <4>3, FieldKept
      <4> QED BY <4>2, <4>4
    <3> QED BY <3>1, <3>2
  <2>6. Good(i)
    BY <2>2, <2>3, <2>4, <2>5
  <2> HIDE DEF Good
  <2> QED BY <2>0, <2>6
<1> HIDE DEF Q
<1>5. \A i \in 0 .. n : i \in Q
  BY <1>0, <1>3, <1>4, UpTo
<1>6. n \in Q
  BY <1>0, <1>5
<1> QED BY <1>6 DEF Q

\* Neighbouring fields, read together.
LEMMA Adjacent ==
  ASSUME NEW data, NEW k, Field(data, k), NEW o \in Nat, NEW a \in Nat, NEW b \in Nat,
         o + a + b <= k
  PROVE  read_array(data, o, a) \o read_array(data, o + a, b) = read_array(data, o, a + b)
<1>1. data \in Seq(Byte) /\ Len(data) = k /\ k \in Nat
  BY DEF Field
<1>2. /\ o + 1 \in 1 .. Len(data) + 1 /\ o + a \in (o + 1) - 1 .. Len(data)
      /\ o + a + b \in o + a .. Len(data)
  BY <1>1
<1>3. SubSeq(data, o + 1, o + a) \o SubSeq(data, o + a + 1, o + a + b) = SubSeq(data, o + 1, o + a + b)
  BY <1>1, <1>2, ConcatAdjacentSubSeq
<1>4. o + (a + b) = o + a + b
  OBVIOUS
<1> QED BY <1>3, <1>4 DEF read_array

\* Parts that were read one behind the other make up what was read.
LEMMA PartsRead ==
  ASSUME NEW n, NEW s, NEW f, NEW at, Parts(s, n), Joins(f, s, n), Sized(at, s, n),
         NEW data, NEW k, Field(data, k), NEW o \in Nat, o + at[n] <= k,
         \A i \in 1 .. n : s[i] = read_array(data, o + at[i - 1], Len(s[i]))
  PROVE  f[n] = read_array(data, o, at[n])
<1> DEFINE Q == {i \in 0 .. n : at[i] <= at[n] => f[i] = read_array(data, o, at[i])}
<1>0. /\ n \in Nat /\ at \in [0 .. n -> Nat] /\ at[0] = 0 /\ k \in Nat
      /\ \A i \in 1 .. n : at[i] = at[i - 1] + Len(s[i])
  BY DEF Sized, Parts, Field
<1>1. f[0] = << >> /\ \A i \in 1 .. n : Adds(f[i], f[i - 1], s[i])
  BY DEF Joins
<1>3. 0 \in Q
  <2>1. SubSeq(data, o + 1, o + 0) = << >>
    BY SubSeqEmpty
  <2>2. read_array(data, o, 0) = << >>
    BY <2>1 DEF read_array
  <2>3. f[0] = read_array(data, o, at[0])
    BY <1>0, <1>1, <2>2, Zenon
  <2>4. 0 \in 0 .. n
    BY <1>0
  <2> QED BY <2>3, <2>4
<1>4. ASSUME NEW i \in 1 .. n, i - 1 \in Q PROVE i \in Q
  <2>0. i \in 0 .. n /\ i - 1 \in 0 .. n
    BY <1>0
  <2>1. SUFFICES ASSUME at[i] <= at[n] PROVE f[i] = read_array(data, o, at[i])
    BY <2>0
  <2>2. s[i] \in Seq(Byte)
    BY DEF Parts
  <2>x. at[i - 1] \in Nat /\ at[n] \in Nat /\ Len(s[i]) \in Nat
    <3>1. n \in 0 .. n
      BY <1>0
    <3> QED BY <1>0, <2>0, <2>2, <3>1, LenProperties
  <2>3. PICK a \in Nat, b \in Nat, c \in Nat : a = at[i - 1] /\ b = Len(s[i]) /\ c = at[n]
    BY <2>x
  <2>y. at[i] = at[i - 1] + Len(s[i])
    BY <1>0
  <2>z. at[i] = a + b
    BY <2>3, <2>y
  <2>4. at[i] = a + b /\ a + b <= c /\ a <= c /\ o + c <= k
    <3>1. a + b <= c /\ o + c <= k
      BY <2>1, <2>3, <2>z
    <3> QED BY <2>z, <3>1
  <2>5. f[i - 1] = read_array(data, o, a)
    BY <1>4, <2>3, <2>4
  <2>6. s[i] = read_array(data, o + a, b)
    BY <2>3
  <2>7. o + a + b <= k
    BY <1>0, <2>4
  <2>8. read_array(data, o, a) \o read_array(data, o + a, b) = read_array(data, o, a + b)
    BY <2>7, Adjacent
  <2>9. f[i] = f[i - 1] \o s[i]
    BY <1>1 DEF Adds
  <2> QED BY <2>4, <2>5, <2>6, <2>8, <2>9, Zenon
<1> HIDE DEF Q
<1>5. \A i \in 0 .. n : i \in Q
  BY <1>0, <1>3, <1>4, UpTo
<1>6. n \in Q /\ at[n] <= at[n]
  BY <1>0, <1>5
<1> QED BY <1>6 DEF Q

\* A field that was put is read back; bytes that were read as a field are put back.
LEMMA FieldPut ==
  ASSUME NEW t \in Types, NEW x \in Values(t)
  PROVE  Field(put_field(t, x), Width[t]) /\ read_field(t, put_field(t, x)) = x
<1>0. PICK w \in Nat : w = Width[t]
  BY Widths
<1>1. CASE t \in Numbers
  <2>1. x \in Uint(w) /\ put_field(t, x) = put_uint(x, w)
    BY <1>0, <1>1 DEF Values, put_field
  <2>2. Field(put_uint(x, w), w) /\ from_le_bytes(put_uint(x, w)) = x
    BY <2>1, UintBytes, ReadPut
  <2> QED BY <1>0, <1>1, <2>1, <2>2 DEF read_field
<1>2. CASE t \notin Numbers
  <2>1. x \in Bytes(w) /\ put_field(t, x) = x
    BY <1>0, <1>2 DEF Values, put_field
  <2>2. Field(x, w)
    BY <2>1, BytesAreSeq DEF Field
  <2> QED BY <1>0, <1>2, <2>1, <2>2 DEF read_field
<1> QED BY <1>1, <1>2

LEMMA FieldAgain ==
  ASSUME NEW t \in Types, NEW b, Field(b, Width[t])
  PROVE  /\ put_field(t, read_field(t, b)) = b
         /\ t \in Numbers => read_field(t, b) \in Nat
         /\ t \notin Numbers => read_field(t, b) \in Bytes(Width[t])
<1>0. PICK w \in Nat : w = Width[t]
  BY Widths
<1>1. b \in Seq(Byte) /\ Len(b) = w
  BY <1>0 DEF Field
<1>2. CASE t \in Numbers
  <2>1. put_uint(from_le_bytes(b), w) = b /\ from_le_bytes(b) \in Nat
    BY <1>1, PutRead
  <2> QED BY <1>0, <1>2, <2>1 DEF read_field, put_field
<1>3. CASE t \notin Numbers
  <2>1. b \in Bytes(w)
    BY <1>1, BytesAreSeq
  <2> QED BY <1>0, <1>3, <2>1 DEF read_field, put_field
<1> QED BY <1>2, <1>3

\* What an encoder puts: every field where its cursor was.
LEMMA FieldsPut ==
  ASSUME NEW n, NEW F, Listed(F, n), NEW v, IsMessage(F, v), NEW at, Moves(at, F, n)
  PROVE  /\ Field(put_fields(F, v), at[n])
         /\ \A j \in 1 .. n :
              /\ Holds(put_fields(F, v), at[j - 1], put_field(F[j].type, v[F[j].name]))
              /\ F[j].type \in Types /\ v[F[j].name] \in Values(F[j].type)
<1>0. n \in Nat /\ DOMAIN F = 1 .. n /\ Len(F) = n /\ \A i \in 1 .. n : F[i].type \in Types
  BY DEF Listed
<1>1. \A i \in 1 .. n : v[F[i].name] \in Values(F[i].type)
  BY <1>0 DEF IsMessage
<1>2. PICK s : s = [i \in 1 .. n |-> put_field(F[i].type, v[F[i].name])]
  OBVIOUS
<1>3. ASSUME NEW i \in 1 .. n
      PROVE  /\ s[i] = put_field(F[i].type, v[F[i].name])
             /\ s[i] \in Seq(Byte) /\ Len(s[i]) = Width[F[i].type]
  <2>1. s[i] = put_field(F[i].type, v[F[i].name])
    BY <1>2
  <2>2. PICK t, x : t \in Types /\ t = F[i].type /\ x = v[F[i].name]
    BY <1>0
  <2>3. x \in Values(t)
    BY <1>1, <2>2
  <2>4. Field(put_field(t, x), Width[t])
    BY <2>2, <2>3, FieldPut
  <2> QED BY <2>1, <2>2, <2>4 DEF Field
<1>4. Parts(s, n)
  BY <1>0, <1>2, <1>3 DEF Parts
<1>5. Sized(at, s, n)
  BY <1>3 DEF Moves, Sized
<1>6. PICK f : Joins(f, s, n) /\ FlattenSeq(s) = f[n]
  BY <1>4, Flattened
<1>7. Field(f[n], at[n]) /\ \A j \in 1 .. n : Holds(f[n], at[j - 1], s[j])
  BY <1>4, <1>5, <1>6, PartsHeld
<1>8. put_fields(F, v) = f[n]
  BY <1>0, <1>2, <1>6 DEF put_fields
<1> QED BY <1>0, <1>1, <1>3, <1>7, <1>8

\* A decoder finds each field at its cursor.
ReadAt(F, data, o, i) ==
  read_field(F[i].type, read_array(data, o + cursor_at(F, i - 1), Width[F[i].type]))

LEMMA ReadsAt ==
  ASSUME NEW n, NEW F, Listed(F, n), NEW data, NEW o, NEW name \in Names(F)
  PROVE  \E i \in 1 .. n : F[i].name = name /\ read_fields(F, data, o)[name] = ReadAt(F, data, o, i)
<1>0. DOMAIN F = 1 .. n
  BY DEF Listed
<1>1. PICK i : i = CHOOSE j \in DOMAIN F : F[j].name = name
  OBVIOUS
<1>2. \E j \in DOMAIN F : F[j].name = name
  BY DEF Names
<1>3. i \in DOMAIN F /\ F[i].name = name
  BY <1>1, <1>2
<1>4. read_fields(F, data, o)[name] = ReadAt(F, data, o, i)
  BY <1>1 DEF read_fields, ReadAt
<1> QED BY <1>0, <1>3, <1>4

LEMMA FieldsRead ==
  ASSUME NEW n, NEW F, Listed(F, n), NEW v, IsMessage(F, v), NEW at, Moves(at, F, n),
         \A i \in 0 .. n : cursor_at(F, i) = at[i], NEW data, NEW o \in Nat,
         \A j \in 1 .. n : Holds(data, o + at[j - 1], put_field(F[j].type, v[F[j].name]))
  PROVE  read_fields(F, data, o) = v
<1>0. n \in Nat /\ DOMAIN F = 1 .. n /\ \A i \in 1 .. n : F[i].type \in Types
  BY DEF Listed
<1>1. ASSUME NEW name \in Names(F) PROVE read_fields(F, data, o)[name] = v[name]
  <2>1. PICK i \in 1 .. n : F[i].name = name /\ read_fields(F, data, o)[name] = ReadAt(F, data, o, i)
    BY ReadsAt
  <2>2. PICK t, x, c : t \in Types /\ t = F[i].type /\ x = v[name] /\ c = o + at[i - 1]
    BY <1>0
  <2>3. x \in Values(t)
    BY <1>0, <2>1, <2>2 DEF IsMessage
  <2>4. Holds(data, c, put_field(t, x))
    BY <2>1, <2>2
  <2>5. Len(put_field(t, x)) = Width[t] /\ read_field(t, put_field(t, x)) = x
    BY <2>2, <2>3, FieldPut DEF Field
  <2>6. read_array(data, c, Width[t]) = put_field(t, x)
    BY <2>4, <2>5 DEF Holds
  <2>7. cursor_at(F, i - 1) = at[i - 1]
    <3>1. i - 1 \in 0 .. n
      BY <1>0
    <3> QED BY <3>1
  <2>8. ReadAt(F, data, o, i) = x
    BY <2>2, <2>5, <2>6, <2>7 DEF ReadAt
  <2> QED BY <2>1, <2>2, <2>8
<1>2. read_fields(F, data, o) = [name \in Names(F) |-> read_fields(F, data, o)[name]]
  BY DEF read_fields
<1>3. v = [name \in Names(F) |-> v[name]]
  BY DEF IsMessage
<1> QED BY <1>1, <1>2, <1>3

\* The names of the fields are different: each has its rank in the list.
Ranked(F, n, rank) == \A i \in 1 .. n : rank[F[i].name] = i

LEMMA FieldsAgain ==
  ASSUME NEW n, NEW F, Listed(F, n), NEW rank, Ranked(F, n, rank), NEW at, Moves(at, F, n),
         \A i \in 0 .. n : cursor_at(F, i) = at[i],
         NEW data, NEW k, Field(data, k), NEW o \in Nat, o + at[n] <= k
  PROVE  LET v == read_fields(F, data, o)
         IN  /\ put_fields(F, v) = read_array(data, o, at[n])
             /\ \A i \in 1 .. n :
                  /\ F[i].type \in Numbers => v[F[i].name] \in Nat
                  /\ F[i].type \notin Numbers => v[F[i].name] \in Bytes(Width[F[i].type])
<1> DEFINE Q == {i \in 0 .. n : at[n - i] <= at[n]}
<1>0. n \in Nat /\ DOMAIN F = 1 .. n /\ Len(F) = n /\ \A i \in 1 .. n : F[i].type \in Types
  BY DEF Listed
<1>1. /\ at \in [0 .. n -> Nat] /\ at[0] = 0
      /\ \A i \in 1 .. n : at[i] = at[i - 1] + Width[F[i].type] /\ Width[F[i].type] \in Nat
  BY <1>0, Widths DEF Moves
<1>2. \A i \in 0 .. n : i \in Q
  <2>1. 0 \in Q
    BY <1>0, <1>1
  <2>2. ASSUME NEW i \in 1 .. n, i - 1 \in Q PROVE i \in Q
    <3>1. PICK j \in 1 .. n : j = n - (i - 1)
      BY <1>0
    <3>2. n - i = j - 1 /\ j - 1 \in 0 .. n /\ j \in 0 .. n /\ n \in 0 .. n /\ i \in 0 .. n
      BY <1>0, <3>1
    <3>3. PICK a \in Nat, w \in Nat, c \in Nat : a = at[j - 1] /\ w = Width[F[j].type] /\ c = at[n]
      BY <1>1, <3>2
    <3>4. at[j] = a + w
      BY <1>1, <3>3
    <3>5. a + w <= c
      BY <2>2, <3>1, <3>3, <3>4
    <3>6. a <= c
      BY <3>5
    <3> QED BY <3>2, <3>3, <3>6
  <2> HIDE DEF Q
  <2> QED BY <1>0, <2>1, <2>2, UpTo
<1>3. ASSUME NEW i \in 1 .. n PROVE at[i] <= at[n]
  <2>1. n - i \in 0 .. n /\ n - (n - i) = i
    BY <1>0
  <2> QED BY <1>2, <2>1
<1>4. PICK v : v = read_fields(F, data, o)
  OBVIOUS
<1>5. PICK s : s = [i \in 1 .. n |-> put_field(F[i].type, v[F[i].name])]
  OBVIOUS
<1>6. ASSUME NEW i \in 1 .. n
      PROVE  /\ s[i] = read_array(data, o + at[i - 1], Width[F[i].type])
             /\ Field(s[i], Width[F[i].type])
             /\ F[i].type \in Numbers => v[F[i].name] \in Nat
             /\ F[i].type \notin Numbers => v[F[i].name] \in Bytes(Width[F[i].type])
  <2>1. F[i].name \in Names(F)
    BY <1>0 DEF Names
  <2>2. PICK j \in 1 .. n : F[j].name = F[i].name /\ v[F[i].name] = ReadAt(F, data, o, j)
    BY <1>4, <2>1, ReadsAt
  <2>3. j = i
    BY <2>2 DEF Ranked
  <2>x. i - 1 \in 0 .. n /\ n \in 0 .. n
    BY <1>0
  <2>y. at[i - 1] \in Nat /\ at[n] \in Nat
    BY <1>1, <2>x
  <2>4. PICK t \in Types, a \in Nat, w \in Nat, c \in Nat :
          t = F[i].type /\ a = at[i - 1] /\ w = Width[t] /\ c = at[n]
    BY <1>0, <2>y, Widths
  <2>5. at[i] = a + w /\ at[i] <= c /\ cursor_at(F, i - 1) = a
    BY <1>1, <1>3, <2>4, <2>x
  <2>6. (o + a) + w <= k /\ o + a \in Nat
    <3>1. k \in Nat /\ o + c <= k /\ a + w <= c
      BY <2>4, <2>5 DEF Field
    <3> QED BY <3>1
  <2>7. PICK b : b = read_array(data, o + a, w)
    OBVIOUS
  <2>8. Field(b, w)
    BY <2>6, <2>7, FieldRead
  <2>9. v[F[i].name] = read_field(t, b)
    BY <2>2, <2>3, <2>4, <2>5, <2>7 DEF ReadAt
  <2>10. /\ put_field(t, read_field(t, b)) = b
         /\ t \in Numbers => read_field(t, b) \in Nat
         /\ t \notin Numbers => read_field(t, b) \in Bytes(Width[t])
    BY <2>4, <2>8, FieldAgain
  <2>11. s[i] = b
    BY <1>5, <2>4, <2>9, <2>10
  <2> QED BY <2>4, <2>7, <2>8, <2>9, <2>10, <2>11, Zenon
<1>7. Parts(s, n)
  BY <1>0, <1>5, <1>6 DEF Parts, Field
<1>8. Sized(at, s, n) /\ \A i \in 1 .. n : s[i] = read_array(data, o + at[i - 1], Len(s[i]))
  BY <1>1, <1>6 DEF Sized, Field
<1>9. PICK f : Joins(f, s, n) /\ FlattenSeq(s) = f[n]
  BY <1>7, Flattened
<1>10. f[n] = read_array(data, o, at[n])
  BY <1>7, <1>8, <1>9, PartsRead
<1>11. put_fields(F, v) = f[n]
  BY <1>0, <1>5, <1>9 DEF put_fields
<1> QED BY <1>4, <1>6, <1>10, <1>11

(***************************************************************************)
(* The fields of a struct, run by run.                                     *)
(***************************************************************************)
\* n fields of s bytes in all, each with its rank.
Layout(F, n, s, rank) ==
  /\ Listed(F, n) /\ Ranked(F, n, rank)
  /\ F = [i \in 1 .. n |-> F[i]]
  /\ s \in Nat /\ cursor_at(F, n) = s

Has(F, name, type) == \E i \in DOMAIN F : F[i].name = name /\ F[i].type = type

\* k more names, with their ranks behind the first n.
Run(names, k, n, rank) ==
  /\ k \in Nat /\ Len(names) = k /\ DOMAIN names = 1 .. k
  /\ \A j \in 1 .. k : rank[names[j]] = n + j

RunOf(R, names, t) == R = [i \in DOMAIN names |-> [name |-> names[i], type |-> t]]

\* G is F with the fields of the run behind it.
Appended(G, F, n, k, names, t) ==
  /\ G = [i \in 1 .. n + k |-> G[i]] /\ Len(G) = n + k /\ DOMAIN G = 1 .. n + k
  /\ \A i \in 1 .. n : G[i] = F[i]
  /\ \A j \in 1 .. k : G[n + j].name = names[j] /\ G[n + j].type = t

LEMMA RunElements ==
  ASSUME NEW n \in Nat, NEW F, F = [i \in 1 .. n |-> F[i]], NEW R, NEW names, NEW k,
         NEW rank, Run(names, k, n, rank), NEW t \in Types, RunOf(R, names, t)
  PROVE  Appended(F \o R, F, n, k, names, t)
<1>2. k \in Nat /\ DOMAIN names = 1 .. k
  BY DEF Run
<1>3. R = [i \in 1 .. k |-> [name |-> names[i], type |-> t]]
  BY <1>2 DEF RunOf
<1>f. PICK S : S = {F[i] : i \in 1 .. n} \cup {R[i] : i \in 1 .. k}
  OBVIOUS
<1>1. F \in Seq(S) /\ Len(F) = n
  <2>1. F \in [1 .. n -> S]
    BY <1>f
  <2> QED BY <2>1
<1>4. R \in Seq(S) /\ Len(R) = k /\ \A j \in 1 .. k : R[j] = [name |-> names[j], type |-> t]
  <2>1. R \in [1 .. k -> S]
    <3>1. \A i \in 1 .. k : R[i] \in S
      BY <1>f
    <3> QED BY <1>3, <3>1
  <2>2. R \in Seq(S) /\ Len(R) = k
    BY <1>2, <2>1
  <2> QED BY <1>3, <2>2
<1>5. /\ F \o R \in Seq(S) /\ Len(F \o R) = n + k
      /\ \A i \in 1 .. Len(F) + Len(R) :
           (F \o R)[i] = IF i <= Len(F) THEN F[i] ELSE R[i - Len(F)]
  BY <1>1, <1>2, <1>4, ConcatProperties
<1>6. DOMAIN (F \o R) = 1 .. n + k /\ F \o R = [i \in 1 .. n + k |-> (F \o R)[i]]
  <2>1. F \o R \in [1 .. n + k -> S]
    BY <1>5, LenProperties
  <2> QED BY <2>1
<1>7. ASSUME NEW i \in 1 .. n PROVE (F \o R)[i] = F[i]
  BY <1>1, <1>2, <1>4, <1>5
<1>8. ASSUME NEW j \in 1 .. k
      PROVE  (F \o R)[n + j].name = names[j] /\ (F \o R)[n + j].type = t
  <2>1. n + j \in 1 .. n + k /\ ~(n + j <= n) /\ (n + j) - n = j
    BY <1>1, <1>2
  <2>2. (F \o R)[n + j] = R[j]
    BY <1>4, <1>5, <2>1
  <2> QED BY <1>4, <2>2
<1> QED BY <1>5, <1>6, <1>7, <1>8 DEF Appended

LEMMA RunAdded ==
  ASSUME NEW n, NEW s, NEW F, NEW rank, Layout(F, n, s, rank), NEW R, NEW names, NEW k,
         Run(names, k, n, rank), NEW t \in Types, RunOf(R, names, t)
  PROVE  /\ Layout(F \o R, n + k, s + k * Width[t], rank)
         /\ \A name, type : Has(F, name, type) => Has(F \o R, name, type)
         /\ \A j \in 1 .. k : Has(F \o R, names[j], t)
<1>0. /\ n \in Nat /\ k \in Nat /\ s \in Nat /\ F = [i \in 1 .. n |-> F[i]] /\ Len(F) = n
      /\ DOMAIN F = 1 .. n /\ (\A i \in 1 .. n : F[i].type \in Types)
      /\ (\A i \in 1 .. n : rank[F[i].name] = i)
      /\ (\A j \in 1 .. k : rank[names[j]] = n + j)
      /\ cursor_at(F, n) = s /\ Listed(F, n)
  BY DEF Layout, Listed, Run, Ranked
<1>1. PICK G : G = F \o R
  OBVIOUS
<1>2. /\ G = [i \in 1 .. n + k |-> G[i]] /\ Len(G) = n + k /\ DOMAIN G = 1 .. n + k
      /\ \A i \in 1 .. n : G[i] = F[i]
      /\ \A j \in 1 .. k : G[n + j].name = names[j] /\ G[n + j].type = t
  <2>1. n \in Nat /\ F = [i \in 1 .. n |-> F[i]]
    BY <1>0
  <2>2. Appended(F \o R, F, n, k, names, t)
    BY <2>1, RunElements
  <2> QED BY <1>1, <2>2 DEF Appended
<1>3. ASSUME NEW i \in 1 .. n + k
      PROVE  i \in 1 .. n \/ \E j \in 1 .. k : i = n + j
  <2>1. CASE i <= n
    BY <2>1, <1>0
  <2>2. CASE ~(i <= n)
    <3>1. i - n \in 1 .. k /\ i = n + (i - n)
      BY <2>2, <1>0
    <3> QED BY <3>1
  <2> QED BY <2>1, <2>2
<1>4. \A i \in 1 .. n + k : G[i].type \in Types /\ rank[G[i].name] = i
  <2> SUFFICES ASSUME NEW i \in 1 .. n + k PROVE G[i].type \in Types /\ rank[G[i].name] = i
    OBVIOUS
  <2>1. CASE i \in 1 .. n
    <3>1. G[i] = F[i] /\ F[i].type \in Types /\ rank[F[i].name] = i
      BY <1>0, <1>2, <2>1
    <3> QED BY <3>1
  <2>2. CASE \E j \in 1 .. k : i = n + j
    <3>1. PICK j \in 1 .. k : i = n + j
      BY <2>2
    <3>2. G[n + j].name = names[j] /\ G[n + j].type = t /\ rank[names[j]] = n + j
      BY <1>0, <1>2
    <3> QED BY <3>1, <3>2
  <2> QED BY <1>3, <2>1, <2>2
<1>5. n + k \in Nat
  BY <1>0
<1>6. Listed(G, n + k)
  BY <1>2, <1>4, <1>5 DEF Listed
<1>7. PICK at : Moves(at, G, n + k) /\ \A i \in 0 .. n + k : cursor_at(G, i) = at[i]
  BY <1>6, CursorFacts
<1>8. PICK af : Moves(af, F, n) /\ \A i \in 0 .. n : cursor_at(F, i) = af[i]
  <2>1. Listed(F, n)
    BY DEF Layout
  <2> QED BY <2>1, CursorFacts
<1>9. /\ at \in [0 .. n + k -> Nat] /\ af \in [0 .. n -> Nat] /\ at[0] = 0 /\ af[0] = 0
      /\ (\A i \in 1 .. n + k : at[i] = at[i - 1] + Width[G[i].type])
      /\ (\A i \in 1 .. n : af[i] = af[i - 1] + Width[F[i].type])
  BY <1>7, <1>8 DEF Moves
<1>10. at[n] = s
  <2> DEFINE Q == {i \in 0 .. n : at[i] = af[i]}
  <2>1. 0 \in Q
    BY <1>0, <1>9
  <2>2. ASSUME NEW i \in 1 .. n, i - 1 \in Q PROVE i \in Q
    <3>1. i \in 0 .. n /\ i \in 1 .. n + k /\ at[i - 1] = af[i - 1]
      BY <1>0, <2>2
    <3>2. G[i] = F[i]
      BY <1>2
    <3>3. at[i] = at[i - 1] + Width[G[i].type]
      BY <1>9, <3>1
    <3>4. af[i] = af[i - 1] + Width[F[i].type]
      BY <1>9
    <3>5. at[i] = af[i]
      BY <3>1, <3>2, <3>3, <3>4, Zenon
    <3> QED BY <3>1, <3>5
  <2> HIDE DEF Q
  <2>3. \A i \in 0 .. n : i \in Q
    BY <1>0, <2>1, <2>2, UpTo
  <2>4. n \in 0 .. n
    BY <1>0
  <2>5. n \in Q
    BY <2>3, <2>4
  <2>6. at[n] = af[n]
    BY <2>5 DEF Q
  <2>7. cursor_at(F, n) = af[n]
    BY <1>8, <2>4
  <2> QED BY <1>0, <2>6, <2>7
<1>11. PICK w \in Nat : w = Width[t]
  BY Widths
<1>12. at[n + k] = s + k * w
  <2> DEFINE Q == {j \in 0 .. k : at[n + j] = s + j * w}
  <2>1. 0 \in Q
    <3>1. n + 0 = n /\ s + 0 * w = s /\ 0 \in 0 .. k
      BY <1>0
    <3> QED BY <1>10, <3>1
  <2>2. ASSUME NEW j \in 1 .. k, j - 1 \in Q PROVE j \in Q
    <3>1. j \in 0 .. k /\ n + j \in 1 .. n + k /\ (n + j) - 1 = n + (j - 1) /\ j - 1 \in Nat
      BY <1>0
    <3>2. at[n + (j - 1)] = s + (j - 1) * w
      BY <2>2
    <3>3. at[n + j] = at[(n + j) - 1] + Width[G[n + j].type]
      BY <1>9, <3>1
    <3>4. at[n + j] = (s + (j - 1) * w) + w
      BY <1>2, <1>11, <3>1, <3>2, <3>3, Zenon
    <3>5. (s + (j - 1) * w) + w = s + j * w
      <4>1. PICK i \in Nat : i = j - 1
        BY <3>1
      <4>2. j = i + 1
        BY <4>1
      <4>3. (i + 1) * w = i * w + w
        BY <4>1
      <4>4. i * w \in Nat
        BY <4>1
      <4> QED BY <1>0, <4>1, <4>2, <4>3, <4>4
    <3> QED BY <3>1, <3>4, <3>5
  <2> HIDE DEF Q
  <2>3. \A j \in 0 .. k : j \in Q
    BY <1>0, <2>1, <2>2, UpTo
  <2>4. k \in 0 .. k
    BY <1>0
  <2>5. k \in Q
    BY <2>3, <2>4
  <2> QED BY <2>5 DEF Q
<1>13. n + k \in 0 .. n + k
  BY <1>5
<1>14. cursor_at(G, n + k) = s + k * w
  BY <1>7, <1>12, <1>13
<1>15. s + k * w \in Nat
  <2>1. PICK x \in Nat : x = k * w
    BY <1>0
  <2> QED BY <1>0, <2>1
<1>16. Ranked(G, n + k, rank)
  BY <1>4 DEF Ranked
<1>17. Layout(G, n + k, s + k * Width[t], rank)
  BY <1>2, <1>6, <1>11, <1>14, <1>15, <1>16 DEF Layout
<1>18. ASSUME NEW name, NEW type, Has(F, name, type) PROVE Has(G, name, type)
  <2>1. PICK i \in 1 .. n : F[i].name = name /\ F[i].type = type
    BY <1>0, <1>18 DEF Has
  <2>2. i \in DOMAIN G /\ G[i] = F[i]
    <3>1. i \in 1 .. n + k
      BY <1>0
    <3> QED BY <1>2, <3>1
  <2> QED BY <2>1, <2>2 DEF Has
<1>19. ASSUME NEW j \in 1 .. k PROVE Has(G, names[j], t)
  <2>1. n + j \in DOMAIN G
    BY <1>0, <1>2
  <2> QED BY <1>2, <2>1 DEF Has
<1> QED BY <1>1, <1>17, <1>18, <1>19

LEMMA RunFirst ==
  ASSUME NEW R, NEW names, NEW k, NEW rank, Run(names, k, 0, rank), NEW t \in Types,
         RunOf(R, names, t)
  PROVE  Layout(R, k, k * Width[t], rank) /\ \A j \in 1 .. k : Has(R, names[j], t)
<1>1. PICK F : F = << >>
  OBVIOUS
<1>2. F = [i \in 1 .. 0 |-> F[i]] /\ Len(F) = 0 /\ DOMAIN F = 1 .. 0
  BY <1>1
<1>3. Listed(F, 0) /\ Ranked(F, 0, rank)
  BY <1>2 DEF Listed, Ranked
<1>4. PICK at : Moves(at, F, 0) /\ \A i \in 0 .. 0 : cursor_at(F, i) = at[i]
  BY <1>3, CursorFacts
<1>5. cursor_at(F, 0) = 0
  BY <1>4 DEF Moves
<1>6. Layout(F, 0, 0, rank)
  BY <1>2, <1>3, <1>5 DEF Layout
<1>7. k \in Nat /\ DOMAIN names = 1 .. k
  BY DEF Run
<1>8. R \in Seq({R[i] : i \in 1 .. k})
  <2>1. R \in [1 .. k -> {R[i] : i \in 1 .. k}]
    BY <1>7 DEF RunOf
  <2> QED BY <1>7, <2>1
<1>9. F \o R = R
  BY <1>1, <1>8, ConcatEmptySeq
<1>10. /\ Layout(F \o R, 0 + k, 0 + k * Width[t], rank)
       /\ \A j \in 1 .. k : Has(F \o R, names[j], t)
  BY <1>6, RunAdded
<1>11. PICK w \in Nat : w = Width[t]
  BY Widths
<1>12. 0 + k = k /\ 0 + k * w = k * w
  <2>1. PICK x \in Nat : x = k * w
    BY <1>7
  <2> QED BY <1>7, <2>1
<1> QED BY <1>9, <1>10, <1>11, <1>12, Zenon

\* The names at the head and behind it.
LEMMA Runs ==
  \A names : /\ RunOf(u8s(names), names, "u8") /\ RunOf(u16s(names), names, "u16")
             /\ RunOf(u64s(names), names, "u64") /\ RunOf(keys(names), names, "key")
             /\ RunOf(opaque(names), names, "payload")
BY DEF RunOf, u8s, u16s, u64s, keys, opaque

LEMMA TypeWidths ==
  /\ {"u8", "u16", "u64", "key", "payload"} \subseteq Types
  /\ Width["u8"] = 1 /\ Width["u16"] = CountLen /\ Width["u64"] = WordLen
  /\ Width["key"] = HashLen /\ Width["payload"] = MaxPayload
BY DEF Types, Width

Laid(F, s) == \E n, rank : Layout(F, n, s, rank)

LEMMA KernelRequestLaid ==
  Laid(kernel_encode_request, 3 * HashLen + 7 * WordLen)
<1> DEFINE
  a == <<"plan_hash", "market", "domain">>
  b == <<"engine_revision", "amount_in", "amount_out", "protocol_fee",
          "accounted_input_before", "accounted_output_before", "accounted_fee_before">>
  rank == [plan_hash |-> 1, market |-> 2, domain |-> 3, engine_revision |-> 4,
    amount_in |-> 5, amount_out |-> 6, protocol_fee |-> 7, accounted_input_before |-> 8,
    accounted_output_before |-> 9, accounted_fee_before |-> 10]
<1>1. Run(a, 3, 0, rank)
  <2>1. Len(a) = 3 /\ DOMAIN a = 1 .. 3
    OBVIOUS
  <2>2. rank[a[1]] = 1 /\ rank[a[2]] = 2 /\ rank[a[3]] = 3
    OBVIOUS
  <2> HIDE DEF a, rank
  <2> QED BY <2>1, <2>2 DEF Run
<1>2. Run(b, 7, 3, rank)
  <2>1. Len(b) = 7 /\ DOMAIN b = 1 .. 7
    OBVIOUS
  <2>2. /\ rank[b[1]] = 4 /\ rank[b[2]] = 5 /\ rank[b[3]] = 6 /\ rank[b[4]] = 7
        /\ rank[b[5]] = 8 /\ rank[b[6]] = 9 /\ rank[b[7]] = 10
    OBVIOUS
  <2> HIDE DEF b, rank
  <2> QED BY <2>1, <2>2 DEF Run
<1>3. kernel_encode_request = keys(a) \o u64s(b)
  BY DEF kernel_encode_request
<1> HIDE DEF a, b, rank
<1>4. Layout(keys(a), 3, 3 * HashLen, rank)
  BY <1>1, RunFirst, Runs, TypeWidths
<1>5. Layout(keys(a) \o u64s(b), 10, 3 * HashLen + 7 * WordLen, rank)
  BY <1>2, <1>4, RunAdded, Runs, TypeWidths
<1> QED BY <1>3, <1>5 DEF Laid

LEMMA KernelReceiptLaid ==
  Laid(kernel_encode_receipt, 1 * HashLen + 1 * WordLen)
<1> DEFINE
  a == <<"plan_hash">>
  b == <<"state_sequence">>
  rank == [plan_hash |-> 1, state_sequence |-> 2]
<1>1. Run(a, 1, 0, rank)
  <2>1. Len(a) = 1 /\ DOMAIN a = 1 .. 1 /\ rank[a[1]] = 1
    OBVIOUS
  <2> HIDE DEF a, rank
  <2> QED BY <2>1 DEF Run
<1>2. Run(b, 1, 1, rank)
  <2>1. Len(b) = 1 /\ DOMAIN b = 1 .. 1 /\ rank[b[1]] = 2
    OBVIOUS
  <2> HIDE DEF b, rank
  <2> QED BY <2>1 DEF Run
<1>3. kernel_encode_receipt = keys(a) \o u64s(b)
  BY DEF kernel_encode_receipt
<1> HIDE DEF a, b, rank
<1>4. Layout(keys(a), 1, 1 * HashLen, rank)
  BY <1>1, RunFirst, Runs, TypeWidths
<1>5. Layout(keys(a) \o u64s(b), 2, 1 * HashLen + 1 * WordLen, rank)
  BY <1>2, <1>4, RunAdded, Runs, TypeWidths
<1> QED BY <1>3, <1>5 DEF Laid

LEMMA RequestBindingLaid ==
  Laid(encode_request_binding, 15 * HashLen + 11 * WordLen + 2 * HashLen)
<1> DEFINE
  a == <<"core_program", "market", "domain", "engine_program", "engine_state",
          "user_authority", "user_input", "user_output", "mint_in", "mint_out",
          "domain_input_vault", "domain_output_vault", "protocol_fee_vault", "fee_ledger",
          "token_program">>
  b == <<"engine_revision", "fee_policy_revision", "amount_in", "protocol_fee",
          "max_total_input_debit", "min_output_credit", "max_protocol_fee",
          "accounted_input_before", "accounted_output_before", "accounted_fee_before",
          "expires_at_slot">>
  c == <<"capability_hash", "payload_hash">>
  rank == [core_program |-> 1, market |-> 2, domain |-> 3, engine_program |-> 4,
    engine_state |-> 5, user_authority |-> 6, user_input |-> 7, user_output |-> 8,
    mint_in |-> 9, mint_out |-> 10, domain_input_vault |-> 11, domain_output_vault |-> 12,
    protocol_fee_vault |-> 13, fee_ledger |-> 14, token_program |-> 15,
    engine_revision |-> 16, fee_policy_revision |-> 17, amount_in |-> 18,
    protocol_fee |-> 19, max_total_input_debit |-> 20, min_output_credit |-> 21,
    max_protocol_fee |-> 22, accounted_input_before |-> 23, accounted_output_before |-> 24,
    accounted_fee_before |-> 25, expires_at_slot |-> 26, capability_hash |-> 27,
    payload_hash |-> 28]
<1>1. Run(a, 15, 0, rank)
  <2>1. Len(a) = 15 /\ DOMAIN a = 1 .. 15
    OBVIOUS
  <2>2. /\ rank[a[1]] = 1 /\ rank[a[2]] = 2 /\ rank[a[3]] = 3 /\ rank[a[4]] = 4
        /\ rank[a[5]] = 5 /\ rank[a[6]] = 6 /\ rank[a[7]] = 7 /\ rank[a[8]] = 8
        /\ rank[a[9]] = 9 /\ rank[a[10]] = 10 /\ rank[a[11]] = 11 /\ rank[a[12]] = 12
        /\ rank[a[13]] = 13 /\ rank[a[14]] = 14 /\ rank[a[15]] = 15
    OBVIOUS
  <2> HIDE DEF a, rank
  <2> QED BY <2>1, <2>2 DEF Run
<1>2. Run(b, 11, 15, rank)
  <2>1. Len(b) = 11 /\ DOMAIN b = 1 .. 11
    OBVIOUS
  <2>2. /\ rank[b[1]] = 16 /\ rank[b[2]] = 17 /\ rank[b[3]] = 18 /\ rank[b[4]] = 19
        /\ rank[b[5]] = 20 /\ rank[b[6]] = 21 /\ rank[b[7]] = 22 /\ rank[b[8]] = 23
        /\ rank[b[9]] = 24 /\ rank[b[10]] = 25 /\ rank[b[11]] = 26
    OBVIOUS
  <2> HIDE DEF b, rank
  <2> QED BY <2>1, <2>2 DEF Run
<1>3. Run(c, 2, 26, rank)
  <2>1. Len(c) = 2 /\ DOMAIN c = 1 .. 2
    OBVIOUS
  <2>2. rank[c[1]] = 27 /\ rank[c[2]] = 28
    OBVIOUS
  <2> HIDE DEF c, rank
  <2> QED BY <2>1, <2>2 DEF Run
<1>4. encode_request_binding = keys(a) \o u64s(b) \o keys(c)
  BY DEF encode_request_binding
<1> HIDE DEF a, b, c, rank
<1>5. Layout(keys(a), 15, 15 * HashLen, rank)
  BY <1>1, RunFirst, Runs, TypeWidths
<1>6. Layout(keys(a) \o u64s(b), 26, 15 * HashLen + 11 * WordLen, rank)
  BY <1>2, <1>5, RunAdded, Runs, TypeWidths
<1>7. Layout(keys(a) \o u64s(b) \o keys(c), 28,
               15 * HashLen + 11 * WordLen + 2 * HashLen, rank)
  BY <1>3, <1>6, RunAdded, Runs, TypeWidths
<1> QED BY <1>4, <1>7 DEF Laid

LEMMA EngineRequestLaid ==
  /\ Laid(encode_request, 3 * HashLen + 4 * WordLen + 1 * CountLen + 1 * HashLen + 1 * CountLen + 1 * MaxPayload)
  /\ Has(encode_request, "payload_len", "u16") /\ Has(encode_request, "payload", "payload")
<1> DEFINE
  a == <<"request_hash", "market", "domain">>
  b == <<"engine_revision", "amount_in", "accounted_input_before", "accounted_output_before">>
  c == <<"opaque_account_count">>
  d == <<"capability_hash">>
  e == <<"payload_len">>
  f == <<"payload">>
  rank == [request_hash |-> 1, market |-> 2, domain |-> 3, engine_revision |-> 4,
    amount_in |-> 5, accounted_input_before |-> 6, accounted_output_before |-> 7,
    opaque_account_count |-> 8, capability_hash |-> 9, payload_len |-> 10, payload |-> 11]
<1>1. Run(a, 3, 0, rank)
  <2>1. Len(a) = 3 /\ DOMAIN a = 1 .. 3
    OBVIOUS
  <2>2. rank[a[1]] = 1 /\ rank[a[2]] = 2 /\ rank[a[3]] = 3
    OBVIOUS
  <2> HIDE DEF a, rank
  <2> QED BY <2>1, <2>2 DEF Run
<1>2. Run(b, 4, 3, rank)
  <2>1. Len(b) = 4 /\ DOMAIN b = 1 .. 4
    OBVIOUS
  <2>2. rank[b[1]] = 4 /\ rank[b[2]] = 5 /\ rank[b[3]] = 6 /\ rank[b[4]] = 7
    OBVIOUS
  <2> HIDE DEF b, rank
  <2> QED BY <2>1, <2>2 DEF Run
<1>3. Run(c, 1, 7, rank)
  <2>1. Len(c) = 1 /\ DOMAIN c = 1 .. 1 /\ rank[c[1]] = 8
    OBVIOUS
  <2> HIDE DEF c, rank
  <2> QED BY <2>1 DEF Run
<1>4. Run(d, 1, 8, rank)
  <2>1. Len(d) = 1 /\ DOMAIN d = 1 .. 1 /\ rank[d[1]] = 9
    OBVIOUS
  <2> HIDE DEF d, rank
  <2> QED BY <2>1 DEF Run
<1>5. Run(e, 1, 9, rank)
  <2>1. Len(e) = 1 /\ DOMAIN e = 1 .. 1 /\ rank[e[1]] = 10
    OBVIOUS
  <2> HIDE DEF e, rank
  <2> QED BY <2>1 DEF Run
<1>6. Run(f, 1, 10, rank)
  <2>1. Len(f) = 1 /\ DOMAIN f = 1 .. 1 /\ rank[f[1]] = 11
    OBVIOUS
  <2> HIDE DEF f, rank
  <2> QED BY <2>1 DEF Run
<1>7. encode_request = keys(a) \o u64s(b) \o u16s(c) \o keys(d) \o u16s(e) \o opaque(f)
  BY DEF encode_request
<1>8. e[1] = "payload_len" /\ f[1] = "payload"
  OBVIOUS
<1> HIDE DEF a, b, c, d, e, f, rank
<1>9. Layout(keys(a), 3, 3 * HashLen, rank)
  BY <1>1, RunFirst, Runs, TypeWidths
<1>10. Layout(keys(a) \o u64s(b), 7, 3 * HashLen + 4 * WordLen, rank)
  BY <1>2, <1>9, RunAdded, Runs, TypeWidths
<1>11. Layout(keys(a) \o u64s(b) \o u16s(c), 8,
               3 * HashLen + 4 * WordLen + 1 * CountLen, rank)
  BY <1>3, <1>10, RunAdded, Runs, TypeWidths
<1>12. Layout(keys(a) \o u64s(b) \o u16s(c) \o keys(d), 9,
               3 * HashLen + 4 * WordLen + 1 * CountLen + 1 * HashLen, rank)
  BY <1>4, <1>11, RunAdded, Runs, TypeWidths
<1>13. /\ Layout(keys(a) \o u64s(b) \o u16s(c) \o keys(d) \o u16s(e), 10,
                  3 * HashLen + 4 * WordLen + 1 * CountLen + 1 * HashLen + 1 * CountLen, rank)
      /\ Has(keys(a) \o u64s(b) \o u16s(c) \o keys(d) \o u16s(e), e[1], "u16")
  BY <1>5, <1>12, RunAdded, Runs, TypeWidths
<1>14. /\ Layout(keys(a) \o u64s(b) \o u16s(c) \o keys(d) \o u16s(e) \o opaque(f), 11,
                  3 * HashLen + 4 * WordLen + 1 * CountLen + 1 * HashLen + 1 * CountLen + 1 * MaxPayload, rank)
      /\ Has(keys(a) \o u64s(b) \o u16s(c) \o keys(d) \o u16s(e) \o opaque(f), e[1], "u16")
      /\ Has(keys(a) \o u64s(b) \o u16s(c) \o keys(d) \o u16s(e) \o opaque(f), f[1], "payload")
  BY <1>6, <1>13, RunAdded, Runs, TypeWidths
<1> QED BY <1>7, <1>8, <1>14 DEF Laid

LEMMA GeneratedReceiptLaid ==
  Laid(generated_encode_receipt, 1 * HashLen + 2 * WordLen)
<1> DEFINE
  a == <<"request_hash">>
  b == <<"amount_out", "state_sequence">>
  rank == [request_hash |-> 1, amount_out |-> 2, state_sequence |-> 3]
<1>1. Run(a, 1, 0, rank)
  <2>1. Len(a) = 1 /\ DOMAIN a = 1 .. 1 /\ rank[a[1]] = 1
    OBVIOUS
  <2> HIDE DEF a, rank
  <2> QED BY <2>1 DEF Run
<1>2. Run(b, 2, 1, rank)
  <2>1. Len(b) = 2 /\ DOMAIN b = 1 .. 2
    OBVIOUS
  <2>2. rank[b[1]] = 2 /\ rank[b[2]] = 3
    OBVIOUS
  <2> HIDE DEF b, rank
  <2> QED BY <2>1, <2>2 DEF Run
<1>3. generated_encode_receipt = keys(a) \o u64s(b)
  BY DEF generated_encode_receipt
<1> HIDE DEF a, b, rank
<1>4. Layout(keys(a), 1, 1 * HashLen, rank)
  BY <1>1, RunFirst, Runs, TypeWidths
<1>5. Layout(keys(a) \o u64s(b), 3, 1 * HashLen + 2 * WordLen, rank)
  BY <1>2, <1>4, RunAdded, Runs, TypeWidths
<1> QED BY <1>3, <1>5 DEF Laid

LEMMA IntentBindingLaid ==
  Laid(encode_intent_binding, 1 + 15 * HashLen + 8 * WordLen + 3 * HashLen)
<1> DEFINE
  a == <<"timing_mode">>
  b == <<"core_program", "market", "domain", "engine_program", "engine_state",
          "user_authority", "user_input", "user_output", "mint_in", "mint_out",
          "domain_input_vault", "domain_output_vault", "protocol_fee_vault", "fee_ledger",
          "token_program">>
  c == <<"engine_revision", "fee_policy_revision", "amount_in", "protocol_fee",
          "max_total_input_debit", "min_output_credit", "max_protocol_fee",
          "expires_at_slot">>
  d == <<"authorization_nonce", "authorized_capability_hash", "payload_hash">>
  rank == [timing_mode |-> 1, core_program |-> 2, market |-> 3, domain |-> 4,
    engine_program |-> 5, engine_state |-> 6, user_authority |-> 7, user_input |-> 8,
    user_output |-> 9, mint_in |-> 10, mint_out |-> 11, domain_input_vault |-> 12,
    domain_output_vault |-> 13, protocol_fee_vault |-> 14, fee_ledger |-> 15,
    token_program |-> 16, engine_revision |-> 17, fee_policy_revision |-> 18,
    amount_in |-> 19, protocol_fee |-> 20, max_total_input_debit |-> 21,
    min_output_credit |-> 22, max_protocol_fee |-> 23, expires_at_slot |-> 24,
    authorization_nonce |-> 25, authorized_capability_hash |-> 26, payload_hash |-> 27]
<1>1. Run(a, 1, 0, rank)
  <2>1. Len(a) = 1 /\ DOMAIN a = 1 .. 1 /\ rank[a[1]] = 1
    OBVIOUS
  <2> HIDE DEF a, rank
  <2> QED BY <2>1 DEF Run
<1>2. Run(b, 15, 1, rank)
  <2>1. Len(b) = 15 /\ DOMAIN b = 1 .. 15
    OBVIOUS
  <2>2. /\ rank[b[1]] = 2 /\ rank[b[2]] = 3 /\ rank[b[3]] = 4 /\ rank[b[4]] = 5
        /\ rank[b[5]] = 6 /\ rank[b[6]] = 7 /\ rank[b[7]] = 8 /\ rank[b[8]] = 9
        /\ rank[b[9]] = 10 /\ rank[b[10]] = 11 /\ rank[b[11]] = 12 /\ rank[b[12]] = 13
        /\ rank[b[13]] = 14 /\ rank[b[14]] = 15 /\ rank[b[15]] = 16
    OBVIOUS
  <2> HIDE DEF b, rank
  <2> QED BY <2>1, <2>2 DEF Run
<1>3. Run(c, 8, 16, rank)
  <2>1. Len(c) = 8 /\ DOMAIN c = 1 .. 8
    OBVIOUS
  <2>2. /\ rank[c[1]] = 17 /\ rank[c[2]] = 18 /\ rank[c[3]] = 19 /\ rank[c[4]] = 20
        /\ rank[c[5]] = 21 /\ rank[c[6]] = 22 /\ rank[c[7]] = 23 /\ rank[c[8]] = 24
    OBVIOUS
  <2> HIDE DEF c, rank
  <2> QED BY <2>1, <2>2 DEF Run
<1>4. Run(d, 3, 24, rank)
  <2>1. Len(d) = 3 /\ DOMAIN d = 1 .. 3
    OBVIOUS
  <2>2. rank[d[1]] = 25 /\ rank[d[2]] = 26 /\ rank[d[3]] = 27
    OBVIOUS
  <2> HIDE DEF d, rank
  <2> QED BY <2>1, <2>2 DEF Run
<1>5. encode_intent_binding = u8s(a) \o keys(b) \o u64s(c) \o keys(d)
  BY DEF encode_intent_binding
<1> HIDE DEF a, b, c, d, rank
<1>6. Layout(u8s(a), 1, 1, rank)
  <2>1. Layout(u8s(a), 1, 1 * Width["u8"], rank)
    BY <1>1, RunFirst, Runs, TypeWidths
  <2> QED BY <2>1, TypeWidths
<1>7. Layout(u8s(a) \o keys(b), 16, 1 + 15 * HashLen, rank)
  BY <1>2, <1>6, RunAdded, Runs, TypeWidths
<1>8. Layout(u8s(a) \o keys(b) \o u64s(c), 24, 1 + 15 * HashLen + 8 * WordLen, rank)
  BY <1>3, <1>7, RunAdded, Runs, TypeWidths
<1>9. Layout(u8s(a) \o keys(b) \o u64s(c) \o keys(d), 27,
               1 + 15 * HashLen + 8 * WordLen + 3 * HashLen, rank)
  BY <1>4, <1>8, RunAdded, Runs, TypeWidths
<1> QED BY <1>5, <1>9 DEF Laid

LEMMA ExecutionBindingLaid ==
  /\ Laid(encode_execution_binding, 1 + 4 * HashLen + 7 * WordLen + 2 * HashLen + 2 * CountLen + 1 * MaxPayload)
  /\ Has(encode_execution_binding, "payload_len", "u16") /\ Has(encode_execution_binding, "payload", "payload")
<1> DEFINE
  a == <<"phase">>
  b == <<"intent_digest", "phase_context_digest", "market", "domain">>
  c == <<"engine_revision", "amount_in", "protocol_fee", "accounted_input_before",
          "accounted_output_before", "accounted_fee_before", "pre_sequence">>
  d == <<"authorized_capability_hash", "phase_capability_hash">>
  e == <<"opaque_account_count", "payload_len">>
  f == <<"payload">>
  rank == [phase |-> 1, intent_digest |-> 2, phase_context_digest |-> 3, market |-> 4,
    domain |-> 5, engine_revision |-> 6, amount_in |-> 7, protocol_fee |-> 8,
    accounted_input_before |-> 9, accounted_output_before |-> 10,
    accounted_fee_before |-> 11, pre_sequence |-> 12, authorized_capability_hash |-> 13,
    phase_capability_hash |-> 14, opaque_account_count |-> 15, payload_len |-> 16,
    payload |-> 17]
<1>1. Run(a, 1, 0, rank)
  <2>1. Len(a) = 1 /\ DOMAIN a = 1 .. 1 /\ rank[a[1]] = 1
    OBVIOUS
  <2> HIDE DEF a, rank
  <2> QED BY <2>1 DEF Run
<1>2. Run(b, 4, 1, rank)
  <2>1. Len(b) = 4 /\ DOMAIN b = 1 .. 4
    OBVIOUS
  <2>2. rank[b[1]] = 2 /\ rank[b[2]] = 3 /\ rank[b[3]] = 4 /\ rank[b[4]] = 5
    OBVIOUS
  <2> HIDE DEF b, rank
  <2> QED BY <2>1, <2>2 DEF Run
<1>3. Run(c, 7, 5, rank)
  <2>1. Len(c) = 7 /\ DOMAIN c = 1 .. 7
    OBVIOUS
  <2>2. /\ rank[c[1]] = 6 /\ rank[c[2]] = 7 /\ rank[c[3]] = 8 /\ rank[c[4]] = 9
        /\ rank[c[5]] = 10 /\ rank[c[6]] = 11 /\ rank[c[7]] = 12
    OBVIOUS
  <2> HIDE DEF c, rank
  <2> QED BY <2>1, <2>2 DEF Run
<1>4. Run(d, 2, 12, rank)
  <2>1. Len(d) = 2 /\ DOMAIN d = 1 .. 2
    OBVIOUS
  <2>2. rank[d[1]] = 13 /\ rank[d[2]] = 14
    OBVIOUS
  <2> HIDE DEF d, rank
  <2> QED BY <2>1, <2>2 DEF Run
<1>5. Run(e, 2, 14, rank)
  <2>1. Len(e) = 2 /\ DOMAIN e = 1 .. 2
    OBVIOUS
  <2>2. rank[e[1]] = 15 /\ rank[e[2]] = 16
    OBVIOUS
  <2> HIDE DEF e, rank
  <2> QED BY <2>1, <2>2 DEF Run
<1>6. Run(f, 1, 16, rank)
  <2>1. Len(f) = 1 /\ DOMAIN f = 1 .. 1 /\ rank[f[1]] = 17
    OBVIOUS
  <2> HIDE DEF f, rank
  <2> QED BY <2>1 DEF Run
<1>7. encode_execution_binding = u8s(a) \o keys(b) \o u64s(c) \o keys(d) \o u16s(e) \o opaque(f)
  BY DEF encode_execution_binding
<1>8. e[2] = "payload_len" /\ f[1] = "payload"
  OBVIOUS
<1> HIDE DEF a, b, c, d, e, f, rank
<1>9. Layout(u8s(a), 1, 1, rank)
  <2>1. Layout(u8s(a), 1, 1 * Width["u8"], rank)
    BY <1>1, RunFirst, Runs, TypeWidths
  <2> QED BY <2>1, TypeWidths
<1>10. Layout(u8s(a) \o keys(b), 5, 1 + 4 * HashLen, rank)
  BY <1>2, <1>9, RunAdded, Runs, TypeWidths
<1>11. Layout(u8s(a) \o keys(b) \o u64s(c), 12, 1 + 4 * HashLen + 7 * WordLen, rank)
  BY <1>3, <1>10, RunAdded, Runs, TypeWidths
<1>12. Layout(u8s(a) \o keys(b) \o u64s(c) \o keys(d), 14,
               1 + 4 * HashLen + 7 * WordLen + 2 * HashLen, rank)
  BY <1>4, <1>11, RunAdded, Runs, TypeWidths
<1>13. /\ Layout(u8s(a) \o keys(b) \o u64s(c) \o keys(d) \o u16s(e), 16,
                  1 + 4 * HashLen + 7 * WordLen + 2 * HashLen + 2 * CountLen, rank)
      /\ Has(u8s(a) \o keys(b) \o u64s(c) \o keys(d) \o u16s(e), e[2], "u16")
  BY <1>5, <1>12, RunAdded, Runs, TypeWidths
<1>14. /\ Layout(u8s(a) \o keys(b) \o u64s(c) \o keys(d) \o u16s(e) \o opaque(f), 17,
                  1 + 4 * HashLen + 7 * WordLen + 2 * HashLen + 2 * CountLen + 1 * MaxPayload, rank)
      /\ Has(u8s(a) \o keys(b) \o u64s(c) \o keys(d) \o u16s(e) \o opaque(f), e[2], "u16")
      /\ Has(u8s(a) \o keys(b) \o u64s(c) \o keys(d) \o u16s(e) \o opaque(f), f[1], "payload")
  BY <1>6, <1>13, RunAdded, Runs, TypeWidths
<1> QED BY <1>7, <1>8, <1>14 DEF Laid

LEMMA ReceiptLaid ==
  Laid(encode_receipt, 1 + 2 * HashLen + 2 * WordLen)
<1> DEFINE
  a == <<"phase">>
  b == <<"intent_digest", "execution_digest">>
  c == <<"amount_out", "state_sequence">>
  rank == [phase |-> 1, intent_digest |-> 2, execution_digest |-> 3, amount_out |-> 4,
    state_sequence |-> 5]
<1>1. Run(a, 1, 0, rank)
  <2>1. Len(a) = 1 /\ DOMAIN a = 1 .. 1 /\ rank[a[1]] = 1
    OBVIOUS
  <2> HIDE DEF a, rank
  <2> QED BY <2>1 DEF Run
<1>2. Run(b, 2, 1, rank)
  <2>1. Len(b) = 2 /\ DOMAIN b = 1 .. 2
    OBVIOUS
  <2>2. rank[b[1]] = 2 /\ rank[b[2]] = 3
    OBVIOUS
  <2> HIDE DEF b, rank
  <2> QED BY <2>1, <2>2 DEF Run
<1>3. Run(c, 2, 3, rank)
  <2>1. Len(c) = 2 /\ DOMAIN c = 1 .. 2
    OBVIOUS
  <2>2. rank[c[1]] = 4 /\ rank[c[2]] = 5
    OBVIOUS
  <2> HIDE DEF c, rank
  <2> QED BY <2>1, <2>2 DEF Run
<1>4. encode_receipt = u8s(a) \o keys(b) \o u64s(c)
  BY DEF encode_receipt
<1> HIDE DEF a, b, c, rank
<1>5. Layout(u8s(a), 1, 1, rank)
  <2>1. Layout(u8s(a), 1, 1 * Width["u8"], rank)
    BY <1>1, RunFirst, Runs, TypeWidths
  <2> QED BY <2>1, TypeWidths
<1>6. Layout(u8s(a) \o keys(b), 3, 1 + 2 * HashLen, rank)
  BY <1>2, <1>5, RunAdded, Runs, TypeWidths
<1>7. Layout(u8s(a) \o keys(b) \o u64s(c), 5, 1 + 2 * HashLen + 2 * WordLen, rank)
  BY <1>3, <1>6, RunAdded, Runs, TypeWidths
<1> QED BY <1>4, <1>7 DEF Laid

LEMMA SettlementBindingLaid ==
  Laid(encode_settlement_binding, 3 * HashLen + 15 * WordLen)
<1> DEFINE
  a == <<"intent_digest", "primary_execution_digest", "primary_receipt_digest">>
  b == <<"amount_in", "amount_out", "protocol_fee", "total_input_debit",
          "accounted_input_before", "accounted_output_before", "accounted_fee_before",
          "accounted_input_after", "accounted_output_after", "accounted_fee_after",
          "observed_source_after", "observed_destination_after",
          "observed_input_vault_after", "observed_output_vault_after",
          "observed_fee_vault_after">>
  rank == [intent_digest |-> 1, primary_execution_digest |-> 2,
    primary_receipt_digest |-> 3, amount_in |-> 4, amount_out |-> 5, protocol_fee |-> 6,
    total_input_debit |-> 7, accounted_input_before |-> 8, accounted_output_before |-> 9,
    accounted_fee_before |-> 10, accounted_input_after |-> 11,
    accounted_output_after |-> 12, accounted_fee_after |-> 13, observed_source_after |-> 14,
    observed_destination_after |-> 15, observed_input_vault_after |-> 16,
    observed_output_vault_after |-> 17, observed_fee_vault_after |-> 18]
<1>1. Run(a, 3, 0, rank)
  <2>1. Len(a) = 3 /\ DOMAIN a = 1 .. 3
    OBVIOUS
  <2>2. rank[a[1]] = 1 /\ rank[a[2]] = 2 /\ rank[a[3]] = 3
    OBVIOUS
  <2> HIDE DEF a, rank
  <2> QED BY <2>1, <2>2 DEF Run
<1>2. Run(b, 15, 3, rank)
  <2>1. Len(b) = 15 /\ DOMAIN b = 1 .. 15
    OBVIOUS
  <2>2. /\ rank[b[1]] = 4 /\ rank[b[2]] = 5 /\ rank[b[3]] = 6 /\ rank[b[4]] = 7
        /\ rank[b[5]] = 8 /\ rank[b[6]] = 9 /\ rank[b[7]] = 10 /\ rank[b[8]] = 11
        /\ rank[b[9]] = 12 /\ rank[b[10]] = 13 /\ rank[b[11]] = 14 /\ rank[b[12]] = 15
        /\ rank[b[13]] = 16 /\ rank[b[14]] = 17 /\ rank[b[15]] = 18
    OBVIOUS
  <2> HIDE DEF b, rank
  <2> QED BY <2>1, <2>2 DEF Run
<1>3. encode_settlement_binding = keys(a) \o u64s(b)
  BY DEF encode_settlement_binding
<1> HIDE DEF a, b, rank
<1>4. Layout(keys(a), 3, 3 * HashLen, rank)
  BY <1>1, RunFirst, Runs, TypeWidths
<1>5. Layout(keys(a) \o u64s(b), 18, 3 * HashLen + 15 * WordLen, rank)
  BY <1>2, <1>4, RunAdded, Runs, TypeWidths
<1> QED BY <1>3, <1>5 DEF Laid

(***************************************************************************)
(* The formats.                                                            *)
(***************************************************************************)
\* The reader's list is the writer's, and its fields with what stands before and behind
\* them make up the length that is asked for.
Fits(k, s) ==
  /\ s \in Nat /\ Laid(Encoder[k], s) /\ Decoder[k] = Encoder[k]
  /\ Length[k] = LeadLen(k) + 1 + s + TrailLen(k)
  /\ LeadLen(k) \in {0, 1} /\ TrailLen(k) \in Nat

LEMMA FormatFits ==
  ASSUME NEW k \in Formats
  PROVE  \E s : Fits(k, s)
<1>0. HashLen \in Nat /\ WordLen \in Nat /\ CountLen \in Nat /\ MaxPayload \in Nat
  BY Sizes
<1>1. CASE k = "kernel_evaluate"
  <2>1. Encoder[k] = kernel_encode_request /\ Decoder[k] = kernel_decode_request
    BY <1>1 DEF Encoder, Decoder
  <2>2. kernel_decode_request = kernel_encode_request
    BY DEF kernel_decode_request, kernel_encode_request
  <2>3. Length[k] = 1 + KERNEL_REQUEST_LEN /\ LeadLen(k) = 1 /\ TrailLen(k) = 0
    BY <1>1 DEF Length, LeadLen, TrailLen, Instructions, Receipts
  <2>4. PICK s : s = 3 * HashLen + 7 * WordLen
    OBVIOUS
  <2>5. s \in Nat /\ Length[k] = LeadLen(k) + 1 + s + TrailLen(k)
    BY <1>0, <2>3, <2>4 DEF KERNEL_REQUEST_LEN
  <2>6. Laid(kernel_encode_request, s)
    BY <2>4, KernelRequestLaid
  <2> QED BY <1>0, <2>1, <2>2, <2>3, <2>5, <2>6 DEF Fits
<1>2. CASE k = "kernel_receipt"
  <2>1. Encoder[k] = kernel_encode_receipt /\ Decoder[k] = kernel_decode_receipt
    BY <1>2 DEF Encoder, Decoder
  <2>2. kernel_decode_receipt = kernel_encode_receipt
    BY DEF kernel_decode_receipt, kernel_encode_receipt
  <2>3. Length[k] = KERNEL_RECEIPT_LEN /\ LeadLen(k) = 1 /\ TrailLen(k) = 0
    BY <1>2 DEF Length, LeadLen, TrailLen, Instructions, Receipts
  <2>4. PICK s : s = 1 * HashLen + 1 * WordLen
    OBVIOUS
  <2>5. s \in Nat /\ Length[k] = LeadLen(k) + 1 + s + TrailLen(k)
    BY <1>0, <2>3, <2>4 DEF KERNEL_RECEIPT_LEN
  <2>6. Laid(kernel_encode_receipt, s)
    BY <2>4, KernelReceiptLaid
  <2> QED BY <1>0, <2>1, <2>2, <2>3, <2>5, <2>6 DEF Fits
<1>3. CASE k = "request_binding"
  <2>1. Encoder[k] = encode_request_binding /\ Decoder[k] = decode_request_binding
    BY <1>3 DEF Encoder, Decoder
  <2>2. decode_request_binding = encode_request_binding
    BY DEF decode_request_binding, encode_request_binding
  <2>3. Length[k] = REQUEST_BINDING_LEN /\ LeadLen(k) = 0 /\ TrailLen(k) = 0
    BY <1>3 DEF Length, LeadLen, TrailLen, Instructions, Receipts
  <2>4. PICK s : s = 15 * HashLen + 11 * WordLen + 2 * HashLen
    OBVIOUS
  <2>5. s \in Nat /\ Length[k] = LeadLen(k) + 1 + s + TrailLen(k)
    BY <1>0, <2>3, <2>4 DEF REQUEST_BINDING_LEN
  <2>6. Laid(encode_request_binding, s)
    BY <2>4, RequestBindingLaid
  <2> QED BY <1>0, <2>1, <2>2, <2>3, <2>5, <2>6 DEF Fits
<1>4. CASE k = "evaluate"
  <2>1. Encoder[k] = encode_request /\ Decoder[k] = decode_request
    BY <1>4 DEF Encoder, Decoder
  <2>2. decode_request = encode_request
    BY DEF decode_request, encode_request
  <2>3. Length[k] = 1 + ENGINE_REQUEST_LEN /\ LeadLen(k) = 1 /\ TrailLen(k) = 0
    BY <1>4 DEF Length, LeadLen, TrailLen, Instructions, Receipts
  <2>4. PICK s : s = 3 * HashLen + 4 * WordLen + 1 * CountLen + 1 * HashLen + 1 * CountLen + 1 * MaxPayload
    OBVIOUS
  <2>5. s \in Nat /\ Length[k] = LeadLen(k) + 1 + s + TrailLen(k)
    BY <1>0, <2>3, <2>4 DEF ENGINE_REQUEST_LEN
  <2>6. Laid(encode_request, s)
    BY <2>4, EngineRequestLaid
  <2> QED BY <1>0, <2>1, <2>2, <2>3, <2>5, <2>6 DEF Fits
<1>5. CASE k = "generated_receipt"
  <2>1. Encoder[k] = generated_encode_receipt /\ Decoder[k] = generated_decode_receipt
    BY <1>5 DEF Encoder, Decoder
  <2>2. generated_decode_receipt = generated_encode_receipt
    BY DEF generated_decode_receipt, generated_encode_receipt
  <2>3. Length[k] = GENERATED_RECEIPT_LEN /\ LeadLen(k) = 1 /\ TrailLen(k) = 0
    BY <1>5 DEF Length, LeadLen, TrailLen, Instructions, Receipts
  <2>4. PICK s : s = 1 * HashLen + 2 * WordLen
    OBVIOUS
  <2>5. s \in Nat /\ Length[k] = LeadLen(k) + 1 + s + TrailLen(k)
    BY <1>0, <2>3, <2>4 DEF GENERATED_RECEIPT_LEN
  <2>6. Laid(generated_encode_receipt, s)
    BY <2>4, GeneratedReceiptLaid
  <2> QED BY <1>0, <2>1, <2>2, <2>3, <2>5, <2>6 DEF Fits
<1>6. CASE k = "intent"
  <2>1. Encoder[k] = encode_intent_binding /\ Decoder[k] = decode_intent_binding
    BY <1>6 DEF Encoder, Decoder
  <2>2. decode_intent_binding = encode_intent_binding
    BY DEF decode_intent_binding, encode_intent_binding
  <2>3. Length[k] = INTENT_BINDING_LEN /\ LeadLen(k) = 0 /\ TrailLen(k) = 0
    BY <1>6 DEF Length, LeadLen, TrailLen, Instructions, Receipts
  <2>4. PICK s : s = 1 + 15 * HashLen + 8 * WordLen + 3 * HashLen
    OBVIOUS
  <2>5. s \in Nat /\ Length[k] = LeadLen(k) + 1 + s + TrailLen(k)
    BY <1>0, <2>3, <2>4 DEF INTENT_BINDING_LEN
  <2>6. Laid(encode_intent_binding, s)
    BY <2>4, IntentBindingLaid
  <2> QED BY <1>0, <2>1, <2>2, <2>3, <2>5, <2>6 DEF Fits
<1>7. CASE k = "phase"
  <2>1. Encoder[k] = encode_execution_binding /\ Decoder[k] = decode_execution_binding
    BY <1>7 DEF Encoder, Decoder
  <2>2. decode_execution_binding = encode_execution_binding
    BY DEF decode_execution_binding, encode_execution_binding
  <2>3. Length[k] = 1 + EXECUTION_BINDING_LEN + HashLen /\ LeadLen(k) = 1 /\ TrailLen(k) = HashLen
    BY <1>7 DEF Length, LeadLen, TrailLen, Instructions, Receipts
  <2>4. PICK s : s = 1 + 4 * HashLen + 7 * WordLen + 2 * HashLen + 2 * CountLen + 1 * MaxPayload
    OBVIOUS
  <2>5. s \in Nat /\ Length[k] = LeadLen(k) + 1 + s + TrailLen(k)
    BY <1>0, <2>3, <2>4 DEF EXECUTION_BINDING_LEN
  <2>6. Laid(encode_execution_binding, s)
    BY <2>4, ExecutionBindingLaid
  <2> QED BY <1>0, <2>1, <2>2, <2>3, <2>5, <2>6 DEF Fits
<1>8. CASE k = "receipt"
  <2>1. Encoder[k] = encode_receipt /\ Decoder[k] = decode_receipt
    BY <1>8 DEF Encoder, Decoder
  <2>2. decode_receipt = encode_receipt
    BY DEF decode_receipt, encode_receipt
  <2>3. Length[k] = ENGINE_RECEIPT_LEN /\ LeadLen(k) = 1 /\ TrailLen(k) = 0
    BY <1>8 DEF Length, LeadLen, TrailLen, Instructions, Receipts
  <2>4. PICK s : s = 1 + 2 * HashLen + 2 * WordLen
    OBVIOUS
  <2>5. s \in Nat /\ Length[k] = LeadLen(k) + 1 + s + TrailLen(k)
    BY <1>0, <2>3, <2>4 DEF ENGINE_RECEIPT_LEN
  <2>6. Laid(encode_receipt, s)
    BY <2>4, ReceiptLaid
  <2> QED BY <1>0, <2>1, <2>2, <2>3, <2>5, <2>6 DEF Fits
<1>9. CASE k = "settlement"
  <2>1. Encoder[k] = encode_settlement_binding /\ Decoder[k] = decode_settlement_binding
    BY <1>9 DEF Encoder, Decoder
  <2>2. decode_settlement_binding = encode_settlement_binding
    BY DEF decode_settlement_binding, encode_settlement_binding
  <2>3. Length[k] = SETTLEMENT_BINDING_LEN /\ LeadLen(k) = 0 /\ TrailLen(k) = 0
    BY <1>9 DEF Length, LeadLen, TrailLen, Instructions, Receipts
  <2>4. PICK s : s = 3 * HashLen + 15 * WordLen
    OBVIOUS
  <2>5. s \in Nat /\ Length[k] = LeadLen(k) + 1 + s + TrailLen(k)
    BY <1>0, <2>3, <2>4 DEF SETTLEMENT_BINDING_LEN
  <2>6. Laid(encode_settlement_binding, s)
    BY <2>4, SettlementBindingLaid
  <2> QED BY <1>0, <2>1, <2>2, <2>3, <2>5, <2>6 DEF Fits
<1> QED BY <1>1, <1>2, <1>3, <1>4, <1>5, <1>6, <1>7, <1>8, <1>9 DEF Formats

LEMMA PayloadFields ==
  ASSUME NEW k \in WithPayload
  PROVE  Has(Encoder[k], "payload_len", "u16") /\ Has(Encoder[k], "payload", "payload")
<1>1. CASE k = "evaluate"
  <2>1. Encoder[k] = encode_request
    BY <1>1 DEF Encoder
  <2> QED BY <2>1, EngineRequestLaid
<1>2. CASE k = "phase"
  <2>1. Encoder[k] = encode_execution_binding
    BY <1>2 DEF Encoder
  <2> QED BY <2>1, ExecutionBindingLaid
<1> QED BY <1>1, <1>2 DEF WithPayload

(***************************************************************************)
(* Messages.                                                               *)
(***************************************************************************)
\* What stands in a field of the data stands in the data.
LEMMA HeldWithin ==
  ASSUME NEW q, NEW k, Field(q, k), NEW p, NEW s, Field(p, s), NEW f, NEW j, Field(f, j),
         NEW m \in Nat, NEW o \in Nat, Holds(q, m, p), Holds(p, o, f)
  PROVE  Holds(q, m + o, f)
<1>1. /\ k \in Nat /\ s \in Nat /\ j \in Nat /\ Len(f) = j /\ Len(q) = k
      /\ m + s <= k /\ o + j <= s
  BY DEF Field, Holds
<1>2. m + o \in Nat /\ (m + o) + j <= k
  BY <1>1
<1>3. PICK c, r : c \in Nat /\ c = m + o /\ r = read_array(q, c, j)
  BY <1>2
<1>4. Field(r, j)
  BY <1>1, <1>2, <1>3, FieldRead
<1>5. Holds(q, c, r)
  BY <1>1, <1>2, <1>3, <1>4 DEF Holds, Field
<1>6. ASSUME NEW i \in 1 .. j PROVE r[i] = f[i]
  <2>1. q[c + i] = r[i]
    BY <1>3, <1>4, <1>5, HeldByte
  <2>2. p[o + i] = f[i]
    BY HeldByte
  <2>3. PICK x \in 1 .. s : x = o + i
    BY <1>1
  <2>4. q[m + x] = p[x]
    BY HeldByte
  <2>5. m + x = c + i
    BY <1>3, <2>3
  <2> QED BY <2>1, <2>2, <2>3, <2>4, <2>5, Zenon
<1>7. r = f
  BY <1>4, <1>6, SeqEqual DEF Field
<1> QED BY <1>3, <1>5, <1>7

LEMMA OneByte ==
  ASSUME NEW data, NEW k, Field(data, k), NEW o \in Nat, o + 1 <= k
  PROVE  read_array(data, o, 1) = <<data[o + 1]>>
<1>1. PICK n, r : n \in Nat /\ n = 1 /\ r = read_array(data, o, n)
  OBVIOUS
<1>2. Field(r, n)
  BY <1>1, FieldRead
<1>3. Holds(data, o, r)
  BY <1>1, <1>2 DEF Holds, Field
<1>4. 1 \in 1 .. n
  BY <1>1
<1>5. data[o + 1] = r[1]
  BY <1>2, <1>3, <1>4, HeldByte
<1>6. r \in Seq(Byte) /\ Len(r) = 1
  BY <1>1, <1>2 DEF Field
<1>7. r = <<r[1]>>
  BY <1>6
<1> QED BY <1>1, <1>5, <1>7

LEMMA LeadField ==
  ASSUME NEW k \in Formats, NEW v, Valid(k, v)
  PROVE  Field(Lead(k, v), LeadLen(k))
<1>0. 1 \in Byte /\ 2 \in Byte /\ 3 \in Byte
  BY Base
<1>b. \A b \in Byte : Field(<<b>>, 1)
  BY DEF Field
<1>1. CASE k \in Receipts
  <2>1. Lead(k, v) = <<RECEIPT_MAGIC>>
    BY <1>1 DEF Lead, Receipts, Instructions
  <2>2. LeadLen(k) = 1
    BY <1>1 DEF LeadLen
  <2> QED BY <1>0, <1>b, <2>1, <2>2 DEF RECEIPT_MAGIC
<1>2. CASE k = "phase"
  <2>1. k \notin Receipts /\ k \in Instructions
    BY <1>2 DEF Receipts, Instructions
  <2>2. v.phase \in {0, 1, 2}
    BY <1>2 DEF Valid, validate_execution_binding, require_phase, Phases
  <2>3. 3 - v.phase \in Byte
    BY <1>0, <2>2
  <2> QED BY <1>2, <1>b, <2>1, <2>3 DEF Lead, LeadLen, engine_phase_discriminator
<1>3. CASE k \in Instructions \ {"phase"}
  <2>1. k \notin Receipts
    BY <1>3 DEF Receipts, Instructions
  <2> QED BY <1>0, <1>3, <1>b, <2>1 DEF Lead, LeadLen, EVALUATE_DISCRIMINATOR
<1>4. CASE k \notin Receipts /\ k \notin Instructions
  <2>1. k # "phase"
    BY <1>4 DEF Instructions
  <2>2. Lead(k, v) = << >> /\ LeadLen(k) = 0
    BY <1>4, <2>1 DEF Lead, LeadLen
  <2> QED BY <2>2 DEF Field
<1> QED BY <1>1, <1>2, <1>3, <1>4

\* The digest that stands behind a phase is as long as a key.
Digests(k, v) == k = "phase" => Digest(Body(k, v)) \in Bytes(HashLen)

LEMMA TrailField ==
  ASSUME NEW k \in Formats, NEW v, Digests(k, v)
  PROVE  Field(Trail(k, v), TrailLen(k))
<1>1. CASE k = "phase"
  <2>1. Digest(Body(k, v)) \in Bytes(HashLen) /\ HashLen \in Nat
    BY <1>1, Sizes DEF Digests
  <2>2. Field(Digest(Body(k, v)), HashLen)
    BY <2>1, BytesAreSeq DEF Field
  <2> QED BY <1>1, <2>2 DEF Trail, TrailLen
<1>2. CASE k # "phase"
  <2>1. Trail(k, v) = << >> /\ TrailLen(k) = 0
    BY <1>2 DEF Trail, TrailLen
  <2> QED BY <2>1 DEF Field
<1> QED BY <1>1, <1>2

\* What an encoder of any format writes, its decoder accepts and reads back.
LEMMA MessageRoundTrip ==
  ASSUME NEW k \in Formats, NEW v, IsMessage(Encoder[k], v), Valid(k, v), Digests(k, v)
  PROVE  /\ Encoded(k, v) \in Seq(Byte)
         /\ Accepted(k, Encoded(k, v)) /\ Decoded(k, Encoded(k, v)) = v
<1>1. PICK s : Fits(k, s)
  BY FormatFits
<1>2. PICK F, l, t, n, rank :
        F = Encoder[k] /\ l = LeadLen(k) /\ t = TrailLen(k) /\ Layout(F, n, s, rank)
  BY <1>1 DEF Fits, Laid
<1>3. /\ s \in Nat /\ l \in Nat /\ t \in Nat /\ Length[k] = l + 1 + s + t /\ Decoder[k] = F
  BY <1>1, <1>2 DEF Fits
<1>4. Listed(F, n) /\ n \in Nat /\ cursor_at(F, n) = s
  BY <1>2 DEF Layout, Listed
<1>5. PICK at : Moves(at, F, n) /\ \A i \in 0 .. n : cursor_at(F, i) = at[i]
  BY <1>4, CursorFacts
<1>6. at[n] = s
  <2>1. n \in 0 .. n
    BY <1>4
  <2> QED BY <1>4, <1>5, <2>1
<1>7. IsMessage(F, v)
  BY <1>2
<1>8. PICK p, h, w, b, q, e, d :
        /\ p = put_fields(F, v) /\ h = Lead(k, v) /\ w = <<PROBE_WIRE_VERSION>>
        /\ d = Trail(k, v) /\ Adds(b, w, p) /\ Adds(q, h, b) /\ Adds(e, q, d)
  BY DEF Adds
<1>9. /\ Field(p, s)
      /\ \A j \in 1 .. n :
           /\ Holds(p, at[j - 1], put_field(F[j].type, v[F[j].name]))
           /\ F[j].type \in Types /\ v[F[j].name] \in Values(F[j].type)
  BY <1>4, <1>5, <1>6, <1>7, <1>8, FieldsPut
<1>10. e = Encoded(k, v)
  BY <1>2, <1>8 DEF Encoded, Body, Adds
<1>11. Field(h, l) /\ Field(d, t) /\ Field(w, 1) /\ Holds(w, 0, w) /\ Holds(h, 0, h)
  <2>1. Field(h, l) /\ Field(d, t) /\ Field(w, 1) /\ Holds(w, 0, w)
    BY <1>2, <1>8, LeadField, TrailField, VersionField
  <2> QED BY <2>1, HoldsItself
<1>z. 0 \in Nat /\ 1 \in Nat /\ 1 + s \in Nat /\ l + (1 + s) \in Nat
  BY <1>3
<1>12. Field(b, 1 + s) /\ Holds(b, 1, p) /\ Holds(b, 0, w)
  BY <1>8, <1>9, <1>11, <1>z, FieldAdded, FieldKept
<1>13. Field(q, l + (1 + s)) /\ Holds(q, l, b) /\ Holds(q, 0, h)
  BY <1>8, <1>11, <1>12, <1>z, FieldAdded, FieldKept
<1>14. /\ Field(e, (l + (1 + s)) + t) /\ Holds(e, l + (1 + s), d)
       /\ Holds(e, l, b) /\ Holds(e, 0, h)
  BY <1>3, <1>8, <1>11, <1>12, <1>13, <1>z, FieldAdded, FieldKept
<1>15. Holds(e, l + 1, p) /\ Holds(e, l + 0, w)
  BY <1>3, <1>9, <1>11, <1>12, <1>14, <1>z, HeldWithin
<1>16. ASSUME NEW j \in 1 .. n
       PROVE  Holds(e, (l + 1) + at[j - 1], put_field(F[j].type, v[F[j].name]))
  <2>1. at[j - 1] \in Nat
    <3>1. j - 1 \in 0 .. n
      BY <1>4
    <3> QED BY <1>5, <3>1 DEF Moves
  <2>2. PICK u, x, g :
          /\ u \in Types /\ x \in Values(F[j].type)
          /\ u = F[j].type /\ x = v[F[j].name] /\ g = put_field(u, x)
    BY <1>9
  <2>3. Holds(p, at[j - 1], g) /\ Field(g, Width[u])
    BY <1>9, <2>2, FieldPut
  <2>4. l + 1 \in Nat
    BY <1>3
  <2>5. Holds(e, (l + 1) + at[j - 1], g)
    BY <1>9, <1>14, <1>15, <2>1, <2>3, <2>4, HeldWithin
  <2> QED BY <2>2, <2>5
<1>17. Decoded(k, e) = v
  <2>1. l + 1 \in Nat
    BY <1>3
  <2>2. read_fields(F, e, l + 1) = v
    BY <1>4, <1>5, <1>7, <1>16, <2>1, FieldsRead
  <2> QED BY <1>2, <1>3, <2>2 DEF Decoded
<1>18. require_length(e, Length[k])
  <2>1. Len(e) = (l + (1 + s)) + t
    BY <1>14 DEF Field
  <2>2. (l + (1 + s)) + t = l + 1 + s + t
    BY <1>3
  <2> QED BY <1>3, <2>1, <2>2 DEF require_length
<1>19. require_version(read_u8(e, l))
  <2>1. 1 \in 1 .. 1 /\ l + 0 = l
    BY <1>3
  <2>2. e[l + 1] = w[1]
    BY <1>3, <1>11, <1>14, <1>15, <2>1, HeldByte
  <2>3. w[1] = PROBE_WIRE_VERSION
    BY <1>8
  <2> QED BY <2>2, <2>3 DEF require_version, read_u8
<1>20. read_array(e, 0, l) = h /\ read_array(e, Length[k] - t, t) = d
  <2>1. read_array(e, 0, l) = h /\ read_array(e, l + (1 + s), t) = d
    BY <1>11, <1>14 DEF Holds, Field
  <2>2. Length[k] - t = l + (1 + s)
    BY <1>3
  <2> QED BY <2>1, <2>2
<1>21. Accepted(k, e)
  BY <1>2, <1>8, <1>17, <1>18, <1>19, <1>20 DEF Accepted
<1>22. e \in Seq(Byte)
  BY <1>14 DEF Field
<1> QED BY <1>10, <1>17, <1>21, <1>22

\* Of k bytes, a from o on and b from c on are neighbours, and m together.
Neighbours(o, a, c, b, m, k) ==
  /\ o \in Nat /\ a \in Nat /\ b \in Nat /\ k \in Nat
  /\ c = o + a /\ m = a + b /\ c + b <= k

LEMMA Joined ==
  ASSUME NEW data, NEW k, Field(data, k), NEW o, NEW a, NEW c, NEW b, NEW m,
         Neighbours(o, a, c, b, m, k)
  PROVE  Adds(read_array(data, o, m), read_array(data, o, a), read_array(data, c, b))
<1>1. /\ o \in Nat /\ a \in Nat /\ b \in Nat /\ o + a + b <= k /\ c = o + a /\ m = a + b
  BY DEF Neighbours
<1>2. read_array(data, o, a) \o read_array(data, o + a, b) = read_array(data, o, a + b)
  BY <1>1, Adjacent
<1> QED BY <1>1, <1>2 DEF Adds

\* What a decoder of any format accepts is, written again, the bytes it was read from; the
\* payload and its length are typed.
LEMMA MessageAgain ==
  ASSUME NEW k \in Formats, NEW data \in Seq(Byte), Accepted(k, data),
         NEW v, v = Decoded(k, data)
  PROVE  /\ Encoded(k, v) = data /\ v = [name \in Names(Encoder[k]) |-> v[name]]
         /\ \A name : Has(Encoder[k], name, "u16") => v[name] \in Nat
         /\ \A name : Has(Encoder[k], name, "payload") => v[name] \in Bytes(MaxPayload)
<1>1. PICK s : Fits(k, s)
  BY FormatFits
<1>2. PICK F, l, t, n, rank :
        F = Encoder[k] /\ l = LeadLen(k) /\ t = TrailLen(k) /\ Layout(F, n, s, rank)
  BY <1>1 DEF Fits, Laid
<1>3. /\ s \in Nat /\ l \in Nat /\ t \in Nat /\ Length[k] = l + 1 + s + t /\ Decoder[k] = F
  BY <1>1, <1>2 DEF Fits
<1>4. /\ Listed(F, n) /\ n \in Nat /\ DOMAIN F = 1 .. n /\ cursor_at(F, n) = s
      /\ Ranked(F, n, rank)
  BY <1>2 DEF Layout, Listed
<1>5. PICK at : Moves(at, F, n) /\ \A i \in 0 .. n : cursor_at(F, i) = at[i]
  BY <1>4, CursorFacts
<1>6. at[n] = s
  <2>1. n \in 0 .. n
    BY <1>4
  <2> QED BY <1>4, <1>5, <2>1
<1>7. v = read_fields(F, data, l + 1)
  BY <1>2, <1>3 DEF Decoded
<1>8. /\ Len(data) = Length[k] /\ data[l + 1] = PROBE_WIRE_VERSION
      /\ read_array(data, 0, l) = Lead(k, v)
      /\ read_array(data, Length[k] - t, t) = Trail(k, v)
  BY <1>2 DEF Accepted, require_length, require_version, read_u8
<1>9. PICK z \in Nat : z = Length[k]
  BY <1>3
<1>10. /\ z = l + 1 + s + t /\ l + 1 \in Nat /\ (l + 1) + s <= z /\ l + 1 <= z
       /\ 1 + s \in Nat /\ l + (1 + s) \in Nat /\ z - t = l + (1 + s)
       /\ 0 + l + (1 + s) <= z /\ 0 + (l + (1 + s)) + t <= z /\ l + 1 + s <= z
       /\ (l + (1 + s)) + t = z /\ 0 + l = l /\ 0 + (l + (1 + s)) = l + (1 + s)
  BY <1>3, <1>9
<1>11. Field(data, z)
  BY <1>8, <1>9 DEF Field
<1>12. /\ put_fields(F, v) = read_array(data, l + 1, s)
       /\ \A i \in 1 .. n :
            /\ F[i].type \in Numbers => v[F[i].name] \in Nat
            /\ F[i].type \notin Numbers => v[F[i].name] \in Bytes(Width[F[i].type])
  <2>1. (l + 1) + at[n] <= z
    BY <1>6, <1>10
  <2> QED BY <1>4, <1>5, <1>6, <1>7, <1>10, <1>11, <2>1, FieldsAgain
<1>13. Body(k, v) = read_array(data, l, 1 + s)
  <2>1. <<PROBE_WIRE_VERSION>> = read_array(data, l, 1)
    BY <1>3, <1>8, <1>10, <1>11, OneByte
  <2>2. PICK a \in Nat, c \in Nat, m \in Nat : a = 1 /\ c = l + 1 /\ m = 1 + s
    BY <1>3
  <2>3. Neighbours(l, a, c, s, m, z)
    BY <1>3, <1>9, <1>10, <2>2 DEF Neighbours
  <2>4. read_array(data, l, m) = read_array(data, l, a) \o read_array(data, c, s)
    BY <1>11, <2>3, Joined DEF Adds
  <2> QED BY <1>2, <1>12, <2>1, <2>2, <2>4 DEF Body
<1>14. Lead(k, v) \o Body(k, v) = read_array(data, 0, l + (1 + s))
  <2>1. PICK o \in Nat, b \in Nat, m \in Nat : o = 0 /\ b = 1 + s /\ m = l + b
    BY <1>3
  <2>2. Neighbours(o, l, l, b, m, z)
    BY <1>3, <1>9, <1>10, <2>1 DEF Neighbours
  <2>3. read_array(data, o, m) = read_array(data, o, l) \o read_array(data, l, b)
    BY <1>11, <2>2, Joined DEF Adds
  <2> QED BY <1>8, <1>13, <2>1, <2>3
<1>15. Encoded(k, v) = read_array(data, 0, (l + (1 + s)) + t)
  <2>1. PICK o \in Nat, a \in Nat, m \in Nat : o = 0 /\ a = l + (1 + s) /\ m = (l + (1 + s)) + t
    BY <1>9, <1>10
  <2>4. Neighbours(o, a, a, t, m, z)
    BY <1>3, <1>9, <1>10, <2>1 DEF Neighbours
  <2>2. read_array(data, o, m) = read_array(data, o, a) \o read_array(data, a, t)
    BY <1>11, <2>4, Joined DEF Adds
  <2>3. Trail(k, v) = read_array(data, a, t)
    BY <1>8, <1>9, <1>10, <2>1
  <2> QED BY <1>14, <2>1, <2>2, <2>3 DEF Encoded
<1>16. read_array(data, 0, z) = data
  BY <1>11, HoldsItself DEF Holds, Field
<1>17. Encoded(k, v) = data
  BY <1>10, <1>15, <1>16
<1>18. v = [name \in Names(F) |-> v[name]]
  BY <1>7 DEF read_fields
<1>19. ASSUME NEW name, Has(F, name, "u16") PROVE v[name] \in Nat
  <2>1. PICK i \in 1 .. n : F[i].name = name /\ F[i].type = "u16"
    BY <1>4, <1>19 DEF Has
  <2> QED BY <1>12, <2>1 DEF Numbers
<1>20. ASSUME NEW name, Has(F, name, "payload") PROVE v[name] \in Bytes(MaxPayload)
  <2>1. PICK i \in 1 .. n : F[i].name = name /\ F[i].type = "payload"
    BY <1>4, <1>20 DEF Has
  <2>2. v[F[i].name] \in Bytes(Width[F[i].type])
    BY <1>12, <2>1 DEF Numbers
  <2> QED BY <2>1, <2>2, TypeWidths
<1> QED BY <1>2, <1>17, <1>18, <1>19, <1>20

\* A canonical payload is rebuilt from the bytes that its receiver is given.
LEMMA PayloadAgain ==
  ASSUME NEW payload \in Bytes(MaxPayload), NEW n \in Nat, n <= MaxPayload,
         \A i \in n + 1 .. MaxPayload : payload[i] = 0
  PROVE  canonical_payload(SubSeq(payload, 1, n)) = payload /\ Len(SubSeq(payload, 1, n)) = n
<1>2. payload \in Seq(Byte) /\ Len(payload) = MaxPayload /\ MaxPayload \in Nat
  BY Sizes, BytesAreSeq
<1>3. PICK s : s = SubSeq(payload, 1, n)
  OBVIOUS
<1>4. 1 \in 1 .. Len(payload) + 1 /\ n \in 1 - 1 .. Len(payload)
  BY <1>2
<1>5. /\ Len(s) = IF 1 <= n THEN n - 1 + 1 ELSE 0
      /\ \A i \in 1 .. n - 1 + 1 : s[i] = payload[1 + i - 1]
  BY <1>2, <1>3, <1>4, SubSeqProperties
<1>6. Len(s) = n
  BY <1>5
<1>7. ASSUME NEW i \in 1 .. MaxPayload
      PROVE  (IF i <= Len(s) THEN s[i] ELSE 0) = payload[i]
  <2>1. CASE i <= n
    <3>1. i \in 1 .. n - 1 + 1 /\ 1 + i - 1 = i
      BY <2>1
    <3> QED BY <1>5, <1>6, <2>1, <3>1
  <2>2. CASE ~ (i <= n)
    <3>1. i \in n + 1 .. MaxPayload
      BY <2>2, <1>2
    <3> QED BY <1>6, <2>2, <3>1
  <2> QED BY <2>1, <2>2
<1>8. payload = [i \in 1 .. MaxPayload |-> payload[i]]
  BY DEF Bytes
<1> QED BY <1>3, <1>6, <1>7, <1>8 DEF canonical_payload

LEMMA RebuiltAgain ==
  ASSUME NEW k \in Formats, NEW data \in Seq(Byte), Accepted(k, data),
         NEW v, v = Decoded(k, data)
  PROVE  Rebuilt(k, v) = v
<1>1. CASE k \notin WithPayload
  BY <1>1 DEF Rebuilt
<1>2. CASE k \in WithPayload
  <2>1. Has(Encoder[k], "payload_len", "u16") /\ Has(Encoder[k], "payload", "payload")
    BY <1>2, PayloadFields
  <2>2. PICK N : v = [name \in N |-> v[name]]
    BY MessageAgain
  <2>3. v["payload_len"] \in Nat /\ v["payload"] \in Bytes(MaxPayload)
    BY <2>1, MessageAgain
  <2>4. payload_is_canonical(v)
    <3>1. Valid(k, v)
      BY DEF Accepted
    <3> QED BY <1>2, <3>1 DEF Valid, WithPayload, validate_engine_request, validate_execution_binding
  <2>5. PICK p \in Bytes(MaxPayload), n \in Nat : p = v["payload"] /\ n = v["payload_len"]
    BY <2>3
  <2>6. n <= MaxPayload /\ \A i \in n + 1 .. MaxPayload : p[i] = 0
    BY <2>4, <2>5 DEF payload_is_canonical
  <2>7. canonical_payload(SubSeq(p, 1, n)) = p /\ Len(SubSeq(p, 1, n)) = n
    BY <2>6, PayloadAgain
  <2>8. payload_bytes(v) = SubSeq(p, 1, n)
    BY <2>5 DEF payload_bytes
  <2>9. NewWithPayload(v, payload_bytes(v))
          = [v EXCEPT !["payload_len"] = n, !["payload"] = p]
    BY <2>7, <2>8 DEF NewWithPayload
  <2>10. [v EXCEPT !["payload_len"] = n, !["payload"] = p] = v
    BY <2>2, <2>5
  <2> QED BY <1>2, <2>9, <2>10 DEF Rebuilt
<1> QED BY <1>1, <1>2

LEMMA PayloadTyped ==
  ASSUME NEW payload \in Seq(Byte), Len(payload) <= MaxPayload
  PROVE  Len(payload) \in 0 .. MaxPayload /\ canonical_payload(payload) \in Bytes(MaxPayload)
<1>1. Len(payload) \in Nat /\ payload \in [1 .. Len(payload) -> Byte] /\ 0 \in Byte
  BY LenProperties, Base
<1>2. ASSUME NEW i \in 1 .. MaxPayload
      PROVE  (IF i <= Len(payload) THEN payload[i] ELSE 0) \in Byte
  BY <1>1
<1> QED BY <1>1, <1>2, Sizes DEF canonical_payload, Bytes

\* A value with its payload set is still a value of its struct.
LEMMA WithPayloadTyped ==
  ASSUME NEW k \in WithPayload, NEW v, IsMessage(Encoder[k], v),
         NEW payload \in Seq(Byte), Len(payload) <= MaxPayload
  PROVE  IsMessage(Encoder[k], NewWithPayload(v, payload))
<1>0. k \in Formats
  BY DEF WithPayload, Formats
<1>1. PICK s : Fits(k, s)
  BY <1>0, FormatFits
<1>2. PICK F, n, rank : F = Encoder[k] /\ Layout(F, n, s, rank)
  BY <1>1 DEF Fits, Laid
<1>3. DOMAIN F = 1 .. n /\ \A i \in 1 .. n : rank[F[i].name] = i
  BY <1>2 DEF Layout, Listed, Ranked
<1>4. Has(F, "payload_len", "u16") /\ Has(F, "payload", "payload")
  BY <1>2, PayloadFields
<1>5. PICK a \in 1 .. n : F[a].name = "payload_len" /\ F[a].type = "u16"
  BY <1>3, <1>4 DEF Has
<1>6. PICK b \in 1 .. n : F[b].name = "payload" /\ F[b].type = "payload"
  BY <1>3, <1>4 DEF Has
<1>7. PICK u, p : u = Len(payload) /\ p = canonical_payload(payload)
  OBVIOUS
<1>8. u \in Values("u16") /\ p \in Values("payload")
  <2>1. u \in 0 .. MaxPayload /\ p \in Bytes(MaxPayload)
    BY <1>7, PayloadTyped
  <2>2. u \in Uint(CountLen)
    BY <2>1, Sizes
  <2> QED BY <2>1, <2>2, TypeWidths DEF Values, Numbers
<1>9. PICK w : w = NewWithPayload(v, payload)
  OBVIOUS
<1>10. w = [v EXCEPT !["payload_len"] = u, !["payload"] = p]
  BY <1>7, <1>9 DEF NewWithPayload
<1>11. PICK N : N = Names(F) /\ v = [name \in N |-> v[name]]
  BY <1>2 DEF IsMessage
<1>12. \A i \in 1 .. n : v[F[i].name] \in Values(F[i].type) /\ F[i].name \in N
  BY <1>2, <1>3, <1>11 DEF IsMessage, Names
<1>13. w = [name \in N |-> w[name]] /\ \A name \in N :
         w[name] = IF name = "payload" THEN p ELSE IF name = "payload_len" THEN u ELSE v[name]
  BY <1>10, <1>11
<1>14. ASSUME NEW i \in 1 .. n PROVE w[F[i].name] \in Values(F[i].type)
  <2>1. CASE F[i].name = "payload"
    <3>1. i = b
      BY <1>3, <1>6, <2>1
    <3>2. F[i].type = "payload" /\ w[F[i].name] = p
      BY <1>6, <1>12, <1>13, <2>1, <3>1
    <3> QED BY <1>8, <3>2
  <2>2. CASE F[i].name = "payload_len"
    <3>1. i = a
      BY <1>3, <1>5, <2>2
    <3>2. F[i].type = "u16" /\ w[F[i].name] = u
      BY <1>5, <1>12, <1>13, <2>2, <3>1
    <3> QED BY <1>8, <3>2
  <2>3. CASE F[i].name # "payload" /\ F[i].name # "payload_len"
    <3>1. w[F[i].name] = v[F[i].name]
      BY <1>12, <1>13, <2>3
    <3> QED BY <1>12, <3>1
  <2> QED BY <2>1, <2>2, <2>3
<1>15. IsMessage(F, w)
  BY <1>3, <1>11, <1>13, <1>14 DEF IsMessage
<1> QED BY <1>2, <1>9, <1>15

(***************************************************************************)
(* The invariant.                                                          *)
(***************************************************************************)
\* The bytes w are the value v as its sender encodes it.
Carries(k, v, w) ==
  \/ /\ k \in Formats /\ IsMessage(Encoder[k], v) /\ Valid(k, v) /\ Digests(k, v)
     /\ w = Encoded(k, v)
  \/ k = "capability" /\ v \in Capabilities /\ w = capability_bytes(v.program, v.descriptors)

\* The receiver took the value v from the bytes w.
Taken(k, v, w) == k \in Formats /\ Accepted(k, w) /\ v = Decoded(k, w)

\* Until it is changed the wire carries what was sent, and what was received was taken from it.
WInv ==
  /\ kind \in Formats \cup {"capability", None}
  /\ kind \in Formats => wire \in Seq(Byte)
  /\ sent # None \/ kind = "capability" => Carries(kind, sent, wire)
  /\ received # None => Taken(kind, received, wire)

LEMMA NoKind == None \notin Formats /\ None # "capability" /\ "capability" \notin Formats
<1>1. None \notin Formats \cup {"capability"}
  BY WireAssumption, Zenon
<1>2. "capability" \notin Formats
  BY DEF Formats
<1> QED BY <1>1, <1>2

\* What may be sent has the fields of its struct.
LEMMA Sendable ==
  /\ \A k \in Formats : \A v \in Messages[k] : IsMessage(Encoder[k], v)
  /\ \A p \in Payloads : p \in Seq(Byte)
<1>1. Payloads \subseteq Seq(Byte)
  BY WireAssumption, Zenon
<1>2. \A k \in Formats : \A v \in Messages[k] : IsMessage(Encoder[k], v)
  BY WireAssumption, Zenon
<1> QED BY <1>1, <1>2, Zenon

\* What is sent is carried.
LEMMA CarriedBytes ==
  ASSUME NEW k, NEW v, NEW w, Carries(k, v, w)
  PROVE  /\ k \in Formats \cup {"capability"}
         /\ k \in Formats => w \in Seq(Byte) /\ Taken(k, v, w)
<1>1. CASE k \in Formats
  <2>1. /\ IsMessage(Encoder[k], v) /\ Valid(k, v) /\ Digests(k, v) /\ w = Encoded(k, v)
    BY <1>1, NoKind DEF Carries
  <2>2. w \in Seq(Byte) /\ Accepted(k, w) /\ Decoded(k, w) = v
    BY <1>1, <2>1, MessageRoundTrip
  <2> QED BY <1>1, <2>2 DEF Taken
<1>2. CASE k \notin Formats
  BY <1>2 DEF Carries
<1> QED BY <1>1, <1>2

\* A sender's step puts the encoding of what it sends on the wire.
LEMMA SendSound ==
  ASSUME WInv, NEW k, NEW v, NEW w, Send(k, v, w), Carries(k, v, w)
  PROVE  WInv'
<1>1. /\ kind = None /\ kind' = k /\ sent' = v /\ wire' = w /\ received' = received
  BY DEF Send
<1>2. received = None
  BY <1>1, NoKind DEF WInv, Taken
<1> QED BY <1>1, <1>2, CarriedBytes DEF WInv

LEMMA ChangedSound ==
  ASSUME WInv, InFlight, wire' \in Seq(Byte), sent' = None, UNCHANGED <<kind, received>>
  PROVE  WInv'
<1>1. kind # "capability"
  BY NoKind DEF InFlight
<1> QED BY <1>1 DEF WInv, InFlight

\* The wire in flight is a sequence of bytes, before and after it is changed.
LEMMA ChangeTyped ==
  ASSUME NEW w \in Seq(Byte)
  PROVE  /\ \A i \in DOMAIN w, b \in Byte : [w EXCEPT ![i] = b] \in Seq(Byte)
         /\ Front(w) \in Seq(Byte)
         /\ \A b \in Byte : Append(w, b) \in Seq(Byte)
<1>1. Front(w) \in Seq(Byte)
  <2>1. CASE Len(w) = 0
    <3>1. w = << >>
      BY <2>1, EmptySeq
    <3>2. SubSeq(w, 1, Len(w) - 1) = << >>
      BY <2>1, SubSeqEmpty
    <3> QED BY <3>2 DEF Front
  <2>2. CASE Len(w) # 0
    <3>1. Len(w) \in Nat
      BY LenProperties
    <3>2. 1 \in 1 .. Len(w) + 1 /\ Len(w) - 1 \in 1 - 1 .. Len(w)
      BY <2>2, <3>1
    <3> QED BY <3>2, SubSeqProperties DEF Front
  <2> QED BY <2>1, <2>2
<1>2. ASSUME NEW i \in DOMAIN w, NEW b \in Byte PROVE [w EXCEPT ![i] = b] \in Seq(Byte)
  BY ExceptSeq
<1>3. ASSUME NEW b \in Byte PROVE Append(w, b) \in Seq(Byte)
  BY AppendProperties
<1> QED BY <1>1, <1>2, <1>3

LEMMA WInvInit == Init => WInv
BY NoKind DEF Init, WInv

LEMMA WInvStep == WInv /\ [Next]_vars => WInv'
<1> SUFFICES ASSUME WInv, [Next]_vars PROVE WInv'
  OBVIOUS
<1>1. CASE send
  <2>1. PICK k \in Formats \ WithPayload : \E value \in Messages[k] :
          Valid(k, value) /\ Send(k, value, Encoded(k, value))
    BY <1>1 DEF send
  <2>2. PICK value \in Messages[k] : Valid(k, value) /\ Send(k, value, Encoded(k, value))
    BY <2>1
  <2>3. k \in Formats /\ IsMessage(Encoder[k], value)
    BY <2>1, Sendable
  <2>4. Digests(k, value)
    BY <2>1 DEF Digests, WithPayload
  <2>5. Carries(k, value, Encoded(k, value))
    BY <2>2, <2>3, <2>4 DEF Carries
  <2> QED BY <2>2, <2>5, SendSound
<1>2. CASE send_payload
  <2>1. PICK k \in WithPayload : \E value \in Messages[k], payload \in Payloads :
          /\ Len(payload) <= MaxPayload
          /\ Valid(k, NewWithPayload(value, payload))
          /\ Send(k, NewWithPayload(value, payload), Encoded(k, NewWithPayload(value, payload)))
    BY <1>2 DEF send_payload
  <2>2. PICK value \in Messages[k], payload \in Payloads :
          /\ Len(payload) <= MaxPayload
          /\ Valid(k, NewWithPayload(value, payload))
          /\ Send(k, NewWithPayload(value, payload), Encoded(k, NewWithPayload(value, payload)))
    BY <2>1
  <2>3. k \in Formats
    BY DEF WithPayload, Formats
  <2>4. IsMessage(Encoder[k], value) /\ payload \in Seq(Byte)
    BY <2>3, Sendable
  <2>5. PICK v : v = NewWithPayload(value, payload)
    OBVIOUS
  <2>6. IsMessage(Encoder[k], v)
    BY <2>2, <2>4, <2>5, WithPayloadTyped
  <2>7. Digests(k, v)
    BY <2>2, <2>5, DigestAssumption DEF Digests
  <2>8. Carries(k, v, Encoded(k, v))
    BY <2>2, <2>3, <2>5, <2>6, <2>7 DEF Carries
  <2> QED BY <2>2, <2>5, <2>8, SendSound
<1>4. CASE bind_capabilities
  <2>1. PICK c \in Capabilities :
          Send("capability", c, capability_bytes(c.program, c.descriptors))
    BY <1>4 DEF bind_capabilities
  <2> QED BY <2>1, SendSound DEF Carries
<1>5. ASSUME InFlight PROVE wire \in Seq(Byte)
  BY <1>5 DEF InFlight, WInv
<1>6. CASE tamper
  <2>1. /\ InFlight /\ sent' = None /\ UNCHANGED <<kind, received>>
        /\ \E i \in DOMAIN wire, byte \in Byte : wire' = [wire EXCEPT ![i] = byte]
    BY <1>6 DEF tamper
  <2>2. wire' \in Seq(Byte)
    BY <1>5, <2>1, ChangeTyped
  <2> QED BY <2>1, <2>2, ChangedSound
<1>7. CASE resize
  <2>1. /\ InFlight /\ sent' = None /\ UNCHANGED <<kind, received>>
        /\ wire' = Front(wire) \/ \E byte \in Byte : wire' = Append(wire, byte)
    BY <1>7 DEF resize
  <2>2. wire' \in Seq(Byte)
    BY <1>5, <2>1, ChangeTyped
  <2> QED BY <2>1, <2>2, ChangedSound
<1>8. CASE receive
  <2>1. /\ kind \in Formats /\ Accepted(kind, wire) /\ received' = Decoded(kind, wire)
        /\ UNCHANGED <<kind, sent, wire>>
    BY <1>8 DEF receive, InFlight
  <2>2. Taken(kind', received', wire')
    BY <2>1 DEF Taken
  <2> QED BY <2>1, <2>2 DEF WInv
<1>9. CASE UNCHANGED vars
  BY <1>9 DEF WInv, vars
<1> QED BY <1>1, <1>2, <1>4, <1>6, <1>7, <1>8, <1>9 DEF Next

LEMMA WInvHolds == Spec => []WInv
BY WInvInit, WInvStep, PTL DEF Spec

\* Every instruction, binding and receipt that reaches its receiver unchanged is accepted
\* and read back, with all its fields, as the value that was encoded: for every width of
\* keys, words and counts, every limit and every digest, the cursors of encode_* and
\* decode_* agree.
THEOREM RoundTripHolds == Spec => []RoundTrip
<1>1. WInv => RoundTrip
  <2> SUFFICES ASSUME WInv, InFlight, sent # None
               PROVE  Accepted(kind, wire) /\ Decoded(kind, wire) = sent
    BY DEF RoundTrip
  <2>1. Carries(kind, sent, wire) /\ kind \in Formats
    BY DEF WInv, InFlight
  <2>2. Taken(kind, sent, wire)
    BY <2>1, CarriedBytes
  <2> QED BY <2>2 DEF Taken
<1> QED BY <1>1, WInvHolds, PTL

\* Whatever a decoder accepts is the one spelling of the value it returns: written again by
\* encode_* it gives the same bytes, padding, length, count, phase, version and digest
\* included, whoever composed them.
THEOREM OneSpellingHolds == Spec => []OneSpelling
<1>1. WInv => OneSpelling
  <2> SUFFICES ASSUME WInv, received # None
               PROVE  Encoded(kind, Rebuilt(kind, received)) = wire
    BY DEF OneSpelling
  <2>1. /\ kind \in Formats /\ Accepted(kind, wire) /\ received = Decoded(kind, wire)
        /\ wire \in Seq(Byte)
    BY DEF WInv, Taken
  <2>2. Rebuilt(kind, received) = received
    BY <2>1, RebuiltAgain
  <2>3. Encoded(kind, received) = wire
    BY <2>1, MessageAgain
  <2> QED BY <2>2, <2>3
<1> QED BY <1>1, WInvHolds, PTL

(***************************************************************************)
(* The bytes of a capability hash.                                         *)
(***************************************************************************)
\* Parts of the same size, one after the other: each stands behind those before it.
LEMMA FlattenFields ==
  ASSUME NEW n \in Nat, NEW E \in Nat, NEW s, s \in [1 .. n -> Bytes(E)]
  PROVE  /\ Field(FlattenSeq(s), n * E)
         /\ \A j \in 1 .. n : Holds(FlattenSeq(s), (j - 1) * E, s[j])
<1>1. \A i \in 1 .. n : s[i] \in Seq(Byte) /\ Len(s[i]) = E
  BY BytesAreSeq
<1>2. Parts(s, n)
  BY <1>1 DEF Parts
<1>3. PICK at : at = [i \in 0 .. n |-> i * E]
  OBVIOUS
<1>4. Sized(at, s, n)
  <2>1. ASSUME NEW i \in 0 .. n PROVE at[i] \in Nat
    <3>1. i * E \in Nat
      OBVIOUS
    <3> QED BY <1>3, <3>1
  <2>2. at[0] = 0
    <3>1. 0 * E = 0 /\ 0 \in 0 .. n
      OBVIOUS
    <3> QED BY <1>3, <3>1
  <2>3. ASSUME NEW i \in 1 .. n PROVE at[i] = at[i - 1] + Len(s[i])
    <3>1. i * E = (i - 1) * E + E /\ i \in 0 .. n /\ i - 1 \in 0 .. n
      OBVIOUS
    <3> QED BY <1>1, <1>3, <3>1
  <2> QED BY <1>3, <2>1, <2>2, <2>3 DEF Sized
<1>5. PICK f : Joins(f, s, n) /\ FlattenSeq(s) = f[n]
  BY <1>2, Flattened
<1>6. Field(f[n], at[n]) /\ \A j \in 1 .. n : Holds(f[n], at[j - 1], s[j])
  BY <1>2, <1>4, <1>5, PartsHeld
<1>7. at[n] = n * E
  BY <1>3
<1>8. ASSUME NEW j \in 1 .. n PROVE at[j - 1] = (j - 1) * E
  <2>1. j - 1 \in 0 .. n
    OBVIOUS
  <2> QED BY <1>3, <2>1
<1> QED BY <1>5, <1>6, <1>7, <1>8

Entry(d, i) ==
  put_u16(i - 1) \o d.key \o d.owner \o <<AsBit(d.is_executable), privilege_flags(d)>>
EntryLen == CountLen + HashLen + HashLen + 2
Flags(d) == <<AsBit(d.is_executable), privilege_flags(d)>>

Described == [key : Bytes(HashLen), owner : Bytes(HashLen), is_writable : BOOLEAN,
              is_signer : BOOLEAN, is_executable : BOOLEAN]

LEMMA Bits ==
  ASSUME NEW b \in BOOLEAN
  PROVE  AsBit(b) \in {0, 1} /\ (b <=> AsBit(b) = 1)
<1>1. 1 # 0
  OBVIOUS
<1> QED BY <1>1, Zenon DEF AsBit

LEMMA BitsApart ==
  ASSUME NEW b \in BOOLEAN, NEW c \in BOOLEAN, AsBit(b) = AsBit(c)
  PROVE  b = c
<1>1. (b <=> AsBit(b) = 1) /\ (c <=> AsBit(c) = 1)
  BY Bits, Zenon
<1>2. b <=> c
  BY <1>1, Zenon
<1> QED BY <1>2, Zenon

\* The flags of a descriptor are two bytes that tell its privileges apart.
LEMMA FlagsApart ==
  ASSUME NEW d \in Described, NEW e \in Described
  PROVE  /\ AsBit(d.is_executable) \in Byte /\ privilege_flags(d) \in Byte
         /\ AsBit(d.is_executable) = AsBit(e.is_executable) /\ privilege_flags(d) = privilege_flags(e) =>
              /\ d.is_executable = e.is_executable
              /\ d.is_writable = e.is_writable /\ d.is_signer = e.is_signer
<1>1. /\ d.is_executable \in BOOLEAN /\ d.is_writable \in BOOLEAN /\ d.is_signer \in BOOLEAN
      /\ e.is_executable \in BOOLEAN /\ e.is_writable \in BOOLEAN /\ e.is_signer \in BOOLEAN
  BY Zenon DEF Described
<1>2. PICK x, y, z, u, v, w :
        /\ x = AsBit(d.is_executable) /\ y = AsBit(d.is_writable) /\ z = AsBit(d.is_signer)
        /\ u = AsBit(e.is_executable) /\ v = AsBit(e.is_writable) /\ w = AsBit(e.is_signer)
  BY Zenon
<1>3a. x \in {0, 1} /\ y \in {0, 1} /\ z \in {0, 1}
  BY <1>1, <1>2, Bits, Zenon
<1>3b. u \in {0, 1} /\ v \in {0, 1} /\ w \in {0, 1}
  BY <1>1, <1>2, Bits, Zenon
<1>4. privilege_flags(d) = y + 2 * z /\ privilege_flags(e) = v + 2 * w
  BY <1>2, Zenon DEF privilege_flags
<1>5. x \in Byte /\ y + 2 * z \in Byte
  BY <1>3a, Base
<1>6. y + 2 * z = v + 2 * w => y = v /\ z = w
  BY <1>3a, <1>3b
<1>7. ASSUME x = u, y + 2 * z = v + 2 * w
      PROVE  /\ d.is_executable = e.is_executable
             /\ d.is_writable = e.is_writable /\ d.is_signer = e.is_signer
  <2>1. y = v /\ z = w
    BY <1>6, <1>7, Zenon
  <2> QED BY <1>1, <1>2, <1>7, <2>1, BitsApart, Zenon
<1> QED BY <1>2, <1>4, <1>5, <1>7, Zenon

LEMMA EntryFields ==
  ASSUME NEW d \in Described, NEW i \in 1 .. 1 + MaxOpaqueAccounts
  PROVE  /\ Field(Entry(d, i), EntryLen) /\ Entry(d, i) \in Bytes(EntryLen)
         /\ Holds(Entry(d, i), CountLen, d.key)
         /\ Holds(Entry(d, i), CountLen + HashLen, d.owner)
         /\ Holds(Entry(d, i), CountLen + HashLen + HashLen, Flags(d)) /\ Field(Flags(d), 2)
<1>1. PICK f1, f2, f3, f4 : f1 = put_u16(i - 1) /\ f2 = d.key /\ f3 = d.owner /\ f4 = Flags(d)
  OBVIOUS
<1>2. Field(f1, CountLen)
  <2>1. i - 1 \in 0 .. 1 + MaxOpaqueAccounts
    BY Sizes
  <2>2. i - 1 \in Uint(CountLen) /\ CountLen \in Nat
    BY <2>1, Sizes
  <2> QED BY <1>1, <2>2, UintBytes DEF put_u16
<1>3. Field(f2, HashLen) /\ Field(f3, HashLen)
  <2>1. f2 \in Bytes(HashLen) /\ f3 \in Bytes(HashLen)
    BY <1>1, Zenon DEF Described
  <2> QED BY <2>1, Sizes, BytesAreSeq DEF Field
<1>4. Field(f4, 2)
  <2>1. PICK a, b : a = AsBit(d.is_executable) /\ b = privilege_flags(d)
    BY Zenon
  <2>2. a \in Byte /\ b \in Byte
    BY <2>1, FlagsApart, Zenon
  <2>3. f4 = <<a, b>>
    BY <1>1, <2>1, Zenon DEF Flags
  <2> QED BY <2>2, <2>3 DEF Field
<1>5. PICK p2, p3, p4 : Adds(p2, f1, f2) /\ Adds(p3, p2, f3) /\ Adds(p4, p3, f4)
  BY DEF Adds
<1>6. Entry(d, i) = p4
  BY <1>1, <1>5, Zenon DEF Entry, Flags, Adds
<1>7. PICK o \in Nat, u \in Nat : o = CountLen + HashLen /\ u = CountLen + HashLen + HashLen
  BY Sizes
<1>8. Field(p2, o) /\ Holds(p2, CountLen, f2)
  BY <1>2, <1>3, <1>5, <1>7, FieldAdded
<1>9. Field(p3, u) /\ Holds(p3, CountLen, f2) /\ Holds(p3, o, f3)
  <2>1. Field(p3, o + HashLen) /\ Holds(p3, CountLen, f2) /\ Holds(p3, o, f3)
    BY <1>3, <1>5, <1>8, Sizes, FieldAdded, FieldKept
  <2>2. o + HashLen = u
    BY <1>7, Sizes
  <2> QED BY <2>1, <2>2
<1>10. Field(p4, u + 2) /\ Holds(p4, CountLen, f2) /\ Holds(p4, o, f3) /\ Holds(p4, u, f4)
  BY <1>3, <1>4, <1>5, <1>9, Sizes, FieldAdded, FieldKept
<1>11. u + 2 = EntryLen
  BY <1>7, Sizes DEF EntryLen
<1>12. p4 \in Bytes(EntryLen)
  BY <1>10, <1>11, BytesAreSeq DEF Field
<1> QED BY <1>1, <1>4, <1>6, <1>7, <1>10, <1>11, <1>12

LEMMA EntriesApart ==
  ASSUME NEW d \in Described, NEW e \in Described, NEW i \in 1 .. 1 + MaxOpaqueAccounts,
         Entry(d, i) = Entry(e, i)
  PROVE  d = e
<1>1. PICK q : q = Entry(d, i) /\ q = Entry(e, i)
  OBVIOUS
<1>2. /\ d.key \in Bytes(HashLen) /\ e.key \in Bytes(HashLen)
      /\ d.owner \in Bytes(HashLen) /\ e.owner \in Bytes(HashLen)
  BY Zenon DEF Described
<1>3. /\ Field(q, EntryLen) /\ Holds(q, CountLen, d.key) /\ Holds(q, CountLen, e.key)
      /\ Holds(q, CountLen + HashLen, d.owner) /\ Holds(q, CountLen + HashLen, e.owner)
      /\ Holds(q, CountLen + HashLen + HashLen, Flags(d))
      /\ Holds(q, CountLen + HashLen + HashLen, Flags(e))
      /\ Field(Flags(d), 2) /\ Field(Flags(e), 2)
  BY <1>1, EntryFields, Zenon
<1>4. d.key = e.key
  <2>1. read_array(q, CountLen, HashLen) = d.key
    BY <1>2, <1>3, Sizes, BytesField
  <2>2. read_array(q, CountLen, HashLen) = e.key
    BY <1>2, <1>3, Sizes, BytesField
  <2> QED BY <2>1, <2>2, Zenon
<1>o. d.owner = e.owner
  <2>1. read_array(q, CountLen + HashLen, HashLen) = d.owner
    BY <1>2, <1>3, Sizes, BytesField
  <2>2. read_array(q, CountLen + HashLen, HashLen) = e.owner
    BY <1>2, <1>3, Sizes, BytesField
  <2> QED BY <2>1, <2>2, Zenon
<1>5. Flags(d) = Flags(e)
  BY <1>3 DEF Holds, Field
<1>6. /\ AsBit(d.is_executable) = AsBit(e.is_executable)
      /\ privilege_flags(d) = privilege_flags(e)
  <2>1. PICK a, b, x, y : /\ a = AsBit(d.is_executable) /\ b = privilege_flags(d)
                          /\ x = AsBit(e.is_executable) /\ y = privilege_flags(e)
    BY Zenon
  <2>2. <<a, b>> = <<x, y>>
    BY <1>5, <2>1, Zenon DEF Flags
  <2>3. a = x /\ b = y
    BY <2>2
  <2> QED BY <2>1, <2>3, Zenon
<1>7. /\ d.is_executable = e.is_executable
      /\ d.is_writable = e.is_writable /\ d.is_signer = e.is_signer
  BY <1>6, FlagsApart, Zenon
<1>8. /\ d = [key |-> d.key, owner |-> d.owner, is_writable |-> d.is_writable,
              is_signer |-> d.is_signer, is_executable |-> d.is_executable]
      /\ e = [key |-> e.key, owner |-> e.owner, is_writable |-> e.is_writable,
              is_signer |-> e.is_signer, is_executable |-> e.is_executable]
  BY DEF Described
<1> QED BY <1>4, <1>o, <1>7, <1>8, Zenon

Entries(descriptors) == [i \in DOMAIN descriptors |-> Entry(descriptors[i], i)]

LEMMA CapabilityTyped ==
  ASSUME NEW c \in Capabilities
  PROVE  /\ c.program \in Bytes(HashLen) /\ c = [program |-> c.program, descriptors |-> c.descriptors]
         /\ \E n \in 0 .. 1 + MaxOpaqueAccounts :
              c.descriptors \in [1 .. n -> Described] /\ Len(c.descriptors) = n
<1>1. c.program \in Programs /\ c.descriptors \in BoundedSeq(Descriptors, 1 + MaxOpaqueAccounts)
  BY DEF Capabilities
<1>2. PICK n \in 0 .. 1 + MaxOpaqueAccounts : c.descriptors \in [1 .. n -> Descriptors]
  BY <1>1 DEF BoundedSeq, SeqOf
<1>3. Descriptors \subseteq Described
  BY WireAssumption, Zenon DEF Described
<1>4. n \in Nat
  BY Sizes
<1>5. c.descriptors \in [1 .. n -> Described] /\ Len(c.descriptors) = n
  BY <1>2, <1>3, <1>4
<1>6. c.program \in Bytes(HashLen)
  <2>1. Programs \subseteq Bytes(HashLen)
    BY WireAssumption, Zenon
  <2> QED BY <1>1, <2>1
<1>7. c = [program |-> c.program, descriptors |-> c.descriptors]
  BY DEF Capabilities
<1> QED BY <1>5, <1>6, <1>7

LEMMA CapabilityFields ==
  ASSUME NEW g \in Bytes(HashLen), NEW n \in 0 .. 1 + MaxOpaqueAccounts,
         NEW ds, ds \in [1 .. n -> Described], Len(ds) = n
  PROVE  LET a == capability_bytes(g, ds)
             F == FlattenSeq(Entries(ds))
         IN  /\ Field(a, 1 + HashLen + CountLen + n * EntryLen)
             /\ Holds(a, 1, g) /\ Holds(a, 1 + HashLen, put_u16(n))
             /\ Holds(a, 1 + HashLen + CountLen, F) /\ Field(F, n * EntryLen)
             /\ \A i \in 1 .. n : Holds(F, (i - 1) * EntryLen, Entry(ds[i], i))
<1>0. n \in Nat /\ EntryLen \in Nat
  BY Sizes DEF EntryLen
<1>1. PICK s : s = Entries(ds)
  OBVIOUS
<1>2. s \in [1 .. n -> Bytes(EntryLen)] /\ \A i \in 1 .. n : s[i] = Entry(ds[i], i)
  <2>1. DOMAIN ds = 1 .. n
    OBVIOUS
  <2>2. ASSUME NEW i \in 1 .. n PROVE Entry(ds[i], i) \in Bytes(EntryLen)
    <3>1. ds[i] \in Described /\ i \in 1 .. 1 + MaxOpaqueAccounts
      BY Sizes
    <3> QED BY <3>1, EntryFields
  <2>3. s = [i \in 1 .. n |-> Entry(ds[i], i)]
    BY <1>1, <2>1, Zenon DEF Entries
  <2> QED BY <2>2, <2>3
<1>3. PICK F : F = FlattenSeq(s)
  OBVIOUS
<1>4. Field(F, n * EntryLen) /\ \A i \in 1 .. n : Holds(F, (i - 1) * EntryLen, s[i])
  BY <1>0, <1>2, <1>3, FlattenFields
<1>5. PICK f1, f3 : f1 = <<PROBE_WIRE_VERSION>> /\ f3 = put_u16(n)
  OBVIOUS
<1>6. Field(f1, 1) /\ Field(g, HashLen)
  BY <1>5, VersionField, Sizes, BytesAreSeq DEF Field
<1>7. Field(f3, CountLen)
  <2>1. n \in Uint(CountLen)
    BY Sizes
  <2> QED BY <1>5, <2>1, Sizes, UintBytes DEF put_u16
<1>8. PICK p2, p3, p4 : Adds(p2, f1, g) /\ Adds(p3, p2, f3) /\ Adds(p4, p3, F)
  BY DEF Adds
<1>9. capability_bytes(g, ds) = p4
  <2>1. s = [i \in DOMAIN ds |-> put_u16(i - 1) \o ds[i].key \o ds[i].owner
                                   \o <<AsBit(ds[i].is_executable), privilege_flags(ds[i])>>]
    BY <1>1, Zenon DEF Entries, Entry
  <2> QED BY <1>3, <1>5, <1>8, <2>1, Zenon DEF capability_bytes, Adds
<1>10. PICK m \in Nat, o3 \in Nat, o4 \in Nat :
         m = n * EntryLen /\ o3 = 1 + HashLen /\ o4 = o3 + CountLen /\ 1 \in Nat
  <2>1. n * EntryLen \in Nat
    BY <1>0
  <2> QED BY <2>1, Sizes
<1>11. Field(F, m)
  BY <1>4, <1>10
<1>12. Field(p2, o3) /\ Holds(p2, 1, g)
  BY <1>6, <1>8, <1>10, FieldAdded
<1>13. Field(p3, o4) /\ Holds(p3, 1, g) /\ Holds(p3, o3, f3)
  BY <1>6, <1>7, <1>8, <1>10, <1>12, FieldAdded, FieldKept
<1>14. Field(p4, o4 + m) /\ Holds(p4, 1, g) /\ Holds(p4, o3, f3) /\ Holds(p4, o4, F)
  BY <1>6, <1>7, <1>8, <1>10, <1>11, <1>13, FieldAdded, FieldKept
<1> QED BY <1>1, <1>2, <1>3, <1>4, <1>5, <1>9, <1>10, <1>14

\* What stands inside a prefix stands in the whole.
LEMMA PrefixRead ==
  ASSUME NEW a, NEW k, Field(a, k), NEW b, NEW m, Field(b, m), IsPrefix(a, b),
         NEW o \in Nat, NEW n \in Nat, o + n <= k
  PROVE  read_array(a, o, n) = read_array(b, o, n) /\ k <= m
<1>1. /\ a \in Seq(Byte) /\ b \in Seq(Byte) /\ Len(a) = k /\ Len(b) = m /\ k \in Nat /\ m \in Nat
      /\ k <= m /\ SubSeq(a, 1, k) = SubSeq(b, 1, k)
  BY DEF Field, IsPrefix
<1>2. SubSeq(a, 1, k) = a
  BY <1>1, SubSeqFull
<1>3. ASSUME NEW i \in 1 .. k PROVE a[i] = b[i]
  <2>1. 1 \in 1 .. Len(b) + 1 /\ k \in 1 - 1 .. Len(b)
    BY <1>1
  <2>2. \A x \in 1 .. k - 1 + 1 : SubSeq(b, 1, k)[x] = b[1 + x - 1]
    BY <1>1, <2>1, SubSeqProperties
  <2>3. i \in 1 .. k - 1 + 1 /\ 1 + i - 1 = i
    BY <1>1
  <2>4. SubSeq(b, 1, k)[i] = b[i]
    BY <2>2, <2>3
  <2> QED BY <1>1, <1>2, <2>4, Zenon
<1>4. PICK f, g : f = read_array(a, o, n) /\ g = read_array(b, o, n)
  OBVIOUS
<1>5. o + n <= m
  BY <1>1
<1>6. Field(f, n) /\ Field(g, n)
  BY <1>4, <1>5, FieldRead
<1>7. Holds(a, o, f) /\ Holds(b, o, g)
  BY <1>1, <1>4, <1>5, <1>6 DEF Holds, Field
<1>8. ASSUME NEW i \in 1 .. n PROVE f[i] = g[i]
  <2>1. a[o + i] = f[i] /\ b[o + i] = g[i]
    BY <1>6, <1>7, HeldByte
  <2>2. o + i \in 1 .. k
    BY <1>1
  <2> QED BY <1>3, <2>1, <2>2
<1>9. f = g
  BY <1>6, <1>8, SeqEqual DEF Field
<1> QED BY <1>1, <1>4, <1>9

LEMMA CapabilitiesApart ==
  ASSUME NEW c \in Capabilities, NEW d \in Capabilities,
         IsPrefix(capability_bytes(c.program, c.descriptors),
                  capability_bytes(d.program, d.descriptors))
  PROVE  c = d
<1>1. PICK n \in 0 .. 1 + MaxOpaqueAccounts :
        c.descriptors \in [1 .. n -> Described] /\ Len(c.descriptors) = n
  BY CapabilityTyped
<1>2. PICK m \in 0 .. 1 + MaxOpaqueAccounts :
        d.descriptors \in [1 .. m -> Described] /\ Len(d.descriptors) = m
  BY CapabilityTyped
<1>3. c.program \in Bytes(HashLen) /\ d.program \in Bytes(HashLen)
  BY CapabilityTyped
<1>4. PICK a, b, F, G, k, l :
        /\ a = capability_bytes(c.program, c.descriptors)
        /\ b = capability_bytes(d.program, d.descriptors)
        /\ F = FlattenSeq(Entries(c.descriptors)) /\ G = FlattenSeq(Entries(d.descriptors))
        /\ k = n * EntryLen /\ l = m * EntryLen
  OBVIOUS
<1>5. PICK o3 \in Nat, o4 \in Nat : o3 = 1 + HashLen /\ o4 = 1 + HashLen + CountLen
  BY Sizes
<1>6. /\ Field(a, o4 + k) /\ Holds(a, 1, c.program) /\ Holds(a, o3, put_u16(n))
      /\ Holds(a, o4, F) /\ Field(F, k)
      /\ \A i \in 1 .. n : Holds(F, (i - 1) * EntryLen, Entry(c.descriptors[i], i))
  BY <1>1, <1>3, <1>4, <1>5, CapabilityFields
<1>7. /\ Field(b, o4 + l) /\ Holds(b, 1, d.program) /\ Holds(b, o3, put_u16(m))
      /\ Holds(b, o4, G) /\ Field(G, l)
      /\ \A i \in 1 .. m : Holds(G, (i - 1) * EntryLen, Entry(d.descriptors[i], i))
  BY <1>2, <1>3, <1>4, <1>5, CapabilityFields
<1>8. IsPrefix(a, b)
  BY <1>4
<1>9. /\ k \in Nat /\ l \in Nat /\ 1 + HashLen <= o4 + k /\ o3 + CountLen <= o4 + k
      /\ o4 + k <= o4 + k
  <2>1. k \in Nat /\ l \in Nat
    BY <1>6, <1>7 DEF Field
  <2> QED BY <1>5, <2>1, Sizes
<1>10. c.program = d.program
  <2>1. read_array(a, 1, HashLen) = c.program
    BY <1>3, <1>6, Sizes, BytesField
  <2>2. read_array(b, 1, HashLen) = d.program
    BY <1>3, <1>7, Sizes, BytesField
  <2>3. read_array(a, 1, HashLen) = read_array(b, 1, HashLen)
    <3>1. 1 \in Nat /\ HashLen \in Nat
      BY Sizes
    <3> QED BY <1>6, <1>7, <1>8, <1>9, <3>1, PrefixRead
  <2> QED BY <2>1, <2>2, <2>3, Zenon
<1>11. n = m
  <2>1. n \in Uint(CountLen) /\ m \in Uint(CountLen) /\ CountLen \in Nat
    BY Sizes
  <2>2. from_le_bytes(read_array(a, o3, CountLen)) = n
    BY <1>6, <2>1, UintField DEF put_u16
  <2>3. from_le_bytes(read_array(b, o3, CountLen)) = m
    BY <1>7, <2>1, UintField DEF put_u16
  <2>4. read_array(a, o3, CountLen) = read_array(b, o3, CountLen)
    BY <1>6, <1>7, <1>8, <1>9, <2>1, PrefixRead
  <2> QED BY <2>2, <2>3, <2>4, Zenon
<1>12. k = l
  BY <1>4, <1>11
<1>13. F = G
  <2>1. read_array(a, o4, k) = F
    BY <1>6 DEF Holds, Field
  <2>2. read_array(b, o4, k) = G
    BY <1>7, <1>12 DEF Holds, Field
  <2>3. read_array(a, o4, k) = read_array(b, o4, k)
    BY <1>6, <1>7, <1>8, <1>9, PrefixRead
  <2> QED BY <2>1, <2>2, <2>3, Zenon
<1>14. ASSUME NEW i \in 1 .. n PROVE c.descriptors[i] = d.descriptors[i]
  <2>1. PICK x, y : x = c.descriptors[i] /\ y = d.descriptors[i]
    OBVIOUS
  <2>2. x \in Described /\ y \in Described /\ i \in 1 .. 1 + MaxOpaqueAccounts
    BY <1>1, <1>2, <1>11, <2>1, Sizes
  <2>3. Holds(F, (i - 1) * EntryLen, Entry(x, i)) /\ Holds(F, (i - 1) * EntryLen, Entry(y, i))
    BY <1>6, <1>7, <1>11, <1>13, <2>1, Zenon
  <2>4. Field(Entry(x, i), EntryLen) /\ Field(Entry(y, i), EntryLen)
    BY <2>2, EntryFields, Zenon
  <2>5. Entry(x, i) = Entry(y, i)
    BY <2>3, <2>4 DEF Holds, Field
  <2>6. x = y
    BY <2>2, <2>5, EntriesApart, Zenon
  <2> QED BY <2>1, <2>6, Zenon
<1>15. c.descriptors = d.descriptors
  BY <1>1, <1>2, <1>11, <1>14
<1>16. /\ c = [program |-> c.program, descriptors |-> c.descriptors]
       /\ d = [program |-> d.program, descriptors |-> d.descriptors]
  BY CapabilityTyped
<1> QED BY <1>10, <1>15, <1>16, Zenon

\* The bytes that a capability hash is taken of determine the engine program and the list
\* of accounts: two grants that differ in a key, an owner, a privilege, an executable flag,
\* their order or their number are hashed from different bytes, none the beginning of
\* another.
THEOREM CapabilitiesTellApartHolds == Spec => []CapabilitiesTellApart
<1>1. WInv => CapabilitiesTellApart
  <2> SUFFICES ASSUME WInv, kind = "capability", NEW c \in Capabilities,
                      IsPrefix(capability_bytes(c.program, c.descriptors), wire)
               PROVE  c = sent
    BY DEF CapabilitiesTellApart
  <2>1. Carries(kind, sent, wire)
    BY DEF WInv
  <2>2. sent \in Capabilities /\ wire = capability_bytes(sent.program, sent.descriptors)
    BY <2>1, NoKind DEF Carries
  <2> QED BY <2>2, CapabilitiesApart
<1> QED BY <1>1, WInvHolds, PTL
=============================================================================
