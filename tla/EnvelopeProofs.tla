--------------------------- MODULE EnvelopeProofs ---------------------------
(***************************************************************************)
(* Theorems about Preimage: for all 32-bit counters, all keys shorter than *)
(* 2^16 bytes and all payloads, the preimage determines what it was built  *)
(* of.  And about Envelope: for all requests of all lengths, whatever they *)
(* declare, the parser reads nothing behind them, and takes from those the *)
(* client packed what the client packed into them.                         *)
(***************************************************************************)
EXTENDS Envelope, SequenceTheorems, TLAPS

(* Two numbers of 16 bits with the same octets are equal.                  *)
LEMMA Octets16 ==
  ASSUME NEW a \in Nat, NEW b \in Nat, a < 65536, b < 65536,
         \A k \in 0 .. 1 : Octet(a, k) = Octet(b, k)
  PROVE  a = b
<1>1. Octet(a, 0) = Octet(b, 0) /\ Octet(a, 1) = Octet(b, 1)
  OBVIOUS
<1>2. /\ (a \div 1) % 256 = (b \div 1) % 256
      /\ (a \div 256) % 256 = (b \div 256) % 256
  BY <1>1 DEF Octet
<1> QED
  BY <1>2

(* Two numbers of 32 bits with the same octets are equal.                  *)
LEMMA Octets32 ==
  ASSUME NEW a \in Nat, NEW b \in Nat,
         a \div 16777216 < 256, b \div 16777216 < 256,
         \A k \in 0 .. 3 : Octet(a, k) = Octet(b, k)
  PROVE  a = b
<1>1. /\ Octet(a, 0) = Octet(b, 0) /\ Octet(a, 1) = Octet(b, 1)
      /\ Octet(a, 2) = Octet(b, 2) /\ Octet(a, 3) = Octet(b, 3)
  OBVIOUS
<1>2. /\ (a \div 1) % 256 = (b \div 1) % 256
      /\ (a \div 256) % 256 = (b \div 256) % 256
      /\ (a \div 65536) % 256 = (b \div 65536) % 256
      /\ (a \div 16777216) % 256 = (b \div 16777216) % 256
  BY <1>1 DEF Octet
<1>3. a \div 16777216 = b \div 16777216
  BY <1>2
<1>4. a \div 65536 = b \div 65536
  BY <1>2, <1>3
<1>5. a \div 256 = b \div 256
  BY <1>2, <1>4
<1> QED
  BY <1>2, <1>5

(* Concatenations with prefixes of one length can be taken apart.          *)
LEMMA ConcatInjective ==
  ASSUME NEW S, NEW a \in Seq(S), NEW b \in Seq(S), NEW s \in Seq(S),
         NEW t \in Seq(S), Len(a) = Len(b), a \o s = b \o t
  PROVE  a = b /\ s = t
<1>1. /\ Len(a \o s) = Len(a) + Len(s)
      /\ Len(b \o t) = Len(b) + Len(t)
  BY ConcatProperties
<1>0. Len(a) \in Nat /\ Len(b) \in Nat /\ Len(s) \in Nat /\ Len(t) \in Nat
  BY LenProperties
<1>2. Len(s) = Len(t)
  BY <1>0, <1>1
<1>3. ASSUME NEW i \in 1 .. Len(a) PROVE a[i] = b[i]
  <2>1. (a \o s)[i] = a[i]
    OBVIOUS
  <2>2. (b \o t)[i] = b[i]
    OBVIOUS
  <2> QED
    BY <2>1, <2>2
<1>4. ASSUME NEW i \in 1 .. Len(s) PROVE s[i] = t[i]
  <2> DEFINE j == Len(a) + i
  <2>1. (a \o s)[j] = s[i]
    OBVIOUS
  <2>2. (b \o t)[j] = t[i]
    BY <1>2
  <2> QED
    BY <2>1, <2>2
<1>5. a = b
  BY <1>3, SeqEqual
<1>6. s = t
  BY <1>2, <1>4, SeqEqual
<1> QED
  BY <1>5, <1>6

(* The header is of one length, and determines its three arguments.        *)
LEMMA HeaderType ==
  ASSUME NEW f \in Fields
  PROVE  /\ Header(f.direction, f.counter, Len(f.key)) \in Seq(Int)
         /\ Len(Header(f.direction, f.counter, Len(f.key))) = 21
         /\ f.key \in Seq(Int) /\ f.payload \in Seq(Int)
<1>1. f.direction \in Int /\ f.counter \in Nat /\ f.key \in Seq(Byte) /\ f.payload \in Seq(Byte)
  BY DEF Fields, Directions, UInt32, kDirRequest, kDirResponse
<1>2. Len(f.key) \in Nat
  BY <1>1
<1>3. \A v \in Nat : /\ Octet(v, 0) \in Int /\ Octet(v, 1) \in Int
                     /\ Octet(v, 2) \in Int /\ Octet(v, 3) \in Int
  BY DEF Octet
<1>4. f.key \in Seq(Int) /\ f.payload \in Seq(Int)
  <2>1. Byte \subseteq Int
    BY DEF Byte
  <2> QED
    BY <1>1, <2>1, SeqMonotonic
<1>5. /\ Octet(f.counter, 0) \in Int /\ Octet(f.counter, 1) \in Int
      /\ Octet(f.counter, 2) \in Int /\ Octet(f.counter, 3) \in Int
      /\ Octet(Len(f.key), 0) \in Int /\ Octet(Len(f.key), 1) \in Int
  BY <1>1, <1>2, <1>3
<1>6. /\ Header(f.direction, f.counter, Len(f.key)) \in Seq(Int)
      /\ Len(Header(f.direction, f.counter, Len(f.key))) = 21
  BY <1>1, <1>5 DEF Header
<1> QED
  BY <1>4, <1>6

LEMMA HeaderInjective ==
  ASSUME NEW f \in Fields, NEW g \in Fields,
         Header(f.direction, f.counter, Len(f.key)) =
         Header(g.direction, g.counter, Len(g.key))
  PROVE  /\ f.direction = g.direction
         /\ f.counter = g.counter
         /\ Len(f.key) = Len(g.key)
<1> DEFINE h == Header(f.direction, f.counter, Len(f.key))
           i == Header(g.direction, g.counter, Len(g.key))
<1>1. /\ h[7] = f.direction
      /\ h[8] = Octet(f.counter, 3) /\ h[9] = Octet(f.counter, 2)
      /\ h[10] = Octet(f.counter, 1) /\ h[11] = Octet(f.counter, 0)
      /\ h[20] = Octet(Len(f.key), 1) /\ h[21] = Octet(Len(f.key), 0)
  BY DEF Header
<1>2. /\ i[7] = g.direction
      /\ i[8] = Octet(g.counter, 3) /\ i[9] = Octet(g.counter, 2)
      /\ i[10] = Octet(g.counter, 1) /\ i[11] = Octet(g.counter, 0)
      /\ i[20] = Octet(Len(g.key), 1) /\ i[21] = Octet(Len(g.key), 0)
  BY DEF Header
<1>3. h = i
  OBVIOUS
<1>4. /\ f.counter \in Nat /\ f.counter \div 16777216 < 256
      /\ g.counter \in Nat /\ g.counter \div 16777216 < 256
      /\ Len(f.key) \in Nat /\ Len(f.key) < 65536
      /\ Len(g.key) \in Nat /\ Len(g.key) < 65536
  BY SMT DEF Fields, UInt16, UInt32
<1> HIDE DEF h, i
<1>5. \A k \in 0 .. 3 : Octet(f.counter, k) = Octet(g.counter, k)
  BY <1>1, <1>2, <1>3
<1>6. \A k \in 0 .. 1 : Octet(Len(f.key), k) = Octet(Len(g.key), k)
  BY <1>1, <1>2, <1>3
<1>7. f.counter = g.counter
  BY <1>4, <1>5, Octets32
<1>8. Len(f.key) = Len(g.key)
  BY <1>4, <1>6, Octets16
<1> QED
  BY <1>1, <1>2, <1>3, <1>7, <1>8

(* The preimage is an injective encoding of the fields it binds.           *)
THEOREM BytesInjective ==
  ASSUME NEW f \in Fields, NEW g \in Fields, Bytes(f) = Bytes(g)
  PROVE  f = g
<1> DEFINE h == Header(f.direction, f.counter, Len(f.key))
           i == Header(g.direction, g.counter, Len(g.key))
<1>1. /\ h \in Seq(Int) /\ i \in Seq(Int) /\ Len(h) = Len(i)
      /\ f.key \in Seq(Int) /\ f.payload \in Seq(Int)
      /\ g.key \in Seq(Int) /\ g.payload \in Seq(Int)
  BY HeaderType
<1>2. h \o (f.key \o f.payload) = i \o (g.key \o g.payload)
  BY DEF Bytes
<1>3. f.key \o f.payload \in Seq(Int) /\ g.key \o g.payload \in Seq(Int)
  BY <1>1, ConcatProperties
<1>4. h = i /\ f.key \o f.payload = g.key \o g.payload
  <2> HIDE DEF h, i
  <2> DEFINE u == f.key \o f.payload
             v == g.key \o g.payload
  <2>1. u \in Seq(Int) /\ v \in Seq(Int) /\ h \o u = i \o v
    BY <1>2, <1>3
  <2> HIDE DEF u, v
  <2>2. h = i /\ u = v
    BY <1>1, <2>1, ConcatInjective, Zenon
  <2> QED
    BY <2>2 DEF u, v
<1>5. /\ f.direction = g.direction /\ f.counter = g.counter
      /\ Len(f.key) = Len(g.key)
  BY <1>4, HeaderInjective
<1>6. f.key = g.key /\ f.payload = g.payload
  <2> DEFINE k == f.key  l == g.key  p == f.payload  q == g.payload
  <2>1. /\ k \in Seq(Int) /\ l \in Seq(Int) /\ p \in Seq(Int) /\ q \in Seq(Int)
        /\ Len(k) = Len(l) /\ k \o p = l \o q
    BY <1>1, <1>4, <1>5
  <2> HIDE DEF k, l, p, q
  <2>2. k = l /\ p = q
    BY <2>1, ConcatInjective, Zenon
  <2> QED
    BY <2>2 DEF k, l, p, q
<1> QED
  BY <1>5, <1>6 DEF Fields

(* A preimage is as long as Need says.                                     *)
LEMMA NeedIsLength ==
  ASSUME NEW f \in Fields
  PROVE  /\ Bytes(f) \in Seq(Int)
         /\ Len(Bytes(f)) = Need(Len(f.key), Len(f.payload))
         /\ Need(Len(f.key), Len(f.payload)) \in Nat
<1> DEFINE h == Header(f.direction, f.counter, Len(f.key))
           k == f.key
           p == f.payload
<1>1. h \in Seq(Int) /\ Len(h) = 21 /\ k \in Seq(Int) /\ p \in Seq(Int)
  BY HeaderType
<1>2. Bytes(f) = h \o (k \o p)
  BY DEF Bytes
<1>3. Need(Len(k), Len(p)) = 21 + Len(k) + Len(p)
  <2>1. Len(k) \in Nat /\ Len(p) \in Nat
    BY <1>1, LenProperties
  <2> HIDE DEF k, p
  <2> QED
    BY <2>1 DEF Need
<1> HIDE DEF h, k, p
<1>4. k \o p \in Seq(Int) /\ Len(k \o p) = Len(k) + Len(p)
  BY <1>1, ConcatProperties
<1>5. h \o (k \o p) \in Seq(Int) /\ Len(h \o (k \o p)) = Len(h) + Len(k \o p)
  BY <1>1, <1>4, ConcatProperties
<1>6. Len(k) \in Nat /\ Len(p) \in Nat
  BY <1>1, LenProperties
<1>7. Len(h \o (k \o p)) = Need(Len(k), Len(p)) /\ Need(Len(k), Len(p)) \in Nat
  BY <1>1, <1>3, <1>4, <1>5, <1>6
<1> QED
  BY <1>2, <1>5, <1>7 DEF k, p

-----------------------------------------------------------------------------
LEMMA ConcatAt ==
  ASSUME NEW S, NEW a \in Seq(S), NEW b \in Seq(S)
  PROVE  /\ a \o b \in Seq(S) /\ Len(a \o b) = Len(a) + Len(b)
         /\ Len(a) \in Nat /\ Len(b) \in Nat
         /\ \A i \in 1 .. Len(a) : (a \o b)[i] = a[i]
         /\ \A i \in 1 .. Len(b) : (a \o b)[Len(a) + i] = b[i]
<1>1. Len(a) \in Nat /\ Len(b) \in Nat
  BY LenProperties
<1>2. a \o b \in Seq(S) /\ Len(a \o b) = Len(a) + Len(b)
  BY ConcatProperties
<1>3. ASSUME NEW i \in 1 .. Len(a) PROVE (a \o b)[i] = a[i]
  <2>1. i \in 1 .. Len(a) + Len(b) /\ i <= Len(a)
    BY <1>1
  <2> QED BY <2>1, ConcatProperties
<1>4. ASSUME NEW i \in 1 .. Len(b) PROVE (a \o b)[Len(a) + i] = b[i]
  <2> DEFINE j == Len(a) + i
  <2>1. j \in 1 .. Len(a) + Len(b) /\ ~(j <= Len(a)) /\ j - Len(a) = i
    BY <1>1
  <2> HIDE DEF j
  <2>2. (a \o b)[j] = b[j - Len(a)]
    BY <2>1, ConcatProperties
  <2> QED BY <2>1, <2>2 DEF j
<1> QED BY <1>1, <1>2, <1>3, <1>4

(* Numbers are packed in octets, and read back from them.                  *)
LEMMA Packed16 ==
  ASSUME NEW v \in Nat, v < 65536
  PROVE  /\ U16(v) \in Seq(Byte) /\ Len(U16(v)) = 2
         /\ U16(v)[1] \in Byte /\ U16(v)[2] \in Byte
         /\ 256 * U16(v)[1] + U16(v)[2] = v
<1>1. v \div 256 \in Byte /\ v % 256 \in Byte
  BY SMT DEF Byte
<1> QED BY <1>1, SMT DEF U16, Byte

Read32(a, b, c, d) == 16777216 * a + 65536 * b + (256 * c + d)

Is32(v) == v \in Nat /\ v \div 16777216 < 256

LEMMA Packed32 ==
  ASSUME NEW v, Is32(v)
  PROVE  /\ U32(v) \in Seq(Byte) /\ Len(U32(v)) = 4
         /\ U32(v)[1] \in Byte /\ U32(v)[2] \in Byte
         /\ U32(v)[3] \in Byte /\ U32(v)[4] \in Byte
         /\ Read32(U32(v)[1], U32(v)[2], U32(v)[3], U32(v)[4]) = v
<1> DEFINE a == v \div 16777216  b == (v \div 65536) % 256
           c == (v \div 256) % 256  d == v % 256
<1>0. v \in Nat /\ v \div 16777216 < 256
  BY SMT DEF Is32
<1>1. a \in Byte /\ b \in Byte /\ c \in Byte /\ d \in Byte
  BY <1>0, SMT DEF Byte
<1>2. 16777216 * a + 65536 * b + (256 * c + d) = v
  BY <1>0, SMT
<1>3. U32(v) = <<a, b, c, d>>
  BY SMT DEF U32
<1>4. Read32(a, b, c, d) = v
  BY <1>2, SMT DEF Read32
<1> HIDE DEF a, b, c, d
<1>5. U32(v)[1] = a /\ U32(v)[2] = b /\ U32(v)[3] = c /\ U32(v)[4] = d
  BY <1>3, SMT
<1>6. U32(v) \in Seq(Byte) /\ Len(U32(v)) = 4
  BY <1>1, <1>3, SMT
<1> QED BY <1>1, <1>4, <1>5, <1>6

LEMMA FieldsType ==
  ASSUME NEW f \in Requests
  PROVE  /\ f.counter \in Nat /\ f.payload \in Seq(Byte) /\ f.sig \in Seq(Byte)
         /\ Len(f.payload) \in Nat /\ Len(f.sig) \in Nat
         /\ U16(Len(f.payload)) \in Seq(Byte) /\ Len(U16(Len(f.payload))) = 2
         /\ U16(Len(f.sig)) \in Seq(Byte) /\ Len(U16(Len(f.sig))) = 2
         /\ 256 * U16(Len(f.payload))[1] + U16(Len(f.payload))[2] = Len(f.payload)
         /\ 256 * U16(Len(f.sig))[1] + U16(Len(f.sig))[2] = Len(f.sig)
         /\ U32(f.counter)[1] \in Byte /\ U32(f.counter)[2] \in Byte
         /\ U32(f.counter)[3] \in Byte /\ U32(f.counter)[4] \in Byte
         /\ Read32(U32(f.counter)[1], U32(f.counter)[2], U32(f.counter)[3],
                   U32(f.counter)[4]) = f.counter
         /\ U16(Len(f.payload))[1] \in Byte /\ U16(Len(f.payload))[2] \in Byte
         /\ U32(f.counter) \in Seq(Byte) /\ Len(U32(f.counter)) = 4
<1>0. Is32(f.counter)
  BY EnvelopeAssumption, SMT DEF Is32, UInt32
<1>1. /\ f.counter \in Nat
      /\ f.payload \in Seq(Byte) /\ Len(f.payload) < 65536
      /\ f.sig \in Seq(Byte) /\ Len(f.sig) < 65536
  BY EnvelopeAssumption, SMT DEF UInt16, UInt32
<1>2. Len(f.payload) \in Nat /\ Len(f.sig) \in Nat
  BY <1>1, LenProperties, SMT
<1> DEFINE l == Len(f.payload)
           s == Len(f.sig)
           c == f.counter
<1>3. /\ U16(l) \in Seq(Byte) /\ Len(U16(l)) = 2
      /\ U16(l)[1] \in Byte /\ U16(l)[2] \in Byte
      /\ 256 * U16(l)[1] + U16(l)[2] = l
  BY <1>1, <1>2, Packed16
<1>4. /\ U16(s) \in Seq(Byte) /\ Len(U16(s)) = 2
      /\ 256 * U16(s)[1] + U16(s)[2] = s
  BY <1>1, <1>2, Packed16
<1>5. /\ U32(c)[1] \in Byte /\ U32(c)[2] \in Byte
      /\ U32(c)[3] \in Byte /\ U32(c)[4] \in Byte
      /\ U32(c) \in Seq(Byte) /\ Len(U32(c)) = 4
      /\ Read32(U32(c)[1], U32(c)[2], U32(c)[3], U32(c)[4]) = c
  BY <1>0, Packed32, Zenon
<1>6. c \in Nat /\ f.payload \in Seq(Byte) /\ f.sig \in Seq(Byte)
  BY <1>1, SMT
<1> QED BY <1>2, <1>3, <1>4, <1>5, <1>6, Zenon

(* Where the fields of a packed request are.                               *)
LEMMA PackedHeader ==
  ASSUME NEW f \in Requests
  PROVE  LET h == <<kTypeSignedRequest>> \o U32(f.counter) \o U16(Len(f.payload))
         IN  /\ h \in Seq(Byte) /\ Len(h) = 7
             /\ h[1] = kTypeSignedRequest
             /\ h[2] = U32(f.counter)[1] /\ h[3] = U32(f.counter)[2]
             /\ h[4] = U32(f.counter)[3] /\ h[5] = U32(f.counter)[4]
             /\ h[6] = U16(Len(f.payload))[1] /\ h[7] = U16(Len(f.payload))[2]
<1> DEFINE t == <<kTypeSignedRequest>>
           u == U32(f.counter)
           v == U16(Len(f.payload))
           g == t \o u
           h == g \o v
<1>1. t \in Seq(Byte) /\ Len(t) = 1 /\ t[1] = kTypeSignedRequest
  BY DEF kTypeSignedRequest, Byte
<1>2. /\ u \in Seq(Byte) /\ Len(u) = 4
      /\ v \in Seq(Byte) /\ Len(v) = 2
  BY FieldsType
<1> HIDE DEF t, u, v
<1>3. /\ g \in Seq(Byte) /\ Len(g) = Len(t) + Len(u)
      /\ \A i \in 1 .. Len(t) : g[i] = t[i]
      /\ \A i \in 1 .. Len(u) : g[Len(t) + i] = u[i]
  <2>1. t \in Seq(Byte) /\ u \in Seq(Byte)
    BY <1>1, <1>2
  <2> QED BY <2>1, ConcatAt
<1> HIDE DEF g
<1>4. /\ g \in Seq(Byte) /\ Len(g) = 5
      /\ g[1] = t[1] /\ g[2] = u[1] /\ g[3] = u[2] /\ g[4] = u[3] /\ g[5] = u[4]
  BY <1>1, <1>2, <1>3
<1>5. /\ h \in Seq(Byte) /\ Len(h) = Len(g) + Len(v)
      /\ \A i \in 1 .. Len(g) : h[i] = g[i]
      /\ \A i \in 1 .. Len(v) : h[Len(g) + i] = v[i]
  <2>1. g \in Seq(Byte) /\ v \in Seq(Byte)
    BY <1>2, <1>4
  <2> QED BY <2>1, ConcatAt
<1> HIDE DEF h
<1>6. /\ h \in Seq(Byte) /\ Len(h) = 7
      /\ h[1] = t[1] /\ h[2] = u[1] /\ h[3] = u[2] /\ h[4] = u[3] /\ h[5] = u[4]
      /\ h[6] = v[1] /\ h[7] = v[2]
  BY <1>2, <1>4, <1>5
<1> QED
  BY <1>1, <1>6 DEF g, h, t, u, v

LEMMA PackedAt ==
  ASSUME NEW f \in Requests
  PROVE  /\ Packed(f) \in Seq(Byte)
         /\ Len(Packed(f)) = 9 + Len(f.payload) + Len(f.sig)
         /\ Packed(f)[1] = kTypeSignedRequest
         /\ Packed(f)[2] = U32(f.counter)[1] /\ Packed(f)[3] = U32(f.counter)[2]
         /\ Packed(f)[4] = U32(f.counter)[3] /\ Packed(f)[5] = U32(f.counter)[4]
         /\ Packed(f)[6] = U16(Len(f.payload))[1]
         /\ Packed(f)[7] = U16(Len(f.payload))[2]
         /\ \A i \in 1 .. Len(f.payload) : Packed(f)[7 + i] = f.payload[i]
         /\ Packed(f)[8 + Len(f.payload)] = U16(Len(f.sig))[1]
         /\ Packed(f)[9 + Len(f.payload)] = U16(Len(f.sig))[2]
         /\ \A i \in 1 .. Len(f.sig) :
              Packed(f)[9 + Len(f.payload) + i] = f.sig[i]
<1> DEFINE h == <<kTypeSignedRequest>> \o U32(f.counter) \o U16(Len(f.payload))
           p == f.payload
           u == U16(Len(f.sig))
           s == f.sig
<1>1. /\ h \in Seq(Byte) /\ Len(h) = 7
      /\ h[1] = kTypeSignedRequest
      /\ h[2] = U32(f.counter)[1] /\ h[3] = U32(f.counter)[2]
      /\ h[4] = U32(f.counter)[3] /\ h[5] = U32(f.counter)[4]
      /\ h[6] = U16(Len(f.payload))[1] /\ h[7] = U16(Len(f.payload))[2]
  BY PackedHeader
<1>2. p \in Seq(Byte) /\ s \in Seq(Byte)
  BY FieldsType
<1>3. Len(p) \in Nat /\ Len(s) \in Nat
  BY FieldsType
<1>4. u \in Seq(Byte) /\ Len(u) = 2
  BY FieldsType
<1>5. Packed(f) = h \o (p \o (u \o s))
  BY DEF Packed
<1> HIDE DEF h, p, u, s
<1> DEFINE r == u \o s
           q == p \o r
<1>6. /\ r \in Seq(Byte) /\ Len(r) = 2 + Len(s)
      /\ r[1] = u[1] /\ r[2] = u[2]
      /\ \A i \in 1 .. Len(s) : r[2 + i] = s[i]
  <2>1. /\ r \in Seq(Byte) /\ Len(r) = Len(u) + Len(s)
        /\ \A i \in 1 .. Len(u) : r[i] = u[i]
        /\ \A i \in 1 .. Len(s) : r[Len(u) + i] = s[i]
    <3>1. u \in Seq(Byte) /\ s \in Seq(Byte)
      BY <1>2, <1>4
    <3> QED BY <3>1, ConcatAt
  <2> HIDE DEF r
  <2> QED BY <1>4, <2>1
<1> HIDE DEF r
<1>7. /\ q \in Seq(Byte) /\ Len(q) = 2 + Len(p) + Len(s)
      /\ \A i \in 1 .. Len(p) : q[i] = p[i]
      /\ \A i \in 1 .. Len(r) : q[Len(p) + i] = r[i]
  <2>1. /\ q \in Seq(Byte) /\ Len(q) = Len(p) + Len(r)
        /\ \A i \in 1 .. Len(p) : q[i] = p[i]
        /\ \A i \in 1 .. Len(r) : q[Len(p) + i] = r[i]
    <3>1. p \in Seq(Byte) /\ r \in Seq(Byte)
      BY <1>2, <1>6
    <3> QED BY <3>1, ConcatAt
  <2> HIDE DEF q
  <2>2. Len(q) = 2 + Len(p) + Len(s)
    BY <1>3, <1>6, <2>1
  <2> QED BY <2>1, <2>2
<1> HIDE DEF q
<1>8. /\ h \o q \in Seq(Byte) /\ Len(h \o q) = 9 + Len(p) + Len(s)
      /\ \A i \in 1 .. 7 : (h \o q)[i] = h[i]
      /\ \A i \in 1 .. Len(q) : (h \o q)[7 + i] = q[i]
  <2> DEFINE w == h \o q
  <2>1. /\ w \in Seq(Byte) /\ Len(w) = Len(h) + Len(q)
        /\ \A i \in 1 .. Len(h) : w[i] = h[i]
        /\ \A i \in 1 .. Len(q) : w[Len(h) + i] = q[i]
    <3>1. h \in Seq(Byte) /\ q \in Seq(Byte)
      BY <1>1, <1>7
    <3> QED BY <3>1, ConcatAt
  <2> HIDE DEF w
  <2>2. /\ w \in Seq(Byte) /\ Len(w) = 9 + Len(p) + Len(s)
        /\ \A i \in 1 .. 7 : w[i] = h[i]
        /\ \A i \in 1 .. Len(q) : w[7 + i] = q[i]
    BY <1>1, <1>3, <1>7, <2>1
  <2> QED BY <2>2 DEF w
<1> DEFINE w == h \o q
<1>9. Packed(f) = w
  BY <1>5 DEF q, r
<1> HIDE DEF w
<1>10. /\ w \in Seq(Byte) /\ Len(w) = 9 + Len(p) + Len(s)
       /\ \A i \in 1 .. 7 : w[i] = h[i]
       /\ \A i \in 1 .. Len(q) : w[7 + i] = q[i]
  BY <1>8 DEF w
<1>11. \A i \in 1 .. Len(p) : w[7 + i] = p[i]
  BY <1>3, <1>7, <1>10
<1>12. \A i \in 1 .. Len(r) : w[7 + Len(p) + i] = r[i]
  <2> SUFFICES ASSUME NEW i \in 1 .. Len(r) PROVE w[7 + Len(p) + i] = r[i]
    OBVIOUS
  <2>1. Len(p) + i \in 1 .. Len(q) /\ 7 + (Len(p) + i) = 7 + Len(p) + i
    BY <1>3, <1>6, <1>7
  <2> QED BY <1>7, <1>10, <2>1
<1>13. /\ w[8 + Len(p)] = u[1] /\ w[9 + Len(p)] = u[2]
       /\ \A i \in 1 .. Len(s) : w[9 + Len(p) + i] = s[i]
  <2>1. 1 \in 1 .. Len(r) /\ 2 \in 1 .. Len(r)
    BY <1>3, <1>6
  <2>2. w[7 + Len(p) + 1] = u[1] /\ w[7 + Len(p) + 2] = u[2]
    BY <1>6, <1>12, <2>1
  <2>3. ASSUME NEW i \in 1 .. Len(s) PROVE w[9 + Len(p) + i] = s[i]
    <3>0. Len(p) \in Nat /\ Len(s) \in Nat /\ Len(r) = 2 + Len(s)
      BY <1>3, <1>6
    <3>1. 2 + i \in 1 .. Len(r) /\ 7 + Len(p) + (2 + i) = 9 + Len(p) + i
      BY <3>0
    <3> QED BY <1>6, <1>12, <3>1
  <2>4. 7 + Len(p) + 1 = 8 + Len(p) /\ 7 + Len(p) + 2 = 9 + Len(p)
    BY <1>3
  <2> QED BY <2>2, <2>3, <2>4
<1>14. /\ w[1] = h[1] /\ w[2] = h[2] /\ w[3] = h[3] /\ w[4] = h[4]
       /\ w[5] = h[5] /\ w[6] = h[6] /\ w[7] = h[7]
  BY <1>10
<1>15. w \in Seq(Byte) /\ Len(w) = 9 + Len(p) + Len(s)
  BY <1>10
<1> QED
  BY <1>1, <1>9, <1>11, <1>13, <1>14, <1>15, Zenon DEF p, s, u

-----------------------------------------------------------------------------
LEMMA UInt16Range == \A v : v \in UInt16 <=> v \in Nat /\ v < 65536
BY SMT DEF UInt16

LEMMA UInt16Nat == ASSUME NEW v \in UInt16 PROVE v \in Nat
BY UInt16Range, SMT

LEMMA ZeroIsUInt16 == 0 \in UInt16
BY UInt16Range, SMT

LEMMA ZeroIsUInt32 == 0 \in UInt32
BY SMT DEF UInt32

LEMMA TwoBytes ==
  ASSUME NEW a \in Byte, NEW b \in Byte
  PROVE  256 * a + b \in UInt16
<1>1. 256 * a + b \in Nat /\ 256 * a + b < 65536
  BY SMT DEF Byte
<1> QED BY <1>1, UInt16Range

(* Two bytes of the buffer are a length of 16 bits.                        *)
LEMMA FieldType ==
  ASSUME buf \in Seq(Byte), NEW i \in Nat, i + 2 <= Len(buf)
  PROVE  ByteU16(i) \in UInt16 /\ ByteU16(i) \in Nat
<1>1. i + 1 \in 1 .. Len(buf) /\ i + 2 \in 1 .. Len(buf)
  BY LenProperties
<1>2. buf[i + 1] \in Byte /\ buf[i + 2] \in Byte
  BY <1>1, ElementOfSeq
<1> QED
  BY <1>2, TwoBytes, UInt16Nat DEF ByteU16

LEMMA CounterType ==
  ASSUME buf \in Seq(Byte), 7 <= Len(buf)
  PROVE  ByteU32(1) \in UInt32
<1>1. 2 \in 1 .. Len(buf) /\ 3 \in 1 .. Len(buf)
  BY LenProperties
<1>2. buf[2] \in Byte /\ buf[3] \in Byte
  BY <1>1, ElementOfSeq
<1>3. ByteU16(3) \in UInt16
  <2>1. 3 \in Nat /\ 3 + 2 <= Len(buf)
    BY LenProperties
  <2> QED BY <2>1, FieldType
<1> DEFINE a == buf[2]
           b == buf[3]
           c == ByteU16(3)
<1>4. ByteU32(1) = 16777216 * a + 65536 * b + c
  BY SMT DEF ByteU32
<1>5. a \in Byte /\ b \in Byte /\ c \in UInt16
  BY <1>2, <1>3, Zenon
<1> HIDE DEF a, b, c
<1>6. a \in 0 .. 255 /\ b \in 0 .. 255 /\ c \in Nat /\ c < 65536
  BY <1>5, UInt16Range DEF Byte
<1>7. /\ 16777216 * a + 65536 * b + c \in Nat
      /\ (16777216 * a + 65536 * b + c) \div 16777216 < 256
  BY <1>6, SMT
<1> QED
  BY <1>4, <1>7, SMT DEF UInt32

(* A write makes bytes of bytes, and the buffer no shorter.                *)
LEMMA WriteType ==
  ASSUME buf \in Seq(Byte), NEW m \in Seq(Byte), Write(m)
  PROVE  /\ buf' \in Seq(Byte)
         /\ Len(m) <= Len(buf') /\ Len(buf) <= Len(buf')
         /\ \A i \in 1 .. Len(m) : buf'[i] = m[i]
<1> DEFINE k == IF Len(m) > Len(buf) THEN Len(m) ELSE Len(buf)
           b == [i \in 1 .. k |-> IF i <= Len(m) THEN m[i] ELSE buf[i]]
<1>1. Len(m) \in Nat /\ Len(buf) \in Nat
  BY LenProperties
<1>2. k \in Nat /\ Len(m) <= k /\ Len(buf) <= k
  BY <1>1
<1>3. \A i \in 1 .. k : (IF i <= Len(m) THEN m[i] ELSE buf[i]) \in Byte
  <2> SUFFICES ASSUME NEW i \in 1 .. k
               PROVE  (IF i <= Len(m) THEN m[i] ELSE buf[i]) \in Byte
    OBVIOUS
  <2>1. CASE i <= Len(m)
    BY <1>1, <2>1, ElementOfSeq
  <2>2. CASE ~(i <= Len(m))
    <3>1. i \in 1 .. Len(buf)
      BY <1>1, <2>2
    <3> QED BY <2>2, <3>1, ElementOfSeq
  <2> QED BY <2>1, <2>2
<1>4. buf' = b
  BY DEF Write
<1> HIDE DEF k
<1>5. b \in Seq(Byte) /\ Len(b) = k
  BY <1>2, <1>3, IsASeq
<1>6. \A i \in 1 .. Len(m) : b[i] = m[i]
  BY <1>1, <1>2
<1> QED
  BY <1>2, <1>4, <1>5, <1>6

(* What the checks made so far allow to be read.                           *)
FramingInv ==
  /\ inLen <= Len(buf)
  /\ phase = "signature" => inLen >= 7
  /\ phase \in {"bind", "verify", "accept", "respond"} =>
       inLen >= 9 + payloadLen + reqSigLen
  /\ phase = "verify" => PreimageFits
  /\ phase = "register" => inLen >= 3 + payloadLen
  /\ n <= kMaxResponse

EnvelopeInv == EnvelopeTypeOK /\ FramingInv /\ ReadsInside

LEMMA CallStep ==
  ASSUME EnvelopeInv, NEW m \in Seq(Byte), Call(m) \/ Overwrite(m),
         origin' \in Requests \cup {NoFields}
  PROVE  EnvelopeInv'
<1> USE DEF EnvelopeInv, EnvelopeTypeOK, FramingInv, ReadsInside, PreimageFits
<1>1. Write(m)
  BY DEF Call, Overwrite
<1>2. /\ buf' \in Seq(Byte)
      /\ Len(m) <= Len(buf') /\ Len(buf) <= Len(buf')
  BY <1>1, WriteType
<1>3. Len(m) \in Nat /\ Len(buf) \in Nat /\ Len(buf') \in Nat
  BY <1>2, LenProperties
<1>4. writes' \in 0 .. MaxWrites
  BY <1>1, EnvelopeAssumption DEF Write
<1>5. CASE Call(m)
  BY <1>2, <1>3, <1>4, <1>5 DEF Call, fields, kMaxResponse
<1>6. CASE Overwrite(m)
  BY <1>2, <1>3, <1>4, <1>6 DEF Overwrite, fields, answer
<1> QED BY <1>5, <1>6

(* A step of the handler leaves the buffer alone: what it must keep.       *)
LocalInv ==
  /\ phase \in {"idle", "type", "echo", "identity", "signed", "signature",
                "bind", "verify", "accept", "respond", "key", "register", "ack"}
  /\ counter \in UInt32 /\ payloadLen \in UInt16 /\ reqSigLen \in UInt16
  /\ result \in Rejects \cup {"none", "answer"}
  /\ n \in Nat /\ n <= kMaxResponse
  /\ reach \in Nat /\ reach <= inLen
  /\ phase = "signature" => inLen >= 7
  /\ phase \in {"bind", "verify", "accept", "respond"} =>
       inLen >= 9 + payloadLen + reqSigLen
  /\ phase = "verify" => PreimageFits
  /\ phase = "register" => inLen >= 3 + payloadLen

LEMMA LocalStep ==
  ASSUME EnvelopeInv, UNCHANGED request, LocalInv'
  PROVE  EnvelopeInv'
BY DEF request, LocalInv, EnvelopeInv, EnvelopeTypeOK, FramingInv, ReadsInside

LEMMA ProcessRequestStep ==
  ASSUME EnvelopeInv, ProcessRequest
  PROVE  EnvelopeInv'
<1>1. LocalInv
  BY DEF LocalInv, EnvelopeInv, EnvelopeTypeOK, FramingInv, ReadsInside
<1>2. buf \in Seq(Byte) /\ inLen \in Nat /\ inLen <= Len(buf)
  BY DEF EnvelopeInv, EnvelopeTypeOK, FramingInv
<1>3. Len(buf) \in Nat
  BY <1>2, LenProperties
<1>4. BundleLen \in Nat
  BY EnvelopeAssumption, SMT
<1>5. payloadLen \in Nat /\ reqSigLen \in Nat
  BY <1>1, UInt16Nat DEF LocalInv
<1>6. UNCHANGED request
  BY DEF ProcessRequest, ReadType, Echo, Identity, SignedHeader,
    SignedSignature, BindRequest, Verify, Accept, Respond, RegisterHeader,
    Register, RegisterAck, Reject, Return, Go, request
<1> SUFFICES LocalInv'
  BY <1>6, LocalStep
<1>7. inLen' = inLen
  BY <1>6 DEF request
<1> USE <1>1, <1>2, <1>3, <1>5, <1>7
    DEF LocalInv, Reject, Return, Go, Reads, fields, answer, Rejects, kMaxResponse,
        PreimageFits
<1>8. CASE ReadType
  BY <1>8 DEF ReadType, TypeOf
<1>9. CASE Echo
  BY <1>9 DEF Echo, EchoFits
<1>10. CASE Identity
  <2>1. inLen >= 3 => ByteU16(1) \in UInt16 /\ ByteU16(1) \in Nat
    BY FieldType
  <2> QED
    BY <1>4, <1>10, <2>1 DEF Identity, OffsetInside, Chunk, kMaxChunk
<1>11. CASE SignedHeader
  <2>1. inLen >= 7 => ByteU16(5) \in UInt16 /\ ByteU32(1) \in UInt32
    BY FieldType, CounterType
  <2> QED
    BY <1>11, <2>1 DEF SignedHeader
<1>12. CASE SignedSignature
  <2>1. inLen >= 7 + payloadLen + 2 =>
          ByteU16(7 + payloadLen) \in UInt16 /\ ByteU16(7 + payloadLen) \in Nat
    BY FieldType
  <2> QED
    BY <1>12, <2>1 DEF SignedSignature, HasSignature
<1>13. CASE BindRequest
  BY <1>13 DEF BindRequest, PreimageFits
<1>14. CASE Verify
  BY <1>14 DEF Verify
<1>15. CASE Accept
  BY <1>15 DEF Accept
<1>16. CASE Respond
  <2>1. CASE ~(\E sigLen \in 0 .. kSignatureLen :
                   Return("respond", "answer", 9 + payloadLen + sigLen))
    BY <1>16, <2>1 DEF Respond
  <2>2. ASSUME ResponseFits, Reads(7 + payloadLen), NEW sigLen \in 0 .. 64,
               Return("respond", "answer", 9 + payloadLen + sigLen)
        PROVE  LocalInv'
    <3>1. 9 + payloadLen + sigLen \in Nat /\ 9 + payloadLen + sigLen <= 512
      BY <2>2 DEF ResponseFits, kSignatureLen
    <3> QED BY <2>2, <3>1
  <2> QED BY <1>16, <2>1, <2>2 DEF Respond, kSignatureLen
<1>17. CASE RegisterHeader
  <2>1. inLen >= 3 => ByteU16(1) \in UInt16 /\ ByteU16(1) \in Nat
    BY FieldType
  <2> QED
    BY <1>17, <2>1 DEF RegisterHeader
<1>18. CASE Register
  BY <1>18 DEF Register, kKeyLen
<1>19. CASE RegisterAck
  <2>1. ASSUME UNCHANGED reach, NEW sigLen \in 0 .. 64,
               Return("ack", "answer", 5 + 32 + sigLen)
        PROVE  LocalInv'
    BY <2>1
  <2>2. CASE Return("ack", "failure", 0) /\ UNCHANGED reach
    BY <2>2
  <2> QED BY <1>19, <2>1, <2>2 DEF RegisterAck, kKeyLen, kSignatureLen
<1> QED
  BY <1>8, <1>9, <1>10, <1>11, <1>12, <1>13, <1>14, <1>15, <1>16, <1>17, <1>18,
     <1>19 DEF ProcessRequest

LEMMA EnvelopeStep == EnvelopeInv /\ [EnvelopeNext]_envelopeVars => EnvelopeInv'
<1> SUFFICES ASSUME EnvelopeInv, [EnvelopeNext]_envelopeVars PROVE EnvelopeInv'
  OBVIOUS
<1>1. ASSUME NEW f \in Requests, Send(f) \/ Overwrite(Packed(f)) PROVE EnvelopeInv'
  BY <1>1, CallStep, PackedAt DEF Send, Overwrite
<1>2. ASSUME NEW m \in Messages, Receive(m) \/ Overwrite(m) PROVE EnvelopeInv'
  BY <1>2, CallStep, EnvelopeAssumption DEF Receive, Overwrite
<1>3. CASE ProcessRequest
  BY <1>3, ProcessRequestStep
<1>4. CASE UNCHANGED envelopeVars
  BY <1>4 DEF envelopeVars, request, fields, answer, EnvelopeInv, EnvelopeTypeOK,
    FramingInv, ReadsInside, PreimageFits
<1> QED
  BY <1>1, <1>2, <1>3, <1>4 DEF EnvelopeNext

-----------------------------------------------------------------------------
(* As long as nothing has overwritten a packed request, it is what the     *)
(* buffer holds, and what has been parsed of it so far is right.           *)
HoldsPacked ==
  /\ inLen = Len(Packed(origin))
  /\ \A i \in 1 .. inLen : buf[i] = Packed(origin)[i]

ParsedAs(c, p, s) ==
  /\ result # "invalidCommand"
  /\ phase \notin {"echo", "identity", "key", "register", "ack"}
  /\ phase \in {"signature", "bind", "verify", "accept", "respond"} =>
       counter = c /\ payloadLen = p
  /\ phase \in {"bind", "verify", "accept", "respond"} => reqSigLen = s
  /\ result = "constraintError" => p > 256

ParsedInv == ParsedAs(origin.counter, Len(origin.payload), Len(origin.sig))

PackedInv == origin # NoFields => HoldsPacked /\ ParsedInv

(* What the parser computes of a packed request.                           *)
LEMMA PackedRead ==
  ASSUME EnvelopeInv, PackedInv, origin # NoFields
  PROVE  /\ Len(origin.payload) \in Nat /\ Len(origin.sig) \in Nat
         /\ inLen = 9 + Len(origin.payload) + Len(origin.sig)
         /\ buf[1] = kTypeSignedRequest
         /\ ByteU32(1) = origin.counter
         /\ ByteU16(5) = Len(origin.payload)
         /\ ByteU16(7 + Len(origin.payload)) = Len(origin.sig)
         /\ Span(7, Len(origin.payload)) = origin.payload
         /\ Span(9 + Len(origin.payload), Len(origin.sig)) = origin.sig
<1> DEFINE f == origin
           p == f.payload
           s == f.sig
           w == Packed(f)
           c == U32(f.counter)
           l == U16(Len(p))
           u == U16(Len(s))
<1>1. f \in Requests
  BY DEF EnvelopeInv, EnvelopeTypeOK
<1>2. /\ p \in Seq(Byte) /\ s \in Seq(Byte)
      /\ Len(p) \in Nat /\ Len(s) \in Nat
      /\ 256 * l[1] + l[2] = Len(p) /\ 256 * u[1] + u[2] = Len(s)
      /\ Read32(c[1], c[2], c[3], c[4]) = f.counter
  BY <1>1, FieldsType
<1>3. inLen = Len(w) /\ \A i \in 1 .. inLen : buf[i] = w[i]
  BY DEF PackedInv, HoldsPacked
<1>4. /\ Len(w) = 9 + Len(p) + Len(s)
      /\ w[1] = kTypeSignedRequest
      /\ w[2] = c[1] /\ w[3] = c[2] /\ w[4] = c[3] /\ w[5] = c[4]
      /\ w[6] = l[1] /\ w[7] = l[2]
      /\ \A i \in 1 .. Len(p) : w[7 + i] = p[i]
      /\ w[8 + Len(p)] = u[1] /\ w[9 + Len(p)] = u[2]
      /\ \A i \in 1 .. Len(s) : w[9 + Len(p) + i] = s[i]
  BY <1>1, PackedAt, Zenon
<1> HIDE DEF f, p, s, w, c, l, u
<1>5. /\ buf[1] = w[1] /\ buf[2] = w[2] /\ buf[3] = w[3] /\ buf[4] = w[4]
      /\ buf[5] = w[5] /\ buf[6] = w[6] /\ buf[7] = w[7]
      /\ buf[8 + Len(p)] = w[8 + Len(p)] /\ buf[9 + Len(p)] = w[9 + Len(p)]
      /\ \A i \in 1 .. Len(p) : buf[7 + i] = w[7 + i]
      /\ \A i \in 1 .. Len(s) : buf[9 + Len(p) + i] = w[9 + Len(p) + i]
  BY <1>2, <1>3, <1>4
<1>6. ByteU16(5) = Len(p)
  BY <1>2, <1>4, <1>5 DEF ByteU16
<1>7. ByteU32(1) = f.counter
  BY <1>2, <1>4, <1>5, SMT DEF ByteU32, ByteU16, Read32
<1>8. ByteU16(7 + Len(p)) = Len(s)
  <2>1. 7 + Len(p) + 1 = 8 + Len(p) /\ 7 + Len(p) + 2 = 9 + Len(p)
    BY <1>2
  <2> QED BY <1>2, <1>4, <1>5, <2>1 DEF ByteU16
<1>9. Span(7, Len(p)) = p
  <2>1. p = [i \in 1 .. Len(p) |-> p[i]]
    BY <1>2
  <2>2. \A i \in 1 .. Len(p) : buf[7 + i] = p[i]
    BY <1>4, <1>5
  <2> QED BY <2>1, <2>2 DEF Span
<1>10. Span(9 + Len(p), Len(s)) = s
  <2>1. s = [i \in 1 .. Len(s) |-> s[i]]
    BY <1>2
  <2>2. \A i \in 1 .. Len(s) : buf[9 + Len(p) + i] = s[i]
    BY <1>4, <1>5
  <2> QED BY <2>1, <2>2 DEF Span
<1> QED
  BY <1>2, <1>3, <1>4, <1>5, <1>6, <1>7, <1>8, <1>9, <1>10 DEF f, p, s

(* A step of the parser, when these are the fields it reads.               *)
LEMMA ParsedStep ==
  ASSUME NEW c, NEW p \in Nat, NEW s \in Nat, inLen = 9 + p + s,
         buf[1] = kTypeSignedRequest, ByteU32(1) = c,
         ByteU16(5) = p, ByteU16(7 + p) = s,
         ParsedAs(c, p, s), ProcessRequest
  PROVE  ParsedAs(c, p, s)'
<1> USE DEF ParsedAs, Reject, Return, Go, fields, answer
<1>1. CASE ReadType
  <2>1. TypeOf(buf[1]) = "signed"
    BY DEF TypeOf, kTypeSignedRequest, kTypeEcho, kTypeIdentityRequest,
      kTypeRegisterClientKey
  <2> QED BY <1>1, <2>1 DEF ReadType
<1>2. CASE SignedHeader
  BY <1>2 DEF SignedHeader
<1>3. CASE SignedSignature
  BY <1>3 DEF SignedSignature, HasSignature
<1>4. CASE BindRequest
  <2>1. ~PreimageFits /\ payloadLen = p => p > 256
    BY EnvelopeAssumption DEF PreimageFits, Need, kKeyLen, kReqPreLen
  <2> QED BY <1>4, <2>1 DEF BindRequest
<1>5. CASE Verify
  BY <1>5 DEF Verify
<1>6. CASE Accept
  BY <1>6 DEF Accept
<1>7. CASE Respond
  <2>1. CASE ~(\E sigLen \in 0 .. kSignatureLen :
                   Return("respond", "answer", 9 + payloadLen + sigLen))
    BY <1>7, <2>1 DEF Respond, ResponseFits, kSignatureLen, kMaxResponse
  <2>2. ASSUME NEW sigLen, Return("respond", "answer", 9 + payloadLen + sigLen)
        PROVE  ParsedAs(c, p, s)'
    BY <2>2
  <2> QED BY <2>1, <2>2
<1>8. CASE Echo \/ Identity \/ RegisterHeader \/ Register \/ RegisterAck
  BY <1>8 DEF Echo, Identity, RegisterHeader, Register, RegisterAck
<1> QED
  BY <1>1, <1>2, <1>3, <1>4, <1>5, <1>6, <1>7, <1>8 DEF ProcessRequest

LEMMA PackedStep ==
  EnvelopeInv /\ PackedInv /\ [EnvelopeNext]_envelopeVars => PackedInv'
<1> SUFFICES ASSUME EnvelopeInv, PackedInv, [EnvelopeNext]_envelopeVars,
                    origin' # NoFields
             PROVE  PackedInv'
  BY DEF PackedInv
<1>1. ASSUME NEW f \in Requests, Send(f) PROVE PackedInv'
  <2>1. /\ Packed(f) \in Seq(Byte)
        /\ \A i \in 1 .. Len(Packed(f)) : buf'[i] = Packed(f)[i]
    BY <1>1, PackedAt, WriteType DEF Send, Call, EnvelopeInv, EnvelopeTypeOK
  <2>2. Packed(origin)' = Packed(f) /\ origin' = f
    BY <1>1 DEF Send, Packed
  <2> QED
    BY <1>1, <2>1, <2>2 DEF Send, Call, PackedInv, HoldsPacked, ParsedInv, ParsedAs
<1>2. ASSUME NEW m, Receive(m) \/ Overwrite(m) PROVE FALSE
  BY <1>2 DEF Receive, Overwrite
<1>3. CASE UNCHANGED envelopeVars
  BY <1>3 DEF envelopeVars, request, fields, answer, PackedInv, HoldsPacked,
    ParsedInv, ParsedAs, Packed
<1>4. CASE ProcessRequest
  <2>1. UNCHANGED request /\ origin # NoFields
    BY <1>4 DEF ProcessRequest, ReadType, Echo, Identity, SignedHeader,
      SignedSignature, BindRequest, Verify, Accept, Respond, RegisterHeader,
      Register, RegisterAck, Reject, Return, Go, request
  <2>2. HoldsPacked'
    BY <2>1 DEF request, Packed, HoldsPacked, PackedInv
  <2> PICK c : c = origin.counter
    OBVIOUS
  <2> PICK p : p = Len(origin.payload)
    OBVIOUS
  <2> PICK s : s = Len(origin.sig)
    OBVIOUS
  <2>3. /\ p \in Nat /\ s \in Nat /\ inLen = 9 + p + s
        /\ buf[1] = kTypeSignedRequest /\ ByteU32(1) = c
        /\ ByteU16(5) = p /\ ByteU16(7 + p) = s
    BY <2>1, PackedRead
  <2>4. ParsedAs(c, p, s)
    BY <2>1 DEF PackedInv, ParsedInv
  <2>5. ParsedAs(c, p, s)'
    BY <1>4, <2>3, <2>4, ParsedStep
  <2>6. origin' = origin
    BY <2>1 DEF request
  <2>7. ParsedInv'
    BY <2>5, <2>6 DEF ParsedInv, ParsedAs
  <2> QED BY <2>2, <2>7 DEF PackedInv
<1> QED
  BY <1>1, <1>2, <1>3, <1>4 DEF EnvelopeNext

LEMMA EnvelopeInvHolds == EnvelopeSpec => [](EnvelopeInv /\ PackedInv)
<1>1. EnvelopeInit => EnvelopeInv /\ PackedInv
  BY EnvelopeAssumption, ZeroIsUInt16, ZeroIsUInt32 DEF EnvelopeInit, EnvelopeInv, EnvelopeTypeOK, FramingInv,
    ReadsInside, PackedInv, Rejects, kMaxResponse
<1> QED
  BY <1>1, EnvelopeStep, PackedStep, PTL DEF EnvelopeSpec

(* The lengths a parser works with keep to 16 bits and to natural numbers, *)
(* the chunk of an identity request included.                              *)
THEOREM EnvelopeTypeCorrect == EnvelopeSpec => []EnvelopeTypeOK
<1>1. EnvelopeInv => EnvelopeTypeOK  BY DEF EnvelopeInv
<1> QED BY <1>1, EnvelopeInvHolds, PTL

(* The fields a preimage is built of, when it is.                          *)
LEMMA BoundType ==
  ASSUME EnvelopeInv, phase \in {"bind", "verify"}
  PROVE  /\ Bound \in Fields
         /\ Len(Bound.key) = Len(gDevicePub) /\ Len(Bound.payload) = payloadLen
<1> DEFINE p == Span(7, payloadLen)
<1>1. /\ buf \in Seq(Byte) /\ Len(buf) \in Nat /\ inLen \in Nat /\ inLen <= Len(buf)
      /\ counter \in UInt32 /\ payloadLen \in Nat /\ reqSigLen \in Nat
      /\ inLen >= 9 + payloadLen + reqSigLen
  BY UInt16Nat, LenProperties DEF EnvelopeInv, EnvelopeTypeOK, FramingInv
<1>2. p \in Seq(Byte) /\ Len(p) = payloadLen
  <2>1. \A i \in 1 .. payloadLen : buf[7 + i] \in Byte
    <3> SUFFICES ASSUME NEW i \in 1 .. payloadLen PROVE buf[7 + i] \in Byte
      OBVIOUS
    <3>1. 7 + i \in 1 .. Len(buf)
      BY <1>1
    <3> QED BY <1>1, <3>1, ElementOfSeq
  <2> QED BY <1>1, <2>1, IsASeq DEF Span
<1>3. gDevicePub \in {k \in Seq(Byte) : Len(k) \in UInt16}
  <2>1. gDevicePub \in Seq(Byte) /\ Len(gDevicePub) = 32
    BY EnvelopeAssumption DEF kKeyLen
  <2>2. 32 \in UInt16
    BY UInt16Range
  <2> QED BY <2>1, <2>2
<1> HIDE DEF p
<1>4. kDirRequest \in Directions
  BY DEF Directions
<1>5. Bound = [direction |-> kDirRequest, counter |-> counter,
               key |-> gDevicePub, payload |-> p]
  BY DEF Bound, p
<1> QED BY <1>1, <1>2, <1>3, <1>4, <1>5 DEF Fields

(* Nothing behind a request is read, whatever lengths it declares and      *)
(* however it changes under the parser, and nothing is written past the    *)
(* buffers of the answer and of the request's preimage.                    *)
THEOREM StaysInsideHolds == EnvelopeSpec => []StaysInside
<1>1. EnvelopeInv => StaysInside
  <2> SUFFICES ASSUME EnvelopeInv PROVE StaysInside
    OBVIOUS
  <2>1. phase = "verify" => Len(Bytes(Bound)) <= kReqPreLen
    <3> SUFFICES ASSUME phase = "verify" PROVE Len(Bytes(Bound)) <= kReqPreLen
      OBVIOUS
    <3>1. Bound \in Fields /\ Len(Bound.key) = Len(gDevicePub)
                           /\ Len(Bound.payload) = payloadLen
      BY BoundType
    <3>2. Len(Bytes(Bound)) = Need(Len(gDevicePub), payloadLen)
      BY <3>1, NeedIsLength
    <3> QED BY <3>2 DEF EnvelopeInv, FramingInv, PreimageFits
  <2> QED
    BY <2>1 DEF EnvelopeInv, FramingInv, StaysInside, ReadsInside, WritesInside
<1> QED BY <1>1, EnvelopeInvHolds, PTL

(* The device takes from a packed request the counter, the payload and the *)
(* signature that were packed, for all of up to 65535 bytes, and has room  *)
(* for every payload of 256 bytes.                                         *)
THEOREM ServesWhatWasPackedHolds == EnvelopeSpec => []ServesWhatWasPacked
<1>1. EnvelopeInv /\ PackedInv => ParsesWhatWasPacked
  <2> SUFFICES ASSUME EnvelopeInv, PackedInv, origin # NoFields
               PROVE  ParsesWhatWasPacked
    BY DEF ParsesWhatWasPacked
  <2>1. /\ Span(7, Len(origin.payload)) = origin.payload
        /\ Span(9 + Len(origin.payload), Len(origin.sig)) = origin.sig
    BY PackedRead
  <2> QED BY <2>1 DEF PackedInv, ParsedInv, ParsedAs, ParsesWhatWasPacked
<1>2. PackedInv => LimitIsThePayload
  BY DEF PackedInv, ParsedInv, ParsedAs, LimitIsThePayload
<1> QED BY <1>1, <1>2, EnvelopeInvHolds, PTL DEF ServesWhatWasPacked

(* A signature made for other fields fits no request, of whatever bytes.   *)
THEOREM BindsHolds == EnvelopeSpec => []Binds
<1>1. EnvelopeInv => Binds
  <2> SUFFICES ASSUME EnvelopeInv, phase = "bind", NEW f \in Signed,
                      Bytes(f) = Bytes(Bound)
               PROVE  f = Bound
    BY DEF Binds
  <2>1. f \in Fields /\ Bound \in Fields
    BY EnvelopeAssumption, BoundType
  <2> QED BY <2>1, BytesInjective
<1> QED BY <1>1, EnvelopeInvHolds, PTL
=============================================================================
