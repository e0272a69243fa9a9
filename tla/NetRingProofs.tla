---------------------------- MODULE NetRingProofs ----------------------------
(***************************************************************************)
(* Proofs about NetRing, for rings and frames of any size, indices of any  *)
(* width and any number of frames inside: the records lie where the reader *)
(* looks for them, and the ring implements LossyFifo.                      *)
(***************************************************************************)
EXTENDS NetRing, SequenceTheorems, TLAPS

----------------------------------------------------------------------------
(* Division of integers: what the provers do not know of \div and % *)

\* A multiple of a larger number is larger.
LEMMA TimesMonotone ==
    ASSUME NEW m \in Int, NEW n \in Int, NEW d \in Nat, m <= n
    PROVE  m * d <= n * d
<1>1. (n - m) * d >= 0 BY Z3
<1> QED BY <1>1, Z3

\* A number is its quotient times the divisor and a remainder below the divisor.
LEMMA IntDivision ==
    ASSUME NEW a \in Int, NEW d \in Nat \ {0}
    PROVE  /\ a \div d \in Int /\ a % d \in 0 .. d - 1
           /\ a = (a \div d) * d + (a % d)
<1>1. /\ a \div d \in Int /\ a % d \in 0 .. d - 1
      /\ a = d * (a \div d) + (a % d)
  BY Z3
<1> QED BY <1>1, Z3

\* The quotient of a natural number is one.
LEMMA Division ==
    ASSUME NEW a \in Nat, NEW d \in Nat \ {0}
    PROVE  /\ a \div d \in Nat /\ a % d \in 0 .. d - 1
           /\ a = (a \div d) * d + (a % d)
<1>1. a \div d >= 0
  BY Z3
<1> QED BY <1>1, IntDivision

\* There is only one such quotient and remainder.
LEMMA DivisionUnique ==
    ASSUME NEW a \in Int, NEW d \in Nat \ {0}, NEW q \in Int, NEW r \in 0 .. d - 1, a = q * d + r
    PROVE  a \div d = q /\ a % d = r
<1> DEFINE p == a \div d
           s == a % d
<1>1. p \in Int /\ s \in 0 .. d - 1 /\ p * d + s = q * d + r
  BY IntDivision
<1> HIDE DEF p, s
<1>2. ~(p + 1 <= q)
  <2> SUFFICES ASSUME p + 1 <= q PROVE FALSE OBVIOUS
  <2>1. (p + 1) * d <= q * d
    BY <1>1, TimesMonotone
  <2>2. (p + 1) * d = p * d + d
    BY <1>1
  <2> QED BY <1>1, <2>1, <2>2
<1>3. ~(q + 1 <= p)
  <2> SUFFICES ASSUME q + 1 <= p PROVE FALSE OBVIOUS
  <2>1. (q + 1) * d <= p * d
    BY <1>1, TimesMonotone
  <2>2. (q + 1) * d = q * d + d
    BY <1>1
  <2> QED BY <1>1, <2>1, <2>2
<1>4. p = q
  BY <1>1, <1>2, <1>3
<1>5. s = r
  BY <1>1, <1>4
<1> QED BY <1>4, <1>5 DEF p, s

\* Multiples of the divisor do not change a remainder.
LEMMA SameRemainder ==
    ASSUME NEW a \in Int, NEW d \in Nat \ {0}, NEW k \in Int
    PROVE  (a + k * d) % d = a % d
<1> DEFINE q == a \div d
           r == a % d
           c == a + k * d
<1>1. q \in Int /\ r \in 0 .. d - 1 /\ a = q * d + r
  BY IntDivision
<1> HIDE DEF q, r
<1>2. (q + k) * d = q * d + k * d
  BY <1>1
<1>3. q + k \in Int /\ c \in Int /\ c = (q + k) * d + r
  BY <1>1, <1>2
<1> HIDE DEF c
<1>4. c % d = r
  BY <1>1, <1>3, DivisionUnique
<1> QED BY <1>4 DEF c, r

\* A number that is already below the divisor is its own remainder.
LEMMA SmallRemainder ==
    ASSUME NEW d \in Nat \ {0}, NEW a \in 0 .. d - 1
    PROVE  a % d = a /\ a \div d = 0
<1>1. a = 0 * d + a /\ a \in Int
  OBVIOUS
<1> QED BY <1>1, DivisionUnique

----------------------------------------------------------------------------
\* Byte j of the ring, counted from the tail on.
Byte(j) == buf[(tail + j) % Size]
Record(frame) == Header(Len(frame)) \o frame

\* RingHoldsPending, for these ends of the records, with what follows for any two of
\* them: the later is not before the earlier.
Records(off) ==
    /\ off \in [0 .. Len(pending) -> 0 .. Size]
    /\ off[0] = 0 /\ off[Len(pending)] = Used(head, tail)
    /\ \A i, k \in 0 .. Len(pending) : i <= k => off[i] <= off[k]
    /\ \A k \in 1 .. Len(pending) :
        /\ off[k] = off[k - 1] + Need(pending[k])
        /\ \A j \in 0 .. Need(pending[k]) - 1 : Byte(off[k - 1] + j) = Record(pending[k])[j + 1]
RingInv == \E off \in [0 .. Len(pending) -> 0 .. Size] : Records(off)

\* The producer has room for its frame, and what it has written lies behind the head.
PushInv ==
    push.at # "out" =>
        LET used == Used(head, tail)
            record == Record(push.frame)
            need == Need(push.frame)
        IN  /\ used + need <= Size
            /\ push.at \in {"payload", "publish"} =>
                \A j \in 0 .. 1 : Byte(used + j) = record[j + 1]
            /\ push.at = "publish" =>
                \A j \in 2 .. need - 1 : Byte(used + j) = record[j + 1]

\* The consumer is at the oldest frame, which it reads unchanged.
PopInv ==
    /\ pop.at # "out" => pending # <<>>
    /\ pop.at \in {"payload", "publish"} => pop.len = Len(Head(pending))
    /\ pop.at = "publish" => pop.got = Head(pending)

PopType == pop \in [at : {"out", "header", "payload", "publish"}, seen : Indices, count : Nat,
                    len : 0 .. FrameMax, got : Frames \cup {NoFrame}]

\* The inductive invariant.
IInv == TypeOK /\ PopType /\ RingInv /\ PushInv /\ PopInv

----------------------------------------------------------------------------
(* Positions in the ring *)

\* What the assumptions say of single sizes: the indices wrap after whole rounds.
LEMMA Sizes ==
    /\ Size \in Nat \ {0} /\ Wrap \in Nat \ {0} /\ Wrap > Size
    /\ Base \in Nat \ {0} /\ Base > 1 /\ FrameMax \in Nat /\ FrameMax < Base * Base
    /\ Wrap \div Size \in Int /\ Wrap = (Wrap \div Size) * Size
<1>1. /\ Size \in Nat \ {0} /\ Wrap \in Nat \ {0} /\ Wrap > Size /\ Wrap % Size = 0
      /\ Base \in Nat \ {0} /\ Base > 1 /\ FrameMax \in Nat
  BY SizeAssumption
<1>2. FrameMax < Base * Base
  <2> DEFINE square == Base * Base
  <2>1. square \in Nat /\ FrameMax \in 1 .. square - 1
    BY <1>1, SizeAssumption
  <2> HIDE DEF square
  <2>2. FrameMax < square
    BY <1>1, <2>1
  <2> QED BY <2>2 DEF square
<1>3. Wrap \div Size \in Int /\ Wrap = (Wrap \div Size) * Size + (Wrap % Size)
  BY <1>1, IntDivision
<1> DEFINE m == Wrap \div Size
<1>4. m * Size \in Int /\ Wrap = m * Size + 0
  BY <1>1, <1>3
<1> QED BY <1>1, <1>2, <1>3, <1>4

\* Wrapping an index does not move what it points at.
LEMMA Place ==
    ASSUME NEW x \in Int, NEW j \in Int
    PROVE  /\ (x % Wrap) + j \in Int
           /\ ((x % Wrap) + j) % Size = (x + j) % Size
<1> DEFINE w == x \div Wrap
           y == x % Wrap
           m == Wrap \div Size
           c == w * m
<1>1. w \in Int /\ y \in 0 .. Wrap - 1 /\ x = w * Wrap + y
  BY Sizes, IntDivision
<1>2. m \in Int /\ Wrap = m * Size /\ Size \in Nat \ {0} /\ Wrap \in Nat
  BY Sizes
<1> HIDE DEF w, y, m
<1>3. c \in Int
  BY <1>1, <1>2
<1>4. w * Wrap = c * Size
  <2>1. w * (m * Size) = (w * m) * Size
    BY <1>1, <1>2, Z3
  <2> QED BY <1>2, <2>1
<1> HIDE DEF c
<1>5. c * Size \in Int
  BY <1>2, <1>3
<1>6. y + j \in Int /\ x + j = (y + j) + c * Size
  BY <1>1, <1>4, <1>5
<1>7. ((y + j) + c * Size) % Size = (y + j) % Size
  BY <1>2, <1>3, <1>6, SameRemainder
<1> QED BY <1>6, <1>7 DEF y

\* The head lies behind what is used, give or take whole rounds.
LEMMA HeadIs ==
    ASSUME NEW h \in Indices, NEW t \in Indices
    PROVE  /\ Used(h, t) \in 0 .. Wrap - 1
           /\ Used(h, t) = 0 => h = t
           /\ \A j \in Int : (h + j) % Size = (t + Used(h, t) + j) % Size
<1> DEFINE x == h - t
           u == x % Wrap
           w == x \div Wrap
<1>1. h \in 0 .. Wrap - 1 /\ t \in 0 .. Wrap - 1 /\ x \in Int /\ Wrap \in Nat \ {0}
  BY Sizes DEF Indices
<1>2. u \in 0 .. Wrap - 1 /\ w \in Int /\ x = w * Wrap + u
  BY <1>1, IntDivision
<1>3. Used(h, t) = u
  BY DEF Used
<1>4. ASSUME NEW j \in Int PROVE (h + j) % Size = (t + u + j) % Size
  <2> DEFINE k == t + j
  <2>1. k \in Int /\ x + k = h + j
    BY <1>1
  <2> HIDE DEF k
  <2>2. (u + k) % Size = (x + k) % Size
    BY <1>1, <2>1, Place
  <2> HIDE DEF u
  <2>3. u + k = t + u + j
    BY <1>1, <1>2 DEF k
  <2> QED BY <2>1, <2>2, <2>3
<1>5. ASSUME u = 0 PROVE h = t
  <2> HIDE DEF u, w
  <2>1. x = w * Wrap /\ -Wrap < x /\ x < Wrap
    BY <1>1, <1>2, <1>5
  <2>2. w = 0
    <3>1. ~(1 <= w)
      <4> SUFFICES ASSUME 1 <= w PROVE FALSE OBVIOUS
      <4>1. 1 * Wrap <= w * Wrap
        BY <1>1, <1>2, TimesMonotone
      <4> QED BY <1>1, <2>1, <4>1
    <3>2. ~(w <= -1)
      <4> SUFFICES ASSUME w <= -1 PROVE FALSE OBVIOUS
      <4>1. w * Wrap <= (-1) * Wrap
        BY <1>1, <1>2, TimesMonotone
      <4> QED BY <1>1, <2>1, <4>1
    <3> QED BY <1>2, <3>1, <3>2
  <2> QED BY <1>1, <2>1, <2>2
<1> QED BY <1>2, <1>3, <1>4, <1>5

\* Moving an end of the ring by n wraps it, and changes what is used by n.
LEMMA UsedMoves ==
    ASSUME NEW h \in Indices, NEW t \in Indices, NEW n \in Nat
    PROVE  /\ (h + n) % Wrap \in Indices
           /\ Used(h, t) + n < Wrap => Used((h + n) % Wrap, t) = Used(h, t) + n
           /\ n <= Used(h, t) => Used(h, (t + n) % Wrap) = Used(h, t) - n
<1> DEFINE u == Used(h, t)
<1>1. /\ h \in Nat /\ t \in Nat /\ Wrap \in Nat \ {0} /\ u \in 0 .. Wrap - 1
  BY HeadIs, Sizes DEF Indices
<1>2. /\ h - t = ((h - t) \div Wrap) * Wrap + u /\ (h - t) \div Wrap \in Int
  BY <1>1, IntDivision DEF Used
<1>3. /\ h + n = ((h + n) \div Wrap) * Wrap + ((h + n) % Wrap)
      /\ (h + n) \div Wrap \in Int /\ (h + n) % Wrap \in 0 .. Wrap - 1
  <2> DEFINE x == h + n
  <2>1. x \in Int
    BY <1>1
  <2> HIDE DEF x
  <2>2. x = (x \div Wrap) * Wrap + (x % Wrap) /\ x \div Wrap \in Int /\ x % Wrap \in 0 .. Wrap - 1
    BY <1>1, <2>1, IntDivision
  <2> QED BY <2>2 DEF x
<1>4. /\ t + n = ((t + n) \div Wrap) * Wrap + ((t + n) % Wrap)
      /\ (t + n) \div Wrap \in Int /\ (t + n) % Wrap \in 0 .. Wrap - 1
  <2> DEFINE x == t + n
  <2>1. x \in Int
    BY <1>1
  <2> HIDE DEF x
  <2>2. x = (x \div Wrap) * Wrap + (x % Wrap) /\ x \div Wrap \in Int /\ x % Wrap \in 0 .. Wrap - 1
    BY <1>1, <2>1, IntDivision
  <2> QED BY <2>2 DEF x
<1> DEFINE a == (h - t) \div Wrap
           b == (h + n) \div Wrap
           c == (t + n) \div Wrap
           h1 == (h + n) % Wrap
           t1 == (t + n) % Wrap
<1>5. ASSUME u + n < Wrap PROVE Used(h1, t) = u + n
  <2> HIDE DEF a, b, h1, u
  <2>1. (a - b) * Wrap = a * Wrap - b * Wrap /\ a * Wrap \in Int /\ b * Wrap \in Int
    BY <1>1, <1>2, <1>3 DEF a, b
  <2>2. h1 - t = (u + n) + (a - b) * Wrap
    BY <1>1, <1>2, <1>3, <2>1 DEF a, b, h1
  <2>3. a - b \in Int /\ u + n \in 0 .. Wrap - 1
    BY <1>1, <1>2, <1>3, <1>5 DEF a, b
  <2>4. (h1 - t) % Wrap = (u + n) % Wrap
    <3> DEFINE s == u + n
               k == a - b
    <3>1. s \in Int /\ k \in Int /\ h1 - t = s + k * Wrap
      BY <1>1, <2>2, <2>3
    <3> HIDE DEF s, k
    <3>2. (h1 - t) % Wrap = s % Wrap
      BY <1>1, <3>1, SameRemainder
    <3> QED BY <3>2 DEF s
  <2> QED BY <1>1, <2>3, <2>4, SmallRemainder DEF Used
<1>6. ASSUME n <= u PROVE Used(h, t1) = u - n
  <2> HIDE DEF a, c, t1, u
  <2>1. (a - c) * Wrap = a * Wrap - c * Wrap /\ a * Wrap \in Int /\ c * Wrap \in Int
    BY <1>1, <1>2, <1>4 DEF a, c
  <2>2. t1 = t + n - c * Wrap /\ h = t + a * Wrap + u /\ t1 \in Int
    BY <1>1, <1>2, <1>4, <2>1 DEF a, c, t1
  <2>3. a - c \in Int /\ u - n \in 0 .. Wrap - 1
    BY <1>1, <1>2, <1>4, <1>6 DEF a, c
  <2>4. (a + c) * Wrap = a * Wrap + c * Wrap /\ a + c \in Int
    BY <1>1, <1>2, <1>4 DEF a, c
  <2>5. h - t1 = (u - n) + (a + c) * Wrap
    BY <1>1, <2>1, <2>2, <2>4
  <2>6. (h - t1) % Wrap = (u - n) % Wrap
    <3> DEFINE s == u - n
               k == a + c
    <3>1. s \in Int /\ k \in Int /\ h - t1 = s + k * Wrap
      BY <1>1, <2>3, <2>4, <2>5
    <3> HIDE DEF s, k
    <3>2. (h - t1) % Wrap = s % Wrap
      BY <1>1, <3>1, SameRemainder
    <3> QED BY <3>2 DEF s
  <2> QED BY <1>1, <2>3, <2>6, SmallRemainder DEF Used
<1> QED BY <1>3, <1>5, <1>6 DEF Indices

\* The head lies behind what is used: so many rounds of the ring away, exactly.
LEMMA Rounds ==
    ASSUME NEW h \in Indices, NEW t \in Indices
    PROVE  \E c \in Int : c * Size \in Int /\ h = t + Used(h, t) + c * Size
<1> DEFINE x == h - t
           w == x \div Wrap
           m == Wrap \div Size
           c == w * m
<1>1. h \in Int /\ t \in Int /\ x \in Int
  BY Sizes DEF Indices
<1>2. /\ w \in Int /\ x = w * Wrap + Used(h, t) /\ Used(h, t) \in Int
      /\ m \in Int /\ Wrap = m * Size /\ Size \in Nat
  BY <1>1, Sizes, IntDivision DEF Used
<1> HIDE DEF w, m, c
<1>3. c \in Int
  BY <1>2 DEF c
<1>4. w * Wrap = c * Size /\ c * Size \in Int
  <2>1. w * (m * Size) = (w * m) * Size
    BY <1>2, Z3
  <2> QED BY <1>2, <1>3, <2>1 DEF c
<1>5. h = t + Used(h, t) + c * Size
  BY <1>1, <1>2, <1>4
<1> QED BY <1>3, <1>4, <1>5

\* What ring_write_bytes changes, counted from the tail on: what it writes k bytes behind
\* the head, if that fits, and nothing else.
LEMMA WrittenAt ==
    ASSUME TypeOK, NEW k \in Nat, NEW bytes \in Seq(Bytes), NEW j \in 0 .. Size - 1,
           Used(head, tail) + k + Len(bytes) <= Size
    PROVE  LET w == Written(head + k, bytes)[(tail + j) % Size]
               first == Used(head, tail) + k
           IN  /\ first <= j /\ j < first + Len(bytes) => w = bytes[j - first + 1]
               /\ ~(first <= j /\ j < first + Len(bytes)) => w = Byte(j)
<1> DEFINE u == Used(head, tail)
           first == u + k
           n == Len(bytes)
           x == tail + j
           o == x % Size
           q == x \div Size
           z == o - (head + k)
           i == z % Size
           s == j - first
<1>1. /\ head \in Int /\ tail \in Int /\ u \in Nat /\ first \in Nat /\ n \in Nat
      /\ Size \in Nat \ {0} /\ first + n <= Size
  <2>1. head \in Indices /\ tail \in Indices
    BY DEF TypeOK
  <2>2. u \in 0 .. Wrap - 1
    BY <2>1, HeadIs
  <2>3. n \in Nat
    BY LenProperties
  <2> HIDE DEF u, n
  <2> QED BY <2>1, <2>2, <2>3, Sizes DEF Indices, u, n
<1>2. x \in Int /\ o \in 0 .. Size - 1 /\ q \in Int /\ x = q * Size + o
  <2>1. x \in Int
    BY <1>1
  <2> HIDE DEF x
  <2> QED BY <1>1, <2>1, IntDivision
<1>3. PICK c \in Int : c * Size \in Int /\ head = tail + u + c * Size
  BY Rounds DEF TypeOK
<1>4. o \in Offsets
  BY <1>2 DEF Offsets
<1>5. Written(head + k, bytes)[o] = IF i < n THEN bytes[i + 1] ELSE buf[o]
  BY <1>4 DEF Written
<1> DEFINE e == -(q + c)
<1>6. e \in Int /\ s \in Int /\ z \in Int /\ z = s + e * Size
  <2> HIDE DEF u, q, o
  <2>1. q * Size \in Int /\ e * Size = -(q * Size) - c * Size /\ e \in Int
    BY <1>1, <1>2, <1>3
  <2>2. o = tail + j - q * Size
    BY <1>1, <1>2, <2>1
  <2> QED BY <1>1, <1>2, <1>3, <2>1, <2>2
<1> HIDE DEF e, u, first, q, o, z, s, n, x
<1>7. i = s % Size
  BY <1>1, <1>6, SameRemainder
<1>8. s = j - first
  BY DEF s
<1>9. CASE first <= j
  <2>1. i = s
    <3>1. s \in 0 .. Size - 1
      BY <1>1, <1>8, <1>9
    <3> QED BY <1>1, <1>7, <3>1, SmallRemainder
  <2>2. i < n <=> j < first + n
    BY <1>1, <1>8, <2>1
  <2> HIDE DEF i
  <2> QED BY <1>5, <1>8, <1>9, <2>1, <2>2 DEF Byte, first, u, n, o, x
<1>10. CASE j < first
  <2> DEFINE r == s + 1 * Size
  <2>1. r \in 0 .. Size - 1 /\ r >= n /\ r \in Int
    BY <1>1, <1>8, <1>10
  <2>2. r % Size = s % Size
    <3>1. 1 \in Int
      OBVIOUS
    <3> QED BY <1>1, <1>6, <3>1, SameRemainder
  <2>3. r % Size = r
    <3> HIDE DEF r
    <3> QED BY <1>1, <2>1, SmallRemainder
  <2> HIDE DEF r
  <2>4. ~(i < n)
    BY <1>1, <1>7, <2>1, <2>2, <2>3
  <2> HIDE DEF i
  <2> QED BY <1>1, <1>5, <1>10, <2>4 DEF Byte, first, u, n, o, x
<1> QED BY <1>1, <1>9, <1>10

\* A record is the two bytes of the length and the frame; the length is read back.
LEMMA RecordFacts ==
    ASSUME NEW f \in Frames
    PROVE  /\ f \in Seq(Bytes) /\ Len(f) \in 1 .. FrameMax /\ Need(f) = Len(f) + 2 /\ Need(f) \in Nat
           /\ Header(Len(f)) \in Seq(Bytes) /\ Len(Header(Len(f))) = 2
           /\ Record(f) \in Seq(Bytes) /\ Len(Record(f)) = Need(f)
           /\ \A j \in 1 .. 2 : Record(f)[j] = Header(Len(f))[j]
           /\ \A j \in 1 .. Len(f) : Record(f)[j + 2] = f[j]
           /\ Record(f)[1] + Record(f)[2] * Base = Len(f)
<1>1. f \in Seq(Bytes) /\ Len(f) \in 1 .. FrameMax /\ FrameMax \in Nat
  BY SizeAssumption, Sizes DEF Bytes
<1> DEFINE n == Len(f)
           q == n \div Base
           r == n % Base
           h == Header(n)
<1>2. n \in Nat /\ n < Base * Base /\ Base \in Nat \ {0} /\ Base * Base \in Nat
  BY <1>1, Sizes
<1> HIDE DEF n
<1>3. q \in Nat /\ r \in 0 .. Base - 1 /\ n = q * Base + r
  <2> QED BY <1>2, Division
<1> HIDE DEF q, r
<1>4. q \in 0 .. Base - 1
  <2> SUFFICES ASSUME Base <= q PROVE FALSE
    BY <1>2, <1>3
  <2>1. Base * Base <= q * Base
    BY <1>2, <1>3, TimesMonotone
  <2>2. q * Base \in Int
    BY <1>2, <1>3
  <2> QED BY <1>2, <1>3, <2>1, <2>2
<1>5. h = <<r, q>>
  BY DEF Header, q, r
<1>6. h \in Seq(Bytes) /\ Len(h) = 2 /\ h[1] = r /\ h[2] = q
  <2>1. r \in Bytes /\ q \in Bytes
    BY <1>3, <1>4 DEF Bytes
  <2>2. <<r, q>> \in Seq(Bytes)
    BY <2>1
  <2> QED BY <1>5, <2>2
<1> HIDE DEF h
<1>7. Record(f) = h \o f
  BY DEF Record, h, n
<1>8. /\ Record(f) \in Seq(Bytes) /\ Len(Record(f)) = 2 + Len(f)
      /\ \A j \in 1 .. 2 + Len(f) : Record(f)[j] = IF j <= 2 THEN h[j] ELSE f[j - 2]
  <2>1. /\ h \o f \in Seq(Bytes) /\ Len(h \o f) = Len(h) + Len(f)
        /\ \A j \in 1 .. Len(h) + Len(f) :
              (h \o f)[j] = IF j <= Len(h) THEN h[j] ELSE f[j - Len(h)]
    BY <1>1, <1>6, ConcatProperties
  <2> QED BY <1>6, <1>7, <2>1
<1>9. \A j \in 1 .. 2 : Record(f)[j] = h[j]
  BY <1>1, <1>8
<1>10. ASSUME NEW j \in 1 .. Len(f) PROVE Record(f)[j + 2] = f[j]
  <2>1. j + 2 \in 1 .. 2 + Len(f) /\ ~(j + 2 <= 2) /\ (j + 2) - 2 = j
    BY <1>1
  <2> QED BY <1>8, <2>1
<1>11. Record(f)[1] + Record(f)[2] * Base = Len(f)
  <2>1. Record(f)[1] = r /\ Record(f)[2] = q
    BY <1>6, <1>9
  <2>2. q * Base \in Int
    BY <1>2, <1>3
  <2> QED BY <1>2, <1>3, <2>1, <2>2 DEF n
<1>12. Need(f) = Len(f) + 2 /\ Need(f) \in Nat
  BY <1>1 DEF Need
<1> QED BY <1>1, <1>6, <1>8, <1>9, <1>10, <1>11, <1>12 DEF h, n


----------------------------------------------------------------------------
(* What the invariant says of the oldest record *)

\* What the type invariant says of single variables.
LEMMA Typed ==
    ASSUME TypeOK
    PROVE  /\ head \in Indices /\ tail \in Indices /\ tail \in Nat
           /\ Used(head, tail) \in Nat
           /\ Len(pending) \in Nat
           /\ \A k \in 1 .. Len(pending) : pending[k] \in Frames
<1>1. head \in Indices /\ tail \in Indices /\ pending \in Seq(Frames)
  BY DEF TypeOK
<1>2. Used(head, tail) \in 0 .. Wrap - 1
  BY <1>1, HeadIs
<1>3. Len(pending) \in Nat /\ \A k \in 1 .. Len(pending) : pending[k] \in Frames
  BY <1>1
<1>4. tail \in Nat /\ Used(head, tail) \in Nat
  BY <1>1, <1>2, Sizes DEF Indices
<1> QED BY <1>1, <1>3, <1>4

\* A byte of a record is one of those that are used.
LEMMA InsideUsed ==
    ASSUME TypeOK, NEW off, Records(off),
           NEW k \in 1 .. Len(pending), NEW j \in 0 .. Need(pending[k]) - 1
    PROVE  /\ off[k - 1] \in Nat /\ off[k] \in Nat
           /\ off[k - 1] + j \in 0 .. Used(head, tail) - 1
           /\ Byte(off[k - 1] + j) = Record(pending[k])[j + 1]
<1>1. Len(pending) \in Nat /\ pending[k] \in Frames /\ Used(head, tail) \in Nat
  BY Typed
<1>2. k \in 0 .. Len(pending) /\ k - 1 \in 0 .. Len(pending) /\ Len(pending) \in 0 .. Len(pending)
  BY <1>1
<1>3. off[k] \in Nat /\ off[k - 1] \in Nat /\ off[k] = off[k - 1] + Need(pending[k])
  <2>1. off \in [0 .. Len(pending) -> 0 .. Size]
    BY DEF Records
  <2>2. off[k] \in 0 .. Size /\ off[k - 1] \in 0 .. Size
    BY <1>2, <2>1
  <2>3. off[k] \in Nat /\ off[k - 1] \in Nat
    BY <2>2, Sizes
  <2>4. off[k] = off[k - 1] + Need(pending[k])
    BY DEF Records
  <2> QED BY <2>3, <2>4
<1>4. off[k] <= Used(head, tail)
  <2>1. off[Len(pending)] = Used(head, tail) /\ off[k] <= off[Len(pending)]
    <3>1. k <= Len(pending)
      BY <1>1
    <3>2. \A i, l \in 0 .. Len(pending) : i <= l => off[i] <= off[l]
      BY DEF Records
    <3>3. off[Len(pending)] = Used(head, tail)
      BY DEF Records
    <3> QED BY <1>2, <3>1, <3>2, <3>3
  <2> QED BY <2>1
<1>5. Need(pending[k]) \in Nat
  BY <1>1, RecordFacts
<1>6. Byte(off[k - 1] + j) = Record(pending[k])[j + 1]
  BY DEF Records
<1>7. off[k - 1] + j \in 0 .. Used(head, tail) - 1
  <2>1. PICK a, b, c, u : a = off[k - 1] /\ b = off[k] /\ c = Need(pending[k]) /\ u = Used(head, tail)
    OBVIOUS
  <2>2. a \in Nat /\ b \in Nat /\ c \in Nat /\ u \in Nat /\ b = a + c /\ b <= u
    BY <1>1, <1>3, <1>4, <1>5, <2>1
  <2>3. j \in 0 .. c - 1
    BY <2>1
  <2>4. a + j \in 0 .. u - 1
    BY ONLY <2>2, <2>3
  <2> QED BY <2>1, <2>4
<1> QED BY <1>3, <1>6, <1>7

\* The oldest record lies at the tail.
LEMMA Oldest ==
    ASSUME TypeOK, RingInv, pending # <<>>
    PROVE  /\ Head(pending) \in Frames
           /\ Need(Head(pending)) <= Used(head, tail)
           /\ \A j \in 0 .. Need(Head(pending)) - 1 : Byte(j) = Record(Head(pending))[j + 1]
<1>1. PICK off : Records(off)
  BY DEF RingInv
<1>2. Len(pending) \in Nat /\ 1 \in 1 .. Len(pending) /\ Head(pending) = pending[1]
  BY DEF TypeOK
<1>3. pending[1] \in Frames /\ Used(head, tail) \in Nat
  BY <1>2, Typed
<1>4. Need(pending[1]) \in Nat /\ Need(pending[1]) - 1 \in 0 .. Need(pending[1]) - 1
  BY <1>3, RecordFacts
<1>5. off[0] = 0 /\ 1 - 1 = 0
  BY <1>1 DEF Records
<1>6. ASSUME NEW j \in 0 .. Need(pending[1]) - 1
      PROVE  j \in 0 .. Used(head, tail) - 1 /\ Byte(j) = Record(pending[1])[j + 1]
  <2>1. /\ off[1 - 1] + j \in 0 .. Used(head, tail) - 1
        /\ Byte(off[1 - 1] + j) = Record(pending[1])[j + 1]
    BY <1>1, <1>2, InsideUsed
  <2>2. off[1 - 1] + j = j
    BY <1>5
  <2> QED BY <2>1, <2>2
<1>7. Need(pending[1]) <= Used(head, tail)
  BY <1>3, <1>4, <1>6
<1> QED BY <1>2, <1>3, <1>6, <1>7

\* When the indices differ something is inside.
LEMMA NotEmpty ==
    ASSUME TypeOK, RingInv, head # tail
    PROVE  pending # <<>>
<1>1. PICK off : Records(off)
  BY DEF RingInv
<1>2. Used(head, tail) # 0
  BY HeadIs DEF TypeOK
<1>3. off[0] = 0 /\ off[Len(pending)] = Used(head, tail)
  BY <1>1 DEF Records
<1>4. Len(pending) # 0
  BY <1>2, <1>3
<1> QED BY <1>4

\* Where the reader looks, if it looks k bytes behind the tail.
LEMMA ReadAt ==
    ASSUME TypeOK, NEW k \in Nat, NEW pos, pos = tail + k, NEW n \in Nat
    PROVE  BytesAt(pos, n) = [i \in 1 .. n |-> Byte(k + i - 1)]
<1>1. tail \in Nat
  BY Typed
<1>2. ASSUME NEW i \in 1 .. n PROVE buf[(pos + i - 1) % Size] = Byte(k + i - 1)
  <2>1. pos + i - 1 = tail + (k + i - 1)
    BY <1>1
  <2> QED BY <2>1 DEF Byte
<1> QED BY <1>2 DEF BytesAt

\* A record is read as it was written.
LEMMA RecordRead ==
    ASSUME TypeOK, NEW f \in Frames, NEW k \in Nat, NEW pos, pos = tail + k,
           \A j \in 0 .. Need(f) - 1 : Byte(k + j) = Record(f)[j + 1]
    PROVE  BytesAt(pos, Need(f)) = Record(f)
<1>1. Need(f) \in Nat /\ Record(f) \in Seq(Bytes) /\ Len(Record(f)) = Need(f)
  BY RecordFacts
<1>2. BytesAt(pos, Need(f)) = [i \in 1 .. Need(f) |-> Byte(k + i - 1)]
  BY <1>1, ReadAt
<1>3. ASSUME NEW i \in 1 .. Need(f) PROVE Byte(k + i - 1) = Record(f)[i]
  <2>1. i - 1 \in 0 .. Need(f) - 1 /\ k + i - 1 = k + (i - 1) /\ (i - 1) + 1 = i
    BY <1>1
  <2> QED BY <2>1
<1>4. Record(f) = [i \in 1 .. Need(f) |-> Record(f)[i]]
  BY <1>1
<1> QED BY <1>2, <1>3, <1>4

\* The reader takes the length of the oldest frame for the length.
LEMMA HeaderRead ==
    ASSUME TypeOK, RingInv, pending # <<>>
    PROVE  /\ Length(BytesAt(tail, 2)) = Len(Head(pending))
           /\ Len(Head(pending)) \in 1 .. FrameMax
<1> DEFINE f == Head(pending)
<1>1. f \in Frames /\ \A j \in 0 .. Need(f) - 1 : Byte(j) = Record(f)[j + 1]
  BY Oldest
<1> HIDE DEF f
<1>2. /\ Len(f) \in 1 .. FrameMax /\ Need(f) = Len(f) + 2
      /\ Record(f)[1] + Record(f)[2] * Base = Len(f)
  BY <1>1, RecordFacts
<1>3. tail = tail + 0
  BY Typed
<1>4. BytesAt(tail, 2) = [i \in 1 .. 2 |-> Byte(0 + i - 1)]
  BY <1>3, ReadAt
<1>5. BytesAt(tail, 2)[1] = Byte(0) /\ BytesAt(tail, 2)[2] = Byte(1)
  BY <1>4
<1>6. Byte(0) = Record(f)[1] /\ Byte(1) = Record(f)[2]
  <2>1. 0 \in 0 .. Need(f) - 1 /\ 1 \in 0 .. Need(f) - 1
    BY <1>2, Sizes
  <2>2. Byte(0) = Record(f)[0 + 1] /\ Byte(1) = Record(f)[1 + 1]
    BY <1>1, <2>1
  <2> QED BY <2>2
<1>7. Length(BytesAt(tail, 2)) = Record(f)[1] + Record(f)[2] * Base
  BY <1>5, <1>6 DEF Length
<1> QED BY <1>2, <1>7 DEF f

\* And what it copies is the oldest frame.
LEMMA PayloadRead ==
    ASSUME TypeOK, RingInv, pending # <<>>
    PROVE  BytesAt(tail + 2, Len(Head(pending))) = Head(pending)
<1> DEFINE f == Head(pending)
           n == Len(f)
           pos == tail + 2
<1>1. f \in Frames /\ \A j \in 0 .. Need(f) - 1 : Byte(j) = Record(f)[j + 1]
  BY Oldest
<1> HIDE DEF f
<1>2. /\ f \in Seq(Bytes) /\ n \in Nat /\ Need(f) = n + 2
      /\ \A j \in 1 .. n : Record(f)[j + 2] = f[j]
  BY <1>1, RecordFacts, Sizes
<1>3. f = [i \in 1 .. n |-> f[i]]
  BY <1>2
<1> HIDE DEF n, pos
<1>4. BytesAt(pos, n) = [i \in 1 .. n |-> Byte(2 + i - 1)]
  BY <1>2, ReadAt DEF pos
<1>5. ASSUME NEW i \in 1 .. n PROVE Byte(2 + i - 1) = f[i]
  <2>1. i + 1 \in 0 .. Need(f) - 1 /\ 2 + i - 1 = i + 1 /\ (i + 1) + 1 = i + 2
    BY <1>2
  <2> QED BY <1>1, <1>2, <2>1
<1>6. BytesAt(pos, n) = f
  BY <1>3, <1>4, <1>5
<1> QED BY <1>6 DEF f, n, pos


----------------------------------------------------------------------------
(* The invariant holds initially and is kept *)

LEMMA NothingUsed == Used(0, 0) = 0
<1>1. Wrap \in Nat \ {0} /\ 0 \in 0 .. Wrap - 1 /\ 0 - 0 = 0
  BY Sizes
<1> QED BY <1>1, SmallRemainder DEF Used

\* An empty ring has the one end of its no records.
LEMMA EmptyRing ==
    ASSUME head = 0, tail = 0, pending = <<>>
    PROVE  RingInv
<1> DEFINE off == [k \in 0 .. 0 |-> 0]
<1>1. Len(pending) = 0 /\ 0 \in 0 .. Size /\ Used(head, tail) = 0
  BY Sizes, NothingUsed
<1>2. off \in [0 .. Len(pending) -> 0 .. Size] /\ off[0] = 0
  BY <1>1
<1> HIDE DEF off
<1>3. Records(off)
  BY <1>1, <1>2 DEF Records
<1> QED BY <1>2, <1>3 DEF RingInv

\* Nothing is published and nobody is inside.
LEMMA InitHolds == Init => IInv
<1> SUFFICES ASSUME Init PROVE IInv
  OBVIOUS
<1>1. Wrap \in Nat \ {0} /\ Base \in Nat \ {0} /\ FrameMax \in Nat /\ 0 \in Indices /\ 0 \in Bytes
  BY Sizes DEF Indices, Bytes
<1>2. TypeOK
  <2>1. buf \in [Offsets -> Bytes]
    BY <1>1 DEF Init
  <2>2. head \in Indices /\ tail \in Indices /\ pending \in Seq(Frames)
    BY <1>1 DEF Init
  <2>3. push \in [at : {"header", "payload", "publish"}, frame : Frames] \cup {NoPush}
    BY DEF Init
  <2>4. /\ pop.at \in {"out", "header", "payload", "publish"}
        /\ pop.seen \in Indices /\ pop.len \in 0 .. FrameMax
    BY <1>1 DEF Init, NoPop
  <2>5. out \in Seq(Bytes) \cup {NoFrame}
    BY DEF Init
  <2> QED BY <2>1, <2>2, <2>3, <2>4, <2>5 DEF TypeOK
<1>3. PopType
  BY <1>1 DEF Init, NoPop, PopType
<1>4. RingInv
  BY EmptyRing DEF Init
<1>5. PushInv
  BY DEF Init, PushInv, NoPush
<1>6. PopInv
  BY DEF Init, PopInv, NoPop
<1> QED BY <1>2, <1>3, <1>4, <1>5, <1>6 DEF IInv

\* A step that changes no used byte keeps the records where they are.
LEMMA RingKept ==
    ASSUME TypeOK, RingInv, UNCHANGED <<head, tail, pending>>,
           \A j \in 0 .. Used(head, tail) - 1 : Byte(j)' = Byte(j)
    PROVE  RingInv'
<1>1. PICK off \in [0 .. Len(pending) -> 0 .. Size] : Records(off)
  BY DEF RingInv
<1>2. ASSUME NEW k \in 1 .. Len(pending), NEW j \in 0 .. Need(pending[k]) - 1
      PROVE  Byte(off[k - 1] + j)' = Record(pending[k])[j + 1]
  <2>1. PICK n : n = off[k - 1] + j
    OBVIOUS
  <2>2. n \in 0 .. Used(head, tail) - 1 /\ Byte(n) = Record(pending[k])[j + 1]
    BY <1>1, <2>1, InsideUsed
  <2>3. Byte(n)' = Byte(n)
    BY <2>2
  <2> QED BY <2>1, <2>2, <2>3
<1>3. /\ off[0] = 0 /\ off[Len(pending)] = Used(head, tail)
      /\ \A i, k \in 0 .. Len(pending) : i <= k => off[i] <= off[k]
      /\ \A k \in 1 .. Len(pending) : off[k] = off[k - 1] + Need(pending[k])
  BY <1>1 DEF Records
<1>4. Used(head, tail)' = Used(head, tail)
  BY DEF Used
<1>5. Records(off)'
  BY <1>1, <1>2, <1>3, <1>4 DEF Records, Record, Need, Header
<1> QED BY <1>1, <1>5 DEF RingInv

\* The bytes do not move when neither they nor the tail are written.
LEMMA BytesKept ==
    ASSUME UNCHANGED <<buf, tail>>, NEW j
    PROVE  Byte(j)' = Byte(j)
BY DEF Byte

\* A step of the consumer that does not release anything leaves the rest alone.
LEMMA ConsumerKeeps ==
    ASSUME TypeOK, RingInv, PushInv, UNCHANGED <<buf, head, tail, push, pending>>
    PROVE  RingInv' /\ PushInv'
<1>1. RingInv'
  BY RingKept, BytesKept
<1>2. PushInv'
  BY DEF PushInv, Used, Byte, Record, Need, Header
<1> QED BY <1>1, <1>2

\* A step of the producer that does not publish anything leaves the consumer alone.
LEMMA ProducerKeeps ==
    ASSUME PopInv, PopType, UNCHANGED <<pop, pending>>
    PROVE  PopInv' /\ PopType'
BY DEF PopInv, PopType, Indices

\* What the producer is at.
LEMMA PushTyped ==
    ASSUME TypeOK, push.at # "out"
    PROVE  /\ push = [at |-> push.at, frame |-> push.frame]
           /\ push.frame \in Frames /\ push.at \in {"header", "payload", "publish"}
BY DEF TypeOK, NoPush

\* The type of the producer, whatever it does.
LEMMA PushStepTyped ==
    ASSUME TypeOK, buf' \in [Offsets -> Bytes], head' \in Indices,
           push' \in [at : {"header", "payload", "publish"}, frame : Frames] \cup {NoPush},
           pending' \in Seq(Frames), UNCHANGED <<tail, pop, out>>
    PROVE  TypeOK'
<1>1. /\ tail' \in Indices /\ pop'.at \in {"out", "header", "payload", "publish"}
      /\ pop'.seen \in Indices /\ pop'.len \in 0 .. FrameMax
      /\ out' \in Seq(Bytes) \cup {NoFrame}
  BY DEF TypeOK
<1> QED BY <1>1 DEF TypeOK, Indices, NoPush

\* A push starts with the room it needs.
LEMMA BeginPushStep ==
    ASSUME IInv, NEW f \in Frames, BeginPush(f)
    PROVE  IInv'
<1> USE DEF IInv
<1>1. push' = [at |-> "header", frame |-> f] /\ UNCHANGED <<buf, head, tail, pop, pending, out>>
  BY DEF BeginPush
<1>2. TypeOK'
  <2>1. buf' \in [Offsets -> Bytes] /\ head' \in Indices /\ pending' \in Seq(Frames)
    BY <1>1 DEF TypeOK
  <2> QED BY <1>1, <2>1, PushStepTyped
<1>3. RingInv'
  BY <1>1, RingKept, BytesKept
<1>4. PushInv'
  <2>1. Used(head, tail) \in Nat /\ Need(f) \in Nat /\ Size - Used(head, tail) >= Need(f)
    BY Typed, RecordFacts DEF BeginPush, Fits
  <2>2. Used(head, tail) + Need(f) <= Size
    BY <2>1, Sizes
  <2>3. Used(head, tail)' = Used(head, tail) /\ push'.frame = f /\ push'.at = "header"
    BY <1>1 DEF Used
  <2> QED BY <2>2, <2>3 DEF PushInv, Need
<1>5. PopInv' /\ PopType'
  BY <1>1, ProducerKeeps
<1> QED BY <1>2, <1>3, <1>4, <1>5

\* What is written is a sequence of bytes: the buffer stays one.
LEMMA WrittenTyped ==
    ASSUME TypeOK, NEW pos \in Int, NEW bytes \in Seq(Bytes)
    PROVE  Written(pos, bytes) \in [Offsets -> Bytes]
<1>1. Size \in Nat \ {0} /\ Len(bytes) \in Nat /\ \A i \in 1 .. Len(bytes) : bytes[i] \in Bytes
  <2>1. Len(bytes) \in Nat /\ \A i \in 1 .. Len(bytes) : bytes[i] \in Bytes
    OBVIOUS
  <2> QED BY <2>1, Sizes
<1>2. ASSUME NEW o \in Offsets, (o - pos) % Size < Len(bytes)
      PROVE  bytes[((o - pos) % Size) + 1] \in Bytes
  <2> DEFINE x == o - pos
             i == x % Size
  <2>1. x \in Int
    BY <1>1 DEF Offsets
  <2> HIDE DEF x
  <2>2. i \in 0 .. Size - 1
    BY <1>1, <2>1, IntDivision
  <2>3. i < Len(bytes)
    BY <1>2 DEF x
  <2> HIDE DEF i
  <2>4. i + 1 \in 1 .. Len(bytes)
    BY <1>1, <2>2, <2>3
  <2>5. bytes[i + 1] \in Bytes
    BY <1>1, <2>4
  <2> QED BY <2>5 DEF i, x
<1>3. \A o \in Offsets : buf[o] \in Bytes
  BY DEF TypeOK
<1> QED BY <1>2, <1>3 DEF Written


\* The same, of the bytes after a step that writes them.
LEMMA WriteStep ==
    ASSUME TypeOK, NEW k \in Nat, NEW bytes \in Seq(Bytes), NEW j \in 0 .. Size - 1,
           Used(head, tail) + k + Len(bytes) <= Size,
           buf' = Written(head + k, bytes), UNCHANGED tail
    PROVE  LET first == Used(head, tail) + k
           IN  /\ first <= j /\ j < first + Len(bytes) => Byte(j)' = bytes[j - first + 1]
               /\ ~(first <= j /\ j < first + Len(bytes)) => Byte(j)' = Byte(j)
<1>1. Byte(j)' = Written(head + k, bytes)[(tail + j) % Size]
  BY DEF Byte
<1> QED BY <1>1, WrittenAt

\* The length goes behind the head, where nothing is used.
LEMMA WriteHeaderStep ==
    ASSUME IInv, WriteHeader
    PROVE  IInv'
<1> USE DEF IInv
<1> DEFINE f == push.frame
           h == Header(Len(f))
<1>u. PICK u : u = Used(head, tail)
  OBVIOUS
<1>1. /\ push.at = "header" /\ buf' = Written(head, h)
      /\ push' = [push EXCEPT !.at = "payload"]
      /\ UNCHANGED <<head, tail, pop, pending, out>>
  BY DEF WriteHeader
<1>2. push.at # "out" /\ f \in Frames /\ push' = [at |-> "payload", frame |-> f]
  <2>1. push.at # "out"
    BY <1>1
  <2>2. push = [at |-> push.at, frame |-> f] /\ f \in Frames
    BY <2>1, PushTyped
  <2> HIDE DEF f
  <2> QED BY <1>1, <2>1, <2>2 DEF f
<1>3. /\ Need(f) = Len(f) + 2 /\ Len(f) \in Nat /\ h \in Seq(Bytes) /\ Len(h) = 2
      /\ \A j \in 1 .. 2 : Record(f)[j] = h[j]
  BY <1>2, RecordFacts, Sizes
<1>4. u + Need(f) <= Size
  BY <1>u, <1>2 DEF PushInv
<1>5. u \in Nat /\ head \in Int /\ Size \in Nat
  BY Typed, Sizes, <1>u DEF Indices
<1> HIDE DEF f, h
<1>6. u + 0 + Len(h) <= Size /\ 0 \in Nat /\ head + 0 = head /\ buf' = Written(head + 0, h)
  <2>1. head + 0 = head
    BY <1>5
  <2> QED BY <1>1, <1>3, <1>4, <1>5, <2>1
<1>7. ASSUME NEW j \in 0 .. Size - 1
      PROVE  /\ u <= j /\ j < u + 2 => Byte(j)' = h[j - u + 1]
             /\ ~(u <= j /\ j < u + 2) => Byte(j)' = Byte(j)
  <2>1. LET first == u + 0
        IN  /\ first <= j /\ j < first + Len(h) => Byte(j)' = h[j - first + 1]
            /\ ~(first <= j /\ j < first + Len(h)) => Byte(j)' = Byte(j)
    BY <1>1, <1>3, <1>6, WriteStep, <1>u
  <2>2. u + 0 = u
    BY <1>5
  <2> QED BY <1>3, <2>1, <2>2
<1>8. TypeOK'
  <2>1. buf' \in [Offsets -> Bytes]
    BY <1>1, <1>3, <1>5, WrittenTyped
  <2>2. head' \in Indices /\ pending' \in Seq(Frames)
    BY <1>1 DEF TypeOK
  <2>3. push' \in [at : {"header", "payload", "publish"}, frame : Frames] \cup {NoPush}
    BY <1>2
  <2> QED BY <1>1, <2>1, <2>2, <2>3, PushStepTyped
<1>9. RingInv'
  <2>1. \A j \in 0 .. u - 1 : Byte(j)' = Byte(j)
    <3> SUFFICES ASSUME NEW j \in 0 .. u - 1 PROVE Byte(j)' = Byte(j)
      OBVIOUS
    <3>1. j \in 0 .. Size - 1 /\ ~(u <= j)
      BY <1>3, <1>4, <1>5
    <3> QED BY <1>7, <3>1
  <2> QED BY <1>1, <2>1, RingKept, <1>u
<1>10. PushInv'
  <2>1. \A j \in 0 .. 1 : Byte(u + j)' = Record(f)[j + 1]
    <3> SUFFICES ASSUME NEW j \in 0 .. 1 PROVE Byte(u + j)' = Record(f)[j + 1]
      OBVIOUS
    <3>1. PICK n : n = u + j
      OBVIOUS
    <3>2. n \in 0 .. Size - 1 /\ u <= n /\ n < u + 2 /\ n - u + 1 = j + 1 /\ j + 1 \in 1 .. 2
      BY <1>3, <1>4, <1>5, <3>1
    <3>3. Byte(n)' = h[n - u + 1]
      BY <1>7, <3>2
    <3>4. Byte(n)' = Record(f)[j + 1]
      BY <1>3, <3>2, <3>3
    <3> QED BY <3>1, <3>4
  <2>2. Used(head, tail)' = u /\ push'.frame = f /\ push'.at = "payload"
    BY <1>u, <1>1, <1>2 DEF Used
  <2> QED BY <1>4, <2>1, <2>2 DEF PushInv, Need, Record, Header
<1>11. PopInv' /\ PopType'
  BY <1>1, ProducerKeeps
<1> QED BY <1>8, <1>9, <1>10, <1>11

\* The frame goes behind its length.
LEMMA WritePayloadStep ==
    ASSUME IInv, WritePayload
    PROVE  IInv'
<1> USE DEF IInv
<1> DEFINE f == push.frame
           n == Len(f)
<1>u. PICK u : u = Used(head, tail)
  OBVIOUS
<1>1. /\ push.at = "payload" /\ buf' = Written(head + 2, f)
      /\ push' = [push EXCEPT !.at = "publish"]
      /\ UNCHANGED <<head, tail, pop, pending, out>>
  BY DEF WritePayload
<1>2. push.at # "out" /\ f \in Frames /\ push' = [at |-> "publish", frame |-> f]
  <2>1. push.at # "out"
    BY <1>1
  <2>2. push = [at |-> push.at, frame |-> f] /\ f \in Frames
    BY <2>1, PushTyped
  <2> HIDE DEF f
  <2> QED BY <1>1, <2>1, <2>2 DEF f
<1>3. /\ Need(f) = n + 2 /\ n \in Nat /\ f \in Seq(Bytes)
      /\ \A j \in 1 .. n : Record(f)[j + 2] = f[j]
  BY <1>2, RecordFacts, Sizes
<1>4. u + Need(f) <= Size /\ \A j \in 0 .. 1 : Byte(u + j) = Record(f)[j + 1]
  BY <1>u, <1>1, <1>2 DEF PushInv
<1>5. u \in Nat /\ head \in Int /\ Size \in Nat
  BY Typed, Sizes, <1>u DEF Indices
<1> HIDE DEF f, n
<1>6. u + 2 + n <= Size /\ 2 \in Nat /\ n = Len(f)
  BY <1>3, <1>4, <1>5 DEF n
<1>7. ASSUME NEW j \in 0 .. Size - 1
      PROVE  /\ u + 2 <= j /\ j < u + 2 + n => Byte(j)' = f[j - (u + 2) + 1]
             /\ ~(u + 2 <= j /\ j < u + 2 + n) => Byte(j)' = Byte(j)
  <2>1. LET first == u + 2
        IN  /\ first <= j /\ j < first + Len(f) => Byte(j)' = f[j - first + 1]
            /\ ~(first <= j /\ j < first + Len(f)) => Byte(j)' = Byte(j)
    BY <1>1, <1>3, <1>6, WriteStep, <1>u
  <2> QED BY <1>6, <2>1
<1>8. TypeOK'
  <2>1. head + 2 \in Int
    BY <1>5
  <2>2. buf' \in [Offsets -> Bytes]
    BY <1>1, <1>3, <2>1, WrittenTyped
  <2>3. head' \in Indices /\ pending' \in Seq(Frames)
    BY <1>1 DEF TypeOK
  <2>4. push' \in [at : {"header", "payload", "publish"}, frame : Frames] \cup {NoPush}
    BY <1>2
  <2> QED BY <1>1, <2>2, <2>3, <2>4, PushStepTyped
<1>9. RingInv'
  <2>1. \A j \in 0 .. u - 1 : Byte(j)' = Byte(j)
    <3> SUFFICES ASSUME NEW j \in 0 .. u - 1 PROVE Byte(j)' = Byte(j)
      OBVIOUS
    <3>1. j \in 0 .. Size - 1 /\ ~(u + 2 <= j)
      BY <1>3, <1>5, <1>6
    <3> QED BY <1>7, <3>1
  <2> QED BY <1>1, <2>1, RingKept, <1>u
<1>10. PushInv'
  <2>1. ASSUME NEW j \in 0 .. 1 PROVE Byte(u + j)' = Record(f)[j + 1]
    <3>1. PICK i : i = u + j
      OBVIOUS
    <3>2. i \in 0 .. Size - 1 /\ ~(u + 2 <= i)
      BY <1>3, <1>5, <1>6, <3>1
    <3>3. Byte(i) = Record(f)[j + 1]
      BY <1>4, <3>1
    <3>4. Byte(i)' = Record(f)[j + 1]
      BY <1>7, <3>2, <3>3
    <3> QED BY <3>1, <3>4
  <2>2. ASSUME NEW j \in 2 .. Need(f) - 1 PROVE Byte(u + j)' = Record(f)[j + 1]
    <3>1. PICK i : i = u + j
      OBVIOUS
    <3>2. /\ i \in 0 .. Size - 1 /\ u + 2 <= i /\ i < u + 2 + n
          /\ i - (u + 2) + 1 = j - 1 /\ j - 1 \in 1 .. n /\ (j - 1) + 2 = j + 1
      BY <1>3, <1>5, <1>6, <3>1
    <3>3. Byte(i)' = f[i - (u + 2) + 1]
      BY <1>7, <3>2
    <3>4. Byte(i)' = Record(f)[j + 1]
      BY <1>3, <3>2, <3>3
    <3> QED BY <3>1, <3>4
  <2>3. Used(head, tail)' = u /\ push'.frame = f /\ push'.at = "publish"
    BY <1>u, <1>1, <1>2 DEF Used
  <2> QED BY <1>4, <2>1, <2>2, <2>3 DEF PushInv, Need, Record, Header
<1>11. PopInv' /\ PopType'
  BY <1>1, ProducerKeeps
<1> QED BY <1>8, <1>9, <1>10, <1>11


\* The record of the new frame joins those that are used: its bytes lie there already.
LEMMA PublishHeadStep ==
    ASSUME IInv, PublishHead
    PROVE  IInv'
<1> USE DEF IInv
<1> DEFINE f == push.frame
<1>u. PICK u : u = Used(head, tail)
  OBVIOUS
<1>m. PICK m : m = Len(pending)
  OBVIOUS
<1>1. /\ push.at = "publish" /\ head' = (head + Need(f)) % Wrap
      /\ pending' = Append(pending, f) /\ push' = NoPush
      /\ UNCHANGED <<buf, tail, pop, out>>
  BY DEF PublishHead, Published
<1>2. push.at # "out" /\ f \in Frames
  <2>1. push.at # "out"
    BY <1>1
  <2> QED BY <2>1, PushTyped
<1>3. Need(f) \in Nat
  BY <1>2, RecordFacts
<1>4. u + Need(f) <= Size
  BY <1>u, <1>2 DEF PushInv
<1>5. u \in Nat /\ m \in Nat /\ Size \in Nat /\ Wrap \in Nat /\ Wrap > Size
  BY Typed, Sizes, <1>u, <1>m
<1>6. ASSUME NEW j \in 0 .. Need(f) - 1 PROVE Byte(u + j) = Record(f)[j + 1]
  <2>1. /\ \A i \in 0 .. 1 : Byte(u + i) = Record(f)[i + 1]
        /\ \A i \in 2 .. Need(f) - 1 : Byte(u + i) = Record(f)[i + 1]
    BY <1>u, <1>1, <1>2 DEF PushInv
  <2>2. j \in 0 .. 1 \/ j \in 2 .. Need(f) - 1
    BY <1>3
  <2> QED BY <2>1, <2>2
<1> HIDE DEF f
<1>7. head' \in Indices /\ Used(head', tail) = u + Need(f)
  <2>1. head \in Indices /\ tail \in Indices
    BY Typed
  <2>2. u + Need(f) < Wrap
    BY <1>3, <1>4, <1>5
  <2> QED BY <1>u, <1>1, <1>3, <2>1, <2>2, UsedMoves
<1>8. Used(head, tail)' = u + Need(f)
  <2>1. Used(head, tail)' = Used(head', tail)
    BY <1>1 DEF Used
  <2> QED BY <1>7, <2>1
<1>9. pending' \in Seq(Frames) /\ Len(pending') = m + 1 /\ pending'[m + 1] = f
      /\ \A k \in 1 .. m : pending'[k] = pending[k]
  <2>1. pending \in Seq(Frames)
    BY DEF TypeOK
  <2> QED BY <1>1, <1>2, <1>m, <2>1
<1>10. TypeOK'
  <2>1. buf' \in [Offsets -> Bytes]
    BY <1>1 DEF TypeOK
  <2> QED BY <1>1, <1>7, <1>9, <2>1, PushStepTyped
<1>11. PICK off \in [0 .. m -> 0 .. Size] : Records(off)
  BY <1>m DEF RingInv
<1>12. RingInv'
  <2>1. PICK new : new = [k \in 0 .. m + 1 |-> IF k <= m THEN off[k] ELSE u + Need(f)]
    OBVIOUS
  <2>2. /\ new \in [0 .. m + 1 -> 0 .. Size] /\ new[0] = off[0] /\ new[m + 1] = u + Need(f)
        /\ \A k \in 0 .. m : new[k] = off[k]
    <3>1. u + Need(f) \in 0 .. Size
      BY <1>3, <1>4, <1>5
    <3>2. \A k \in 0 .. m : off[k] \in 0 .. Size
      BY <1>11
    <3> QED BY <1>5, <2>1, <3>1, <3>2
  <2>3. /\ off[0] = 0 /\ off[m] = u
        /\ \A i, k \in 0 .. m : i <= k => off[i] <= off[k]
        /\ \A k \in 1 .. m : off[k] = off[k - 1] + Need(pending[k])
    BY <1>u, <1>m, <1>11 DEF Records
  <2>4. ASSUME NEW i \in 0 .. m + 1, NEW k \in 0 .. m + 1, i <= k
        PROVE  new[i] <= new[k]
    <3>1. CASE k <= m
      BY <1>5, <2>2, <2>3, <2>4, <3>1
    <3>2. CASE k = m + 1 /\ i <= m
      <4>1. i \in 0 .. m /\ m \in 0 .. m /\ off[i] \in 0 .. Size
        BY <1>5, <1>11, <3>2
      <4>2. off[i] <= u
        BY <2>3, <4>1
      <4> QED BY <1>3, <1>5, <2>2, <3>2, <4>1, <4>2
    <3>3. CASE k = m + 1 /\ i = m + 1
      BY <1>3, <1>5, <2>2, <3>3
    <3> QED BY <1>5, <2>4, <3>1, <3>2, <3>3
  <2>5. ASSUME NEW k \in 1 .. m
        PROVE  /\ new[k] = new[k - 1] + Need(pending[k])
               /\ \A j \in 0 .. Need(pending[k]) - 1 :
                      Byte(new[k - 1] + j)' = Record(pending[k])[j + 1]
    <3>1. k \in 0 .. m /\ k - 1 \in 0 .. m
      BY <1>5
    <3>2. new[k] = off[k] /\ new[k - 1] = off[k - 1]
      BY <2>2, <3>1
    <3>3. ASSUME NEW j \in 0 .. Need(pending[k]) - 1
          PROVE  Byte(new[k - 1] + j)' = Record(pending[k])[j + 1]
      <4>1. PICK n : n = new[k - 1] + j
        OBVIOUS
      <4>2. Byte(n) = Record(pending[k])[j + 1]
        BY <1>m, <1>11, <3>2, <4>1, InsideUsed
      <4>3. Byte(n)' = Byte(n)
        BY <1>1, BytesKept
      <4> QED BY <4>1, <4>2, <4>3
    <3> QED BY <2>3, <3>2, <3>3
  <2>6. /\ new[m + 1] = new[(m + 1) - 1] + Need(f)
        /\ \A j \in 0 .. Need(f) - 1 : Byte(new[(m + 1) - 1] + j)' = Record(f)[j + 1]
    <3>1. (m + 1) - 1 = m /\ m \in 0 .. m
      BY <1>5
    <3>2. new[(m + 1) - 1] = u
      BY <2>2, <2>3, <3>1
    <3>3. ASSUME NEW j \in 0 .. Need(f) - 1
          PROVE  Byte(u + j)' = Record(f)[j + 1]
      <4>1. PICK n : n = u + j
        OBVIOUS
      <4>2. Byte(n)' = Byte(n)
        BY <1>1, BytesKept
      <4> QED BY <1>6, <4>1, <4>2
    <3>4. ASSUME NEW j \in 0 .. Need(f) - 1
          PROVE  Byte(new[(m + 1) - 1] + j)' = Record(f)[j + 1]
      <4>1. PICK n : n = new[(m + 1) - 1] + j
        OBVIOUS
      <4>2. n = u + j
        BY <3>2, <4>1
      <4> QED BY <3>3, <4>1, <4>2
    <3> QED BY <2>2, <3>2, <3>4
  <2>7. PICK q : q = m + 1
    OBVIOUS
  <2>8. PICK p : p = pending'
    OBVIOUS
  <2>9. \A k \in 1 .. q :
            /\ new[k] = new[k - 1] + Need(p[k])
            /\ \A j \in 0 .. Need(p[k]) - 1 : Byte(new[k - 1] + j)' = Record(p[k])[j + 1]
    <3> SUFFICES ASSUME NEW k \in 1 .. q
                 PROVE  /\ new[k] = new[k - 1] + Need(p[k])
                        /\ \A j \in 0 .. Need(p[k]) - 1 :
                               Byte(new[k - 1] + j)' = Record(p[k])[j + 1]
      OBVIOUS
    <3>1. CASE k \in 1 .. m
      <4>1. p[k] = pending[k]
        BY <1>9, <2>8, <3>1
      <4> QED BY <2>5, <3>1, <4>1
    <3>2. CASE k = m + 1
      <4>1. p[k] = f
        BY <1>9, <2>8, <3>2
      <4> QED BY <2>6, <3>2, <4>1
    <3>3. k \in 1 .. m \/ k = m + 1
      BY <1>5, <2>7
    <3> QED BY <3>1, <3>2, <3>3
  <2>10. \A i, k \in 0 .. q : i <= k => new[i] <= new[k]
    BY <2>4, <2>7
  <2>11. /\ Len(pending)' = q /\ pending' = p /\ new \in [0 .. q -> 0 .. Size]
         /\ new[0] = 0 /\ new[q] = Used(head, tail)'
    BY <1>8, <1>9, <2>2, <2>3, <2>7, <2>8
  <2>12. Records(new)'
    BY <2>9, <2>10, <2>11 DEF Records, Record, Need, Header
  <2> QED BY <2>11, <2>12 DEF RingInv
<1>13. PushInv'
  BY <1>1 DEF PushInv, NoPush
<1>14. PopInv'
  <2>1. pending \in Seq(Frames)
    BY DEF TypeOK
  <2>2. pending # <<>> => Head(pending') = Head(pending)
    BY <1>1, <1>2, <2>1
  <2>3. pending' # <<>>
    BY <1>5, <1>9
  <2> QED BY <1>1, <2>2, <2>3 DEF PopInv
<1>15. PopType'
  BY <1>1 DEF PopType, Indices
<1> QED BY <1>10, <1>12, <1>13, <1>14, <1>15


\* The type of the consumer, whatever it does to itself only.
LEMMA PopStepTyped ==
    ASSUME TypeOK, PopType', UNCHANGED <<buf, head, tail, push, pending, out>>
    PROVE  TypeOK'
<1>1. /\ buf' \in [Offsets -> Bytes] /\ head' \in Indices /\ tail' \in Indices
      /\ push' \in [at : {"header", "payload", "publish"}, frame : Frames] \cup {NoPush}
      /\ pending' \in Seq(Frames) /\ out' \in Seq(Bytes) \cup {NoFrame}
  BY DEF TypeOK
<1>2. /\ pop'.at \in {"out", "header", "payload", "publish"}
      /\ pop'.seen \in Indices /\ pop'.len \in 0 .. FrameMax
  BY DEF PopType, Indices
<1> QED BY <1>1, <1>2 DEF TypeOK, Indices, NoPush

\* What the consumer is at.
LEMMA PopTyped ==
    ASSUME PopType
    PROVE  /\ pop = [at |-> pop.at, seen |-> pop.seen, count |-> pop.count,
                     len |-> pop.len, got |-> pop.got]
           /\ pop.at \in {"out", "header", "payload", "publish"} /\ pop.seen \in Indices
           /\ pop.count \in Nat /\ pop.len \in 0 .. FrameMax /\ pop.got \in Frames \cup {NoFrame}
BY DEF PopType

\* The ring was not empty, so that it holds a frame.
LEMMA BeginPopStep ==
    ASSUME IInv, BeginPop
    PROVE  IInv'
<1> USE DEF IInv
<1>1. /\ pop.at = "out" /\ head # tail
      /\ pop' = [NoPop EXCEPT !.at = "header", !.seen = head, !.count = Len(pending)]
      /\ UNCHANGED <<buf, head, tail, push, pending, out>>
  BY DEF BeginPop
<1>2. pop' = [at |-> "header", seen |-> head, count |-> Len(pending), len |-> 0, got |-> NoFrame]
  BY <1>1 DEF NoPop
<1>3. PopType'
  <2>1. head \in Indices /\ Len(pending) \in Nat /\ FrameMax \in Nat
    BY Typed, Sizes
  <2>2. 0 \in 0 .. FrameMax
    BY <2>1
  <2> QED BY <1>2, <2>1, <2>2 DEF PopType, Indices
<1>4. TypeOK'
  BY <1>1, <1>3, PopStepTyped
<1>5. RingInv' /\ PushInv'
  BY <1>1, ConsumerKeeps
<1>6. PopInv'
  <2>1. pending # <<>>
    BY <1>1, NotEmpty
  <2> QED BY <1>1, <1>2, <2>1 DEF PopInv
<1> QED BY <1>3, <1>4, <1>5, <1>6

\* A length that no frame has cannot be found, so that nothing is ever drained.
LEMMA NeverDrains ==
    ASSUME IInv, ReadHeader
    PROVE  /\ pop' = [pop EXCEPT !.at = "payload", !.len = Len(Head(pending))]
           /\ UNCHANGED <<buf, head, tail, push, pending, out>>
           /\ pending # <<>>
<1> USE DEF IInv
<1>1. pop.at = "header"
  BY DEF ReadHeader
<1>2. pending # <<>>
  BY <1>1 DEF PopInv
<1>3. Length(BytesAt(tail, 2)) = Len(Head(pending)) /\ Len(Head(pending)) \in 1 .. FrameMax
  BY <1>2, HeaderRead
<1>4. Length(BytesAt(tail, 2)) <= FrameMax
  BY <1>3, Sizes
<1> QED BY <1>2, <1>3, <1>4 DEF ReadHeader

LEMMA ReadHeaderStep ==
    ASSUME IInv, ReadHeader
    PROVE  IInv'
<1> USE DEF IInv
<1>1. /\ pop' = [pop EXCEPT !.at = "payload", !.len = Len(Head(pending))]
      /\ UNCHANGED <<buf, head, tail, push, pending, out>> /\ pending # <<>>
  BY NeverDrains
<1>2. Len(Head(pending)) \in 0 .. FrameMax
  BY <1>1, HeaderRead, Sizes
<1>3. pop' = [at |-> "payload", seen |-> pop.seen, count |-> pop.count,
              len |-> Len(Head(pending)), got |-> pop.got]
  BY <1>1, PopTyped
<1>4. PopType'
  BY <1>2, <1>3, PopTyped DEF PopType, Indices
<1>5. TypeOK'
  BY <1>1, <1>4, PopStepTyped
<1>6. RingInv' /\ PushInv'
  BY <1>1, ConsumerKeeps
<1>7. PopInv'
  BY <1>1, <1>3 DEF PopInv
<1> QED BY <1>4, <1>5, <1>6, <1>7

\* What is copied out is the oldest frame, whatever the producer writes meanwhile.
LEMMA ReadPayloadStep ==
    ASSUME IInv, ReadPayload
    PROVE  IInv'
<1> USE DEF IInv
<1>1. /\ pop.at = "payload"
      /\ pop' = [pop EXCEPT !.at = "publish", !.got = BytesAt(tail + 2, pop.len)]
      /\ UNCHANGED <<buf, head, tail, push, pending, out>>
  BY DEF ReadPayload
<1>2. pending # <<>> /\ pop.len = Len(Head(pending))
  BY <1>1 DEF PopInv
<1>3. BytesAt(tail + 2, pop.len) = Head(pending) /\ Head(pending) \in Frames
  BY <1>2, PayloadRead, Oldest
<1>4. pop' = [at |-> "publish", seen |-> pop.seen, count |-> pop.count,
              len |-> pop.len, got |-> Head(pending)]
  BY <1>1, <1>3, PopTyped
<1>5. PopType'
  BY <1>3, <1>4, PopTyped DEF PopType, Indices
<1>6. TypeOK'
  BY <1>1, <1>5, PopStepTyped
<1>7. RingInv' /\ PushInv'
  BY <1>1, ConsumerKeeps
<1>8. PopInv'
  <2>1. pop'.len = Len(Head(pending)) /\ pop'.got = Head(pending)
    BY <1>2, <1>4
  <2>2. pending' = pending
    BY <1>1
  <2> QED BY <1>2, <2>1, <2>2 DEF PopInv
<1> QED BY <1>5, <1>6, <1>7, <1>8

\* A reset finds nobody inside and leaves an empty ring.
LEMMA ResetStep ==
    ASSUME IInv, Reset
    PROVE  IInv'
<1> USE DEF IInv
<1>1. /\ push = NoPush /\ pop = NoPop /\ head' = 0 /\ tail' = 0 /\ pending' = <<>>
      /\ UNCHANGED <<buf, push, pop, out>>
  BY DEF Reset, ResetIndices
<1>2. 0 \in Indices
  BY Sizes DEF Indices
<1>3. TypeOK'
  <2>1. /\ buf' \in [Offsets -> Bytes]
        /\ push' \in [at : {"header", "payload", "publish"}, frame : Frames] \cup {NoPush}
        /\ pop'.at \in {"out", "header", "payload", "publish"}
        /\ pop'.seen \in Indices /\ pop'.len \in 0 .. FrameMax
        /\ out' \in Seq(Bytes) \cup {NoFrame}
    BY <1>1 DEF TypeOK
  <2>2. head' \in Indices /\ tail' \in Indices /\ pending' \in Seq(Frames)
    BY <1>1, <1>2
  <2> QED BY <2>1, <2>2 DEF TypeOK, Indices, NoPush
<1>4. RingInv'
  <2>1. PICK off : off = [k \in 0 .. 0 |-> 0]
    OBVIOUS
  <2>2. Len(pending)' = 0 /\ 0 \in 0 .. Size /\ Used(head, tail)' = 0
    <3>1. Used(head, tail)' = Used(0, 0)
      BY <1>1 DEF Used
    <3>2. Len(pending)' = 0
      BY <1>1
    <3> QED BY <3>1, <3>2, Sizes, NothingUsed
  <2>3. off \in [0 .. 0 -> 0 .. Size] /\ off[0] = 0
    BY <2>1, <2>2
  <2>4. Records(off)'
    BY <2>2, <2>3 DEF Records
  <2> QED BY <2>2, <2>3, <2>4 DEF RingInv
<1>5. PushInv'
  BY <1>1 DEF PushInv, NoPush
<1>6. PopInv' /\ PopType'
  BY <1>1 DEF PopInv, PopType, NoPop, Indices
<1> QED BY <1>3, <1>4, <1>5, <1>6


\* The tail moves over the oldest record; the others lie as far behind the new one.
LEMMA PublishTailStep ==
    ASSUME IInv, PublishTail
    PROVE  /\ IInv'
           /\ pending # <<>> /\ out' = Head(pending) /\ pending' = Tail(pending)
<1> USE DEF IInv
<1>1. /\ pop.at = "publish" /\ tail' = (tail + 2 + pop.len) % Wrap
      /\ pending' = Tail(pending) /\ out' = pop.got /\ pop' = NoPop
      /\ UNCHANGED <<buf, head, push>>
  BY DEF PublishTail, Released
<1>f. PICK f : f = Head(pending)
  OBVIOUS
<1>u. PICK u : u = Used(head, tail)
  OBVIOUS
<1>m. PICK m : m = Len(pending)
  OBVIOUS
<1>n. PICK n : n = Need(f)
  OBVIOUS
<1>2. pending # <<>> /\ pop.len = Len(f) /\ pop.got = f
  BY <1>1, <1>f DEF PopInv
<1>3. f \in Frames /\ n <= u
  BY <1>2, <1>f, <1>n, <1>u, Oldest
<1>4. n = Len(f) + 2 /\ n \in Nat /\ Len(f) \in Nat /\ f \in Seq(Bytes)
  BY <1>3, <1>n, RecordFacts, Sizes
<1>5. /\ u \in Nat /\ m \in Nat /\ m # 0 /\ head \in Indices /\ tail \in Indices /\ tail \in Nat
      /\ Size \in Nat /\ Wrap \in Nat /\ Wrap > Size
  <2>1. pending \in Seq(Frames)
    BY DEF TypeOK
  <2>2. Len(pending) \in Nat /\ Len(pending) # 0
    BY <1>2, <2>1
  <2> QED BY <1>u, <1>m, <2>2, Typed, Sizes
<1>6. tail' = (tail + n) % Wrap
  <2>1. tail + 2 + pop.len = tail + n
    BY <1>2, <1>4, <1>5
  <2> QED BY <1>1, <2>1
<1>7. tail' \in Indices /\ Used(head, tail') = u - n
  BY <1>3, <1>4, <1>5, <1>6, <1>u, UsedMoves
<1>8. Used(head, tail)' = u - n
  <2>1. Used(head, tail)' = Used(head, tail')
    BY <1>1 DEF Used
  <2> QED BY <1>7, <2>1
<1>9. ASSUME NEW j \in Nat PROVE Byte(j)' = Byte(n + j)
  <2>1. PICK x : x = tail + n
    OBVIOUS
  <2>2. x \in Int
    BY <1>4, <1>5, <2>1
  <2>3. ((x % Wrap) + j) % Size = (x + j) % Size
    BY <2>2, Place
  <2>4. x + j = tail + (n + j)
    BY <1>4, <1>5, <2>1
  <2>5. Byte(j)' = buf[((x % Wrap) + j) % Size]
    BY <1>1, <1>6, <2>1 DEF Byte
  <2>6. Byte(n + j) = buf[(x + j) % Size]
    BY <2>4 DEF Byte
  <2> QED BY <2>3, <2>5, <2>6
<1>10. /\ pending' \in Seq(Frames) /\ Len(pending') = m - 1
       /\ \A k \in 1 .. m - 1 : pending'[k] = pending[k + 1]
  <2>1. pending \in Seq(Frames)
    BY DEF TypeOK
  <2>2. /\ Tail(pending) \in Seq(Frames) /\ Len(Tail(pending)) = Len(pending) - 1
        /\ \A k \in 1 .. Len(Tail(pending)) : Tail(pending)[k] = pending[k + 1]
    BY <1>2, <2>1, HeadTailProperties
  <2> QED BY <1>1, <1>m, <2>2
<1>11. TypeOK'
  <2>1. /\ buf' \in [Offsets -> Bytes] /\ head' \in Indices
        /\ push' \in [at : {"header", "payload", "publish"}, frame : Frames] \cup {NoPush}
    BY <1>1 DEF TypeOK
  <2>2. /\ pop'.at \in {"out", "header", "payload", "publish"}
        /\ pop'.seen \in Indices /\ pop'.len \in 0 .. FrameMax
    BY <1>1, Sizes DEF NoPop, Indices
  <2>3. out' \in Seq(Bytes) \cup {NoFrame}
    BY <1>1, <1>2, <1>4
  <2> QED BY <1>7, <1>10, <2>1, <2>2, <2>3 DEF TypeOK, Indices, NoPush
<1>12. RingInv'
  <2>1. PICK off \in [0 .. m -> 0 .. Size] : Records(off)
    BY <1>m DEF RingInv
  <2>2. PICK new : new = [k \in 0 .. m - 1 |-> off[k + 1] - n]
    OBVIOUS
  <2>3. /\ off[0] = 0 /\ off[m] = u
        /\ \A i, k \in 0 .. m : i <= k => off[i] <= off[k]
        /\ \A k \in 1 .. m : off[k] = off[k - 1] + Need(pending[k])
    BY <1>u, <1>m, <2>1 DEF Records
  <2>4. off[1] = n
    <3>1. 1 \in 1 .. m /\ 1 - 1 = 0 /\ pending[1] = f
      <4>1. pending \in Seq(Frames)
        BY DEF TypeOK
      <4> QED BY <1>2, <1>5, <1>f, <4>1
    <3> QED BY <1>4, <1>n, <2>3, <3>1
  <2>5. ASSUME NEW k \in 0 .. m - 1
        PROVE  new[k] = off[k + 1] - n /\ off[k + 1] \in 0 .. Size /\ new[k] \in 0 .. Size
    <3>1. k + 1 \in 0 .. m /\ 1 \in 0 .. m /\ 1 <= k + 1
      BY <1>5
    <3>2. off[1] <= off[k + 1] /\ off[k + 1] \in 0 .. Size
      BY <2>1, <2>3, <3>1
    <3>3. new[k] = off[k + 1] - n
      BY <2>2
    <3> QED BY <1>4, <1>5, <2>4, <3>2, <3>3
  <2>6. new \in [0 .. m - 1 -> 0 .. Size] /\ new[0] = 0 /\ new[m - 1] = u - n
    <3>1. 0 \in 0 .. m - 1 /\ m - 1 \in 0 .. m - 1 /\ (m - 1) + 1 = m /\ 0 + 1 = 1
      BY <1>5
    <3>2. new[0] = 0 /\ new[m - 1] = u - n
      BY <1>4, <2>3, <2>4, <2>5, <3>1
    <3> QED BY <2>2, <2>5, <3>2
  <2>7. ASSUME NEW i \in 0 .. m - 1, NEW k \in 0 .. m - 1, i <= k
        PROVE  new[i] <= new[k]
    <3>1. i + 1 \in 0 .. m /\ k + 1 \in 0 .. m /\ i + 1 <= k + 1
      BY <1>5, <2>7
    <3>2. off[i + 1] <= off[k + 1]
      BY <2>3, <3>1
    <3> QED BY <1>4, <2>5, <3>2
  <2>8. ASSUME NEW k \in 1 .. m - 1
        PROVE  /\ new[k] = new[k - 1] + Need(pending[k + 1])
               /\ \A j \in 0 .. Need(pending[k + 1]) - 1 :
                      Byte(new[k - 1] + j)' = Record(pending[k + 1])[j + 1]
    <3>1. /\ k \in 0 .. m - 1 /\ k - 1 \in 0 .. m - 1 /\ k + 1 \in 1 .. m
          /\ (k + 1) - 1 = k /\ (k - 1) + 1 = k
      BY <1>5
    <3>2. new[k] = off[k + 1] - n /\ new[k - 1] = off[k] - n /\ new[k - 1] \in Nat /\ off[k] \in Nat
      <4>1. /\ new[k] = off[k + 1] - n /\ new[k - 1] = off[(k - 1) + 1] - n
            /\ off[(k - 1) + 1] \in 0 .. Size /\ new[k - 1] \in 0 .. Size
        BY <2>5, <3>1
      <4> QED BY <1>5, <3>1, <4>1
    <3>3. off[k + 1] = off[k] + Need(pending[k + 1]) /\ Need(pending[k + 1]) \in Nat
      <4>1. off[k + 1] = off[(k + 1) - 1] + Need(pending[k + 1])
        BY <2>3, <3>1
      <4>2. pending[k + 1] \in Frames
        BY <1>m, <3>1, Typed
      <4> QED BY <3>1, <4>1, <4>2, RecordFacts
    <3>4. ASSUME NEW j \in 0 .. Need(pending[k + 1]) - 1
          PROVE  Byte(new[k - 1] + j)' = Record(pending[k + 1])[j + 1]
      <4>1. PICK a : a = new[k - 1] + j
        OBVIOUS
      <4>2. PICK b : b = off[(k + 1) - 1] + j
        OBVIOUS
      <4>3. a \in Nat /\ b = n + a
        <5>1. b = off[k] + j /\ j \in Nat
          BY <3>1, <3>3, <4>2
        <5>2. a \in Nat
          BY <3>2, <4>1, <5>1
        <5>3. n \in Nat /\ off[k] \in Nat /\ new[k - 1] = off[k] - n
          BY <1>4, <3>2
        <5>4. n + a = off[k] + j
          BY <4>1, <5>1, <5>3
        <5> QED BY <5>1, <5>2, <5>4
      <4>4. Byte(b) = Record(pending[k + 1])[j + 1]
        BY <1>m, <2>1, <3>1, <4>2, InsideUsed
      <4>5. Byte(a)' = Byte(b)
        BY <1>9, <4>3
      <4> QED BY <4>1, <4>4, <4>5
    <3>5. new[k] = new[k - 1] + Need(pending[k + 1])
      BY <1>4, <3>2, <3>3
    <3> QED BY <3>4, <3>5
  <2>9. PICK q : q = m - 1
    OBVIOUS
  <2>10. PICK p : p = pending'
    OBVIOUS
  <2>11. \A k \in 1 .. q :
            /\ new[k] = new[k - 1] + Need(p[k])
            /\ \A j \in 0 .. Need(p[k]) - 1 : Byte(new[k - 1] + j)' = Record(p[k])[j + 1]
    <3> SUFFICES ASSUME NEW k \in 1 .. q
                 PROVE  /\ new[k] = new[k - 1] + Need(p[k])
                        /\ \A j \in 0 .. Need(p[k]) - 1 :
                               Byte(new[k - 1] + j)' = Record(p[k])[j + 1]
      OBVIOUS
    <3>1. p[k] = pending[k + 1] /\ k \in 1 .. m - 1
      BY <1>10, <2>9, <2>10
    <3> QED BY <2>8, <3>1
  <2>12. \A i, k \in 0 .. q : i <= k => new[i] <= new[k]
    BY <2>7, <2>9
  <2>13. /\ Len(pending)' = q /\ pending' = p /\ new \in [0 .. q -> 0 .. Size]
         /\ new[0] = 0 /\ new[q] = Used(head, tail)'
    BY <1>8, <1>10, <2>6, <2>9, <2>10
  <2>14. Records(new)'
    BY <2>11, <2>12, <2>13 DEF Records, Record, Need, Header
  <2> QED BY <2>13, <2>14 DEF RingInv
<1>13. PushInv'
  <2> SUFFICES ASSUME push.at # "out" PROVE PushInv'
    BY <1>1 DEF PushInv
  <2>g. PICK g : g = push.frame
    OBVIOUS
  <2>1. g \in Frames /\ Need(g) \in Nat
    BY <2>g, PushTyped, RecordFacts
  <2>2. /\ u + Need(g) <= Size
        /\ push.at \in {"payload", "publish"} => \A j \in 0 .. 1 : Byte(u + j) = Record(g)[j + 1]
        /\ push.at = "publish" => \A j \in 2 .. Need(g) - 1 : Byte(u + j) = Record(g)[j + 1]
    BY <1>u, <2>g DEF PushInv
  <2>v. PICK v : v = u - n
    OBVIOUS
  <2>3. ASSUME NEW j \in Nat, Byte(u + j) = Record(g)[j + 1]
        PROVE  Byte(v + j)' = Record(g)[j + 1]
    <3>1. PICK a : a = v + j
      OBVIOUS
    <3>2. a \in Nat /\ n + a = u + j
      BY <1>3, <1>4, <1>5, <2>v, <3>1
    <3>3. Byte(a)' = Byte(n + a)
      BY <1>9, <3>2
    <3> QED BY <2>3, <3>1, <3>2, <3>3
  <2>4. /\ push.at \in {"payload", "publish"} => \A j \in 0 .. 1 : Byte(v + j)' = Record(g)[j + 1]
        /\ push.at = "publish" => \A j \in 2 .. Need(g) - 1 : Byte(v + j)' = Record(g)[j + 1]
    BY <2>1, <2>2, <2>3
  <2>5. v + Need(g) <= Size
    BY <1>3, <1>4, <1>5, <2>1, <2>2, <2>v
  <2>6. Used(head, tail)' = v /\ push' = push /\ push'.frame = g
    BY <1>1, <1>8, <2>g, <2>v
  <2> QED BY <2>4, <2>5, <2>6 DEF PushInv, Need, Record, Header
<1>14. PopInv' /\ PopType'
  BY <1>1, Sizes DEF PopInv, PopType, NoPop, Indices
<1>15. pending # <<>> /\ out' = Head(pending) /\ pending' = Tail(pending)
  BY <1>1, <1>2, <1>f
<1> QED BY <1>11, <1>12, <1>13, <1>14, <1>15

\* Each step keeps the invariant.
LEMMA StepHolds == IInv /\ [Next]_vars => IInv'
<1> SUFFICES ASSUME IInv, [Next]_vars PROVE IInv'
  OBVIOUS
<1>1. CASE \E f \in Frames : BeginPush(f)
  BY <1>1, BeginPushStep
<1>2. CASE WriteHeader
  BY <1>2, WriteHeaderStep
<1>3. CASE WritePayload
  BY <1>3, WritePayloadStep
<1>4. CASE PublishHead
  BY <1>4, PublishHeadStep
<1>5. CASE BeginPop
  BY <1>5, BeginPopStep
<1>6. CASE ReadHeader
  BY <1>6, ReadHeaderStep
<1>7. CASE ReadPayload
  BY <1>7, ReadPayloadStep
<1>8. CASE PublishTail
  BY <1>8, PublishTailStep
<1>9. CASE Reset
  BY <1>9, ResetStep
<1>10. CASE UNCHANGED vars
  <2>1. TypeOK' /\ PopType'
    BY <1>10 DEF IInv, TypeOK, PopType, vars, NoPush, Indices
  <2>2. UNCHANGED <<buf, head, tail, push, pop, pending, out>>
    BY <1>10 DEF vars
  <2>3. RingInv' /\ PushInv'
    BY <2>2, ConsumerKeeps DEF IInv
  <2>4. PopInv'
    BY <2>2, ProducerKeeps DEF IInv
  <2> QED BY <2>1, <2>3, <2>4 DEF IInv
<1> QED BY <1>1, <1>2, <1>3, <1>4, <1>5, <1>6, <1>7, <1>8, <1>9, <1>10 DEF Next


----------------------------------------------------------------------------
(* The theorems *)

\* The invariant with which everything about the ring is proved holds in every state:
\* the records, what is being written behind them, what is being read of the first.
THEOREM Inductive == Spec => []IInv
BY InitHolds, StepHolds, PTL DEF Spec

\* The bytes stay bytes, the indices wrap, the reader's length is one of a frame.
THEOREM TypeCorrect == Spec => []TypeOK
<1>1. IInv => TypeOK
  BY DEF IInv
<1> QED BY <1>1, Inductive, PTL

\* The published part of the ring is exactly the records of the pending frames,
\* whatever the sizes, wherever they cross the edge and whenever the indices wrap.
THEOREM RingCorrect == Spec => []RingHoldsPending
<1>1. IInv => RingHoldsPending
  <2> SUFFICES ASSUME TypeOK, RingInv PROVE RingHoldsPending
    BY DEF IInv
  <2>1. PICK off \in [0 .. Len(pending) -> 0 .. Size] : Records(off)
    BY DEF RingInv
  <2>2. ASSUME NEW k \in 1 .. Len(pending)
        PROVE  RecordAt(tail + off[k - 1], pending[k])
    <3>1. PICK pos : pos = tail + off[k - 1]
      OBVIOUS
    <3>2. pending[k] \in Frames /\ off[k - 1] \in Nat
      <4>1. pending[k] \in Frames
        BY Typed
      <4>2. k - 1 \in 0 .. Len(pending)
        BY Typed
      <4> QED BY <2>1, <4>1, <4>2, Sizes
    <3>3. \A j \in 0 .. Need(pending[k]) - 1 : Byte(off[k - 1] + j) = Record(pending[k])[j + 1]
      BY <2>1 DEF Records
    <3>4. BytesAt(pos, Need(pending[k])) = Record(pending[k])
      BY <3>1, <3>2, <3>3, RecordRead
    <3> QED BY <3>1, <3>4 DEF RecordAt, Record
  <2>3. /\ off[0] = 0 /\ off[Len(pending)] = Used(head, tail)
        /\ \A k \in 1 .. Len(pending) : off[k] = off[k - 1] + Need(pending[k])
    BY <2>1 DEF Records
  <2> QED BY <2>1, <2>2, <2>3 DEF RingHoldsPending
<1> QED BY <1>1, Inductive, PTL

\* What the reader takes for a length is the length of the oldest frame, all of which is
\* published: the recovery from a corrupt record is never needed.
THEOREM LengthCorrect == Spec => []LengthIsTrue
<1>1. IInv => LengthIsTrue
  <2> SUFFICES ASSUME IInv, pop.at # "out"
               PROVE  /\ pending # <<>>
                      /\ Length(BytesAt(tail, 2)) = Len(Head(pending))
                      /\ pop.at # "header" => pop.len = Len(Head(pending))
                      /\ Need(Head(pending)) <= Used(head, tail)
    BY DEF LengthIsTrue
  <2> USE DEF IInv
  <2>1. pending # <<>>
    BY DEF PopInv
  <2>2. pop.at # "header" => pop.at \in {"payload", "publish"}
    BY PopTyped
  <2> QED BY <2>1, <2>2, HeaderRead, Oldest DEF PopInv
<1> QED BY <1>1, Inductive, PTL

\* The two threads, with no lock between them, implement a queue of whole frames: only
\* the store of the head puts one in, only the store of the tail takes one out, and what
\* is taken out is the oldest, byte for byte.
THEOREM ImplementsFifo == Spec => LossyFifo
<1>1. Init => Fifo!Init
  BY DEF Init, Fifo!Init
<1>2. IInv /\ [Next]_vars => [Fifo!Next]_(Fifo!vars)
  <2> SUFFICES ASSUME IInv, [Next]_vars PROVE Fifo!Next \/ UNCHANGED <<pending, out>>
    BY DEF Fifo!vars
  <2>1. CASE \E f \in Frames : BeginPush(f)
    BY <2>1 DEF BeginPush
  <2>2. CASE WriteHeader
    BY <2>2 DEF WriteHeader
  <2>3. CASE WritePayload
    BY <2>3 DEF WritePayload
  <2>4. CASE PublishHead
    <3>1. push.at # "out" /\ pending' = Append(pending, push.frame) /\ UNCHANGED out
      BY <2>4 DEF PublishHead
    <3>2. push.frame \in Frames
      BY <3>1, PushTyped DEF IInv
    <3>3. Fifo!Put(push.frame)
      BY <3>1 DEF Fifo!Put
    <3> QED BY <3>2, <3>3 DEF Fifo!Next
  <2>5. CASE BeginPop
    BY <2>5 DEF BeginPop
  <2>6. CASE ReadHeader
    BY <2>6, NeverDrains DEF ReadHeader
  <2>7. CASE ReadPayload
    BY <2>7 DEF ReadPayload
  <2>8. CASE PublishTail
    BY <2>8, PublishTailStep DEF Fifo!Next, Fifo!Take
  <2>9. CASE Reset
    BY <2>9 DEF Reset, Fifo!Next, Fifo!Forget
  <2>10. CASE UNCHANGED vars
    BY <2>10 DEF vars
  <2> QED BY <2>1, <2>2, <2>3, <2>4, <2>5, <2>6, <2>7, <2>8, <2>9, <2>10 DEF Next
<1> QED BY <1>1, <1>2, Inductive, PTL DEF Spec, LossyFifo, Fifo!Spec
=============================================================================
