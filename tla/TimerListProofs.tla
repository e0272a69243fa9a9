--------------------------- MODULE TimerListProofs ---------------------------
(***************************************************************************)
(* Proofs about TimerList, for any timers, delays and costs and stamps of  *)
(* any width: the list stays well linked, and, unless the history is       *)
(* adrift, sorted; so that no timer is late and each fires in its turn.    *)
(***************************************************************************)
EXTENDS TimerList, FiniteSetTheorems, TLAPS

----------------------------------------------------------------------------
(* Division of integers: what the provers do not know of \div and % *)

\* A multiple of a larger number is larger.
LEMMA TimesMonotone ==
    ASSUME NEW m \in Int, NEW n \in Int, NEW d \in Nat, m <= n
    PROVE  m * d <= n * d
<1>1. (n - m) * d >= 0 BY Z3
<1> QED BY <1>1, Z3

\* A number is its quotient times the divisor and a remainder below the divisor.
LEMMA IntDivision ==
    ASSUME NEW a \in Int, NEW d \in Nat \ {0}
    PROVE  /\ a \div d \in Int /\ a % d \in 0 .. d - 1
           /\ a = (a \div d) * d + (a % d)
<1>1. /\ a \div d \in Int /\ a % d \in 0 .. d - 1
      /\ a = d * (a \div d) + (a % d)
  BY Z3
<1> QED BY <1>1, Z3

\* The quotient of a natural number is one.
LEMMA Division ==
    ASSUME NEW a \in Nat, NEW d \in Nat \ {0}
    PROVE  /\ a \div d \in Nat /\ a % d \in 0 .. d - 1
           /\ a = (a \div d) * d + (a % d)
<1>1. a \div d >= 0
  BY Z3
<1> QED BY <1>1, IntDivision

\* There is only one such quotient and remainder.
LEMMA DivisionUnique ==
    ASSUME NEW a \in Int, NEW d \in Nat \ {0}, NEW q \in Int, NEW r \in 0 .. d - 1, a = q * d + r
    PROVE  a \div d = q /\ a % d = r
<1> DEFINE p == a \div d
           s == a % d
<1>1. p \in Int /\ s \in 0 .. d - 1 /\ p * d + s = q * d + r
  BY IntDivision
<1> HIDE DEF p, s
<1>2. ~(p + 1 <= q)
  <2> SUFFICES ASSUME p + 1 <= q PROVE FALSE OBVIOUS
  <2>1. (p + 1) * d <= q * d
    BY <1>1, TimesMonotone
  <2>2. (p + 1) * d = p * d + d
    BY <1>1
  <2> QED BY <1>1, <2>1, <2>2
<1>3. ~(q + 1 <= p)
  <2> SUFFICES ASSUME q + 1 <= p PROVE FALSE OBVIOUS
  <2>1. (q + 1) * d <= p * d
    BY <1>1, TimesMonotone
  <2>2. (q + 1) * d = q * d + d
    BY <1>1
  <2> QED BY <1>1, <2>1, <2>2
<1>4. p = q
  BY <1>1, <1>2, <1>3
<1>5. s = r
  BY <1>1, <1>4
<1> QED BY <1>4, <1>5 DEF p, s

\* Multiples of the divisor do not change a remainder.
LEMMA SameRemainder ==
    ASSUME NEW a \in Int, NEW d \in Nat \ {0}, NEW k \in Int
    PROVE  (a + k * d) % d = a % d
<1> DEFINE q == a \div d
           r == a % d
           c == a + k * d
<1>1. q \in Int /\ r \in 0 .. d - 1 /\ a = q * d + r
  BY IntDivision
<1> HIDE DEF q, r
<1>2. (q + k) * d = q * d + k * d
  BY <1>1
<1>3. q + k \in Int /\ c \in Int /\ c = (q + k) * d + r
  BY <1>1, <1>2
<1> HIDE DEF c
<1>4. c % d = r
  BY <1>1, <1>3, DivisionUnique
<1> QED BY <1>4 DEF c, r

\* A number that is already below the divisor is its own remainder.
LEMMA SmallRemainder ==
    ASSUME NEW d \in Nat \ {0}, NEW a \in 0 .. d - 1
    PROVE  a % d = a /\ a \div d = 0
<1>1. a = 0 * d + a /\ a \in Int
  OBVIOUS
<1> QED BY <1>1, DivisionUnique

----------------------------------------------------------------------------
(* The invariant *)

\* The i-th of the n timers s lists, and NoTimer at the ends.
Nth(n, s, i) == IF i \in 1 .. n THEN s[i] ELSE NoTimer

\* These links are those of the list of n timers s, which are the members.
Linked(n, s, l, members) ==
    /\ n \in 0 .. Cardinality(Timers) /\ s \in [1 .. n -> Timers]
    /\ \A i, j \in 1 .. n : s[i] = s[j] => i = j
    /\ members = {s[i] : i \in 1 .. n}
    /\ l.head = Nth(n, s, 1)
    /\ \A i \in 1 .. n : l.next[s[i]] = Nth(n, s, i + 1) /\ l.prev[s[i]] = Nth(n, s, i - 1)
    /\ \A t \in Timers \ members : l.next[t] = NoTimer /\ l.prev[t] = NoTimer

\* The list is sorted by the times its timers are due.
Sorted(n, s, due) == \A i, j \in 1 .. n : i <= j => due[s[i]] <= due[s[j]]

ListInv ==
    \E n \in 0 .. Cardinality(Timers) : \E s \in [1 .. n -> Timers] :
        /\ Linked(n, s, list, enabled)
        /\ ~adrift => Sorted(n, s, left)

\* The timer called back, as long as the callback has not armed it again.
Fired == at = "callback" /\ (current = SoundPoll \/ ~acted)
Called == IF Fired THEN {current} ELSE {}

ControlInv ==
    /\ enabled \subseteq valid /\ SoundPoll \in valid
    /\ SoundPoll \in enabled \cup Called
    /\ IF at = "callback" THEN current \in Timers ELSE current = NoTimer
    /\ enabled \cap Called = {}
    /\ at = "boot" => tsc = 0

\* A stamp is the time its timer is due.
Exact(t) == ts[t] = (tsc + left[t]) % Wrap

\* Cycles up to the target, and the longest that a slice is meant to last.
Ahead == Signed(target - tsc)
Period == IF cpu = "386" THEN Latch ELSE Slice

TimeInv ==
    ~adrift =>
        /\ \A t \in Timers : left[t] < Overdue + Half /\ (left[t] # Overdue => Exact(t))
        /\ \A t \in enabled \cup Called : Exact(t)
        /\ left[SoundPoll] <= Latch
        /\ \A t \in enabled : Ahead <= left[t]
        /\ Fired => left[current] <= 0
        /\ at = "boot" => Ahead >= 0
        /\ at = "outer" => Ahead >= 1
        /\ at \in {"slice", "process", "callback"} =>
            /\ room <= Period + 1 /\ Ahead >= room - Period
            /\ \A t \in Called : left[t] >= room - Period

\* The inductive invariant.
IInv == TypeOK /\ ListInv /\ ControlInv /\ TimeInv

----------------------------------------------------------------------------
(* Stamps *)

\* What the assumptions say of single sizes.
LEMMA Sizes ==
    /\ Half \in Nat \ {0} /\ Wrap \in Nat \ {0} /\ Wrap = Half + Half
    /\ Overdue \in Int /\ Overdue <= 0 /\ -Half <= Overdue /\ Overdue + Half \in Nat
    /\ Latch \in Delays /\ Latch \in Nat \ {0} /\ Slice \in Nat \ {0} /\ Slice <= Half
    /\ \A d \in Delays : d \in Nat \ {0} /\ d < Overdue + Half
    /\ \A c \in Costs : /\ c \in Nat \ {0} /\ c <= Half
                        /\ 1 - c - Latch >= Overdue /\ 1 - c - Slice >= Overdue
    /\ Strays \subseteq Stamps
<1> DEFINE q == Half \div 2
<1>1. Wrap \in Nat /\ Wrap % 2 = 0
  BY TimerAssumption
<1>2. Half \in Nat /\ Wrap = Half * 2
  <2>1. 2 \in Nat \ {0}
    OBVIOUS
  <2>2. Wrap \div 2 \in Nat /\ Wrap = (Wrap \div 2) * 2 + (Wrap % 2)
    BY ONLY <1>1, <2>1, Division
  <2> QED BY <1>1, <2>2 DEF Half
<1>3. q \in Nat /\ (Half = q + q \/ Half = q + q + 1)
  <2>1. 2 \in Nat \ {0}
    OBVIOUS
  <2>2. q \in Nat /\ Half % 2 \in 0 .. 2 - 1 /\ Half = q * 2 + (Half % 2)
    BY ONLY <1>2, <2>1, Division
  <2> QED BY <2>2
<1>4. /\ Latch \in Delays /\ Slice \in Nat \ {0} /\ Strays \subseteq 0 .. Wrap - 1
      /\ \A d \in Delays : d \in Nat \ {0}
      /\ \A c \in Costs : c \in Nat \ {0}
      /\ \E c \in Costs : TRUE
  BY TimerAssumption
<1>5. ASSUME NEW d \in Delays, NEW c \in Costs PROVE d + d + c <= Half
  BY TimerAssumption DEF Half
<1>6. ASSUME NEW c \in Costs PROVE Latch + c <= q + 1 /\ Slice + c <= q + 1
  <2>1. \A e \in {Latch, Slice} : e + c <= ((Wrap \div 2) \div 2) + 1
    BY TimerAssumption
  <2> QED BY <2>1 DEF Half
<1>7. Overdue = -q
  BY DEF Overdue
<1> HIDE DEF q
<1>8. ASSUME NEW d \in Delays PROVE d < Overdue + Half
  <2>1. PICK c \in Costs : TRUE
    BY <1>4
  <2>2. d + d + c <= Half
    BY <1>5
  <2>3. d \in Nat \ {0} /\ c \in Nat \ {0}
    BY <1>4
  <2> QED BY <1>2, <1>3, <1>7, <2>2, <2>3
<1>9. ASSUME NEW c \in Costs
      PROVE /\ c <= Half /\ 1 - c - Latch >= Overdue /\ 1 - c - Slice >= Overdue
            /\ Slice <= Half /\ Half # 0
  <2>1. c \in Nat \ {0} /\ Latch \in Nat \ {0}
    BY <1>4
  <2>2. Latch + Latch + c <= Half
    BY <1>4, <1>5
  <2> QED BY <1>2, <1>3, <1>4, <1>6, <1>7, <2>1, <2>2
<1>10. Half # 0 /\ Slice <= Half
  BY <1>4, <1>9
<1>11. Wrap = Half + Half
  BY <1>2
<1>12. Overdue \in Int /\ Overdue <= 0 /\ -Half <= Overdue /\ Overdue + Half \in Nat
  BY <1>2, <1>3, <1>7
<1>13. Wrap \in Nat \ {0} /\ Half \in Nat \ {0}
  BY <1>2, <1>10, <1>11
<1> QED BY <1>4, <1>8, <1>9, <1>10, <1>11, <1>12, <1>13 DEF Stamps

\* Wrapping one end of a sum does not change how the sum wraps.
LEMMA WrapPlus ==
    ASSUME NEW a \in Int, NEW x \in Int
    PROVE  (a % Wrap) \in Stamps /\ ((a % Wrap) + x) % Wrap = (a + x) % Wrap
<1> DEFINE k == a \div Wrap
           r == a % Wrap
<1>1. Wrap \in Nat \ {0}
  BY Sizes
<1>2. k \in Int /\ r \in 0 .. Wrap - 1 /\ a = k * Wrap + r
  BY <1>1, IntDivision
<1> HIDE DEF k, r
<1>3. k * Wrap \in Int
  BY <1>1, <1>2
<1>4. PICK s : s = r + x
  OBVIOUS
<1>5. s \in Int /\ a + x = s + k * Wrap
  BY <1>1, <1>2, <1>3, <1>4
<1>6. (s + k * Wrap) % Wrap = s % Wrap
  BY <1>1, <1>2, <1>5, SameRemainder
<1> QED BY <1>2, <1>4, <1>5, <1>6 DEF r, Stamps

\* The same of a difference.
LEMMA WrapMinus ==
    ASSUME NEW a \in Int, NEW x \in Int
    PROVE  (x - (a % Wrap)) % Wrap = (x - a) % Wrap
<1> DEFINE k == a \div Wrap
           r == a % Wrap
<1>1. Wrap \in Nat \ {0}
  BY Sizes
<1>2. k \in Int /\ r \in 0 .. Wrap - 1 /\ a = k * Wrap + r
  BY <1>1, IntDivision
<1> HIDE DEF k, r
<1>3. k * Wrap \in Int
  BY <1>1, <1>2
<1>4. PICK s : s = x - a
  OBVIOUS
<1>5. s \in Int /\ x - r = s + k * Wrap
  BY <1>1, <1>2, <1>3, <1>4
<1>6. (s + k * Wrap) % Wrap = s % Wrap
  BY <1>1, <1>2, <1>5, SameRemainder
<1> QED BY <1>4, <1>5, <1>6 DEF r

\* A small signed number wraps as stamps do.
LEMMA SmallWrap ==
    ASSUME NEW x \in -Half .. Half - 1
    PROVE  x % Wrap = IF x >= 0 THEN x ELSE x + Wrap
<1>1. Wrap \in Nat \ {0} /\ Half \in Nat \ {0} /\ Wrap = Half + Half
  BY Sizes
<1>2. CASE x >= 0
  <2>1. x \in 0 .. Wrap - 1
    BY <1>1, <1>2
  <2> QED BY <1>1, <1>2, <2>1, SmallRemainder
<1>3. CASE x < 0
  <2>1. PICK y : y = x + 1 * Wrap
    OBVIOUS
  <2>2. y \in 0 .. Wrap - 1 /\ y = x + Wrap
    BY <1>1, <1>3, <2>1
  <2>3. x \in Int /\ 1 \in Int
    BY <1>1
  <2>4. y % Wrap = x % Wrap
    BY <1>1, <2>1, <2>3, SameRemainder
  <2>5. y % Wrap = y
    BY <1>1, <2>2, SmallRemainder
  <2> QED BY <1>3, <2>2, <2>4, <2>5
<1> QED BY <1>1, <1>2, <1>3

\* Signed takes what wraps as x does for x, and Leq asks for its sign.
LEMMA SignedIs ==
    ASSUME NEW a \in Int, NEW x \in -Half .. Half - 1, a % Wrap = x % Wrap
    PROVE  Signed(a) = x
<1>1. Wrap \in Nat \ {0} /\ Half \in Nat \ {0} /\ Wrap = Half + Half
  BY Sizes
<1>2. a % Wrap = IF x >= 0 THEN x ELSE x + Wrap
  BY SmallWrap
<1>3. PICK r : r = a % Wrap
  OBVIOUS
<1>4. CASE x >= 0
  BY <1>1, <1>2, <1>4 DEF Signed
<1>5. CASE x < 0
  <2>1. r = x + Wrap /\ ~(r < Half) /\ r - Wrap = x
    BY <1>1, <1>2, <1>3, <1>5
  <2> QED BY <1>3, <2>1 DEF Signed
<1> QED BY <1>1, <1>4, <1>5

\* Signed picks the one that wraps alike and is the closest to zero.
LEMMA SignedRange ==
    ASSUME NEW a \in Int
    PROVE  Signed(a) \in -Half .. Half - 1 /\ Signed(a) % Wrap = a % Wrap
<1>1. Wrap \in Nat \ {0} /\ Half \in Nat \ {0} /\ Wrap = Half + Half
  BY Sizes
<1>2. PICK r : r = a % Wrap
  OBVIOUS
<1>3. r \in 0 .. Wrap - 1
  BY <1>1, <1>2, IntDivision
<1>4. Signed(a) = IF r < Half THEN r ELSE r - Wrap
  BY <1>2 DEF Signed
<1>5. Signed(a) \in -Half .. Half - 1
  BY <1>1, <1>3, <1>4
<1>6. Signed(a) % Wrap = r
  <2>1. PICK x : x = Signed(a)
    OBVIOUS
  <2>2. x % Wrap = IF x >= 0 THEN x ELSE x + Wrap
    BY <1>5, <2>1, SmallWrap
  <2> QED BY <1>1, <1>3, <1>4, <2>1, <2>2
<1> QED BY <1>2, <1>5, <1>6

\* Stamps compare by the sign of their signed difference.
LEMMA LeqIs ==
    ASSUME NEW a \in Int, NEW b \in Int
    PROVE  Leq(a, b) <=> Signed(a - b) <= 0
<1>1. Wrap \in Nat \ {0} /\ Half \in Nat \ {0} /\ Wrap = Half + Half
  BY Sizes
<1>2. PICK r : r = (a - b) % Wrap
  OBVIOUS
<1>3. r \in 0 .. Wrap - 1
  <2>1. a - b \in Int
    OBVIOUS
  <2> QED BY <1>1, <1>2, <2>1, IntDivision
<1>4. Leq(a, b) <=> r = 0 \/ r \in Half .. Wrap - 1
  BY <1>2 DEF Leq
<1>5. Signed(a - b) = IF r < Half THEN r ELSE r - Wrap
  BY <1>2 DEF Signed
<1> QED BY <1>1, <1>3, <1>4, <1>5

\* The stamp of a time x from now (the counter being b) tells x, ...
LEMMA StampTells ==
    ASSUME NEW b \in Int, NEW x \in -Half .. Half - 1, NEW stamp, stamp = (b + x) % Wrap
    PROVE  /\ stamp \in Stamps /\ Signed(stamp - b) = x /\ (Leq(stamp, b) <=> x <= 0)
<1>1. x \in Int /\ -b \in Int /\ b + x \in Int
  BY Sizes
<1>2. stamp \in Stamps /\ (stamp + (-b)) % Wrap = ((b + x) + (-b)) % Wrap
  BY <1>1, WrapPlus
<1>3. stamp \in Int
  BY <1>2, Sizes DEF Stamps
<1>4. stamp + (-b) = stamp - b /\ (b + x) + (-b) = x
  BY <1>1, <1>3
<1>5. PICK a : a = stamp - b
  OBVIOUS
<1>6. a \in Int /\ a % Wrap = x % Wrap
  BY <1>2, <1>3, <1>4, <1>5
<1>7. Signed(a) = x
  BY <1>6, SignedIs
<1> QED BY <1>2, <1>3, <1>5, <1>7, LeqIs

\* ... two such stamps compare as the times do, ...
LEMMA StampsCompare ==
    ASSUME NEW b \in Int, NEW x \in Int, NEW y \in Int, x - y \in -Half .. Half - 1,
           NEW p, p = (b + x) % Wrap, NEW q, q = (b + y) % Wrap
    PROVE  Leq(p, q) <=> x <= y
<1>1. PICK u, v : u = b + x /\ v = b + y
  OBVIOUS
<1>2. u \in Int /\ v \in Int
  BY <1>1
<1>3. p \in Stamps /\ q \in Stamps
  BY <1>1, <1>2, WrapPlus
<1>4. p \in Int /\ q \in Int /\ -q \in Int
  BY <1>3, Sizes DEF Stamps
<1>5. (p + (-q)) % Wrap = (u + (-q)) % Wrap
  BY <1>1, <1>2, <1>4, WrapPlus
<1>6. (u - q) % Wrap = (u - v) % Wrap
  BY <1>1, <1>2, WrapMinus
<1>7. p + (-q) = p - q /\ u + (-q) = u - q /\ u - v = x - y
  BY <1>1, <1>4
<1>8. PICK a, z : a = p - q /\ z = x - y
  OBVIOUS
<1>9. a \in Int /\ z \in -Half .. Half - 1 /\ a % Wrap = z % Wrap
  BY <1>4, <1>5, <1>6, <1>7, <1>8
<1>10. Signed(a) = z
  BY <1>9, SignedIs
<1>11. Leq(p, q) <=> Signed(p - q) <= 0
  BY <1>4, LeqIs
<1>12. z <= 0 <=> x <= y
  BY <1>8
<1> QED BY <1>8, <1>10, <1>11, <1>12

\* ... it stays the stamp of that time while the counter runs, ...
LEMMA StampStays ==
    ASSUME NEW b \in Int, NEW x \in Int, NEW c \in Int
    PROVE  (((b + c) % Wrap) + (x - c)) % Wrap = (b + x) % Wrap
<1>1. PICK u, y : u = b + c /\ y = x - c
  OBVIOUS
<1>2. u \in Int /\ y \in Int /\ u + y = b + x
  BY <1>1
<1>3. ((u % Wrap) + y) % Wrap = (u + y) % Wrap
  BY <1>2, WrapPlus
<1> QED BY <1>1, <1>2, <1>3

\* ... and d behind it is the stamp of d later.
LEMMA StampAdds ==
    ASSUME NEW b \in Int, NEW x \in Int, NEW d \in Int, NEW p, p = (b + x) % Wrap
    PROVE  (p + d) % Wrap = (b + (x + d)) % Wrap
<1>1. PICK u : u = b + x
  OBVIOUS
<1>2. u \in Int /\ u + d = b + (x + d)
  BY <1>1
<1>3. ((u % Wrap) + d) % Wrap = (u + d) % Wrap
  BY <1>2, WrapPlus
<1> QED BY <1>1, <1>2, <1>3

\* What is ahead shrinks as the counter runs.
LEMMA AheadShrinks ==
    ASSUME NEW a \in Int, NEW b \in Int, NEW c \in Nat, Signed(a - b) - c >= -Half
    PROVE  Signed(a - ((b + c) % Wrap)) = Signed(a - b) - c
<1>1. PICK g : g = Signed(a - b)
  OBVIOUS
<1>2. PICK m : m = a - b
  OBVIOUS
<1>3. m \in Int /\ -c \in Int
  BY <1>2
<1>4. g \in -Half .. Half - 1 /\ g % Wrap = m % Wrap
  BY <1>1, <1>2, <1>3, SignedRange
<1>5. g \in Int /\ g - c \in -Half .. Half - 1
  BY <1>1, <1>4, Sizes
<1>6. PICK u : u = b + c
  OBVIOUS
<1>7. u \in Int /\ u % Wrap \in Stamps /\ (a - (u % Wrap)) % Wrap = (a - u) % Wrap
  <2>1. u \in Int
    BY <1>6
  <2> QED BY <2>1, <1>3, WrapMinus, WrapPlus
<1>8. a - u = m + (-c) /\ g - c = g + (-c)
  BY <1>2, <1>5, <1>6
<1>9. ((m % Wrap) + (-c)) % Wrap = (m + (-c)) % Wrap
  BY <1>3, WrapPlus
<1>10. ((g % Wrap) + (-c)) % Wrap = (g + (-c)) % Wrap
  BY <1>3, <1>5, WrapPlus
<1>11. PICK n, z : n = a - (u % Wrap) /\ z = g - c
  OBVIOUS
<1>12. n \in Int
  BY <1>7, <1>11, Sizes DEF Stamps
<1>13. n % Wrap = z % Wrap
  BY <1>4, <1>7, <1>8, <1>9, <1>10, <1>11
<1>14. Signed(n) = z
  BY <1>5, <1>11, <1>12, <1>13, SignedIs
<1> QED BY <1>1, <1>6, <1>11, <1>14

----------------------------------------------------------------------------
(* The list *)

\* A set of naturals that is not empty has a least element.
LEMMA Least ==
    ASSUME NEW T \in SUBSET Nat, T # {}
    PROVE  \E x \in T : \A y \in T : x <= y
<1> DEFINE R == OpToRel(<, Nat)
<1>1. IsWellFoundedOn(R, Nat)
  BY NatLessThanWellFounded
<1>2. \A x, y \in Nat : x < y => <<x, y>> \in R
  BY DEF OpToRel
<1> HIDE DEF R
<1>3. PICK x \in T : \A y \in T : ~(<<y, x>> \in R)
  BY <1>1, WFMin
<1>4. ASSUME NEW y \in T PROVE x <= y
  <2>1. x \in Nat /\ y \in Nat
    OBVIOUS
  <2>2. ~(y < x)
    BY <1>2, <1>3, <2>1
  <2> QED BY <2>1, <2>2
<1> QED BY <1>4

\* The machine has some number of timers, the sound's among them.
LEMMA TimersFinite ==
    /\ IsFiniteSet(Timers) /\ Cardinality(Timers) \in Nat \ {0}
    /\ SoundPoll \in Timers /\ NoTimer \notin Timers
<1>1. IsFiniteSet(Timers) /\ SoundPoll \in Timers /\ NoTimer \notin Timers
  BY TimerAssumption
<1>2. Cardinality(Timers) \in Nat
  BY <1>1, FS_CardinalityType
<1>3. Cardinality(Timers) # 0
  BY <1>1, FS_EmptySet
<1> QED BY <1>1, <1>2, <1>3

\* A list without a timer can still take it.
LEMMA RoomForOne ==
    ASSUME NEW n \in Nat, NEW s \in [1 .. n -> Timers],
           \A i, j \in 1 .. n : s[i] = s[j] => i = j,
           NEW t \in Timers, \A i \in 1 .. n : s[i] # t
    PROVE  n + 1 <= Cardinality(Timers)
<1> DEFINE f == [i \in 1 .. n + 1 |-> IF i <= n THEN s[i] ELSE t]
<1>1. f \in Injection(1 .. n + 1, Timers)
  <2>1. \A i \in 1 .. n + 1 : f[i] \in Timers
    OBVIOUS
  <2>2. ASSUME NEW i \in 1 .. n + 1, NEW j \in 1 .. n + 1, f[i] = f[j]
        PROVE  i = j
    <3>1. (i \in 1 .. n \/ i = n + 1) /\ (j \in 1 .. n \/ j = n + 1)
      OBVIOUS
    <3> QED BY <2>2, <3>1
  <2>3. f \in [1 .. n + 1 -> Timers]
    BY <2>1
  <2> HIDE DEF f
  <2> QED BY <2>2, <2>3 DEF Injection, IsInjective
<1> HIDE DEF f
<1>2. Cardinality(1 .. n + 1) <= Cardinality(Timers)
  BY <1>1, TimersFinite, FS_Injection
<1>3. Cardinality(1 .. n + 1) = n + 1
  <2>1. 1 \in Int /\ n + 1 \in Int /\ ~(1 > n + 1) /\ (n + 1) - 1 + 1 = n + 1
    OBVIOUS
  <2> QED BY <2>1, FS_Interval
<1> QED BY <1>2, <1>3

\* The shape of the links.
Links == [head : MaybeTimer, next : [Timers -> MaybeTimer], prev : [Timers -> MaybeTimer]]

\* Lists without the k-th, and with t as the new k-th.
Cut(n, s, k) == [i \in 1 .. n - 1 |-> IF i < k THEN s[i] ELSE s[i + 1]]
Insert(n, s, k, t) == [i \in 1 .. n + 1 |-> IF i < k THEN s[i] ELSE IF i = k THEN t ELSE s[i - 1]]

\* Linking the k-th timer out leaves the links of the others.
LEMMA WithoutLinked ==
    ASSUME NEW l \in Links, NEW n, NEW s, NEW E, Linked(n, s, l, E), NEW k \in 1 .. n
    PROVE  /\ Linked(n - 1, Cut(n, s, k), Without(l, s[k]), E \ {s[k]})
           /\ Without(l, s[k]) \in Links
<1> DEFINE r == Without(l, s[k])
           u == Cut(n, s, k)
           t == s[k]
<1>1. /\ n \in Nat /\ s \in [1 .. n -> Timers] /\ n <= Cardinality(Timers) /\ n # 0
      /\ \A i, j \in 1 .. n : s[i] = s[j] => i = j
      /\ NoTimer \notin Timers /\ Cardinality(Timers) \in Nat
  BY TimersFinite DEF Linked
<1>2. t \in Timers /\ \A i \in 1 .. n : s[i] \in Timers /\ s[i] # NoTimer
  BY <1>1
<1>3. /\ E = {s[i] : i \in 1 .. n} /\ l.head = Nth(n, s, 1)
      /\ \A i \in 1 .. n : l.next[s[i]] = Nth(n, s, i + 1) /\ l.prev[s[i]] = Nth(n, s, i - 1)
      /\ \A x \in Timers \ E : l.next[x] = NoTimer /\ l.prev[x] = NoTimer
  BY DEF Linked
<1>4. l.next[t] = Nth(n, s, k + 1) /\ l.prev[t] = Nth(n, s, k - 1)
  BY <1>3
<1>5. n - 1 \in 0 .. Cardinality(Timers) /\ u \in [1 .. n - 1 -> Timers]
  <2>1. \A i \in 1 .. n - 1 : i \in 1 .. n /\ i + 1 \in 1 .. n
    BY <1>1
  <2>2. \A i \in 1 .. n - 1 : (IF i < k THEN s[i] ELSE s[i + 1]) \in Timers
    BY <1>2, <2>1
  <2> QED BY <1>1, <2>2 DEF Cut
<1>6. \A i \in 1 .. n - 1 : u[i] = IF i < k THEN s[i] ELSE s[i + 1]
  BY DEF Cut
<1>7. \A i, j \in 1 .. n - 1 : u[i] = u[j] => i = j
  <2> SUFFICES ASSUME NEW i \in 1 .. n - 1, NEW j \in 1 .. n - 1, u[i] = u[j]
               PROVE  i = j
    OBVIOUS
  <2> DEFINE a == IF i < k THEN i ELSE i + 1
             b == IF j < k THEN j ELSE j + 1
  <2>1. a \in 1 .. n /\ b \in 1 .. n
    BY <1>1
  <2>2. u[i] = s[a] /\ u[j] = s[b]
    BY <1>6
  <2>3. a = b
    <3> HIDE DEF a, b, u
    <3> QED BY <1>1, <2>1, <2>2
  <2> QED BY <2>3
<1>8. E \ {t} = {u[i] : i \in 1 .. n - 1}
  <2>1. ASSUME NEW x \in E \ {t} PROVE \E i \in 1 .. n - 1 : u[i] = x
    <3>1. PICK i \in 1 .. n : s[i] = x
      BY <1>3
    <3>2. i # k
      BY <3>1
    <3>3. CASE i < k
      <4>1. i \in 1 .. n - 1
        BY <1>1, <3>3
      <4>2. u[i] = x
        BY <1>6, <3>1, <3>3, <4>1
      <4> QED BY <4>1, <4>2
    <3>4. CASE i > k
      <4>1. i - 1 \in 1 .. n - 1 /\ ~(i - 1 < k) /\ (i - 1) + 1 = i
        BY <1>1, <3>4
      <4>2. u[i - 1] = x
        BY <1>6, <3>1, <4>1
      <4> QED BY <4>1, <4>2
    <3> QED BY <1>1, <3>2, <3>3, <3>4
  <2>2. ASSUME NEW i \in 1 .. n - 1 PROVE u[i] \in E \ {t}
    <3> DEFINE a == IF i < k THEN i ELSE i + 1
    <3>1. a \in 1 .. n /\ a # k
      BY <1>1
    <3>2. u[i] = s[a]
      BY <1>6
    <3> HIDE DEF a, u
    <3>3. s[a] # s[k]
      BY <1>1, <3>1
    <3> QED BY <1>3, <3>1, <3>2, <3>3
  <2> HIDE DEF u, t
  <2> QED BY <2>1, <2>2
<1> HIDE DEF u
<1>9. /\ r.head = (IF l.prev[t] = NoTimer THEN l.next[t] ELSE l.head)
      /\ \A x \in Timers : r.next[x] = CASE x = t -> NoTimer [] x = l.prev[t] -> l.next[t] [] OTHER -> l.next[x]
      /\ \A x \in Timers : r.prev[x] = CASE x = t -> NoTimer [] x = l.next[t] -> l.prev[t] [] OTHER -> l.prev[x]
  BY DEF Without
<1>10. r \in Links
  <2>1. r = [head |-> r.head, next |-> r.next, prev |-> r.prev]
    BY DEF Without
  <2>2. /\ l.head \in MaybeTimer /\ l.next \in [Timers -> MaybeTimer]
        /\ l.prev \in [Timers -> MaybeTimer] /\ NoTimer \in MaybeTimer
    BY DEF Links, MaybeTimer
  <2>3. r.next \in [Timers -> MaybeTimer] /\ r.prev \in [Timers -> MaybeTimer]
    BY <1>2, <2>2 DEF Without
  <2>4. r.head \in MaybeTimer
    BY <1>2, <1>9, <2>2
  <2> HIDE DEF r
  <2> QED BY <2>1, <2>3, <2>4 DEF Links
<1> HIDE DEF r, t
<1>11. r.head = Nth(n - 1, u, 1)
  <2>1. CASE k = 1
    <3>1. l.prev[t] = NoTimer
      BY <1>4, <2>1 DEF Nth
    <3>2. r.head = Nth(n, s, 2)
      BY <1>4, <1>9, <2>1, <3>1
    <3>3. CASE n = 1
      BY <3>2, <3>3 DEF Nth
    <3>4. CASE n # 1
      <4>1. 2 \in 1 .. n /\ 1 \in 1 .. n - 1
        BY <1>1, <3>4
      <4>2. u[1] = s[2]
        BY <1>6, <2>1, <4>1
      <4> QED BY <3>2, <4>1, <4>2 DEF Nth
    <3> QED BY <3>3, <3>4
  <2>2. CASE k # 1
    <3>1. k - 1 \in 1 .. n /\ 1 \in 1 .. n - 1 /\ 1 < k /\ 1 \in 1 .. n
      BY <1>1, <2>2
    <3>2. l.prev[t] # NoTimer
      BY <1>2, <1>4, <3>1 DEF Nth
    <3>3. r.head = s[1]
      BY <1>3, <1>9, <3>1, <3>2 DEF Nth
    <3>4. u[1] = s[1]
      BY <1>6, <3>1
    <3> QED BY <3>1, <3>3, <3>4 DEF Nth
  <2> QED BY <2>1, <2>2
<1>12. \A i \in 1 .. n - 1 : r.next[u[i]] = Nth(n - 1, u, i + 1) /\ r.prev[u[i]] = Nth(n - 1, u, i - 1)
  <2> SUFFICES ASSUME NEW i \in 1 .. n - 1
               PROVE  r.next[u[i]] = Nth(n - 1, u, i + 1) /\ r.prev[u[i]] = Nth(n - 1, u, i - 1)
    OBVIOUS
  <2>a. PICK a : a = IF i < k THEN i ELSE i + 1
    OBVIOUS
  <2>1. a \in 1 .. n /\ a # k /\ u[i] = s[a]
    BY <1>1, <1>6, <2>a
  <2>2. s[a] # t /\ s[a] \in Timers
    BY <1>1, <1>2, <2>1 DEF t
  <2>3. /\ s[a] = l.prev[t] <=> a = k - 1
        /\ s[a] = l.next[t] <=> a = k + 1
    BY <1>1, <1>2, <1>4, <2>1 DEF Nth
  <2>4. r.next[u[i]] = IF a = k - 1 THEN Nth(n, s, k + 1) ELSE Nth(n, s, a + 1)
    <3>1. r.next[s[a]] = IF s[a] = l.prev[t] THEN l.next[t] ELSE l.next[s[a]]
      BY <1>9, <2>2
    <3> QED BY <1>3, <1>4, <2>1, <2>3, <3>1
  <2>5. r.prev[u[i]] = IF a = k + 1 THEN Nth(n, s, k - 1) ELSE Nth(n, s, a - 1)
    <3>1. r.prev[s[a]] = IF s[a] = l.next[t] THEN l.prev[t] ELSE l.prev[s[a]]
      BY <1>9, <2>2
    <3> QED BY <1>3, <1>4, <2>1, <2>3, <3>1
  <2>6. Nth(n - 1, u, i + 1) = IF a = k - 1 THEN Nth(n, s, k + 1) ELSE Nth(n, s, a + 1)
    <3>1. CASE i + 1 \in 1 .. n - 1
      <4>1. Nth(n - 1, u, i + 1) = IF i + 1 < k THEN s[i + 1] ELSE s[(i + 1) + 1]
        BY <1>6, <3>1 DEF Nth
      <4> QED BY <1>1, <2>a, <3>1, <4>1 DEF Nth
    <3>2. CASE i + 1 \notin 1 .. n - 1
      <4>1. i = n - 1 /\ Nth(n - 1, u, i + 1) = NoTimer
        BY <1>1, <3>2 DEF Nth
      <4> QED BY <1>1, <2>a, <4>1 DEF Nth
    <3> QED BY <3>1, <3>2
  <2>7. Nth(n - 1, u, i - 1) = IF a = k + 1 THEN Nth(n, s, k - 1) ELSE Nth(n, s, a - 1)
    <3>1. CASE i - 1 \in 1 .. n - 1
      <4>1. Nth(n - 1, u, i - 1) = IF i - 1 < k THEN s[i - 1] ELSE s[(i - 1) + 1]
        BY <1>6, <3>1 DEF Nth
      <4> QED BY <1>1, <2>a, <3>1, <4>1 DEF Nth
    <3>2. CASE i - 1 \notin 1 .. n - 1
      <4>1. i = 1 /\ Nth(n - 1, u, i - 1) = NoTimer
        BY <1>1, <3>2 DEF Nth
      <4> QED BY <1>1, <2>a, <4>1 DEF Nth
    <3> QED BY <3>1, <3>2
  <2> QED BY <2>4, <2>5, <2>6, <2>7
<1>13. \A x \in Timers \ (E \ {t}) : r.next[x] = NoTimer /\ r.prev[x] = NoTimer
  <2> SUFFICES ASSUME NEW x \in Timers \ (E \ {t})
               PROVE  r.next[x] = NoTimer /\ r.prev[x] = NoTimer
    OBVIOUS
  <2>t. CASE x = t
    <3>1. t \in Timers
      BY <1>2
    <3>2. l.prev[t] # t /\ l.next[t] # t
      BY <1>1, <1>4, <3>1 DEF Nth, t
    <3>3. r.next[t] = NoTimer /\ r.prev[t] = NoTimer
      BY <1>9, <3>1, <3>2
    <3> QED BY <2>t, <3>3
  <2> SUFFICES ASSUME x # t
               PROVE  r.next[x] = NoTimer /\ r.prev[x] = NoTimer
    BY <2>t
  <2>1. x \in Timers \ E
    OBVIOUS
  <2>2. \A i \in 1 .. n : s[i] # x
    BY <1>3, <2>1
  <2>3. x # l.prev[t] /\ x # l.next[t]
    BY <1>1, <1>4, <2>2 DEF Nth
  <2> QED BY <1>3, <1>9, <2>1, <2>3
<1>14. Linked(n - 1, u, r, E \ {t})
  BY <1>5, <1>7, <1>8, <1>11, <1>12, <1>13 DEF Linked
<1> QED BY <1>10, <1>14 DEF r, u, t

\* The walk along the links meets the timers in their order.
LEMMA WalkIs ==
    ASSUME NEW l, NEW n, NEW s, NEW E, Linked(n, s, l, E)
    PROVE  /\ DOMAIN Walk(l) = 1 .. Cardinality(Timers)
           /\ \A i \in 1 .. Cardinality(Timers) : Walk(l)[i] = Nth(n, s, i)
<1>m. PICK m : m = Cardinality(Timers)
  OBVIOUS
<1>1. /\ m \in Nat \ {0} /\ n \in Nat /\ n <= m /\ NoTimer \notin Timers
      /\ \A i \in 1 .. n : s[i] \in Timers
      /\ l.head = Nth(n, s, 1) /\ \A i \in 1 .. n : l.next[s[i]] = Nth(n, s, i + 1)
  BY <1>m, TimersFinite DEF Linked
<1> DEFINE Follows(f) ==
        f = [i \in 1 .. m |->
                IF i = 1 THEN l.head ELSE IF f[i - 1] = NoTimer THEN NoTimer ELSE l.next[f[i - 1]]]
           w == Walk(l)
<1>2. \A i \in 2 .. m : Nth(n, s, i) = IF Nth(n, s, i - 1) = NoTimer THEN NoTimer
                                       ELSE l.next[Nth(n, s, i - 1)]
  <2> SUFFICES ASSUME NEW i \in 2 .. m
               PROVE  Nth(n, s, i) = IF Nth(n, s, i - 1) = NoTimer THEN NoTimer
                                     ELSE l.next[Nth(n, s, i - 1)]
    OBVIOUS
  <2>1. CASE i - 1 <= n
    <3>1. i - 1 \in 1 .. n /\ (i - 1) + 1 = i
      BY <1>1, <2>1
    <3>2. Nth(n, s, i - 1) = s[i - 1] /\ s[i - 1] # NoTimer
      BY <1>1, <3>1 DEF Nth
    <3>3. l.next[s[i - 1]] = Nth(n, s, i)
      BY <1>1, <3>1
    <3> QED BY <3>2, <3>3
  <2>2. CASE ~(i - 1 <= n)
    BY <1>1, <2>2 DEF Nth
  <2> QED BY <2>1, <2>2
<1>3. \E f : Follows(f)
  <2>1. PICK g : g = [i \in 1 .. m |-> Nth(n, s, i)]
    OBVIOUS
  <2>2. ASSUME NEW i \in 1 .. m
        PROVE  Nth(n, s, i) = IF i = 1 THEN l.head
                              ELSE IF g[i - 1] = NoTimer THEN NoTimer ELSE l.next[g[i - 1]]
    <3>1. CASE i = 1
      BY <1>1, <3>1
    <3>2. CASE i # 1
      <4>1. i \in 2 .. m /\ i - 1 \in 1 .. m
        BY <1>1, <3>2
      <4>2. g[i - 1] = Nth(n, s, i - 1)
        BY <2>1, <4>1
      <4> QED BY <1>2, <3>2, <4>1, <4>2
    <3> QED BY <3>1, <3>2
  <2>3. Follows(g)
    BY <2>1, <2>2
  <2> QED BY <2>3
<1>4. w = CHOOSE f : Follows(f)
  BY <1>m DEF Walk
<1>5. Follows(w)
  <2> HIDE DEF Follows, w
  <2> QED BY <1>3, <1>4
<1>6. /\ DOMAIN w = 1 .. m
      /\ \A i \in 1 .. m : w[i] = IF i = 1 THEN l.head
                                  ELSE IF w[i - 1] = NoTimer THEN NoTimer ELSE l.next[w[i - 1]]
  <2> HIDE DEF w
  <2> QED BY <1>5
<1> HIDE DEF w, Follows
<1>7. \A i \in 1 .. m : w[i] = Nth(n, s, i)
  <2> DEFINE Bad == {i \in 1 .. m : w[i] # Nth(n, s, i)}
  <2> SUFFICES ASSUME Bad # {} PROVE FALSE
    OBVIOUS
  <2>1. Bad \in SUBSET Nat
    OBVIOUS
  <2> HIDE DEF Bad
  <2>2. PICK k \in Bad : \A j \in Bad : k <= j
    BY <2>1, Least
  <2>3. k \in 1 .. m /\ w[k] # Nth(n, s, k)
    BY <2>2 DEF Bad
  <2>4. CASE k = 1
    BY <1>1, <1>6, <2>3, <2>4
  <2>5. CASE k # 1
    <3>1. k \in 2 .. m /\ k - 1 \in 1 .. m /\ ~(k <= k - 1)
      BY <1>1, <2>3, <2>5
    <3>2. w[k - 1] = Nth(n, s, k - 1)
      BY <2>2, <3>1 DEF Bad
    <3> QED BY <1>2, <1>6, <2>3, <2>5, <3>1, <3>2
  <2> QED BY <2>4, <2>5
<1> QED BY <1>m, <1>6, <1>7 DEF w

\* Linking t in puts it in front of the first that does not expire before it.
LEMMA WithLinked ==
    ASSUME NEW l \in Links, NEW n, NEW s, NEW E, Linked(n, s, l, E),
           NEW t \in Timers, t \notin E, NEW stamp
    PROVE  /\ With(l, t, stamp) \in Links
           /\ \E k \in 1 .. n + 1 :
                  /\ Linked(n + 1, Insert(n, s, k, t), With(l, t, stamp), E \cup {t})
                  /\ \A i \in 1 .. k - 1 : ~Leq(stamp, ts[s[i]])
                  /\ k <= n => Leq(stamp, ts[s[k]])
<1> DEFINE r == With(l, t, stamp)
           w == Walk(l)
<1>m. PICK m : m = Cardinality(Timers)
  OBVIOUS
<1>1. /\ n \in Nat /\ s \in [1 .. n -> Timers] /\ m \in Nat
      /\ \A i, j \in 1 .. n : s[i] = s[j] => i = j
      /\ NoTimer \notin Timers
  BY <1>m, TimersFinite DEF Linked
<1>2. \A i \in 1 .. n : s[i] \in Timers /\ s[i] # NoTimer
  BY <1>1
<1>3. /\ E = {s[i] : i \in 1 .. n} /\ l.head = Nth(n, s, 1)
      /\ \A i \in 1 .. n : l.next[s[i]] = Nth(n, s, i + 1) /\ l.prev[s[i]] = Nth(n, s, i - 1)
      /\ \A x \in Timers \ E : l.next[x] = NoTimer /\ l.prev[x] = NoTimer
  BY DEF Linked
<1>4. \A i \in 1 .. n : s[i] # t
  BY <1>3
<1>5. n + 1 <= m
  BY <1>m, <1>1, <1>4, RoomForOne
<1>6. \A i \in 1 .. m : w[i] = Nth(n, s, i)
  BY <1>m, WalkIs
<1> DEFINE Stops(i) == w[i] = NoTimer \/ Leq(stamp, ts[w[i]])
           stop == CHOOSE i \in 1 .. m :
                       /\ w[i] = NoTimer \/ Leq(stamp, ts[w[i]])
                       /\ \A j \in 1 .. i - 1 : w[j] # NoTimer /\ ~Leq(stamp, ts[w[j]])
<1>7. /\ stop \in 1 .. m /\ Stops(stop) /\ \A j \in 1 .. stop - 1 : ~Stops(j)
  <2> DEFINE Candidates == {i \in 1 .. m : Stops(i)}
  <2>1. n + 1 \in Candidates
    <3>1. n + 1 \in 1 .. m
      BY <1>1, <1>5
    <3>2. w[n + 1] = NoTimer
      BY <1>1, <1>6, <3>1 DEF Nth
    <3> QED BY <3>1, <3>2
  <2>2. Candidates \in SUBSET Nat /\ Candidates # {}
    BY <2>1
  <2> HIDE DEF Candidates
  <2>3. PICK i \in Candidates : \A j \in Candidates : i <= j
    BY <2>2, Least
  <2>4. i \in 1 .. m /\ Stops(i)
    BY <2>3 DEF Candidates
  <2>5. \A j \in 1 .. i - 1 : ~Stops(j)
    <3> SUFFICES ASSUME NEW j \in 1 .. i - 1 PROVE ~Stops(j)
      OBVIOUS
    <3>1. j \in 1 .. m /\ ~(i <= j)
      BY <1>1, <2>4
    <3> QED BY <2>3, <3>1 DEF Candidates
  <2>6. \E x \in 1 .. m : /\ w[x] = NoTimer \/ Leq(stamp, ts[w[x]])
                          /\ \A j \in 1 .. x - 1 : w[j] # NoTimer /\ ~Leq(stamp, ts[w[j]])
    BY <2>4, <2>5
  <2> HIDE DEF w
  <2> QED BY <2>6
<1>k. PICK k : k = stop
  OBVIOUS
<1>w. r = LET nx == w[k]
              p == IF k = 1 THEN NoTimer ELSE w[k - 1]
          IN  [head |-> IF p = NoTimer THEN t ELSE l.head,
               next |-> [x \in Timers |-> CASE x = t -> nx [] x = p -> t [] OTHER -> l.next[x]],
               prev |-> [x \in Timers |-> CASE x = t -> p [] x = nx -> t [] OTHER -> l.prev[x]]]
  BY <1>m, <1>k DEF With
<1> HIDE DEF w, stop
<1>8. k \in 1 .. n + 1
  <2>1. k \in 1 .. m /\ \A j \in 1 .. k - 1 : w[j] # NoTimer
    BY <1>7, <1>k
  <2>2. ~(n + 1 \in 1 .. k - 1)
    <3> SUFFICES ASSUME n + 1 \in 1 .. k - 1 PROVE FALSE
      OBVIOUS
    <3>1. n + 1 \in 1 .. m
      BY <1>1, <1>5
    <3>2. w[n + 1] = NoTimer
      BY <1>1, <1>6, <3>1 DEF Nth
    <3> QED BY <2>1, <3>2
  <2> QED BY <1>1, <2>1, <2>2
<1>9. w[k] = Nth(n, s, k) /\ (k # 1 => w[k - 1] = Nth(n, s, k - 1))
  <2>1. k \in 1 .. m /\ (k # 1 => k - 1 \in 1 .. m)
    BY <1>1, <1>5, <1>8
  <2> QED BY <1>6, <2>1
<1>10. \A i \in 1 .. k - 1 : ~Leq(stamp, ts[s[i]])
  <2> SUFFICES ASSUME NEW i \in 1 .. k - 1 PROVE ~Leq(stamp, ts[s[i]])
    OBVIOUS
  <2>1. i \in 1 .. n /\ i \in 1 .. m
    BY <1>1, <1>5, <1>8
  <2>2. w[i] = s[i]
    BY <1>6, <2>1 DEF Nth
  <2> QED BY <1>7, <1>k, <2>2
<1>11. k <= n => Leq(stamp, ts[s[k]])
  <2> SUFFICES ASSUME k <= n PROVE Leq(stamp, ts[s[k]])
    OBVIOUS
  <2>1. k \in 1 .. n
    BY <1>1, <1>8
  <2>2. w[k] = s[k] /\ s[k] # NoTimer
    BY <1>2, <1>9, <2>1 DEF Nth
  <2> QED BY <1>7, <1>k, <2>2
<1> HIDE DEF Stops
<1> DEFINE u == Insert(n, s, k, t)
<1>12. u \in [1 .. n + 1 -> Timers]
  <2>1. \A i \in 1 .. n + 1 : (i < k => i \in 1 .. n) /\ (i > k => i - 1 \in 1 .. n)
    BY <1>1, <1>8
  <2>2. \A i \in 1 .. n + 1 : (IF i < k THEN s[i] ELSE IF i = k THEN t ELSE s[i - 1]) \in Timers
    BY <1>2, <1>8, <2>1
  <2> QED BY <2>2 DEF Insert
<1>13. \A i \in 1 .. n + 1 : u[i] = IF i < k THEN s[i] ELSE IF i = k THEN t ELSE s[i - 1]
  BY DEF Insert
<1> HIDE DEF u
<1>14. \A i, j \in 1 .. n + 1 : u[i] = u[j] => i = j
  <2> SUFFICES ASSUME NEW i \in 1 .. n + 1, NEW j \in 1 .. n + 1, u[i] = u[j]
               PROVE  i = j
    OBVIOUS
  <2>a. PICK a, b : a = (IF i < k THEN i ELSE i - 1) /\ b = IF j < k THEN j ELSE j - 1
    OBVIOUS
  <2>1. /\ i # k => a \in 1 .. n /\ u[i] = s[a]
        /\ j # k => b \in 1 .. n /\ u[j] = s[b]
    BY <1>1, <1>8, <1>13, <2>a
  <2>2. (i = k => u[i] = t) /\ (j = k => u[j] = t)
    BY <1>8, <1>13
  <2>3. i = k <=> j = k
    BY <1>4, <2>1, <2>2
  <2>4. i # k /\ j # k => a = b
    BY <1>1, <2>1
  <2> QED BY <1>8, <2>a, <2>3, <2>4
<1>15. E \cup {t} = {u[i] : i \in 1 .. n + 1}
  <2>1. ASSUME NEW x \in E \cup {t} PROVE \E i \in 1 .. n + 1 : u[i] = x
    <3>1. CASE x = t
      <4>1. u[k] = t
        BY <1>8, <1>13
      <4> QED BY <1>8, <3>1, <4>1
    <3>2. CASE x \in E
      <4>1. PICK i \in 1 .. n : s[i] = x
        BY <1>3, <3>2
      <4>2. CASE i < k
        <5>1. i \in 1 .. n + 1
          BY <1>1
        <5>2. u[i] = x
          BY <1>13, <4>1, <4>2, <5>1
        <5> QED BY <5>1, <5>2
      <4>3. CASE i >= k
        <5>1. i + 1 \in 1 .. n + 1 /\ ~(i + 1 < k) /\ i + 1 # k /\ (i + 1) - 1 = i
          BY <1>1, <1>8, <4>3
        <5>2. u[i + 1] = x
          BY <1>13, <4>1, <5>1
        <5> QED BY <5>1, <5>2
      <4> QED BY <1>8, <4>2, <4>3
    <3> QED BY <3>1, <3>2
  <2>2. ASSUME NEW i \in 1 .. n + 1 PROVE u[i] \in E \cup {t}
    <3>1. CASE i = k
      BY <1>13, <3>1
    <3>2. CASE i # k
      <4>1. PICK a : a = IF i < k THEN i ELSE i - 1
        OBVIOUS
      <4>2. a \in 1 .. n /\ u[i] = s[a]
        BY <1>1, <1>8, <1>13, <3>2, <4>1
      <4> QED BY <1>3, <4>2
    <3> QED BY <3>1, <3>2
  <2> QED BY <2>1, <2>2
<1>p. PICK p : p = IF k = 1 THEN NoTimer ELSE w[k - 1]
  OBVIOUS
<1>16. p = Nth(n, s, k - 1) /\ w[k] = Nth(n, s, k)
  <2>1. k = 1 => Nth(n, s, k - 1) = NoTimer
    BY DEF Nth
  <2> QED BY <1>9, <1>p, <2>1
<1>17. /\ r.head = IF p = NoTimer THEN t ELSE l.head
       /\ \A x \in Timers : r.next[x] = CASE x = t -> w[k] [] x = p -> t [] OTHER -> l.next[x]
       /\ \A x \in Timers : r.prev[x] = CASE x = t -> p [] x = w[k] -> t [] OTHER -> l.prev[x]
  BY <1>p, <1>w
<1>18. r \in Links
  <2>1. /\ l.head \in MaybeTimer /\ l.next \in [Timers -> MaybeTimer]
        /\ l.prev \in [Timers -> MaybeTimer] /\ t \in MaybeTimer
    BY DEF Links, MaybeTimer
  <2>2. p \in MaybeTimer /\ w[k] \in MaybeTimer
    BY <1>2, <1>16 DEF Nth, MaybeTimer
  <2>3. /\ r.next = [x \in Timers |-> CASE x = t -> w[k] [] x = p -> t [] OTHER -> l.next[x]]
        /\ r.prev = [x \in Timers |-> CASE x = t -> p [] x = w[k] -> t [] OTHER -> l.prev[x]]
        /\ r.head = IF p = NoTimer THEN t ELSE l.head
        /\ r = [head |-> r.head, next |-> r.next, prev |-> r.prev]
    BY <1>p, <1>w
  <2>4. r.next \in [Timers -> MaybeTimer] /\ r.prev \in [Timers -> MaybeTimer]
    BY <2>1, <2>2, <2>3
  <2>5. r.head \in MaybeTimer
    BY <2>1, <2>3
  <2> HIDE DEF r
  <2> QED BY <2>3, <2>4, <2>5 DEF Links
<1> HIDE DEF r
<1>19. r.head = Nth(n + 1, u, 1)
  <2>0. 1 \in 1 .. n + 1
    BY <1>1
  <2>1. CASE k = 1
    <3>1. r.head = t
      BY <1>p, <1>17, <2>1
    <3> QED BY <1>13, <2>0, <2>1, <3>1 DEF Nth
  <2>2. CASE k # 1
    <3>1. k - 1 \in 1 .. n /\ 1 \in 1 .. n /\ 1 < k
      BY <1>1, <1>8, <2>2
    <3>2. p # NoTimer
      BY <1>2, <1>16, <3>1 DEF Nth
    <3>3. r.head = s[1]
      BY <1>3, <1>17, <3>1, <3>2 DEF Nth
    <3> QED BY <1>13, <2>0, <3>1, <3>3 DEF Nth
  <2> QED BY <2>1, <2>2
<1>20. \A i \in 1 .. n + 1 : r.next[u[i]] = Nth(n + 1, u, i + 1) /\ r.prev[u[i]] = Nth(n + 1, u, i - 1)
  <2> SUFFICES ASSUME NEW i \in 1 .. n + 1
               PROVE  r.next[u[i]] = Nth(n + 1, u, i + 1) /\ r.prev[u[i]] = Nth(n + 1, u, i - 1)
    OBVIOUS
  <2>1. Nth(n + 1, u, i + 1) = IF i + 1 = k THEN t ELSE IF i + 1 < k THEN s[i + 1] ELSE Nth(n, s, i)
    <3>1. CASE i + 1 \in 1 .. n + 1
      <4>1. Nth(n + 1, u, i + 1) = u[i + 1]
        BY <3>1 DEF Nth
      <4>2. (i + 1) - 1 = i /\ i \in 1 .. n
        BY <1>1, <3>1
      <4> QED BY <1>8, <1>13, <3>1, <4>1, <4>2 DEF Nth
    <3>2. CASE i + 1 \notin 1 .. n + 1
      <4>1. i = n + 1 /\ Nth(n + 1, u, i + 1) = NoTimer /\ ~(i + 1 = k) /\ ~(i + 1 < k)
        BY <1>1, <1>8, <3>2 DEF Nth
      <4>2. Nth(n, s, i) = NoTimer
        BY <1>1, <4>1 DEF Nth
      <4> QED BY <4>1, <4>2
    <3> QED BY <3>1, <3>2
  <2>2. Nth(n + 1, u, i - 1) = IF i - 1 = k THEN t ELSE IF i - 1 < k THEN Nth(n, s, i - 1)
                               ELSE s[i - 2]
    <3>1. CASE i - 1 \in 1 .. n + 1
      <4>1. Nth(n + 1, u, i - 1) = u[i - 1]
        BY <3>1 DEF Nth
      <4>2. (i - 1) - 1 = i - 2 /\ i - 1 \in 1 .. n
        BY <1>1, <3>1
      <4> QED BY <1>8, <1>13, <3>1, <4>1, <4>2 DEF Nth
    <3>2. CASE i - 1 \notin 1 .. n + 1
      <4>1. i = 1 /\ Nth(n + 1, u, i - 1) = NoTimer /\ ~(i - 1 = k) /\ i - 1 < k
        BY <1>1, <1>8, <3>2 DEF Nth
      <4>2. Nth(n, s, i - 1) = NoTimer
        BY <1>1, <4>1 DEF Nth
      <4> QED BY <4>1, <4>2
    <3> QED BY <3>1, <3>2
  <2>3. CASE i = k
    <3>1. u[i] = t /\ r.next[t] = Nth(n, s, k) /\ r.prev[t] = Nth(n, s, k - 1)
      <4>1. u[i] = t
        BY <1>8, <1>13, <2>3
      <4>2. p # t /\ w[k] # t
        BY <1>1, <1>4, <1>16 DEF Nth
      <4>3. r.next[t] = w[k] /\ r.prev[t] = p
        BY <1>17, <4>2
      <4> QED BY <1>16, <4>1, <4>3
    <3>2. ~(k + 1 = k) /\ ~(k + 1 < k) /\ k - 1 < k /\ ~(k - 1 = k)
      BY <1>8
    <3> QED BY <2>1, <2>2, <2>3, <3>1, <3>2
  <2>4. CASE i < k
    <3>1. i \in 1 .. n /\ u[i] = s[i] /\ s[i] \in Timers /\ s[i] # t /\ s[i] # NoTimer
      BY <1>1, <1>2, <1>4, <1>8, <1>13, <2>4
    <3>2. s[i] = p <=> i = k - 1
      BY <1>1, <1>8, <1>16, <2>4, <3>1 DEF Nth
    <3>3. s[i] # w[k]
      BY <1>1, <1>8, <1>16, <2>4, <3>1 DEF Nth
    <3>4. r.next[s[i]] = IF i = k - 1 THEN t ELSE Nth(n, s, i + 1)
      <4>1. r.next[s[i]] = IF s[i] = p THEN t ELSE l.next[s[i]]
        BY <1>17, <3>1
      <4> QED BY <1>3, <3>1, <3>2, <4>1
    <3>5. r.prev[s[i]] = Nth(n, s, i - 1)
      BY <1>3, <1>17, <3>1, <3>3
    <3>6. i # k - 1 => Nth(n, s, i + 1) = s[i + 1] /\ i + 1 < k
      BY <1>1, <1>8, <2>4, <3>1 DEF Nth
    <3>7. i - 1 < k /\ ~(i - 1 = k) /\ (i + 1 = k <=> i = k - 1)
      BY <1>8, <2>4
    <3> QED BY <2>1, <2>2, <3>1, <3>4, <3>5, <3>6, <3>7
  <2>5. CASE i > k
    <3>a. PICK a : a = i - 1
      OBVIOUS
    <3>1. a \in 1 .. n /\ u[i] = s[a]
      BY <1>1, <1>8, <1>13, <2>5, <3>a
    <3>2. s[a] \in Timers /\ s[a] # t /\ s[a] # NoTimer
      BY <1>2, <1>4, <3>1
    <3>3. s[a] # p
      BY <1>1, <1>8, <1>16, <2>5, <3>1, <3>2, <3>a DEF Nth
    <3>4. s[a] = w[k] <=> a = k
      BY <1>1, <1>8, <1>16, <2>5, <3>1, <3>2, <3>a DEF Nth
    <3>5. r.next[s[a]] = Nth(n, s, a + 1)
      BY <1>3, <1>17, <3>1, <3>2, <3>3
    <3>6. r.prev[s[a]] = IF a = k THEN t ELSE Nth(n, s, a - 1)
      <4>1. r.prev[s[a]] = IF s[a] = w[k] THEN t ELSE l.prev[s[a]]
        BY <1>17, <3>2
      <4> QED BY <1>3, <3>1, <3>4, <4>1
    <3>7. a # k => Nth(n, s, a - 1) = s[i - 2] /\ ~(i - 1 < k)
      <4>1. a - 1 = i - 2
        BY <3>a
      <4>2. a # k => a - 1 \in 1 .. n
        BY <1>1, <1>8, <2>5, <3>1, <3>a
      <4> QED BY <1>8, <2>5, <3>a, <4>1, <4>2 DEF Nth
    <3>8. a + 1 = i /\ ~(i + 1 = k) /\ ~(i + 1 < k) /\ (i - 1 = k <=> a = k)
      BY <1>8, <2>5, <3>a
    <3> QED BY <2>1, <2>2, <3>1, <3>5, <3>6, <3>7, <3>8
  <2> QED BY <1>8, <2>3, <2>4, <2>5
<1>21. \A x \in Timers \ (E \cup {t}) : r.next[x] = NoTimer /\ r.prev[x] = NoTimer
  <2> SUFFICES ASSUME NEW x \in Timers \ (E \cup {t})
               PROVE  r.next[x] = NoTimer /\ r.prev[x] = NoTimer
    OBVIOUS
  <2>1. x \in Timers \ E /\ x # t /\ x # NoTimer
    BY <1>1
  <2>2. \A i \in 1 .. n : s[i] # x
    BY <1>3, <2>1
  <2>3. x # p /\ x # w[k]
    BY <1>16, <2>1, <2>2 DEF Nth
  <2> QED BY <1>3, <1>17, <2>1, <2>3
<1>22. n + 1 \in 0 .. Cardinality(Timers)
  BY <1>m, <1>1, <1>5
<1>23. Linked(n + 1, u, r, E \cup {t})
  BY <1>12, <1>14, <1>15, <1>19, <1>20, <1>21, <1>22 DEF Linked
<1> QED BY <1>8, <1>10, <1>11, <1>18, <1>23 DEF r, u

\* Linking a timer out or in keeps the others in their order.
LEMMA SortedCut ==
    ASSUME NEW n \in Nat, NEW s, NEW k \in 1 .. n, NEW due, Sorted(n, s, due)
    PROVE  Sorted(n - 1, Cut(n, s, k), due)
<1> SUFFICES ASSUME NEW i \in 1 .. n - 1, NEW j \in 1 .. n - 1, i <= j
             PROVE  due[Cut(n, s, k)[i]] <= due[Cut(n, s, k)[j]]
  BY DEF Sorted
<1>1. PICK a, b : a = (IF i < k THEN i ELSE i + 1) /\ b = IF j < k THEN j ELSE j + 1
  OBVIOUS
<1>2. a \in 1 .. n /\ b \in 1 .. n /\ a <= b
  BY <1>1
<1>3. Cut(n, s, k)[i] = s[a] /\ Cut(n, s, k)[j] = s[b]
  BY <1>1 DEF Cut
<1> QED BY <1>2, <1>3 DEF Sorted

\* A timer that goes behind the earlier and in front of the others keeps the list sorted.
LEMMA SortedInsert ==
    ASSUME NEW n \in Nat, NEW s, NEW k \in 1 .. n + 1, NEW t, NEW due, NEW new,
           Sorted(n, s, due), \A i \in 1 .. n : due[s[i]] \in Int /\ new[s[i]] = due[s[i]],
           new[t] \in Int, \A i \in 1 .. k - 1 : due[s[i]] <= new[t],
           k <= n => new[t] <= due[s[k]]
    PROVE  Sorted(n + 1, Insert(n, s, k, t), new)
<1> DEFINE u == Insert(n, s, k, t)
<1>1. \A i \in 1 .. n + 1 : u[i] = IF i < k THEN s[i] ELSE IF i = k THEN t ELSE s[i - 1]
  BY DEF Insert
<1>2. \A i, j \in 1 .. n : i <= j => due[s[i]] <= due[s[j]]
  BY DEF Sorted
<1>3. \A j \in k .. n : new[t] <= due[s[j]]
  <2> SUFFICES ASSUME NEW j \in k .. n PROVE new[t] <= due[s[j]]
    OBVIOUS
  <2>1. k \in 1 .. n /\ j \in 1 .. n /\ k <= j
    OBVIOUS
  <2>2. due[s[k]] <= due[s[j]] /\ due[s[k]] \in Int /\ due[s[j]] \in Int /\ new[t] <= due[s[k]]
    BY <1>2, <2>1
  <2> QED BY <2>2
<1> HIDE DEF u
<1> SUFFICES ASSUME NEW i \in 1 .. n + 1, NEW j \in 1 .. n + 1, i <= j
             PROVE  new[u[i]] <= new[u[j]]
  BY DEF Sorted, u
<1>a. PICK a, b : a = (IF i < k THEN i ELSE i - 1) /\ b = IF j < k THEN j ELSE j - 1
  OBVIOUS
<1>4. /\ i # k => a \in 1 .. n /\ u[i] = s[a] /\ new[u[i]] = due[s[a]]
      /\ j # k => b \in 1 .. n /\ u[j] = s[b] /\ new[u[j]] = due[s[b]]
      /\ i = k => u[i] = t
      /\ j = k => u[j] = t
  <2>1. i # k => a \in 1 .. n /\ u[i] = s[a]
    BY <1>1, <1>a
  <2>2. j # k => b \in 1 .. n /\ u[j] = s[b]
    BY <1>1, <1>a
  <2>3. (i = k => u[i] = t) /\ (j = k => u[j] = t)
    BY <1>1
  <2> QED BY <2>1, <2>2, <2>3
<1>5. CASE i # k /\ j # k
  <2>1. a <= b
    BY <1>a
  <2> QED BY <1>2, <1>4, <1>5, <2>1
<1>6. CASE i = k /\ j # k
  <2>1. b \in k .. n
    BY <1>4, <1>6, <1>a
  <2> QED BY <1>3, <1>4, <1>6, <2>1
<1>7. CASE i # k /\ j = k
  <2>1. a \in 1 .. k - 1
    BY <1>4, <1>7, <1>a
  <2> QED BY <1>4, <1>7, <2>1
<1>8. CASE i = k /\ j = k
  BY <1>4, <1>8
<1> QED BY <1>5, <1>6, <1>7, <1>8

\* What the type invariant says of single variables.
LEMMA Typed ==
    ASSUME TypeOK
    PROVE  /\ list \in Links /\ enabled \subseteq Timers /\ valid \subseteq Timers
           /\ ts \in [Timers -> Stamps] /\ tsc \in Stamps /\ target \in Stamps
           /\ tsc \in Int /\ target \in Int /\ \A t \in Timers : ts[t] \in Int
           /\ left \in [Timers -> Overdue .. Overdue + Half] /\ \A t \in Timers : left[t] \in Int
           /\ cpu \in {"386", "dynarec"} /\ at \in {"boot", "outer", "slice", "process", "callback"}
           /\ room \in -Half .. Half /\ room \in Int
<1>1. Wrap \in Nat /\ Half \in Nat /\ Overdue \in Int
  BY Sizes
<1> QED BY <1>1 DEF TypeOK, Links, Stamps

\* A timer that is linked in leaves the list, if it is there, and goes into its place.
LEMMA EnableShape ==
    ASSUME TypeOK, ListInv, NEW t \in Timers, NEW stamp, t \in valid', Enable(t, stamp)
    PROVE  /\ list' \in Links /\ enabled' = enabled \cup {t}
           /\ \E n \in Nat : \E s \in [1 .. n -> Timers], k \in 1 .. n + 1 :
                  /\ \A i \in 1 .. n : s[i] \in enabled \ {t}
                  /\ ~adrift => Sorted(n, s, left)
                  /\ Linked(n + 1, Insert(n, s, k, t), list', enabled')
                  /\ \A i \in 1 .. k - 1 : ~Leq(stamp, ts[s[i]])
                  /\ k <= n => Leq(stamp, ts[s[k]])
<1>n. PICK n0 \in 0 .. Cardinality(Timers) : \E s \in [1 .. n0 -> Timers] :
          Linked(n0, s, list, enabled) /\ (~adrift => Sorted(n0, s, left))
  BY DEF ListInv
<1>1. PICK s0 \in [1 .. n0 -> Timers] :
          Linked(n0, s0, list, enabled) /\ (~adrift => Sorted(n0, s0, left))
  BY <1>n
<1>2. n0 \in Nat /\ enabled = {s0[i] : i \in 1 .. n0} /\ list \in Links
  <2>1. list \in Links
    BY Typed
  <2> QED BY <1>1, <2>1, TimersFinite DEF Linked
<1>l. PICK l : l = IF t \in enabled THEN Without(list, t) ELSE list
  OBVIOUS
<1>3. list' = With(l, t, stamp) /\ enabled' = enabled \cup {t}
  BY <1>l DEF Enable
<1>4. /\ l \in Links
      /\ \E n \in Nat : \E s \in [1 .. n -> Timers] :
            Linked(n, s, l, enabled \ {t}) /\ (~adrift => Sorted(n, s, left))
  <2>1. CASE t \in enabled
    <3>1. PICK k \in 1 .. n0 : s0[k] = t
      BY <1>2, <2>1
    <3>2. Linked(n0 - 1, Cut(n0, s0, k), Without(list, t), enabled \ {t}) /\ Without(list, t) \in Links
      BY <1>1, <1>2, <3>1, WithoutLinked
    <3>3. ~adrift => Sorted(n0 - 1, Cut(n0, s0, k), left)
      BY <1>1, <1>2, SortedCut
    <3>4. n0 - 1 \in Nat
      BY <1>2
    <3>5. Cut(n0, s0, k) \in [1 .. n0 - 1 -> Timers]
      BY <3>2 DEF Linked
    <3> QED BY <1>l, <2>1, <3>2, <3>3, <3>4, <3>5
  <2>2. CASE t \notin enabled
    <3>1. enabled \ {t} = enabled
      BY <2>2
    <3> QED BY <1>1, <1>2, <1>l, <2>2, <3>1
  <2> QED BY <2>1, <2>2
<1>m. PICK n \in Nat : \E s \in [1 .. n -> Timers] :
          Linked(n, s, l, enabled \ {t}) /\ (~adrift => Sorted(n, s, left))
  BY <1>4
<1>5. PICK s \in [1 .. n -> Timers] :
          Linked(n, s, l, enabled \ {t}) /\ (~adrift => Sorted(n, s, left))
  BY <1>m
<1>6. /\ With(l, t, stamp) \in Links
      /\ \E k \in 1 .. n + 1 :
            /\ Linked(n + 1, Insert(n, s, k, t), With(l, t, stamp), (enabled \ {t}) \cup {t})
            /\ \A i \in 1 .. k - 1 : ~Leq(stamp, ts[s[i]])
            /\ k <= n => Leq(stamp, ts[s[k]])
  <2>1. t \notin enabled \ {t}
    OBVIOUS
  <2> QED BY <1>4, <1>5, <2>1, WithLinked
<1>7. (enabled \ {t}) \cup {t} = enabled'
  BY <1>3
<1>8. \A i \in 1 .. n : s[i] \in enabled \ {t}
  BY <1>5 DEF Linked
<1>9. PICK k \in 1 .. n + 1 :
            /\ Linked(n + 1, Insert(n, s, k, t), list', enabled')
            /\ \A i \in 1 .. k - 1 : ~Leq(stamp, ts[s[i]])
            /\ k <= n => Leq(stamp, ts[s[k]])
  BY <1>3, <1>6, <1>7
<1> QED BY <1>3, <1>5, <1>6, <1>8, <1>9

----------------------------------------------------------------------------
(* Arming a timer *)

\* What the invariant says when the history is not adrift.
LEMMA Timed ==
    ASSUME TypeOK, TimeInv, ~adrift
    PROVE  /\ \A u \in Timers : /\ left[u] \in Overdue .. Overdue + Half - 1
                                /\ left[u] # Overdue => Exact(u)
           /\ \A u \in enabled \cup Called : Exact(u)
           /\ \A u \in enabled : Ahead <= left[u]
           /\ Ahead \in -Half .. Half - 1 /\ Ahead \in Int
<1>1. Overdue \in Int /\ Half \in Nat
  BY Sizes
<1>2. \A u \in Timers : left[u] \in Overdue .. Overdue + Half - 1
  BY <1>1, Typed DEF TimeInv
<1>3. Ahead \in -Half .. Half - 1
  <2>1. target - tsc \in Int
    BY Typed
  <2> QED BY <2>1, SignedRange DEF Ahead
<1> QED BY <1>1, <1>2, <1>3 DEF TimeInv

\* A timer armed with the stamp of its time goes to the place of its time.
LEMMA ArmedInOrder ==
    ASSUME TypeOK, ListInv, TimeInv, NEW t \in Timers, NEW stamp, t \in valid', Enable(t, stamp),
           adrift => adrift',
           NEW x \in Int,
           ~adrift' => /\ x \in Overdue .. Overdue + Half - 1 /\ stamp = (tsc + x) % Wrap
                       /\ left' = [left EXCEPT ![t] = x]
    PROVE  /\ ListInv' /\ list' \in Links /\ enabled' = enabled \cup {t} /\ list'.head \in enabled'
           /\ ~adrift' => \A u \in enabled' : left'[list'.head] <= left'[u]
<1>1. /\ list' \in Links /\ enabled' = enabled \cup {t}
      /\ \E n \in Nat : \E s \in [1 .. n -> Timers], k \in 1 .. n + 1 :
                  /\ \A i \in 1 .. n : s[i] \in enabled \ {t}
                  /\ ~adrift => Sorted(n, s, left)
                  /\ Linked(n + 1, Insert(n, s, k, t), list', enabled')
                  /\ \A i \in 1 .. k - 1 : ~Leq(stamp, ts[s[i]])
                  /\ k <= n => Leq(stamp, ts[s[k]])
  BY EnableShape
<1>n. PICK n \in Nat : \E s \in [1 .. n -> Timers], k \in 1 .. n + 1 :
                  /\ \A i \in 1 .. n : s[i] \in enabled \ {t}
                  /\ ~adrift => Sorted(n, s, left)
                  /\ Linked(n + 1, Insert(n, s, k, t), list', enabled')
                  /\ \A i \in 1 .. k - 1 : ~Leq(stamp, ts[s[i]])
                  /\ k <= n => Leq(stamp, ts[s[k]])
  BY <1>1
<1>2. PICK s \in [1 .. n -> Timers], k \in 1 .. n + 1 :
                  /\ \A i \in 1 .. n : s[i] \in enabled \ {t}
                  /\ ~adrift => Sorted(n, s, left)
                  /\ Linked(n + 1, Insert(n, s, k, t), list', enabled')
                  /\ \A i \in 1 .. k - 1 : ~Leq(stamp, ts[s[i]])
                  /\ k <= n => Leq(stamp, ts[s[k]])
  BY <1>n
<1>u. PICK u : u = Insert(n, s, k, t)
  OBVIOUS
<1>3. /\ n + 1 \in 0 .. Cardinality(Timers) /\ u \in [1 .. n + 1 -> Timers]
      /\ Linked(n + 1, u, list', enabled')
      /\ enabled' = {u[i] : i \in 1 .. n + 1} /\ list'.head = u[1] /\ 1 \in 1 .. n + 1
  <2>1. Linked(n + 1, u, list', enabled')
    BY <1>2, <1>u
  <2>2. /\ n + 1 \in 0 .. Cardinality(Timers) /\ u \in [1 .. n + 1 -> Timers]
        /\ enabled' = {u[i] : i \in 1 .. n + 1} /\ list'.head = Nth(n + 1, u, 1)
    BY ONLY <2>1 DEF Linked
  <2>3. 1 \in 1 .. n + 1
    OBVIOUS
  <2> QED BY <2>1, <2>2, <2>3 DEF Nth
<1>4. ~adrift' => Sorted(n + 1, u, left')
  <2> SUFFICES ASSUME ~adrift' PROVE Sorted(n + 1, u, left')
    OBVIOUS
  <2>0. ~adrift
    OBVIOUS
  <2>1. /\ x \in Overdue .. Overdue + Half - 1 /\ stamp = (tsc + x) % Wrap
        /\ left' = [left EXCEPT ![t] = x]
    OBVIOUS
  <2>2. ASSUME NEW v \in enabled PROVE Leq(stamp, ts[v]) <=> x <= left[v]
    <3>1. v \in Timers /\ tsc \in Int
      BY Typed
    <3>2. left[v] \in Overdue .. Overdue + Half - 1 /\ ts[v] = (tsc + left[v]) % Wrap
      BY <2>0, <3>1, Timed DEF Exact
    <3>3. left[v] \in Int /\ x - left[v] \in -Half .. Half - 1
      BY <2>1, <3>2, Sizes
    <3> QED BY <2>1, <3>1, <3>2, <3>3, StampsCompare
  <2>3. \A i \in 1 .. n : /\ s[i] \in enabled /\ s[i] \in Timers /\ s[i] # t
                          /\ left[s[i]] \in Int /\ left'[s[i]] = left[s[i]]
    <3>1. \A v \in Timers : left[v] \in Int /\ (v # t => left'[v] = left[v])
      BY <2>1, Typed
    <3> QED BY <1>2, <3>1
  <2>4. left'[t] = x
    BY <2>1, Typed
  <2>5. ASSUME NEW i \in 1 .. k - 1 PROVE left[s[i]] <= left'[t]
    <3>1. i \in 1 .. n
      OBVIOUS
    <3>2. ~(x <= left[s[i]])
      BY <1>2, <2>2, <2>3, <3>1
    <3> QED BY <2>3, <2>4, <3>1, <3>2
  <2>6. k <= n => left'[t] <= left[s[k]]
    <3> SUFFICES ASSUME k <= n PROVE left'[t] <= left[s[k]]
      OBVIOUS
    <3>1. k \in 1 .. n
      OBVIOUS
    <3> QED BY <1>2, <2>2, <2>3, <2>4, <3>1
  <2>7. Sorted(n, s, left)
    BY <1>2, <2>0
  <2> QED BY <1>u, <2>3, <2>4, <2>5, <2>6, <2>7, SortedInsert
<1>5. ListInv'
  <2>1. \E m \in 0 .. Cardinality(Timers) : \E w \in [1 .. m -> Timers] :
            Linked(m, w, list', enabled') /\ (~adrift' => Sorted(m, w, left'))
    BY <1>3, <1>4
  <2> QED BY <2>1 DEF ListInv, Linked, Nth, Sorted
<1>6. ASSUME ~adrift', NEW v \in enabled' PROVE left'[list'.head] <= left'[v]
  <2>1. PICK i \in 1 .. n + 1 : u[i] = v
    BY <1>3
  <2>2. 1 \in 1 .. n + 1 /\ 1 <= i
    OBVIOUS
  <2> QED BY <1>3, <1>4, <1>6, <2>1, <2>2 DEF Sorted
<1> QED BY <1>1, <1>3, <1>5, <1>6

\* Everything an operation that arms a timer does to the invariant.
LEMMA ArmStep ==
    ASSUME IInv, NEW t \in Timers, NEW stamp \in Stamps, NEW x \in Int, NEW stray \in BOOLEAN,
           valid \subseteq valid', tsc' = tsc,
           Enable(t, stamp), Due(t, x, stray),
           ~adrift' => x \in Overdue .. Overdue + Half - 1 /\ stamp = (tsc + x) % Wrap
    PROVE  /\ list' \in Links /\ ts' \in [Timers -> Stamps] /\ target' \in Stamps
           /\ left' \in [Timers -> Overdue .. Overdue + Half] /\ adrift' \in BOOLEAN
           /\ enabled' = (IF t \in valid' THEN enabled \cup {t} ELSE enabled)
           /\ ListInv'
           /\ ~adrift' =>
                /\ ~adrift /\ left' = [left EXCEPT ![t] = x] /\ left'[t] = x
                /\ \A u \in Timers : /\ left'[u] < Overdue + Half
                                     /\ left'[u] # Overdue => Exact(u)'
                                     /\ u = t \/ Exact(u) => Exact(u)'
                /\ \A u \in enabled' : Exact(u)' /\ Ahead' <= left'[u]
                /\ Ahead' \in {Ahead, x}
<1>1. TypeOK /\ ListInv /\ TimeInv /\ ControlInv
  BY DEF IInv
<1>2. /\ list \in Links /\ enabled \subseteq Timers /\ ts \in [Timers -> Stamps]
      /\ tsc \in Stamps /\ tsc \in Int /\ target \in Stamps
      /\ left \in [Timers -> Overdue .. Overdue + Half] /\ \A u \in Timers : left[u] \in Int
  BY <1>1, Typed
<1>3. adrift \in BOOLEAN /\ adrift' \in BOOLEAN /\ (adrift => adrift')
  BY <1>1 DEF Due, TypeOK
<1>4. ts' = [ts EXCEPT ![t] = stamp] /\ ts' \in [Timers -> Stamps] /\ ts'[t] = stamp
  BY <1>2 DEF Enable
<1>5. ~adrift' => /\ ~adrift /\ left' = [left EXCEPT ![t] = x] /\ left'[t] = x
                  /\ x \in Overdue .. Overdue + Half - 1 /\ stamp = (tsc + x) % Wrap
  BY <1>2, <1>3 DEF Due
<1>6. left' \in [Timers -> Overdue .. Overdue + Half]
  <2>1. CASE adrift'
    <3>1. left' = [u \in Timers |-> 0]
      BY <2>1 DEF Due
    <3>2. 0 \in Overdue .. Overdue + Half
      BY Sizes
    <3> QED BY <3>1, <3>2
  <2>2. CASE ~adrift'
    <3>1. x \in Overdue .. Overdue + Half
      BY <1>5, <2>2, Sizes
    <3> QED BY <1>2, <1>5, <2>2, <3>1
  <2> QED BY <2>1, <2>2
<1>7. ASSUME ~adrift'
      PROVE  \A u \in Timers : /\ left'[u] < Overdue + Half
                               /\ left'[u] # Overdue => Exact(u)'
                               /\ u = t \/ Exact(u) => Exact(u)'
  <2> SUFFICES ASSUME NEW u \in Timers
               PROVE  /\ left'[u] < Overdue + Half
                      /\ left'[u] # Overdue => Exact(u)'
                      /\ u = t \/ Exact(u) => Exact(u)'
    OBVIOUS
  <2>1. CASE u = t
    <3>1. Exact(u)'
      BY <1>4, <1>5, <1>7, <2>1 DEF Exact
    <3>2. x < Overdue + Half
      BY <1>5, <1>7, Sizes
    <3> QED BY <1>5, <1>7, <2>1, <3>1, <3>2
  <2>2. CASE u # t
    <3>1. left'[u] = left[u] /\ ts'[u] = ts[u]
      BY <1>2, <1>4, <1>5, <1>7, <2>2
    <3>2. Exact(u)' <=> Exact(u)
      BY <3>1 DEF Exact
    <3>3. left[u] \in Overdue .. Overdue + Half - 1 /\ (left[u] # Overdue => Exact(u))
      BY <1>1, <1>5, <1>7, Timed
    <3>4. left[u] < Overdue + Half
      BY <3>3, Sizes
    <3> QED BY <2>2, <3>1, <3>2, <3>3, <3>4
  <2> QED BY <2>1, <2>2
<1>8. CASE t \in valid'
  <2>1. /\ ListInv' /\ list' \in Links /\ enabled' = enabled \cup {t} /\ list'.head \in enabled'
        /\ ~adrift' => \A u \in enabled' : left'[list'.head] <= left'[u]
    BY <1>1, <1>3, <1>5, <1>8, ArmedInOrder
  <2>2. target' = IF list'.head = t THEN stamp ELSE target
    BY <1>8 DEF Enable, NewTarget
  <2>3. target' \in Stamps
    BY <1>2, <2>2
  <2>4. ASSUME ~adrift'
        PROVE  /\ Ahead' \in {Ahead, x}
               /\ \A u \in enabled' : Exact(u)' /\ Ahead' <= left'[u]
    <3>1. ~adrift /\ x \in Overdue .. Overdue + Half - 1 /\ left'[t] = x
      BY <1>5, <2>4
    <3>2. \A u \in enabled : u \in Timers /\ Exact(u) /\ Ahead <= left[u] /\ Ahead \in Int
      BY <1>1, <1>2, <3>1, Timed
    <3>3. \A u \in enabled' : u \in Timers /\ Exact(u)'
      BY <1>2, <1>7, <2>1, <2>4, <3>2
    <3>4. CASE list'.head = t
      <4>1. Ahead' = Signed(stamp - tsc)
        BY <2>2, <3>4 DEF Ahead, Signed
      <4>2. x \in -Half .. Half - 1
        BY <3>1, Sizes
      <4>3. Signed(stamp - tsc) = x
        BY <1>2, <1>5, <2>4, <4>2, StampTells
      <4> QED BY <2>1, <2>4, <3>1, <3>3, <3>4, <4>1, <4>3
    <3>5. CASE list'.head # t
      <4>1. Ahead' = Ahead
        BY <2>2, <3>5 DEF Ahead, Signed
      <4>2. list'.head \in enabled /\ list'.head \in Timers
        BY <1>2, <2>1, <3>5
      <4>3. left'[list'.head] = left[list'.head]
        BY <1>2, <1>5, <2>4, <3>5, <4>2
      <4>4. ASSUME NEW u \in enabled' PROVE Ahead <= left'[u]
        <5>1. left'[list'.head] <= left'[u]
          BY <2>1, <2>4
        <5>2. Ahead <= left[list'.head] /\ Ahead \in Int
          BY <3>2, <4>2
        <5>3. left'[u] \in Int /\ left[list'.head] \in Int
          <6>1. u \in Timers
            BY <3>3
          <6>2. left'[u] \in Overdue .. Overdue + Half
            BY <1>6, <6>1
          <6> QED BY <1>2, <4>2, <6>2, Sizes
        <5> QED BY <4>3, <5>1, <5>2, <5>3
      <4> QED BY <3>3, <4>1, <4>4
    <3> QED BY <3>4, <3>5
  <2> QED BY <1>3, <1>4, <1>5, <1>6, <1>7, <1>8, <2>1, <2>3, <2>4
<1>9. CASE t \notin valid'
  <2>1. list' = list /\ enabled' = enabled /\ target' = target
    BY <1>9 DEF Enable
  <2>2. t \notin enabled
    BY <1>1, <1>9 DEF ControlInv
  <2>3. ASSUME ~adrift', NEW u \in enabled PROVE left'[u] = left[u]
    BY <1>2, <1>5, <2>2, <2>3
  <2>4. ListInv'
    <3>n. PICK n \in 0 .. Cardinality(Timers) : \E s \in [1 .. n -> Timers] :
              Linked(n, s, list, enabled) /\ (~adrift => Sorted(n, s, left))
      BY <1>1 DEF ListInv
    <3>1. PICK s \in [1 .. n -> Timers] :
              Linked(n, s, list, enabled) /\ (~adrift => Sorted(n, s, left))
      BY <3>n
    <3>2. \A i \in 1 .. n : s[i] \in enabled
      BY <3>1 DEF Linked
    <3>3. ~adrift' => Sorted(n, s, left')
      BY <1>5, <2>3, <3>1, <3>2 DEF Sorted
    <3>4. \E m \in 0 .. Cardinality(Timers) : \E w \in [1 .. m -> Timers] :
            Linked(m, w, list', enabled') /\ (~adrift' => Sorted(m, w, left'))
      BY <2>1, <3>1, <3>3
    <3> QED BY <3>4 DEF ListInv, Linked, Nth, Sorted
  <2>5. Ahead' = Ahead
    BY <2>1 DEF Ahead, Signed
  <2>6. ASSUME ~adrift', NEW u \in enabled PROVE Exact(u)' /\ Ahead <= left'[u]
    <3>1. Exact(u) /\ Ahead <= left[u] /\ u \in Timers
      BY <1>1, <1>2, <1>5, <2>6, Timed
    <3> QED BY <1>7, <2>3, <2>6, <3>1
  <2> QED BY <1>2, <1>3, <1>4, <1>5, <1>6, <1>7, <1>9, <2>1, <2>4, <2>5, <2>6
<1> QED BY <1>8, <1>9

----------------------------------------------------------------------------
(* Each action preserves the invariant *)

\* At a boot only the sound's timer is in the list, due at once.
LEMMA Fresh ==
    /\ Linked(1, [i \in 1 .. 1 |-> SoundPoll], OnlySound, {SoundPoll})
    /\ OnlySound \in Links /\ Zeros \in [Timers -> Stamps]
    /\ Zeros \in [Timers -> Overdue .. Overdue + Half] /\ \A u \in Timers : Zeros[u] = 0
    /\ 0 \in Stamps /\ Signed(0 - 0) = 0 /\ (0 + 0) % Wrap = 0 /\ 0 < Overdue + Half
<1>1. /\ SoundPoll \in Timers /\ NoTimer \notin Timers /\ 1 \in 0 .. Cardinality(Timers)
  BY TimersFinite
<1>2. PICK s : s = [i \in 1 .. 1 |-> SoundPoll]
  OBVIOUS
<1>3. s \in [1 .. 1 -> Timers] /\ 1 \in 1 .. 1 /\ s[1] = SoundPoll /\ \A i \in 1 .. 1 : i = 1
  BY <1>1, <1>2
<1>4. /\ OnlySound.head = SoundPoll
      /\ \A u \in Timers : OnlySound.next[u] = NoTimer /\ OnlySound.prev[u] = NoTimer
  BY DEF OnlySound
<1>5. Nth(1, s, 1) = SoundPoll /\ Nth(1, s, 1 + 1) = NoTimer /\ Nth(1, s, 1 - 1) = NoTimer
  BY <1>3 DEF Nth
<1>6. {SoundPoll} = {s[i] : i \in 1 .. 1}
  BY <1>3
<1>7. Linked(1, s, OnlySound, {SoundPoll})
  <2>1. \A i, j \in 1 .. 1 : s[i] = s[j] => i = j
    BY <1>3
  <2>2. \A i \in 1 .. 1 : OnlySound.next[s[i]] = Nth(1, s, i + 1) /\ OnlySound.prev[s[i]] = Nth(1, s, i - 1)
    BY <1>1, <1>3, <1>4, <1>5
  <2> QED BY <1>1, <1>3, <1>4, <1>5, <1>6, <2>1, <2>2 DEF Linked
<1>8. OnlySound \in Links
  <2>1. [u \in Timers |-> NoTimer] \in [Timers -> MaybeTimer]
    BY DEF MaybeTimer
  <2>2. SoundPoll \in MaybeTimer
    BY <1>1 DEF MaybeTimer
  <2> QED BY <2>1, <2>2 DEF OnlySound, Links
<1>9. 0 \in Stamps /\ 0 \in Overdue .. Overdue + Half /\ 0 < Overdue + Half
  BY Sizes DEF Stamps
<1>10. Zeros \in [Timers -> Stamps] /\ Zeros \in [Timers -> Overdue .. Overdue + Half]
       /\ \A u \in Timers : Zeros[u] = 0
  BY <1>9 DEF Zeros
<1>11. 0 \in -Half .. Half - 1 /\ 0 + 0 = 0 /\ 0 - 0 = 0
  BY Sizes
<1>12. 0 % Wrap = 0
  BY <1>11, SmallWrap
<1>13. Signed(0) = 0
  <2>1. 0 \in Int
    OBVIOUS
  <2> QED BY <1>11, <2>1, SignedIs
<1> QED BY <1>2, <1>7, <1>8, <1>9, <1>10, <1>11, <1>12, <1>13

\* The first boot: one timer, due at once, and a target that is now.
LEMMA InitHolds == Init => IInv
<1> SUFFICES ASSUME Init PROVE IInv
  OBVIOUS
<1>1. /\ list = OnlySound /\ enabled = {SoundPoll} /\ valid = {SoundPoll}
      /\ ts = Zeros /\ tsc = 0 /\ target = 0 /\ cpu \in {"386", "dynarec"}
      /\ at = "boot" /\ room = 0 /\ acted = FALSE /\ current = NoTimer
      /\ left = Zeros /\ adrift = FALSE
  BY DEF Init
<1>2. SoundPoll \in Timers /\ NoTimer \in MaybeTimer /\ 0 \in -Half .. Half /\ Latch \in Nat
  BY TimersFinite, Sizes DEF MaybeTimer
<1>3. TypeOK
  BY <1>1, <1>2, Fresh DEF TypeOK, Links
<1>4. ListInv
  <2>1. PICK s : s = [i \in 1 .. 1 |-> SoundPoll]
    OBVIOUS
  <2>2. Linked(1, s, list, enabled)
    BY <1>1, <2>1, Fresh
  <2>3. Sorted(1, s, left)
    <3>1. \A i, j \in 1 .. 1 : s[i] = s[j] /\ s[i] = SoundPoll
      BY <2>1
    <3>2. 0 <= 0
      OBVIOUS
    <3> QED BY <1>1, <1>2, <3>1, <3>2, Fresh DEF Sorted
  <2>4. 1 \in 0 .. Cardinality(Timers) /\ s \in [1 .. 1 -> Timers]
    BY <2>2 DEF Linked
  <2> QED BY <2>2, <2>3, <2>4 DEF ListInv
<1>5. Called = {} /\ ~Fired
  BY <1>1 DEF Called, Fired
<1>6. ControlInv
  BY <1>1, <1>5 DEF ControlInv
<1>7. TimeInv
  <2>1. Ahead = 0
    BY <1>1, Fresh DEF Ahead
  <2>2. \A u \in Timers : Exact(u) /\ left[u] = 0
    BY <1>1, Fresh DEF Exact
  <2>3. /\ \A u \in Timers : left[u] < Overdue + Half
        /\ left[SoundPoll] <= Latch /\ \A u \in enabled : Ahead <= left[u]
        /\ Ahead >= 0
    BY <1>1, <1>2, <2>1, <2>2, Fresh
  <2> QED BY <1>1, <1>2, <1>5, <2>2, <2>3 DEF TimeInv
<1> QED BY <1>3, <1>4, <1>6, <1>7 DEF IInv

\* A reset starts over from the same list, whatever the machine had.
LEMMA ResetHolds == IInv /\ Reset => IInv'
<1> SUFFICES ASSUME IInv, Reset PROVE IInv'
  OBVIOUS
<1>1. /\ list' = OnlySound /\ enabled' = {SoundPoll} /\ valid' = {SoundPoll}
      /\ ts' = Zeros /\ tsc' = 0 /\ target' = 0 /\ cpu' = cpu /\ at = "outer"
      /\ at' = "boot" /\ room' = 0 /\ acted' = FALSE /\ current' = current
      /\ left' = Zeros /\ adrift' = FALSE
  BY DEF Reset
<1>2. /\ SoundPoll \in Timers /\ NoTimer \in MaybeTimer /\ 0 \in -Half .. Half /\ Latch \in Nat
      /\ cpu' \in {"386", "dynarec"} /\ current' = NoTimer
  BY <1>1, TimersFinite, Sizes, Typed DEF MaybeTimer, IInv, ControlInv
<1>3. TypeOK'
  BY <1>1, <1>2, Fresh DEF TypeOK, Links
<1>4. ListInv'
  <2>1. PICK s : s = [i \in 1 .. 1 |-> SoundPoll]
    OBVIOUS
  <2>2. Linked(1, s, list', enabled')
    BY <1>1, <2>1, Fresh
  <2>3. Sorted(1, s, left')
    <3>1. \A i, j \in 1 .. 1 : s[i] = s[j] /\ s[i] = SoundPoll
      BY <2>1
    <3>2. 0 <= 0
      OBVIOUS
    <3> QED BY <1>1, <1>2, <3>1, <3>2, Fresh DEF Sorted
  <2>4. 1 \in 0 .. Cardinality(Timers) /\ s \in [1 .. 1 -> Timers]
    BY <2>2 DEF Linked
  <2>5. \E m \in 0 .. Cardinality(Timers) : \E w \in [1 .. m -> Timers] :
            Linked(m, w, list', enabled') /\ (~adrift' => Sorted(m, w, left'))
    BY <2>2, <2>3, <2>4
  <2> QED BY <2>5 DEF ListInv, Linked, Nth, Sorted
<1>5. Called' = {} /\ ~Fired'
  BY <1>1 DEF Called, Fired
<1>6. ControlInv'
  BY <1>1, <1>2, <1>5 DEF ControlInv
<1>7. TimeInv'
  <2>1. Ahead' = 0
    <3>1. Ahead' = Signed(target' - tsc')
      BY DEF Ahead, Signed
    <3> QED BY <1>1, <3>1, Fresh
  <2>2. \A u \in Timers : Exact(u)' /\ left'[u] = 0
    BY <1>1, Fresh DEF Exact
  <2>3. /\ \A u \in Timers : left'[u] < Overdue + Half
        /\ left'[SoundPoll] <= Latch /\ \A u \in enabled' : Ahead' <= left'[u]
        /\ Ahead' >= 0
    BY <1>1, <1>2, <2>1, <2>2, Fresh
  <2> QED BY <1>1, <1>2, <1>5, <2>2, <2>3 DEF TimeInv
<1> QED BY <1>3, <1>4, <1>6, <1>7 DEF IInv

\* A timer of the devices is armed, at boot, by an instruction or by a callback.
LEMMA Armed ==
    ASSUME IInv, NEW t \in Ours, NEW stamp \in Stamps, NEW x \in Int, NEW stray \in BOOLEAN,
           MayAct, Acted, Enable(t, stamp), Due(t, x, stray),
           ~adrift' => /\ x \in Overdue .. Overdue + Half - 1 /\ stamp = (tsc + x) % Wrap
                       /\ IF at = "boot" THEN x >= 0 ELSE x >= room - Period
    PROVE  IInv'
<1>1. TypeOK /\ ListInv /\ ControlInv /\ TimeInv
  BY DEF IInv
<1>2. /\ valid' = valid /\ tsc' = tsc /\ cpu' = cpu /\ at' = at /\ room' = room
      /\ current' = current
  BY DEF Acted
<1>3. t \in Timers /\ t # SoundPoll
  BY DEF Ours
<1>4. /\ list' \in Links /\ ts' \in [Timers -> Stamps] /\ target' \in Stamps
      /\ left' \in [Timers -> Overdue .. Overdue + Half] /\ adrift' \in BOOLEAN
      /\ enabled' = (IF t \in valid' THEN enabled \cup {t} ELSE enabled)
      /\ ListInv'
      /\ ~adrift' =>
                /\ ~adrift /\ left' = [left EXCEPT ![t] = x] /\ left'[t] = x
                /\ \A u \in Timers : /\ left'[u] < Overdue + Half
                                     /\ left'[u] # Overdue => Exact(u)'
                                     /\ u = t \/ Exact(u) => Exact(u)'
                /\ \A u \in enabled' : Exact(u)' /\ Ahead' <= left'[u]
                /\ Ahead' \in {Ahead, x}
  BY <1>2, <1>3, ArmStep
<1>5. /\ at \in {"boot", "slice", "callback"} /\ at # "outer" /\ (at = "callback" => ~acted)
  BY DEF MayAct
<1>6. acted' \in BOOLEAN /\ (at = "callback" => acted')
  BY DEF Acted
<1>7. TypeOK'
  <2>1. /\ valid \subseteq Timers /\ tsc \in Stamps /\ cpu \in {"386", "dynarec"}
        /\ at \in {"boot", "outer", "slice", "process", "callback"}
        /\ room \in -Half .. Half /\ current \in MaybeTimer /\ enabled \subseteq Timers
    BY <1>1 DEF TypeOK
  <2>2. enabled' \subseteq Timers
    BY <1>3, <1>4, <2>1
  <2> QED BY <1>2, <1>4, <1>6, <2>1, <2>2 DEF TypeOK, Links
<1>8. /\ Fired' => Fired /\ current = SoundPoll /\ current' = current
      /\ Fired /\ current = SoundPoll => Fired'
      /\ at = "callback" => Fired
  BY <1>2, <1>5, <1>6 DEF Fired
<1>9. /\ Called' \subseteq Called /\ Called' \subseteq {SoundPoll}
      /\ SoundPoll \in Called => SoundPoll \in Called'
  BY <1>2, <1>8 DEF Called
<1>10. ControlInv'
  <2>1. enabled' \subseteq enabled \cup {t} /\ enabled \subseteq enabled' /\ enabled' \subseteq valid'
    BY <1>1, <1>2, <1>4 DEF ControlInv
  <2>2. enabled' \cap Called' = {}
    BY <1>1, <1>3, <1>9, <2>1 DEF ControlInv
  <2>3. SoundPoll \in valid' /\ SoundPoll \in enabled' \cup Called'
    BY <1>1, <1>2, <1>9, <2>1 DEF ControlInv
  <2> QED BY <1>1, <1>2, <2>1, <2>2, <2>3 DEF ControlInv
<1>11. TimeInv'
  <2> SUFFICES ASSUME ~adrift' PROVE TimeInv'
    BY DEF TimeInv
  <2>1. /\ ~adrift /\ left' = [left EXCEPT ![t] = x] /\ left'[t] = x
        /\ \A u \in Timers : /\ left'[u] < Overdue + Half
                             /\ left'[u] # Overdue => Exact(u)'
                             /\ u = t \/ Exact(u) => Exact(u)'
        /\ \A u \in enabled' : Exact(u)' /\ Ahead' <= left'[u]
        /\ Ahead' = Ahead \/ Ahead' = x
    BY <1>4
  <2>2. \A u \in Timers \ {t} : left'[u] = left[u]
    BY <1>1, <2>1, Typed
  <2>3. SoundPoll \in Timers
    BY TimersFinite
  <2>4. \A u \in Called' : u \in Timers /\ u # t /\ Exact(u)' /\ left'[u] = left[u]
    BY <1>1, <1>3, <1>9, <2>1, <2>2, <2>3, Timed
  <2>5. left'[SoundPoll] <= Latch
    BY <1>1, <1>3, <2>1, <2>2, <2>3 DEF TimeInv
  <2>6. Fired' => left'[current'] <= 0
    BY <1>1, <1>3, <1>8, <2>1, <2>2, <2>3 DEF TimeInv
  <2>7. at' = "boot" => Ahead' >= 0
    BY <1>1, <1>2, <2>1 DEF TimeInv
  <2>8. Period' = Period
    BY <1>2 DEF Period
  <2>9. at' \in {"slice", "process", "callback"} =>
            /\ room' <= Period' + 1 /\ Ahead' >= room' - Period'
            /\ \A u \in Called' : left'[u] >= room' - Period'
    <3> SUFFICES ASSUME at \in {"slice", "callback"}
                 PROVE  /\ room <= Period + 1 /\ Ahead' >= room - Period
                        /\ \A u \in Called' : left'[u] >= room - Period
      BY <1>2, <1>5, <2>8
    <3>1. /\ room <= Period + 1 /\ Ahead >= room - Period
          /\ \A u \in Called : left[u] >= room - Period
      BY <1>1, <2>1 DEF TimeInv
    <3>2. x >= room - Period
      OBVIOUS
    <3> QED BY <1>9, <2>1, <2>4, <3>1, <3>2
  <2> QED BY <1>2, <1>5, <2>1, <2>4, <2>5, <2>6, <2>7, <2>9 DEF TimeInv
<1> QED BY <1>4, <1>7, <1>10, <1>11 DEF IInv

\* A period is a number that instructions may exceed by one of theirs.
LEMMA PeriodIs ==
    ASSUME TypeOK
    PROVE  Period \in Nat \ {0} /\ \A c \in Costs : 1 - c - Period >= Overdue
<1>1. cpu \in {"386", "dynarec"}
  BY Typed
<1>2. CASE cpu = "386"
  <2>1. Period = Latch
    BY <1>2 DEF Period
  <2> QED BY <2>1, Sizes
<1>3. CASE cpu # "386"
  <2>1. Period = Slice
    BY <1>3 DEF Period
  <2> QED BY <2>1, Sizes
<1> QED BY <1>2, <1>3

\* In a slice or a callback, something due at least a cycle from now is due late enough.
LEMMA LaterIsLate ==
    ASSUME IInv, MayAct, at # "boot", ~adrift, NEW x \in Int, x >= 1
    PROVE  x >= room - Period
<1>1. TypeOK /\ TimeInv
  BY DEF IInv
<1>2. at \in {"slice", "callback"}
  BY DEF MayAct
<1>3. room <= Period + 1 /\ room \in Int /\ Period \in Int
  BY <1>1, <1>2, Typed, PeriodIs DEF TimeInv
<1> QED BY <1>3

\* A delay from now is due at least a cycle ahead and within what the history tells.
LEMMA SetDelayHolds ==
    ASSUME IInv, NEW t \in Ours, NEW d \in Delays, SetDelay(t, d)
    PROVE  IInv'
<1>1. /\ MayAct /\ Acted /\ Enable(t, (tsc + d) % Wrap) /\ Due(t, d, FALSE)
  BY DEF SetDelay
<1>2. d \in Nat \ {0} /\ d < Overdue + Half /\ Overdue \in Int /\ Half \in Nat /\ Overdue <= 0
  BY Sizes
<1>3. d \in Int /\ d \in Overdue .. Overdue + Half - 1 /\ d >= 1
  BY <1>2
<1>4. PICK stamp : stamp = (tsc + d) % Wrap
  OBVIOUS
<1>5. stamp \in Stamps
  <2>1. tsc + d \in Int
    BY <1>3, Typed DEF IInv
  <2>2. 0 \in Int
    OBVIOUS
  <2> QED BY <1>4, <2>1, <2>2, WrapPlus
<1>6. ~adrift' => IF at = "boot" THEN d >= 0 ELSE d >= room - Period
  <2>1. ~adrift' => ~adrift
    BY <1>1 DEF Due
  <2>2. CASE at = "boot"
    BY <1>2, <2>2
  <2>3. CASE at # "boot"
    BY <1>1, <1>3, <2>1, <2>3, LaterIsLate
  <2> QED BY <2>2, <2>3
<1>7. FALSE \in BOOLEAN
  OBVIOUS
<1> QED BY <1>1, <1>3, <1>4, <1>5, <1>6, <1>7, Armed

\* A delay from the stamp is from the timer's time, or the history is adrift.
LEMMA AdvanceHolds ==
    ASSUME IInv, NEW t \in Ours, NEW d \in Delays, Advance(t, d)
    PROVE  IInv'
<1> DEFINE late == left[t] = Overdue \/ left[t] + d \notin 1 .. Overdue + Half - 1
           stray == t # current /\ late
<1>1. /\ MayAct /\ Acted /\ at # "boot" /\ Enable(t, (ts[t] + d) % Wrap)
      /\ Due(t, left[t] + d, stray)
  BY DEF Advance
<1>2. /\ d \in Nat \ {0} /\ d < Overdue + Half /\ Overdue \in Int /\ Half \in Nat /\ Overdue <= 0
  BY Sizes
<1>3. /\ TypeOK /\ TimeInv /\ ControlInv /\ t \in Timers /\ t # SoundPoll
      /\ left[t] \in Int /\ tsc \in Int /\ ts[t] \in Int
  BY Typed DEF IInv, Ours
<1>x. PICK x : x = left[t] + d
  OBVIOUS
<1>s. PICK stamp : stamp = (ts[t] + d) % Wrap
  OBVIOUS
<1>4. x \in Int /\ stamp \in Stamps
  <2>1. ts[t] + d \in Int /\ 0 \in Int
    BY <1>2, <1>3
  <2>2. (ts[t] + d) % Wrap \in Stamps
    BY ONLY <2>1, WrapPlus
  <2>3. left[t] + d \in Int
    BY <1>2, <1>3
  <2> QED BY <1>x, <1>s, <2>2, <2>3
<1>5. stray \in BOOLEAN
  OBVIOUS
<1>6. ~adrift' => ~adrift /\ ~stray
  BY <1>1 DEF Due
<1>7. ASSUME ~adrift'
      PROVE  /\ x \in Overdue .. Overdue + Half - 1 /\ stamp = (tsc + x) % Wrap
             /\ x >= room - Period
  <2>0. ~adrift /\ ~stray
    BY <1>6, <1>7
  <2>1. CASE t = current
    <3>1. at = "callback" /\ ~acted
      <4>1. current # NoTimer
        BY <1>3, <2>1, TimersFinite
      <4>2. at = "callback"
        BY <1>3, <4>1 DEF ControlInv
      <4> QED BY <1>1, <4>2 DEF MayAct
    <3>2. Fired /\ t \in Called
      BY <2>1, <3>1 DEF Fired, Called
    <3>3. /\ Exact(t) /\ left[t] <= 0 /\ left[t] >= room - Period
      BY <1>3, <2>0, <2>1, <3>1, <3>2 DEF TimeInv
    <3>4. left[t] \in Overdue .. Overdue + Half - 1
      BY <1>3, <2>0, Timed
    <3>5. x \in Overdue .. Overdue + Half - 1
      BY <1>2, <1>x, <3>3, <3>4
    <3>6. room - Period \in Int
      BY <1>3, Typed, PeriodIs
    <3>7. x >= room - Period
      BY <1>2, <1>3, <1>x, <3>3, <3>6
    <3>8. ts[t] = (tsc + left[t]) % Wrap
      BY <3>3 DEF Exact
    <3>9. stamp = (tsc + (left[t] + d)) % Wrap
      BY <1>2, <1>3, <1>s, <3>8, StampAdds
    <3> QED BY <1>x, <3>5, <3>7, <3>9
  <2>2. CASE t # current
    <3>1. left[t] # Overdue /\ x \in 1 .. Overdue + Half - 1
      BY <1>x, <2>0, <2>2
    <3>2. Exact(t)
      BY <1>3, <2>0, <3>1, Timed
    <3>3. x \in Overdue .. Overdue + Half - 1 /\ x >= 1
      BY <1>2, <3>1
    <3>4. x >= room - Period
      BY <1>1, <1>4, <2>0, <3>3, LaterIsLate
    <3>5. ts[t] = (tsc + left[t]) % Wrap
      BY <3>2 DEF Exact
    <3>6. stamp = (tsc + (left[t] + d)) % Wrap
      BY <1>2, <1>3, <1>s, <3>5, StampAdds
    <3> QED BY <1>x, <3>3, <3>4, <3>6
  <2> QED BY <2>1, <2>2
<1> HIDE DEF stray, late
<1> QED BY <1>1, <1>4, <1>5, <1>7, <1>x, <1>s, Armed

\* A timer that is linked out, if it is there, leaves the others in their order.
LEMMA LinkedOut ==
    ASSUME TypeOK, ListInv, NEW t \in Timers, enabled' = enabled \ {t},
           list' = IF t \in enabled THEN Without(list, t) ELSE list,
           ~adrift' => ~adrift /\ \A u \in enabled' : left'[u] = left[u]
    PROVE  ListInv' /\ list' \in Links
<1>n. PICK n \in 0 .. Cardinality(Timers) : \E s \in [1 .. n -> Timers] :
          Linked(n, s, list, enabled) /\ (~adrift => Sorted(n, s, left))
  BY DEF ListInv
<1>1. PICK s \in [1 .. n -> Timers] :
          Linked(n, s, list, enabled) /\ (~adrift => Sorted(n, s, left))
  BY <1>n
<1>2. n \in Nat /\ enabled = {s[i] : i \in 1 .. n} /\ list \in Links
  <2>1. list \in Links
    BY Typed
  <2> QED BY <1>1, <2>1, TimersFinite DEF Linked
<1>3. /\ list' \in Links
      /\ \E m \in 0 .. Cardinality(Timers) : \E w \in [1 .. m -> Timers] :
            Linked(m, w, list', enabled') /\ (~adrift => Sorted(m, w, left))
  <2>1. CASE t \in enabled
    <3>1. PICK k \in 1 .. n : s[k] = t
      BY <1>2, <2>1
    <3>2. Linked(n - 1, Cut(n, s, k), Without(list, t), enabled \ {t}) /\ Without(list, t) \in Links
      BY <1>1, <1>2, <3>1, WithoutLinked
    <3>3. ~adrift => Sorted(n - 1, Cut(n, s, k), left)
      BY <1>1, <1>2, SortedCut
    <3>4. n - 1 \in 0 .. Cardinality(Timers) /\ Cut(n, s, k) \in [1 .. n - 1 -> Timers]
      BY <3>2 DEF Linked
    <3> QED BY <2>1, <3>2, <3>3, <3>4
  <2>2. CASE t \notin enabled
    <3>1. list' = list /\ enabled' = enabled
      BY <2>2
    <3> QED BY <1>1, <1>2, <3>1
  <2> QED BY <2>1, <2>2
<1>m. PICK m \in 0 .. Cardinality(Timers) : \E w \in [1 .. m -> Timers] :
            Linked(m, w, list', enabled') /\ (~adrift => Sorted(m, w, left))
  BY <1>3
<1>4. PICK w \in [1 .. m -> Timers] :
            Linked(m, w, list', enabled') /\ (~adrift => Sorted(m, w, left))
  BY <1>m
<1>5. \A i \in 1 .. m : w[i] \in enabled'
  BY <1>4 DEF Linked
<1>6. ~adrift' => Sorted(m, w, left')
  BY <1>4, <1>5 DEF Sorted
<1>7. \E k \in 0 .. Cardinality(Timers) : \E v \in [1 .. k -> Timers] :
            Linked(k, v, list', enabled') /\ (~adrift' => Sorted(k, v, left'))
  BY <1>4, <1>6
<1> QED BY <1>3, <1>7 DEF ListInv, Linked, Nth, Sorted

\* Disabling leaves the target, which may then be too early and never too late.
LEMMA DisableHolds ==
    ASSUME IInv, NEW t \in Ours, Disable(t)
    PROVE  IInv'
<1>1. TypeOK /\ ListInv /\ ControlInv /\ TimeInv /\ t \in Timers /\ t # SoundPoll
  BY DEF IInv, Ours
<1>2. /\ MayAct /\ t \in enabled /\ list' = Without(list, t) /\ enabled' = enabled \ {t}
      /\ ts' = ts /\ target' = target /\ left' = left /\ adrift' = adrift
      /\ valid' = valid /\ tsc' = tsc /\ cpu' = cpu /\ at' = at /\ room' = room
      /\ current' = current
  BY DEF Disable, Acted
<1>3. ListInv' /\ list' \in Links
  BY <1>1, <1>2, LinkedOut
<1>4. acted' \in BOOLEAN /\ (at = "callback" => acted')
  BY DEF Disable, Acted
<1>5. TypeOK'
  BY <1>1, <1>2, <1>3, <1>4 DEF TypeOK, Links
<1>6. /\ Fired' => Fired /\ current = SoundPoll /\ current' = current
      /\ Fired /\ current = SoundPoll => Fired'
  BY <1>2, <1>4 DEF Fired
<1>7. /\ Called' \subseteq Called
      /\ SoundPoll \in Called => SoundPoll \in Called'
  BY <1>2, <1>6 DEF Called
<1>8. ControlInv'
  BY <1>1, <1>2, <1>7 DEF ControlInv
<1>9. TimeInv'
  <2> SUFFICES ASSUME ~adrift' PROVE TimeInv'
    BY DEF TimeInv
  <2>1. \A u \in Timers : Exact(u)' <=> Exact(u)
    BY <1>2 DEF Exact
  <2>2. Ahead' = Ahead /\ Period' = Period
    BY <1>2 DEF Ahead, Signed, Period
  <2>3. enabled' \subseteq enabled /\ enabled \cup Called \subseteq Timers
    BY <1>1, <1>2, Typed DEF Called, Fired, ControlInv
  <2> QED BY <1>1, <1>2, <1>6, <1>7, <2>1, <2>2, <2>3 DEF TimeInv
<1> QED BY <1>3, <1>5, <1>8, <1>9 DEF IInv

\* A write to the counter sets the history adrift, and keeps the links.
LEMMA WriteTscHolds ==
    ASSUME IInv, NEW v \in Strays, WriteTsc(v)
    PROVE  IInv'
<1>1. TypeOK /\ ListInv /\ ControlInv
  BY DEF IInv
<1>2. /\ at = "slice" /\ tsc' = v /\ left' = [x \in Timers |-> 0]
      /\ list' = list /\ enabled' = enabled /\ valid' = valid /\ ts' = ts /\ target' = target
      /\ cpu' = cpu /\ at' = at /\ room' = room /\ current' = current
  BY DEF WriteTsc
<1>3. acted' /\ adrift' /\ acted' \in BOOLEAN /\ adrift' \in BOOLEAN
  BY DEF WriteTsc
<1>4. v \in Stamps /\ 0 \in Overdue .. Overdue + Half
  BY Sizes
<1>5. left' \in [Timers -> Overdue .. Overdue + Half]
  BY <1>2, <1>4
<1>6. TypeOK'
  BY <1>1, <1>2, <1>3, <1>4, <1>5 DEF TypeOK
<1>7. ListInv'
  <2>1. \E n \in 0 .. Cardinality(Timers) : \E s \in [1 .. n -> Timers] :
            Linked(n, s, list', enabled') /\ (~adrift' => Sorted(n, s, left'))
    BY <1>1, <1>2, <1>3 DEF ListInv
  <2> QED BY <2>1 DEF ListInv, Linked, Nth, Sorted
<1>8. Called' = {} /\ Called = {}
  BY <1>2 DEF Called, Fired
<1>9. ControlInv'
  BY <1>1, <1>2, <1>8 DEF ControlInv
<1>10. TimeInv'
  BY <1>3 DEF TimeInv
<1> QED BY <1>6, <1>7, <1>9, <1>10 DEF IInv

\* A device registers its timer, which starts it or clears it.
LEMMA AddHolds ==
    ASSUME IInv, NEW t \in Ours, NEW start \in BOOLEAN, Add(t, start)
    PROVE  IInv'
<1>1. TypeOK /\ ListInv /\ ControlInv /\ TimeInv /\ t \in Timers /\ t # SoundPoll
  BY DEF IInv, Ours
<1>2. /\ at = "boot" /\ valid' = valid \cup {t} /\ Due(t, 0, FALSE)
      /\ tsc' = tsc /\ cpu' = cpu /\ at' = at /\ room' = room /\ current' = current
      /\ acted' = acted /\ tsc = 0
  BY <1>1 DEF Add, ControlInv
<1>3. Called = {} /\ Called' = {} /\ ~Fired'
  BY <1>2 DEF Called, Fired
<1>4. /\ enabled \subseteq Timers /\ valid' \subseteq Timers /\ valid \subseteq valid'
      /\ left \in [Timers -> Overdue .. Overdue + Half] /\ 0 \in Stamps
      /\ 0 \in Overdue .. Overdue + Half - 1 /\ (0 + 0) % Wrap = 0 /\ SoundPoll \in Timers
      /\ 0 \in Overdue .. Overdue + Half /\ 0 < Overdue + Half
      /\ acted' \in BOOLEAN
  <2>1. 0 \in Overdue .. Overdue + Half - 1 /\ 0 \in Overdue .. Overdue + Half
    BY Sizes, Fresh
  <2>2. acted' \in BOOLEAN
    BY <1>1, <1>2 DEF TypeOK
  <2> QED BY <1>1, <1>2, <2>1, <2>2, Typed, Fresh, TimersFinite
<1>5. SoundPoll \in enabled /\ SoundPoll \in valid
  BY <1>1, <1>3 DEF ControlInv
<1>6. /\ adrift' = adrift
      /\ ~adrift' => /\ ~adrift /\ left' = [left EXCEPT ![t] = 0] /\ left'[SoundPoll] = left[SoundPoll]
                     /\ left'[t] = 0 /\ \A u \in Timers \ {t} : left'[u] = left[u]
  <2>1. adrift \in BOOLEAN
    BY <1>1 DEF TypeOK
  <2>2. adrift' = adrift
    BY <1>2, <2>1 DEF Due
  <2>3. ~adrift' => left' = [left EXCEPT ![t] = 0]
    BY <1>2 DEF Due
  <2> QED BY <1>1, <1>4, <2>2, <2>3
<1>7. CASE start
  <2>1. Enable(t, 0)
    BY <1>2, <1>7 DEF Add
  <2>2. ~adrift' => 0 \in Overdue .. Overdue + Half - 1 /\ 0 = (tsc + 0) % Wrap
    BY <1>2, <1>4
  <2>3. 0 \in Int /\ FALSE \in BOOLEAN
    OBVIOUS
  <2>4. /\ list' \in Links /\ ts' \in [Timers -> Stamps] /\ target' \in Stamps
        /\ left' \in [Timers -> Overdue .. Overdue + Half] /\ adrift' \in BOOLEAN
        /\ enabled' = (IF t \in valid' THEN enabled \cup {t} ELSE enabled)
        /\ ListInv'
        /\ ~adrift' =>
                /\ ~adrift
                /\ \A u \in Timers : /\ left'[u] < Overdue + Half
                                     /\ left'[u] # Overdue => Exact(u)'
                                     /\ u = t \/ Exact(u) => Exact(u)'
                /\ \A u \in enabled' : Exact(u)' /\ Ahead' <= left'[u]
                /\ Ahead' \in {Ahead, 0}
    <3>1. valid \subseteq valid' /\ tsc' = tsc
      BY <1>2, <1>4
    <3> QED BY <1>1, <1>2, <1>4, <2>1, <2>2, <2>3, <3>1, ArmStep
  <2>5. enabled' = enabled \cup {t} /\ enabled' \subseteq Timers /\ enabled' \subseteq valid'
    BY <1>1, <1>2, <1>4, <2>4 DEF ControlInv
  <2>6. TypeOK'
    <3>1. /\ tsc \in Stamps /\ cpu \in {"386", "dynarec"} /\ room \in -Half .. Half
          /\ current \in MaybeTimer
      BY <1>1 DEF TypeOK
    <3> QED BY <1>2, <1>4, <2>4, <2>5, <3>1 DEF TypeOK, Links
  <2>7. ControlInv'
    BY <1>1, <1>2, <1>3, <1>4, <1>5, <2>5 DEF ControlInv
  <2>8. TimeInv'
    <3> SUFFICES ASSUME ~adrift' PROVE TimeInv'
      BY DEF TimeInv
    <3>1. Ahead >= 0 /\ left[SoundPoll] <= Latch
      BY <1>1, <1>2, <2>4 DEF TimeInv
    <3>2. Ahead' >= 0
      BY <2>4, <3>1
    <3>3. left'[SoundPoll] <= Latch
      BY <1>6, <3>1
    <3> QED BY <1>2, <1>3, <2>4, <3>2, <3>3 DEF TimeInv
  <2> QED BY <2>4, <2>6, <2>7, <2>8 DEF IInv
<1>8. CASE ~start
  <2>1. /\ list' = (IF t \in enabled THEN Without(list, t) ELSE list)
        /\ enabled' = enabled \ {t} /\ ts' = [ts EXCEPT ![t] = 0] /\ target' = target
    BY <1>8 DEF Add
  <2>2. ListInv' /\ list' \in Links
    <3>1. ~adrift' => ~adrift /\ \A u \in enabled' : left'[u] = left[u]
      BY <1>4, <1>6, <2>1
    <3> QED BY <1>1, <2>1, <3>1, LinkedOut
  <2>3. TypeOK'
    <3>1. ts' \in [Timers -> Stamps]
      BY <1>1, <1>4, <2>1, Typed
    <3>2. left' \in [Timers -> Overdue .. Overdue + Half]
      <4>1. CASE adrift'
        <5>1. left' = [x \in Timers |-> 0]
          BY <1>2, <4>1 DEF Due
        <5> QED BY <1>4, <5>1
      <4>2. CASE ~adrift'
        BY <1>4, <1>6, <4>2
      <4> QED BY <4>1, <4>2
    <3>3. /\ tsc \in Stamps /\ cpu \in {"386", "dynarec"} /\ room \in -Half .. Half
          /\ current \in MaybeTimer /\ target \in Stamps
      BY <1>1 DEF TypeOK
    <3>4. adrift' \in BOOLEAN
      BY <1>1, <1>6 DEF TypeOK
    <3> QED BY <1>2, <1>4, <2>1, <2>2, <3>1, <3>2, <3>3, <3>4 DEF TypeOK, Links
  <2>4. ControlInv'
    BY <1>1, <1>2, <1>3, <1>4, <1>5, <2>1 DEF ControlInv
  <2>5. TimeInv'
    <3> SUFFICES ASSUME ~adrift' PROVE TimeInv'
      BY DEF TimeInv
    <3>0. ~adrift
      BY <1>6
    <3>1. Ahead' = Ahead
      BY <1>2, <2>1 DEF Ahead, Signed
    <3>2. Ahead >= 0 /\ left[SoundPoll] <= Latch
      BY <1>1, <1>2, <3>0 DEF TimeInv
    <3>3. ts'[t] = 0 /\ \A u \in Timers \ {t} : ts'[u] = ts[u]
      BY <1>1, <2>1, Typed
    <3>4. Exact(t)'
      BY <1>2, <1>4, <1>6, <3>3 DEF Exact
    <3>5. \A u \in Timers \ {t} : Exact(u)' <=> Exact(u)
      BY <1>2, <1>6, <3>3 DEF Exact
    <3>6. \A u \in Timers : left'[u] < Overdue + Half /\ (left'[u] # Overdue => Exact(u)')
      <4> SUFFICES ASSUME NEW u \in Timers
                   PROVE  left'[u] < Overdue + Half /\ (left'[u] # Overdue => Exact(u)')
        OBVIOUS
      <4>1. left[u] < Overdue + Half /\ (left[u] # Overdue => Exact(u))
        BY <1>1, <3>0 DEF TimeInv
      <4>2. CASE u = t
        BY <1>4, <1>6, <3>4, <4>2
      <4>3. CASE u # t
        BY <1>6, <3>5, <4>1, <4>3
      <4> QED BY <4>2, <4>3
    <3>7. \A u \in enabled' : Exact(u)' /\ Ahead <= left'[u]
      <4> SUFFICES ASSUME NEW u \in enabled' PROVE Exact(u)' /\ Ahead <= left'[u]
        OBVIOUS
      <4>1. u \in enabled /\ u \in Timers /\ u # t
        BY <1>4, <2>1
      <4>2. Exact(u) /\ Ahead <= left[u]
        BY <1>1, <3>0, <4>1, Timed
      <4> QED BY <1>6, <3>5, <4>1, <4>2
    <3> QED BY <1>2, <1>3, <1>6, <3>1, <3>2, <3>6, <3>7 DEF TimeInv
  <2> QED BY <2>2, <2>3, <2>4, <2>5 DEF IInv
<1> QED BY <1>7, <1>8

\* The processor goes to another part of its loop and leaves the timers as they are.
LEMMA Moved ==
    ASSUME IInv, at # "callback", at' \in {"outer", "slice", "process"},
           list' = list, enabled' = enabled, valid' = valid, ts' = ts, left' = left,
           adrift' = adrift, tsc' = tsc, cpu' = cpu, current' = current,
           target' \in Stamps, room' \in -Half .. Half, acted' \in BOOLEAN,
           ~adrift => /\ \A u \in enabled : Ahead' <= left[u]
                      /\ at' = "outer" => Ahead' >= 1
                      /\ at' # "outer" => room' <= Period + 1 /\ Ahead' >= room' - Period
    PROVE  IInv'
<1>1. TypeOK /\ ListInv /\ ControlInv /\ TimeInv
  BY DEF IInv
<1>2. TypeOK'
  BY <1>1 DEF TypeOK
<1>3. ListInv'
  <2>1. \E n \in 0 .. Cardinality(Timers) : \E s \in [1 .. n -> Timers] :
            Linked(n, s, list', enabled') /\ (~adrift' => Sorted(n, s, left'))
    BY <1>1 DEF ListInv
  <2> QED BY <2>1 DEF ListInv, Linked, Nth, Sorted
<1>4. Called' = {} /\ Called = {} /\ ~Fired'
  BY DEF Called, Fired
<1>5. ControlInv'
  BY <1>1, <1>4 DEF ControlInv
<1>6. TimeInv'
  <2> SUFFICES ASSUME ~adrift' PROVE TimeInv'
    BY DEF TimeInv
  <2>1. \A u \in Timers : Exact(u)' <=> Exact(u)
    BY DEF Exact
  <2>2. Period' = Period
    BY DEF Period
  <2>3. /\ \A u \in Timers : left[u] < Overdue + Half /\ (left[u] # Overdue => Exact(u))
        /\ \A u \in enabled : u \in Timers /\ Exact(u)
        /\ left[SoundPoll] <= Latch
    BY <1>1, Typed DEF TimeInv
  <2>4. ~(at' = "boot") /\ at' # "callback"
    OBVIOUS
  <2> QED BY <1>4, <2>1, <2>2, <2>3, <2>4 DEF TimeInv
<1> QED BY <1>2, <1>3, <1>5, <1>6 DEF IInv

\* Processing within a slice has the same cycles left.
LEMMA ProcessNowHolds == IInv /\ ProcessNow => IInv'
<1> SUFFICES ASSUME IInv, ProcessNow PROVE IInv'
  OBVIOUS
<1>1. TypeOK /\ TimeInv
  BY DEF IInv
<1>2. /\ at = "slice" /\ at' = "process"
      /\ list' = list /\ enabled' = enabled /\ valid' = valid /\ ts' = ts /\ left' = left
      /\ target' = target /\ tsc' = tsc /\ cpu' = cpu /\ room' = room /\ current' = current
  BY DEF ProcessNow, timers
<1>3. acted' \in BOOLEAN /\ adrift' = adrift
  BY DEF ProcessNow, timers
<1>4. target \in Stamps /\ room \in -Half .. Half
  BY <1>1, Typed
<1>5. ~adrift => /\ \A u \in enabled : Ahead' <= left[u]
                 /\ room <= Period + 1 /\ Ahead' >= room - Period
  <2>1. Ahead' = Ahead
    BY <1>2 DEF Ahead, Signed
  <2> QED BY <1>1, <1>2, <2>1 DEF TimeInv
<1> QED BY <1>2, <1>3, <1>4, <1>5, Moved

\* A slice is never longer than up to the target, or the fixed period.
LEMMA BeginSliceHolds == IInv /\ BeginSlice => IInv'
<1> SUFFICES ASSUME IInv, BeginSlice PROVE IInv'
  OBVIOUS
<1>1. TypeOK /\ ControlInv /\ TimeInv
  BY DEF IInv
<1>2. /\ at \in {"boot", "outer"} /\ at' = "slice" /\ at # "callback"
      /\ room' = (IF cpu = "386" THEN Ahead + 1 ELSE Slice)
      /\ list' = list /\ enabled' = enabled /\ valid' = valid /\ ts' = ts /\ left' = left
      /\ target' = target /\ tsc' = tsc /\ cpu' = cpu /\ current' = current
  BY DEF BeginSlice, timers, Ahead
<1>3. acted' \in BOOLEAN /\ adrift' = adrift
  BY DEF BeginSlice, timers
<1>4. target \in Stamps
  BY <1>1, Typed
<1>5. Ahead \in -Half .. Half - 1 /\ Half \in Nat /\ Slice \in Nat \ {0} /\ Slice <= Half
      /\ Latch \in Nat \ {0}
  <2>1. target - tsc \in Int
    BY <1>1, Typed
  <2> QED BY <2>1, SignedRange, Sizes DEF Ahead
<1>6. room' \in -Half .. Half
  BY <1>2, <1>5
<1>7. ~adrift => /\ \A u \in enabled : Ahead' <= left[u]
                 /\ room' <= Period + 1 /\ Ahead' >= room' - Period
  <2> SUFFICES ASSUME ~adrift
               PROVE  /\ \A u \in enabled : Ahead' <= left[u]
                      /\ room' <= Period + 1 /\ Ahead' >= room' - Period
    OBVIOUS
  <2>1. Ahead' = Ahead
    BY <1>2 DEF Ahead, Signed
  <2>2. (\A u \in enabled : Ahead <= left[u]) /\ left[SoundPoll] <= Latch
    BY <1>1 DEF TimeInv
  <2>3. SoundPoll \in enabled
    BY <1>1, <1>2 DEF ControlInv, Called, Fired
  <2>4. left[SoundPoll] \in Int
    BY <1>1, TimersFinite, Typed
  <2>5. CASE cpu = "386"
    BY <1>2, <1>5, <2>1, <2>2, <2>3, <2>4, <2>5 DEF Period
  <2>6. CASE cpu # "386"
    <3>1. Ahead >= 0
      BY <1>1, <1>2, <1>5 DEF TimeInv
    <3> QED BY <1>2, <1>5, <2>1, <2>2, <2>6, <3>1 DEF Period
  <2> QED BY <2>5, <2>6
<1> QED BY <1>2, <1>3, <1>4, <1>6, <1>7, Moved

\* A slice that ends without processing has not reached the target.
LEMMA EndSliceHolds == IInv /\ EndSlice => IInv'
<1> SUFFICES ASSUME IInv, EndSlice PROVE IInv'
  OBVIOUS
<1>1. TypeOK /\ TimeInv
  BY DEF IInv
<1>2. /\ at = "slice" /\ at' = (IF Leq(target, tsc) THEN "process" ELSE "outer")
      /\ list' = list /\ enabled' = enabled /\ valid' = valid /\ ts' = ts /\ left' = left
      /\ target' = target /\ tsc' = tsc /\ cpu' = cpu /\ room' = room /\ current' = current
  BY DEF EndSlice, timers
<1>3. acted' \in BOOLEAN /\ adrift' = adrift
  BY <1>1 DEF EndSlice, timers, TypeOK
<1>4. target \in Stamps /\ room \in -Half .. Half
  BY <1>1, Typed
<1>5. ~adrift => /\ \A u \in enabled : Ahead' <= left[u]
                 /\ at' = "outer" => Ahead' >= 1
                 /\ room <= Period + 1 /\ Ahead' >= room - Period
  <2>1. Ahead' = Ahead
    BY <1>2 DEF Ahead, Signed
  <2>2. at' = "outer" => ~(Ahead <= 0)
    <3>1. target \in Int /\ tsc \in Int
      BY <1>1, Typed
    <3>2. Leq(target, tsc) <=> Ahead <= 0
      BY <3>1, LeqIs DEF Ahead
    <3> QED BY <1>2, <3>2
  <2>3. Ahead \in -Half .. Half - 1
    <3>1. target - tsc \in Int
      BY <1>1, Typed
    <3> QED BY <3>1, SignedRange DEF Ahead
  <2>4. at' = "outer" => Ahead >= 1
    BY <2>2, <2>3, Sizes
  <2> QED BY <1>1, <1>2, <2>1, <2>4 DEF TimeInv
<1> QED BY <1>2, <1>3, <1>4, <1>5, Moved

\* Running an instruction brings every timer of the list, and the target, nearer.
LEMMA RunHolds ==
    ASSUME IInv, NEW c \in Costs, Run(c)
    PROVE  IInv'
<1>1. TypeOK /\ ListInv /\ ControlInv /\ TimeInv
  BY DEF IInv
<1>2. /\ at = "slice" /\ room > 0 /\ tsc' = (tsc + c) % Wrap /\ room' = room - c /\ acted' = FALSE
      /\ left' = IF adrift THEN left
                 ELSE [t \in Timers |-> IF left[t] - c < Overdue THEN Overdue ELSE left[t] - c]
      /\ list' = list /\ enabled' = enabled /\ valid' = valid /\ ts' = ts /\ target' = target
      /\ cpu' = cpu /\ at' = at /\ current' = current
  BY DEF Run
<1>3. adrift' = adrift
  BY DEF Run
<1>4. /\ c \in Nat \ {0} /\ c <= Half /\ 1 - c - Period >= Overdue /\ Period \in Nat \ {0}
      /\ Overdue \in Int /\ Half \in Nat /\ -Half <= Overdue /\ Overdue <= 0 /\ Latch \in Nat
      /\ Overdue + Half \in Nat
  BY <1>1, Sizes, PeriodIs
<1>5. /\ list \in Links /\ enabled \subseteq Timers
      /\ ts \in [Timers -> Stamps] /\ tsc \in Int /\ target \in Int /\ room \in -Half .. Half
      /\ left \in [Timers -> Overdue .. Overdue + Half] /\ \A t \in Timers : left[t] \in Int
      /\ \A t \in Timers : left[t] \in Overdue .. Overdue + Half
  BY <1>1, Typed
<1>6. tsc' \in Stamps
  <2>1. tsc + c \in Int /\ 0 \in Int
    BY <1>4, <1>5
  <2>2. (tsc + c) % Wrap \in Stamps
    BY ONLY <2>1, WrapPlus
  <2> QED BY <1>2, <2>2
<1>7. room' \in -Half .. Half /\ room' <= room
  BY <1>2, <1>4, <1>5
<1>8. left' \in [Timers -> Overdue .. Overdue + Half]
  <2>1. CASE adrift
    BY <1>2, <1>5, <2>1
  <2>2. CASE ~adrift
    <3>1. \A t \in Timers : (IF left[t] - c < Overdue THEN Overdue ELSE left[t] - c) \in Overdue .. Overdue + Half
      BY <1>4, <1>5
    <3> QED BY <1>2, <2>2, <3>1
  <2> QED BY <2>1, <2>2
<1>9. TypeOK'
  BY <1>1, <1>2, <1>3, <1>6, <1>7, <1>8 DEF TypeOK
<1>10. Called = {} /\ Called' = {} /\ ~Fired'
  BY <1>2 DEF Called, Fired
<1>11. ControlInv'
  BY <1>1, <1>2, <1>10 DEF ControlInv
<1>12. ASSUME ~adrift
       PROVE  /\ \A t \in Timers : left'[t] = IF left[t] - c < Overdue THEN Overdue ELSE left[t] - c
              /\ \A t \in enabled : left'[t] = left[t] - c
              /\ Ahead' = Ahead - c
  <2>1. \A t \in Timers : left'[t] = IF left[t] - c < Overdue THEN Overdue ELSE left[t] - c
    BY <1>2, <1>12
  <2>2. /\ Ahead \in Int /\ Ahead >= room - Period /\ \A t \in enabled : Ahead <= left[t]
    BY <1>1, <1>2, <1>12, Timed DEF TimeInv
  <2>3. Ahead - c >= Overdue /\ Ahead - c >= -Half
    BY <1>2, <1>4, <1>5, <2>2
  <2>4. ASSUME NEW t \in enabled PROVE left'[t] = left[t] - c
    <3>1. t \in Timers /\ left[t] \in Int /\ Ahead <= left[t]
      BY <1>5, <2>2
    <3>2. ~(left[t] - c < Overdue)
      BY <1>4, <2>2, <2>3, <3>1
    <3> QED BY <2>1, <3>1, <3>2
  <2>5. Ahead' = Signed(target - ((tsc + c) % Wrap))
    BY <1>2 DEF Ahead, Signed
  <2>6. Signed(target - tsc) - c >= -Half
    BY <2>3 DEF Ahead
  <2>7. Ahead' = Ahead - c
    BY <1>4, <1>5, <2>5, <2>6, AheadShrinks DEF Ahead
  <2> QED BY <2>1, <2>4, <2>7
<1>13. ListInv'
  <2>n. PICK n \in 0 .. Cardinality(Timers) : \E s \in [1 .. n -> Timers] :
            Linked(n, s, list, enabled) /\ (~adrift => Sorted(n, s, left))
    BY <1>1 DEF ListInv
  <2>1. PICK s \in [1 .. n -> Timers] :
            Linked(n, s, list, enabled) /\ (~adrift => Sorted(n, s, left))
    BY <2>n
  <2>2. \A i \in 1 .. n : s[i] \in enabled
    BY <2>1 DEF Linked
  <2>3. ~adrift => Sorted(n, s, left')
    <3> SUFFICES ASSUME ~adrift, NEW i \in 1 .. n, NEW j \in 1 .. n, i <= j
                 PROVE  left'[s[i]] <= left'[s[j]]
      BY DEF Sorted
    <3>1. left'[s[i]] = left[s[i]] - c /\ left'[s[j]] = left[s[j]] - c
      BY <1>12, <2>2
    <3>2. left[s[i]] <= left[s[j]]
      BY <2>1 DEF Sorted
    <3>3. left[s[i]] \in Int /\ left[s[j]] \in Int
      BY <1>5
    <3> QED BY <1>4, <3>1, <3>2, <3>3
  <2>4. \E m \in 0 .. Cardinality(Timers) : \E w \in [1 .. m -> Timers] :
            Linked(m, w, list', enabled') /\ (~adrift' => Sorted(m, w, left'))
    BY <1>2, <1>3, <2>1, <2>3
  <2> QED BY <2>4 DEF ListInv, Linked, Nth, Sorted
<1>14. TimeInv'
  <2> SUFFICES ASSUME ~adrift' PROVE TimeInv'
    BY DEF TimeInv
  <2>0. ~adrift
    BY <1>3
  <2>1. ASSUME NEW t \in Timers, left'[t] = left[t] - c, Exact(t) PROVE Exact(t)'
    <3>1. ts[t] = (tsc + left[t]) % Wrap
      BY <2>1 DEF Exact
    <3>2. (((tsc + c) % Wrap) + (left[t] - c)) % Wrap = (tsc + left[t]) % Wrap
      BY <1>4, <1>5, StampStays
    <3> QED BY <1>2, <2>1, <3>1, <3>2 DEF Exact
  <2>2. ASSUME NEW t \in Timers
        PROVE  left'[t] < Overdue + Half /\ (left'[t] # Overdue => Exact(t)')
    <3>1. left[t] \in Overdue .. Overdue + Half - 1 /\ (left[t] # Overdue => Exact(t)) /\ left[t] \in Int
      BY <1>1, <1>5, <2>0, Timed
    <3>2. CASE left[t] - c < Overdue
      <4>1. left'[t] = Overdue
        BY <1>12, <2>0, <3>2
      <4> QED BY <1>4, <3>1, <4>1
    <3>3. CASE ~(left[t] - c < Overdue)
      <4>1. left'[t] = left[t] - c
        BY <1>12, <2>0, <3>3
      <4>2. left[t] # Overdue /\ left'[t] < Overdue + Half
        BY <1>4, <3>1, <3>3, <4>1
      <4> QED BY <2>1, <3>1, <4>1, <4>2
    <3> QED BY <3>2, <3>3
  <2>3. ASSUME NEW t \in enabled PROVE Exact(t)' /\ Ahead' <= left'[t]
    <3>1. t \in Timers /\ Exact(t) /\ Ahead <= left[t] /\ Ahead \in Int /\ left[t] \in Int
      BY <1>1, <1>5, <2>0, Timed
    <3>2. left'[t] = left[t] - c /\ Ahead' = Ahead - c
      BY <1>12, <2>0
    <3> QED BY <1>4, <2>1, <3>1, <3>2
  <2>4. left'[SoundPoll] <= Latch
    <3>1. SoundPoll \in enabled /\ SoundPoll \in Timers
      BY <1>1, <1>10, TimersFinite DEF ControlInv
    <3>2. left'[SoundPoll] = left[SoundPoll] - c /\ left[SoundPoll] <= Latch
      BY <1>1, <1>12, <2>0, <3>1 DEF TimeInv
    <3> QED BY <1>4, <1>5, <3>1, <3>2
  <2>5. Period' = Period
    BY <1>2 DEF Period
  <2>6. room' <= Period + 1 /\ Ahead' >= room' - Period
    <3>1. room <= Period + 1 /\ Ahead >= room - Period /\ Ahead \in Int
      BY <1>1, <1>2, <2>0, Timed DEF TimeInv
    <3>2. Ahead' = Ahead - c
      BY <1>12, <2>0
    <3> QED BY <1>2, <1>4, <1>5, <3>1, <3>2
  <2> QED BY <1>2, <1>10, <2>2, <2>3, <2>4, <2>5, <2>6 DEF TimeInv
<1> QED BY <1>9, <1>11, <1>13, <1>14 DEF IInv

\* The head of the list is the timer that is due first.
LEMMA HeadFirst ==
    ASSUME TypeOK, ListInv, ControlInv
    PROVE  /\ enabled # {} => list.head \in enabled
           /\ list.head # NoTimer => list.head \in enabled
           /\ ~adrift => \A t \in enabled : left[list.head] <= left[t]
<1>n. PICK n \in 0 .. Cardinality(Timers) : \E s \in [1 .. n -> Timers] :
          Linked(n, s, list, enabled) /\ (~adrift => Sorted(n, s, left))
  BY DEF ListInv
<1>1. PICK s \in [1 .. n -> Timers] :
          Linked(n, s, list, enabled) /\ (~adrift => Sorted(n, s, left))
  BY <1>n
<1>2. n \in Nat /\ enabled = {s[i] : i \in 1 .. n} /\ list.head = Nth(n, s, 1)
  BY <1>1, TimersFinite DEF Linked
<1>3. CASE n = 0
  <2>1. enabled = {} /\ list.head = NoTimer
    BY <1>2, <1>3 DEF Nth
  <2> QED BY <2>1
<1>4. CASE n # 0
  <2>1. 1 \in 1 .. n /\ list.head = s[1] /\ list.head \in enabled
    BY <1>2, <1>4 DEF Nth
  <2>2. ASSUME ~adrift, NEW t \in enabled PROVE left[list.head] <= left[t]
    <3>1. PICK i \in 1 .. n : s[i] = t
      BY <1>2
    <3>2. 1 <= i
      OBVIOUS
    <3> QED BY <1>1, <2>1, <2>2, <3>1, <3>2 DEF Sorted
  <2> QED BY <2>1, <2>2
<1> QED BY <1>3, <1>4

\* Its stamp says whether it is due.
LEMMA HeadTells ==
    ASSUME IInv, ~adrift, list.head \in enabled
    PROVE  /\ HeadIsDue <=> left[list.head] <= 0
           /\ Signed(ts[list.head] - tsc) = left[list.head]
<1>1. TypeOK /\ TimeInv
  BY DEF IInv
<1>2. /\ list.head \in Timers /\ Exact(list.head)
      /\ left[list.head] \in Overdue .. Overdue + Half - 1
      /\ tsc \in Int /\ list.head # NoTimer
  BY <1>1, Typed, Timed, TimersFinite
<1>3. left[list.head] \in -Half .. Half - 1
  BY <1>2, Sizes
<1>4. ts[list.head] = (tsc + left[list.head]) % Wrap
  BY <1>2 DEF Exact
<1>5. Signed(ts[list.head] - tsc) = left[list.head] /\ (Leq(ts[list.head], tsc) <=> left[list.head] <= 0)
  BY <1>2, <1>3, <1>4, StampTells
<1> QED BY <1>2, <1>5 DEF HeadIsDue

\* The timer called back is due, and keeps its stamp until its callback sets it.
LEMMA FireHolds == IInv /\ Fire => IInv'
<1> SUFFICES ASSUME IInv, Fire PROVE IInv'
  OBVIOUS
<1>1. TypeOK /\ ListInv /\ ControlInv /\ TimeInv
  BY DEF IInv
<1>2. /\ at = "process" /\ HeadIsDue /\ current' = list.head
      /\ list' = Without(list, list.head) /\ enabled' = enabled \ {list.head}
      /\ at' = "callback" /\ acted' = FALSE
      /\ valid' = valid /\ ts' = ts /\ tsc' = tsc /\ target' = target /\ cpu' = cpu
      /\ room' = room /\ left' = left
  BY DEF Fire
<1>3. adrift' = adrift
  BY DEF Fire
<1>h. PICK h : h = list.head
  OBVIOUS
<1>4. h \in enabled /\ h \in Timers /\ h # NoTimer
  BY <1>1, <1>2, <1>h, HeadFirst, Typed DEF HeadIsDue
<1>5. ListInv' /\ list' \in Links
  <2>1. /\ enabled' = enabled \ {h} /\ list' = (IF h \in enabled THEN Without(list, h) ELSE list)
    BY <1>2, <1>4, <1>h
  <2>2. ~adrift' => ~adrift /\ \A u \in enabled' : left'[u] = left[u]
    BY <1>2, <1>3
  <2> QED BY <1>1, <1>4, <2>1, <2>2, LinkedOut
<1>6. TypeOK'
  <2>1. h \in MaybeTimer
    BY <1>4 DEF MaybeTimer
  <2> QED BY <1>1, <1>2, <1>3, <1>5, <1>h, <2>1 DEF TypeOK, Links
<1>7. Fired' /\ Called' = {h} /\ Called = {}
  BY <1>2, <1>h DEF Called, Fired
<1>8. ControlInv'
  BY <1>1, <1>2, <1>4, <1>7, <1>h DEF ControlInv
<1>9. TimeInv'
  <2> SUFFICES ASSUME ~adrift' PROVE TimeInv'
    BY DEF TimeInv
  <2>0. ~adrift
    BY <1>3
  <2>1. \A u \in Timers : Exact(u)' <=> Exact(u)
    BY <1>2 DEF Exact
  <2>2. Ahead' = Ahead /\ Period' = Period
    BY <1>2 DEF Ahead, Signed, Period
  <2>3. left[h] <= 0
    BY <1>2, <1>4, <1>h, <2>0, HeadTells
  <2>4. /\ room <= Period + 1 /\ Ahead >= room - Period /\ Ahead <= left[h]
        /\ Ahead \in Int /\ room \in Int /\ Period \in Int /\ left[h] \in Int
    BY <1>1, <1>2, <1>4, <2>0, Timed, Typed, PeriodIs DEF TimeInv
  <2>5. left[h] >= room - Period
    BY <2>4
  <2>6. /\ \A u \in Timers : left[u] < Overdue + Half /\ (left[u] # Overdue => Exact(u))
        /\ \A u \in enabled : u \in Timers /\ Exact(u) /\ Ahead <= left[u]
        /\ left[SoundPoll] <= Latch
    BY <1>1, <2>0, Typed DEF TimeInv
  <2>7. \A u \in enabled' \cup Called' : u \in enabled
    BY <1>2, <1>4, <1>7
  <2> QED BY <1>2, <1>7, <1>h, <2>1, <2>2, <2>3, <2>4, <2>5, <2>6, <2>7 DEF TimeInv
<1> QED BY <1>5, <1>6, <1>8, <1>9 DEF IInv

\* sound_poll has its timer armed again when it returns.
LEMMA ReturnHolds == IInv /\ Return => IInv'
<1> SUFFICES ASSUME IInv, Return PROVE IInv'
  OBVIOUS
<1>1. TypeOK /\ ListInv /\ ControlInv /\ TimeInv
  BY DEF IInv
<1>2. /\ at = "callback" /\ Returns /\ at' = "process" /\ acted' = TRUE /\ current' = NoTimer
      /\ tsc' = tsc /\ cpu' = cpu /\ room' = room
  BY DEF Return
<1>3. Called' = {} /\ ~Fired' /\ NoTimer \in MaybeTimer /\ SoundPoll \in Timers
  BY <1>2, TimersFinite DEF Called, Fired, MaybeTimer
<1>4. Period' = Period
  BY <1>2 DEF Period
<1>5. CASE current = SoundPoll
  <2>x. PICK x : x = left[SoundPoll] + Latch
    OBVIOUS
  <2>s. PICK stamp : stamp = (ts[SoundPoll] + Latch) % Wrap
    OBVIOUS
  <2>1. valid' = valid /\ Enable(SoundPoll, stamp) /\ Due(SoundPoll, x, FALSE)
    BY <1>2, <1>5, <2>x, <2>s DEF Returns
  <2>2. /\ Latch \in Nat \ {0} /\ Latch < Overdue + Half /\ Overdue \in Int /\ Half \in Nat
        /\ left[SoundPoll] \in Int /\ tsc \in Int /\ ts[SoundPoll] \in Int
    BY <1>1, <1>3, Sizes, Typed
  <2>3. x \in Int /\ stamp \in Stamps
    <3>1. ts[SoundPoll] + Latch \in Int /\ 0 \in Int
      BY <2>2
    <3>2. (ts[SoundPoll] + Latch) % Wrap \in Stamps
      BY ONLY <3>1, WrapPlus
    <3> QED BY <2>2, <2>x, <2>s, <3>2
  <2>4. Fired /\ SoundPoll \in Called
    BY <1>2, <1>5 DEF Fired, Called
  <2>5. adrift' = adrift
    <3>1. adrift \in BOOLEAN
      BY <1>1 DEF TypeOK
    <3> QED BY <2>1, <3>1 DEF Due
  <2>6. ASSUME ~adrift
        PROVE  /\ x \in Overdue .. Overdue + Half - 1 /\ stamp = (tsc + x) % Wrap
               /\ x <= Latch /\ x >= room - Period
    <3>1. /\ Exact(SoundPoll) /\ left[SoundPoll] <= 0 /\ left[SoundPoll] >= room - Period
      BY <1>1, <1>2, <1>5, <2>4, <2>6 DEF TimeInv
    <3>2. left[SoundPoll] \in Overdue .. Overdue + Half - 1
      BY <1>1, <1>3, <2>6, Timed
    <3>3. room - Period \in Int
      BY <1>1, Typed, PeriodIs
    <3>4. x \in Overdue .. Overdue + Half - 1 /\ x <= Latch /\ x >= room - Period
      BY <2>2, <2>x, <3>1, <3>2, <3>3
    <3>5. ts[SoundPoll] = (tsc + left[SoundPoll]) % Wrap
      BY <3>1 DEF Exact
    <3>6. stamp = (tsc + (left[SoundPoll] + Latch)) % Wrap
      BY <2>2, <2>s, <3>5, StampAdds
    <3> QED BY <2>x, <3>4, <3>6
  <2>7. /\ list' \in Links /\ ts' \in [Timers -> Stamps] /\ target' \in Stamps
        /\ left' \in [Timers -> Overdue .. Overdue + Half] /\ adrift' \in BOOLEAN
        /\ enabled' = (IF SoundPoll \in valid' THEN enabled \cup {SoundPoll} ELSE enabled)
        /\ ListInv'
        /\ ~adrift' =>
                /\ ~adrift /\ left' = [left EXCEPT ![SoundPoll] = x] /\ left'[SoundPoll] = x
                /\ \A u \in Timers : /\ left'[u] < Overdue + Half
                                     /\ left'[u] # Overdue => Exact(u)'
                                     /\ u = SoundPoll \/ Exact(u) => Exact(u)'
                /\ \A u \in enabled' : Exact(u)' /\ Ahead' <= left'[u]
                /\ Ahead' \in {Ahead, x}
    <3>1. valid \subseteq valid' /\ FALSE \in BOOLEAN
      BY <2>1
    <3>2. ~adrift' => x \in Overdue .. Overdue + Half - 1 /\ stamp = (tsc + x) % Wrap
      BY <2>5, <2>6
    <3> QED BY <1>2, <1>3, <2>1, <2>3, <3>1, <3>2, ArmStep
  <2>8. enabled' = enabled \cup {SoundPoll} /\ enabled' \subseteq Timers /\ enabled' \subseteq valid'
    BY <1>1, <1>3, <2>1, <2>7, Typed DEF ControlInv
  <2>9. TypeOK'
    <3>1. /\ tsc \in Stamps /\ cpu \in {"386", "dynarec"} /\ room \in -Half .. Half
          /\ valid \subseteq Timers
      BY <1>1 DEF TypeOK
    <3> QED BY <1>2, <1>3, <2>1, <2>7, <2>8, <3>1 DEF TypeOK, Links
  <2>10. ControlInv'
    BY <1>1, <1>2, <1>3, <2>1, <2>8 DEF ControlInv
  <2>11. TimeInv'
    <3> SUFFICES ASSUME ~adrift' PROVE TimeInv'
      BY DEF TimeInv
    <3>1. ~adrift
      BY <2>5
    <3>2. room <= Period + 1 /\ Ahead >= room - Period
      BY <1>1, <1>2, <3>1 DEF TimeInv
    <3>3. Ahead' >= room - Period
      BY <2>6, <2>7, <3>1, <3>2
    <3>4. left'[SoundPoll] <= Latch
      BY <2>6, <2>7, <3>1
    <3> QED BY <1>2, <1>3, <1>4, <2>7, <3>2, <3>3, <3>4 DEF TimeInv
  <2> QED BY <2>7, <2>9, <2>10, <2>11 DEF IInv
<1>6. CASE current # SoundPoll
  <2>1. /\ list' = list /\ enabled' = enabled /\ valid' = valid /\ ts' = ts
        /\ target' = target /\ left' = left
    BY <1>2, <1>6 DEF Returns, timers
  <2>2. adrift' = adrift
    BY <1>2, <1>6 DEF Returns, timers
  <2>3. TypeOK'
    BY <1>1, <1>2, <1>3, <2>1, <2>2 DEF TypeOK
  <2>4. ListInv'
    <3>1. \E n \in 0 .. Cardinality(Timers) : \E s \in [1 .. n -> Timers] :
            Linked(n, s, list', enabled') /\ (~adrift' => Sorted(n, s, left'))
      BY <1>1, <2>1, <2>2 DEF ListInv
    <3> QED BY <3>1 DEF ListInv, Linked, Nth, Sorted
  <2>5. SoundPoll \notin Called
    BY <1>6 DEF Called
  <2>6. ControlInv'
    BY <1>1, <1>2, <1>3, <2>1, <2>5 DEF ControlInv
  <2>7. TimeInv'
    <3> SUFFICES ASSUME ~adrift' PROVE TimeInv'
      BY DEF TimeInv
    <3>1. \A u \in Timers : Exact(u)' <=> Exact(u)
      BY <1>2, <2>1 DEF Exact
    <3>2. Ahead' = Ahead
      BY <1>2, <2>1 DEF Ahead, Signed
    <3>3. /\ \A u \in Timers : left[u] < Overdue + Half /\ (left[u] # Overdue => Exact(u))
          /\ \A u \in enabled : u \in Timers /\ Exact(u) /\ Ahead <= left[u]
          /\ left[SoundPoll] <= Latch
          /\ room <= Period + 1 /\ Ahead >= room - Period
      BY <1>1, <1>2, <2>2, Typed DEF TimeInv
    <3> QED BY <1>2, <1>3, <1>4, <2>1, <3>1, <3>2, <3>3 DEF TimeInv
  <2> QED BY <2>3, <2>4, <2>6, <2>7 DEF IInv
<1> QED BY <1>5, <1>6

\* Processing ends with the target at the head, which is not due yet.
LEMMA EndProcessHolds == IInv /\ EndProcess => IInv'
<1> SUFFICES ASSUME IInv, EndProcess PROVE IInv'
  OBVIOUS
<1>1. TypeOK /\ ListInv /\ ControlInv /\ TimeInv
  BY DEF IInv
<1>2. /\ at = "process" /\ ~HeadIsDue /\ at' = (IF room > 0 THEN "slice" ELSE "outer")
      /\ target' = (IF list.head = NoTimer THEN target ELSE ts[list.head])
      /\ list' = list /\ enabled' = enabled /\ valid' = valid /\ ts' = ts /\ left' = left
      /\ tsc' = tsc /\ cpu' = cpu /\ room' = room /\ current' = current
  BY DEF EndProcess
<1>3. adrift' = adrift /\ acted' \in BOOLEAN
  BY <1>1 DEF EndProcess, TypeOK
<1>4. SoundPoll \in enabled
  BY <1>1, <1>2 DEF ControlInv, Called, Fired
<1>5. list.head \in enabled /\ list.head \in Timers /\ list.head # NoTimer
  BY <1>1, <1>4, HeadFirst, Typed, TimersFinite
<1>6. target' \in Stamps /\ room' \in -Half .. Half
  BY <1>1, <1>2, <1>5, Typed
<1>7. ~adrift => /\ \A u \in enabled : Ahead' <= left[u]
                 /\ Ahead' >= 1
                 /\ room' <= Period + 1 /\ Ahead' >= room' - Period
  <2> SUFFICES ASSUME ~adrift
               PROVE  /\ \A u \in enabled : Ahead' <= left[u]
                      /\ Ahead' >= 1
                      /\ room <= Period + 1 /\ Ahead' >= room - Period
    BY <1>2
  <2>1. Ahead' = left[list.head]
    <3>1. Ahead' = Signed(ts[list.head] - tsc)
      BY <1>2, <1>5 DEF Ahead, Signed
    <3> QED BY <1>5, <3>1, HeadTells
  <2>2. ~(left[list.head] <= 0) /\ left[list.head] \in Int
    BY <1>1, <1>2, <1>5, HeadTells, Typed
  <2>3. left[list.head] >= 1
    BY <2>2
  <2>4. room <= Period + 1 /\ room \in Int /\ Period \in Int
    BY <1>1, <1>2, Typed, PeriodIs DEF TimeInv
  <2>5. left[list.head] >= room - Period
    BY <2>2, <2>3, <2>4
  <2> QED BY <1>1, <2>1, <2>3, <2>4, <2>5, HeadFirst
<1>8. at # "callback" /\ at' \in {"outer", "slice", "process"}
  BY <1>2
<1> QED BY <1>2, <1>3, <1>6, <1>7, <1>8, Moved

\* A step that changes nothing keeps the invariant.
LEMMA StutterHolds == IInv /\ UNCHANGED vars => IInv'
<1> SUFFICES ASSUME IInv, UNCHANGED vars PROVE IInv'
  OBVIOUS
<1>1. TypeOK /\ ListInv /\ ControlInv /\ TimeInv
  BY DEF IInv
<1>2. /\ list' = list /\ enabled' = enabled /\ valid' = valid /\ ts' = ts /\ target' = target
      /\ left' = left /\ tsc' = tsc /\ cpu' = cpu /\ at' = at /\ room' = room
      /\ current' = current
  BY DEF vars, timers
<1>3. adrift' = adrift /\ acted' = acted
  BY DEF vars, timers
<1>4. TypeOK'
  BY <1>1, <1>2, <1>3 DEF TypeOK
<1>5. ListInv'
  <2>1. \E n \in 0 .. Cardinality(Timers) : \E s \in [1 .. n -> Timers] :
            Linked(n, s, list', enabled') /\ (~adrift' => Sorted(n, s, left'))
    BY <1>1, <1>2, <1>3 DEF ListInv
  <2> QED BY <2>1 DEF ListInv, Linked, Nth, Sorted
<1>6. (Fired' <=> Fired) /\ Called' = Called
  BY <1>2, <1>3 DEF Called, Fired
<1>7. ControlInv'
  BY <1>1, <1>2, <1>6 DEF ControlInv
<1>8. TimeInv'
  <2>1. \A u : Exact(u)' <=> Exact(u)
    BY <1>2 DEF Exact
  <2>2. Ahead' = Ahead /\ Period' = Period
    BY <1>2 DEF Ahead, Signed, Period
  <2> QED BY <1>1, <1>2, <1>3, <1>6, <2>1, <2>2 DEF TimeInv
<1> QED BY <1>4, <1>5, <1>7, <1>8 DEF IInv

----------------------------------------------------------------------------
(* What follows *)

\* The invariant is inductive: whatever instructions, callbacks and boots do to the
\* timers, in whatever order, the list stays well linked and every stamp the time of
\* its timer.
THEOREM Inductive == Spec => []IInv
<1>1. IInv /\ [Next]_vars => IInv'
  <2> SUFFICES ASSUME IInv, [Next]_vars PROVE IInv'
    OBVIOUS
  <2>1. CASE BeginSlice
    BY <2>1, BeginSliceHolds
  <2>2. ASSUME NEW c \in Costs, Run(c) PROVE IInv'
    BY <2>2, RunHolds
  <2>3. CASE EndSlice
    BY <2>3, EndSliceHolds
  <2>4. CASE Fire
    BY <2>4, FireHolds
  <2>5. CASE Return
    BY <2>5, ReturnHolds
  <2>6. CASE EndProcess
    BY <2>6, EndProcessHolds
  <2>7. ASSUME NEW t \in Ours, NEW d \in Delays, SetDelay(t, d) PROVE IInv'
    BY <2>7, SetDelayHolds
  <2>8. ASSUME NEW t \in Ours, NEW d \in Delays, Advance(t, d) PROVE IInv'
    BY <2>8, AdvanceHolds
  <2>9. ASSUME NEW t \in Ours, Disable(t) PROVE IInv'
    BY <2>9, DisableHolds
  <2>10. ASSUME NEW v \in Strays, WriteTsc(v) PROVE IInv'
    BY <2>10, WriteTscHolds
  <2>11. CASE ProcessNow
    BY <2>11, ProcessNowHolds
  <2>12. CASE Reset
    BY <2>12, ResetHolds
  <2>13. ASSUME NEW t \in Ours, NEW start \in BOOLEAN, Add(t, start) PROVE IInv'
    BY <2>13, AddHolds
  <2>14. CASE UNCHANGED vars
    BY <2>14, StutterHolds
  <2> QED BY <2>1, <2>2, <2>3, <2>4, <2>5, <2>6, <2>7, <2>8, <2>9, <2>10, <2>11, <2>12, <2>13, <2>14
          DEF Next, Proceed
<1> QED BY <1>1, InitHolds, PTL DEF Spec

\* From the head forward lie exactly the enabled timers, linked both ways, and no
\* other timer has links (timer_enable, timer_disable).
THEOREM ListCorrect == Spec => []ListIsEnabled
<1>1. IInv => ListIsEnabled
  <2> SUFFICES ASSUME IInv PROVE ListIsEnabled
    OBVIOUS
  <2>n. PICK n \in 0 .. Cardinality(Timers) : \E s \in [1 .. n -> Timers] :
            Linked(n, s, list, enabled)
    BY DEF IInv, ListInv
  <2>1. PICK s \in [1 .. n -> Timers] : Linked(n, s, list, enabled)
    BY <2>n
  <2>m. PICK m : m = Cardinality(Timers)
    OBVIOUS
  <2> DEFINE w == Walk(list)
  <2> HIDE DEF w
  <2>2. /\ m \in Nat /\ n \in Nat /\ n <= m /\ NoTimer \notin Timers
        /\ \A i \in 1 .. n : s[i] \in Timers /\ i \in 1 .. m
        /\ \A i, j \in 1 .. n : s[i] = s[j] => i = j
        /\ enabled = {s[i] : i \in 1 .. n} /\ list.head = Nth(n, s, 1)
        /\ \A i \in 1 .. n : list.next[s[i]] = Nth(n, s, i + 1) /\ list.prev[s[i]] = Nth(n, s, i - 1)
        /\ \A t \in Timers \ enabled : list.next[t] = NoTimer /\ list.prev[t] = NoTimer
    BY <2>1, <2>m, TimersFinite DEF Linked
  <2>3. DOMAIN w = 1 .. m /\ \A i \in 1 .. m : w[i] = Nth(n, s, i)
    BY <2>1, <2>m, WalkIs DEF w
  <2>4. \A i \in 1 .. m : w[i] # NoTimer => i \in 1 .. n /\ w[i] = s[i]
    BY <2>3 DEF Nth
  <2>5. \A i \in 1 .. n : w[i] = s[i] /\ s[i] # NoTimer
    BY <2>2, <2>3 DEF Nth
  <2>6. {w[i] : i \in DOMAIN w} \ {NoTimer} = enabled
    BY <2>2, <2>3, <2>4, <2>5
  <2>7. \A i, j \in DOMAIN w : w[i] = w[j] /\ w[i] # NoTimer => i = j
    BY <2>2, <2>3, <2>4
  <2>8. ASSUME NEW t \in enabled
        PROVE  /\ t \in valid
               /\ list.next[t] # NoTimer => list.prev[list.next[t]] = t
               /\ (list.prev[t] = NoTimer) = (list.head = t)
    <3>1. PICK i \in 1 .. n : s[i] = t
      BY <2>2
    <3>2. list.next[t] = Nth(n, s, i + 1) /\ list.prev[t] = Nth(n, s, i - 1)
      BY <2>2, <3>1
    <3>3. list.next[t] # NoTimer => list.prev[list.next[t]] = t
      <4> SUFFICES ASSUME list.next[t] # NoTimer PROVE list.prev[list.next[t]] = t
        OBVIOUS
      <4>1. i + 1 \in 1 .. n /\ list.next[t] = s[i + 1] /\ (i + 1) - 1 = i
        BY <3>2 DEF Nth
      <4>2. list.prev[s[i + 1]] = Nth(n, s, i)
        BY <2>2, <4>1
      <4> QED BY <3>1, <4>1, <4>2 DEF Nth
    <3>4. list.prev[t] = NoTimer <=> i = 1
      BY <2>2, <3>2 DEF Nth
    <3>5. list.head = t <=> i = 1
      <4>1. 1 \in 1 .. n /\ list.head = s[1]
        BY <2>2 DEF Nth
      <4> QED BY <2>2, <3>1, <4>1
    <3>6. t \in valid
      BY DEF IInv, ControlInv
    <3> QED BY <3>3, <3>4, <3>5, <3>6
  <2>9. TypeOK
    BY DEF IInv
  <2>10. \A t \in Timers \ enabled : list.next[t] = NoTimer /\ list.prev[t] = NoTimer
    BY <2>2
  <2>11. /\ {Walk(list)[i] : i \in DOMAIN Walk(list)} \ {NoTimer} = enabled
         /\ \A i, j \in DOMAIN Walk(list) :
                Walk(list)[i] = Walk(list)[j] /\ Walk(list)[i] # NoTimer => i = j
    BY ONLY <2>6, <2>7 DEF w
  <2> QED BY ONLY <2>8, <2>9, <2>10, <2>11, Zenon DEF ListIsEnabled
<1> QED BY <1>1, Inductive, PTL

\* No timer that is due waits for the next slice, unless a stamp was made that is not
\* its time: the target is never behind a timer of the list (timer_process, timer_enable).
THEOREM NothingLate == Spec => []NothingOverdueUnlessAdrift
<1>1. IInv => NothingOverdueUnlessAdrift
  <2> SUFFICES ASSUME IInv, at = "outer", ~adrift, NEW t \in enabled PROVE left[t] > 0
    BY DEF NothingOverdueUnlessAdrift
  <2>1. Ahead >= 1 /\ Ahead <= left[t]
    BY DEF IInv, TimeInv
  <2>2. Ahead \in Int /\ left[t] \in Int
    BY Timed, Typed DEF IInv
  <2> QED BY <2>1, <2>2
<1> QED BY <1>1, Inductive, PTL

\* A timer fires when it is due, never before, and none that is due earlier is still
\* waiting then, with the same reserve (timer_process, timer_remove_head).
THEOREM FiresInOrder == Spec => FiresInOrderUnlessAdrift
<1>1. IInv /\ [Next]_vars => [Fire /\ ~adrift =>
                                /\ left[current'] <= 0
                                /\ \A t \in enabled : left[current'] <= left[t]]_vars
  <2> SUFFICES ASSUME IInv, Fire, ~adrift
               PROVE  /\ left[current'] <= 0
                      /\ \A t \in enabled : left[current'] <= left[t]
    OBVIOUS
  <2>1. HeadIsDue /\ current' = list.head
    BY DEF Fire
  <2>2. list.head \in enabled /\ \A t \in enabled : left[list.head] <= left[t]
    BY <2>1, HeadFirst DEF IInv, HeadIsDue
  <2>3. left[list.head] <= 0
    BY <2>1, <2>2, HeadTells
  <2> QED BY <2>1, <2>2, <2>3
<1> QED BY <1>1, Inductive, PTL DEF Spec, FiresInOrderUnlessAdrift
=============================================================================
