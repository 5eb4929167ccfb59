------------------------------ MODULE AluProofs ------------------------------
(***************************************************************************)
(* For every width of a byte, every set of operands and chains of any      *)
(* length the instructions of Alu compute, byte by byte, what integers do; *)
(* and with bytes of eight bits a turn of Registers, whatever its words,   *)
(* leaves a machine.                                                       *)
(***************************************************************************)
EXTENDS AluChains, Registers, DecoderProofs, TLAPS

Mid == Base \div 2   \* the first negative byte

-----------------------------------------------------------------------------
(* Integers. *)

LEMMA AtLeastOne ==
  ASSUME NEW T \in Nat \ {0}, NEW d \in Int, d >= 1
  PROVE  T * d >= T
OBVIOUS

LEMMA DivMod ==
  ASSUME NEW T \in Nat \ {0}, NEW m \in Int
  PROVE  /\ m \div T \in Int /\ m % T \in 0..(T - 1)
         /\ m = T * (m \div T) + (m % T)
OBVIOUS

LEMMA UniqueDivision ==
  ASSUME NEW T \in Nat \ {0}, NEW q \in Int, NEW r \in 0..(T - 1),
         NEW p \in Int, NEW s \in 0..(T - 1), T * q + r = T * p + s
  PROVE  q = p /\ r = s
<1>1. T * (q - p) = s - r OBVIOUS
<1>2. T * (p - q) = r - s OBVIOUS
<1>3. ~ (q - p >= 1) BY <1>1, AtLeastOne
<1>4. ~ (p - q >= 1) BY <1>2, AtLeastOne
<1> QED BY <1>3, <1>4

LEMMA Remainder ==
  ASSUME NEW T \in Nat \ {0}, NEW m \in Int, NEW q \in Int, NEW r \in 0..(T - 1),
         m = T * q + r
  PROVE  m % T = r /\ m \div T = q
BY DivMod, UniqueDivision

(* A number that is at most once its range away is wrapped once. *)
LEMMA Wrapped ==
  ASSUME NEW T \in Nat \ {0}, NEW m \in Int, - T <= m, m < 2 * T
  PROVE  m % T = IF m < 0 THEN m + T ELSE IF m < T THEN m ELSE m - T
<1>1. CASE m < 0
  <2>1. m = T * (-1) + (m + T) /\ m + T \in 0..(T - 1) /\ -1 \in Int BY <1>1
  <2> QED BY <1>1, <2>1, Remainder
<1>2. CASE 0 <= m /\ m < T
  <2>1. m = T * 0 + m /\ m \in 0..(T - 1) BY <1>2
  <2> QED BY <1>2, <2>1, Remainder
<1>3. CASE T <= m
  <2>1. m = T * 1 + (m - T) /\ m - T \in 0..(T - 1) BY <1>3
  <2> QED BY <1>3, <2>1, Remainder
<1> QED BY <1>1, <1>2, <1>3

(* The order of numbers made of a low part and a multiple is that of the      *)
(* multiples first.                                                           *)
LEMMA HighPartFirst ==
  ASSUME NEW W \in Nat \ {0}, NEW x0 \in Int, 0 <= x0, x0 < W, NEW a \in Int, NEW b \in Int
  PROVE  /\ (x0 + W * a >= W * b) <=> a >= b
         /\ (x0 + W * a < W * b) <=> a < b
<1>1. CASE a >= b
  <2>1. W * (a - b) >= 0
    <3>1. CASE a = b BY <3>1
    <3>2. CASE a - b >= 1
      <4>1. W * (a - b) >= W BY <3>2, AtLeastOne
      <4> QED BY <4>1
    <3> QED BY <1>1, <3>1, <3>2
  <2>2. W * (a - b) = W * a - W * b OBVIOUS
  <2>3. x0 + W * a >= W * b BY <2>1, <2>2
  <2>4. W * a \in Int /\ W * b \in Int OBVIOUS
  <2> QED BY <1>1, <2>3, <2>4
<1>2. CASE b - a >= 1
  <2>1. W * (b - a) >= W BY <1>2, AtLeastOne
  <2>2. W * (b - a) = W * b - W * a OBVIOUS
  <2>3. W * a \in Int /\ W * b \in Int OBVIOUS
  <2>4. x0 + W * a < W * b BY <2>1, <2>2, <2>3
  <2> QED BY <1>2, <2>3, <2>4
<1> QED BY <1>1, <1>2

-----------------------------------------------------------------------------
(* Bytes. *)

LEMMA BaseFacts ==
  /\ Base \in Nat /\ Base >= 4 /\ Mid \in Nat /\ Base = 2 * Mid
  /\ Base * Base \in Nat /\ Base * Base >= 4 * Base
  /\ (Base * Base) \div 2 = Base * Mid
<1>1. Half \in Nat \ {0} /\ Half % 2 = 0 BY AluAssumption DEF AluAssumption
<1>2. PICK q \in Nat : Half = 2 * q
  <2>1. Half = 2 * (Half \div 2) /\ Half \div 2 \in Nat BY <1>1
  <2> QED BY <2>1
<1>3. q >= 1 BY <1>1, <1>2
<1>4. q * q \in Nat /\ q * q >= 1 BY <1>3, AtLeastOne
<1>5. Base = 4 * (q * q) BY <1>2 DEF Base
<1>6. Base \in Nat /\ Base >= 4 BY <1>4, <1>5
<1>7. Mid = 2 * (q * q) BY <1>4, <1>5 DEF Mid
<1>8. Base = 2 * Mid /\ Mid \in Nat BY <1>4, <1>5, <1>7
<1> HIDE DEF Base, Mid
<1>9. Base * Base \in Nat /\ Base * Base >= 4 * Base
  <2>1. (Base - 4) * Base >= 0 BY <1>6
  <2>2. (Base - 4) * Base = Base * Base - 4 * Base BY <1>6
  <2> QED BY <1>6, <2>1, <2>2
<1>10. (Base * Base) \div 2 = Base * Mid
  <2>1. Base * Base = 2 * (Base * Mid) + 0 BY <1>8
  <2>2. Base * Mid \in Int /\ Base * Base \in Int /\ 0 \in 0..(2 - 1) BY <1>8
  <2> QED BY <2>1, <2>2, Remainder
<1> QED BY <1>6, <1>8, <1>9, <1>10

LEMMA SignedByte ==
  ASSUME NEW a \in Byte
  PROVE  /\ a \in Nat /\ a < Base
         /\ Signed(a, Base) = (IF a >= Mid THEN a - Base ELSE a)
         /\ Signed(a, Base) \in Int /\ - Mid <= Signed(a, Base) /\ Signed(a, Base) < Mid
         /\ Negative(a) <=> a >= Mid
         /\ Negative(a) <=> Signed(a, Base) < 0
<1>1. a \in Nat /\ a < Base BY BaseFacts DEF Byte
<1>2. Signed(a, Base) = (IF a >= Mid THEN a - Base ELSE a) BY DEF Signed, Mid
<1>3. Negative(a) <=> a >= Mid BY DEF Negative, Mid
<1> QED BY BaseFacts, <1>1, <1>2, <1>3

(* An addition of bytes with a carry: value, carry and sign. *)
LEMMA SumFacts ==
  ASSUME NEW a \in Byte, NEW b \in Byte, NEW ci \in {0, 1}, NEW zero \in BOOLEAN,
         NEW o, o = Sum(a, b, ci, zero)
  PROVE  /\ o.r \in Byte /\ o.f \in Flags
         /\ o.r = a + b + ci - (IF o.f.c THEN Base ELSE 0)
         /\ o.f.z <=> zero /\ o.r = 0
         /\ o.f.v <=> Signed(a, Base) + Signed(b, Base) + ci # Signed(o.r, Base)
         /\ o.f.s <=> Signed(a, Base) + Signed(b, Base) + ci < 0
<1> DEFINE n == a + b + ci
           w == n % (Base * Base)
           r == w % Base
           v == Negative(a) # Negative(r) /\ Negative(b) # Negative(r)
<1>1. /\ o.r = r /\ (o.f.c <=> w >= Base) /\ (o.f.z <=> zero /\ r = 0) /\ o.f.n = Negative(r)
      /\ (o.f.v <=> v) /\ (o.f.s <=> Negative(r) # v)
      /\ o.f = [c |-> w >= Base, z |-> zero /\ r = 0, n |-> Negative(r), v |-> v,
                s |-> Negative(r) # v, h |-> (a % Half) + (b % Half) + ci >= Half]
  BY DEF Sum
<1>2. o.f \in Flags
  BY <1>1 DEF Flags, Negative
<1>3. a \in Nat /\ b \in Nat /\ a < Base /\ b < Base BY SignedByte
<1>4. n \in Nat /\ n < 2 * Base BY <1>3, BaseFacts
<1> HIDE DEF n
<1>5. w = n
  <2>1. n < Base * Base /\ Base * Base \in Nat \ {0} BY <1>4, BaseFacts
  <2>2. n < 2 * (Base * Base) /\ - (Base * Base) <= n BY <1>4, <2>1
  <2>3. n \in Int BY <1>4
  <2>4. w = IF n < 0 THEN n + (Base * Base) ELSE IF n < Base * Base THEN n ELSE n - (Base * Base)
    BY <2>1, <2>2, <2>3, Wrapped
  <2> QED BY <1>4, <2>1, <2>4
<1>6. r = (IF n < Base THEN n ELSE n - Base)
  <2>1. Base \in Nat \ {0} /\ n \in Int /\ - Base <= n BY <1>4, BaseFacts
  <2>2. n % Base = IF n < 0 THEN n + Base ELSE IF n < Base THEN n ELSE n - Base
    BY <1>4, <2>1, Wrapped
  <2> QED BY <1>4, <1>5, <2>2
<1> HIDE DEF w, r
<1>7. r \in Byte /\ r = n - (IF o.f.c THEN Base ELSE 0)
  BY <1>1, <1>4, <1>5, <1>6, BaseFacts DEF Byte
<1>8. /\ v <=> Signed(a, Base) + Signed(b, Base) + ci # Signed(r, Base)
      /\ (Negative(r) # v) <=> Signed(a, Base) + Signed(b, Base) + ci < 0
  <2>1. /\ Signed(a, Base) = (IF a >= Mid THEN a - Base ELSE a) /\ (Negative(a) <=> a >= Mid)
    BY SignedByte
  <2>2. /\ Signed(b, Base) = (IF b >= Mid THEN b - Base ELSE b) /\ (Negative(b) <=> b >= Mid)
    BY SignedByte
  <2>3. /\ Signed(r, Base) = (IF r >= Mid THEN r - Base ELSE r) /\ (Negative(r) <=> r >= Mid)
    BY <1>7, SignedByte
  <2>4. r \in Nat /\ n = a + b + ci BY <1>7, BaseFacts DEF Byte, n
  <2> QED BY <1>3, <1>6, <2>1, <2>2, <2>3, <2>4, BaseFacts DEF v, Negative, Mid
<1> HIDE DEF v
<1>9. o.f.v <=> Signed(a, Base) + Signed(b, Base) + ci # Signed(o.r, Base) BY <1>1, <1>8
<1>10. o.f.s <=> Signed(a, Base) + Signed(b, Base) + ci < 0 BY <1>1, <1>8
<1>11. o.r \in Byte /\ o.r = a + b + ci - (IF o.f.c THEN Base ELSE 0)
  <2>1. n = a + b + ci BY DEF n
  <2>2. o.r \in Byte /\ o.r = n - (IF o.f.c THEN Base ELSE 0) BY <1>1, <1>7
  <2> QED BY <1>3, <2>1, <2>2, BaseFacts
<1>12. o.f.z <=> zero /\ o.r = 0 BY <1>1
<1> QED BY <1>2, <1>9, <1>10, <1>11, <1>12

(* A subtraction with a borrow. *)
LEMMA DifferenceFacts ==
  ASSUME NEW a \in Byte, NEW b \in Byte, NEW ci \in {0, 1}, NEW zero \in BOOLEAN,
         NEW o, o = Difference(a, b, ci, zero)
  PROVE  /\ o.r \in Byte /\ o.f \in Flags
         /\ o.r = a - b - ci + (IF o.f.c THEN Base ELSE 0)
         /\ o.f.z <=> zero /\ o.r = 0
         /\ o.f.s <=> Signed(a, Base) - Signed(b, Base) - ci < 0
<1> DEFINE n == a - b - ci
           w == n % (Base * Base)
           r == w % Base
           v == Negative(a) # Negative(b) /\ Negative(a) # Negative(r)
<1>1. /\ o.r = r /\ (o.f.c <=> w >= Base) /\ (o.f.z <=> zero /\ r = 0)
      /\ (o.f.s <=> Negative(r) # v)
      /\ o.f = [c |-> w >= Base, z |-> zero /\ r = 0, n |-> Negative(r), v |-> v,
                s |-> Negative(r) # v, h |-> a % Half < (b % Half) + ci]
  BY DEF Difference
<1>2. o.f \in Flags
  BY <1>1 DEF Flags, Negative
<1>3. a \in Nat /\ b \in Nat /\ a < Base /\ b < Base BY SignedByte
<1>4. n \in Int /\ - Base <= n /\ n < Base BY <1>3, BaseFacts
<1> HIDE DEF n
<1>5. w = (IF n < 0 THEN n + (Base * Base) ELSE n)
  <2>1. Base * Base \in Nat \ {0} /\ n < Base * Base /\ - (Base * Base) <= n
    BY <1>4, BaseFacts
  <2>2. n < 2 * (Base * Base) BY <2>1, <1>4
  <2>3. w = IF n < 0 THEN n + (Base * Base) ELSE IF n < Base * Base THEN n ELSE n - (Base * Base)
    BY <1>4, <2>1, <2>2, Wrapped
  <2> QED BY <2>1, <2>3
<1>6. r = (IF n < 0 THEN n + Base ELSE n)
  <2>1. CASE n < 0
    <3>1. w = Base * (Base - 1) + (n + Base) /\ n + Base \in 0..(Base - 1) /\ w \in Int
      BY <1>4, <1>5, <2>1, BaseFacts
    <3>2. w % Base = n + Base BY <3>1, BaseFacts, Remainder
    <3> QED BY <2>1, <3>2
  <2>2. CASE ~ (n < 0)
    <3>1. w = Base * 0 + n /\ n \in 0..(Base - 1) /\ w \in Int
      BY <1>4, <1>5, <2>2, BaseFacts
    <3>2. w % Base = n BY <3>1, BaseFacts, Remainder
    <3> QED BY <2>2, <3>2
  <2> QED BY <2>1, <2>2
<1> HIDE DEF w, r
<1>7. r \in Byte /\ r = n + (IF o.f.c THEN Base ELSE 0)
  <2>1. o.f.c <=> n < 0 BY <1>1, <1>4, <1>5, BaseFacts
  <2> QED BY <1>4, <1>6, <2>1, BaseFacts DEF Byte
<1>8. (Negative(r) # v) <=> Signed(a, Base) - Signed(b, Base) - ci < 0
  <2>1. /\ Signed(a, Base) = (IF a >= Mid THEN a - Base ELSE a) /\ (Negative(a) <=> a >= Mid)
    BY SignedByte
  <2>2. /\ Signed(b, Base) = (IF b >= Mid THEN b - Base ELSE b) /\ (Negative(b) <=> b >= Mid)
    BY SignedByte
  <2>3. (Negative(r) <=> r >= Mid)
    BY <1>7, SignedByte
  <2>4. r \in Nat /\ n = a - b - ci BY <1>7, BaseFacts DEF Byte, n
  <2> QED BY <1>3, <1>6, <2>1, <2>2, <2>3, <2>4, BaseFacts DEF v, Negative, Mid
<1> QED BY <1>1, <1>2, <1>7, <1>8 DEF n

-----------------------------------------------------------------------------
(* Chains: numbers below W grow by a byte. *)

LEMMA Lengthened ==
  ASSUME NEW W \in Nat \ {0}, NEW x0 \in Below(W), NEW a \in Byte
  PROVE  /\ W * Base \in Nat \ {0} /\ W <= W * Base
         /\ (W * Base) % 2 = 0
         /\ x0 + W * a \in Below(W * Base)
         /\ Signed(x0 + W * a, W * Base) = x0 + W * Signed(a, Base)
<1>1. /\ a \in Nat /\ a < Base /\ Signed(a, Base) = (IF a >= Mid THEN a - Base ELSE a)
  BY SignedByte
<1>2. x0 \in Int /\ 0 <= x0 /\ x0 < W BY DEF Below
<1>3. Base \in Nat /\ Base >= 1 /\ Base = 2 * Mid /\ Mid \in Nat BY BaseFacts
<1>4. W * Base \in Nat /\ W * Base >= W BY <1>3, AtLeastOne
<1>5. W * Base = 2 * (W * Mid) + 0 BY <1>3
<1>6. (W * Base) % 2 = 0 /\ (W * Base) \div 2 = W * Mid
  <2>1. W * Base \in Int /\ W * Mid \in Int /\ 0 \in 0..(2 - 1) /\ 2 \in Nat \ {0} BY <1>3, <1>4
  <2> QED BY <1>5, <2>1, Remainder
<1>7. x0 + W * a < W * Base BY <1>1, <1>2, <1>3, HighPartFirst
<1>8. x0 + W * a \in Nat BY <1>1, <1>2
<1>9. (x0 + W * a >= W * Mid) <=> a >= Mid BY <1>1, <1>2, <1>3, HighPartFirst
<1>10. Signed(x0 + W * a, W * Base) = (IF a >= Mid THEN (x0 + W * a) - W * Base ELSE x0 + W * a)
  BY <1>6, <1>9 DEF Signed
<1>11. W * (a - Base) = W * a - W * Base BY <1>1, <1>3
<1>12. Signed(x0 + W * a, W * Base) = x0 + W * Signed(a, Base)
  <2>1. W * a \in Int BY <1>1
  <2> QED BY <1>1, <1>2, <1>4, <1>10, <1>11, <2>1
<1> QED BY <1>4, <1>6, <1>7, <1>8, <1>12 DEF Below

LEMMA SumLengthened ==
  ASSUME wide \in Nat \ {0}, x \in Below(wide), y \in Below(wide), res \in Below(wide),
         NEW ci \in {0, 1}, res + (IF ci = 1 THEN wide ELSE 0) = x + y,
         NEW a \in Byte, NEW b \in Byte, NEW r \in Byte, NEW co \in BOOLEAN,
         r = a + b + ci - (IF co THEN Base ELSE 0)
  PROVE  /\ (res + wide * r) + (IF co THEN wide * Base ELSE 0) = (x + wide * a) + (y + wide * b)
         /\ Signed(x + wide * a, wide * Base) + Signed(y + wide * b, wide * Base) < 0
               <=> Signed(a, Base) + Signed(b, Base) + ci < 0
         /\ Signed(x + wide * a, wide * Base) + Signed(y + wide * b, wide * Base)
               # Signed(res + wide * r, wide * Base)
               <=> Signed(a, Base) + Signed(b, Base) + ci # Signed(r, Base)
<1> DEFINE sa == Signed(a, Base)
           sb == Signed(b, Base)
           sr == Signed(r, Base)
           d == sa + sb + ci
           X == Signed(x + wide * a, wide * Base)
           Y == Signed(y + wide * b, wide * Base)
<1>1. X = x + wide * sa BY Lengthened
<1>2. Y = y + wide * sb BY Lengthened
<1>3. Signed(res + wide * r, wide * Base) = res + wide * sr BY Lengthened
<1>4. sa \in Int /\ sb \in Int /\ sr \in Int BY SignedByte
<1>5. a \in Nat /\ b \in Nat /\ r \in Nat BY SignedByte
<1>6. /\ x \in Int /\ y \in Int /\ res \in Int /\ 0 <= res /\ res < wide BY DEF Below
<1>7. Base \in Nat BY BaseFacts
<1>8. (res + wide * r) + (IF co THEN wide * Base ELSE 0) = (x + wide * a) + (y + wide * b)
  <2>1. r + (IF co THEN Base ELSE 0) = a + b + ci BY <1>5, <1>7
  <2>2. wide * (r + (IF co THEN Base ELSE 0)) = wide * r + (IF co THEN wide * Base ELSE 0) BY <1>5, <1>7
  <2>3. wide * (a + b + ci) = wide * a + wide * b + (IF ci = 1 THEN wide ELSE 0) BY <1>5
  <2>4. wide * r + (IF co THEN wide * Base ELSE 0) = wide * a + wide * b + (IF ci = 1 THEN wide ELSE 0)
    BY ONLY <2>1, <2>2, <2>3
  <2>5. wide * r \in Int /\ wide * a \in Int /\ wide * b \in Int /\ wide * Base \in Int BY <1>5, <1>7
  <2> DEFINE wr == wide * r
             wa == wide * a
             wb == wide * b
             carryOut == IF co THEN wide * Base ELSE 0
             carryIn == IF ci = 1 THEN wide ELSE 0
  <2>6. /\ wr \in Int /\ wa \in Int /\ wb \in Int /\ carryOut \in Int /\ carryIn \in Int
        /\ wr + carryOut = wa + wb + carryIn /\ res + carryIn = x + y
    BY <2>4, <2>5
  <2> HIDE DEF wr, wa, wb, carryOut, carryIn
  <2>7. (res + wr) + carryOut = (x + wa) + (y + wb) BY <1>6, <2>6
  <2> QED BY <2>7 DEF wr, wa, wb, carryOut
<1> HIDE DEF sa, sb, sr
<1>9. X + Y = res + wide * d
  <2>1. wide * d = wide * sa + wide * sb + (IF ci = 1 THEN wide ELSE 0) BY <1>4
  <2>2. wide * sa \in Int /\ wide * sb \in Int BY <1>4
  <2> QED BY <1>1, <1>2, <1>6, <2>1, <2>2
<1>10. d \in Int BY <1>4
<1> HIDE DEF d
<1>11. (res + wide * d < wide * 0) <=> d < 0 BY <1>6, <1>10, HighPartFirst
<1>12. X + Y < 0 <=> d < 0 BY <1>9, <1>11
<1>13. X + Y = res + wide * sr <=> d = sr
  <2>1. CASE d < sr
    <3>1. res + wide * d < wide * sr BY <1>4, <1>6, <1>10, <2>1, HighPartFirst
    <3>2. wide * sr \in Int /\ wide * d \in Int BY <1>4, <1>10
    <3> QED BY <1>4, <1>6, <1>9, <1>10, <2>1, <3>1, <3>2
  <2>2. CASE sr < d
    <3>1. res + wide * sr < wide * d BY <1>4, <1>6, <1>10, <2>2, HighPartFirst
    <3>2. wide * sr \in Int /\ wide * d \in Int BY <1>4, <1>10
    <3> QED BY <1>4, <1>6, <1>9, <1>10, <2>2, <3>1, <3>2
  <2>3. CASE d = sr BY <1>9, <2>3
  <2> QED BY <1>4, <1>10, <2>1, <2>2, <2>3
<1> QED BY <1>3, <1>8, <1>12, <1>13 DEF d, sa, sb, sr

LEMMA DifferenceLengthened ==
  ASSUME NEW W \in Nat \ {0}, NEW x0 \in Below(W), NEW y0 \in Below(W),
         NEW a \in Byte, NEW b \in Byte, NEW r \in Byte, NEW ci \in {0, 1}, NEW co \in BOOLEAN,
         r = a - b - ci + (IF co THEN Base ELSE 0),
         ci = 1 <=> x0 < y0
  PROVE  /\ co <=> x0 + W * a < y0 + W * b
         /\ (x0 + W * a = y0 + W * b) <=> (x0 = y0 /\ r = 0)
         /\ Signed(x0 + W * a, W * Base) < Signed(y0 + W * b, W * Base)
               <=> Signed(a, Base) - Signed(b, Base) - ci < 0
<1>1. a \in Nat /\ b \in Nat /\ r \in Nat /\ a < Base /\ b < Base /\ r < Base BY SignedByte
<1>2. /\ x0 \in Int /\ y0 \in Int /\ 0 <= x0 /\ x0 < W /\ 0 <= y0 /\ y0 < W BY DEF Below
<1>3. Base \in Nat BY BaseFacts
<1>4. co <=> a - b - ci < 0 BY <1>1, <1>3
<1>5. \A p, q \in Int : x0 + W * p < y0 + W * q <=> p - q - ci < 0
  <2> TAKE p, q \in Int
  <2>1. W * p \in Int /\ W * q \in Int OBVIOUS
  <2>2. CASE p = q BY <1>2, <2>1, <2>2
  <2>3. CASE p < q
    <3>1. x0 + W * p < W * q BY <1>2, <2>3, HighPartFirst
    <3> QED BY <1>2, <2>1, <2>3, <3>1
  <2>4. CASE q < p
    <3>1. y0 + W * q < W * p BY <1>2, <2>4, HighPartFirst
    <3> QED BY <1>2, <2>1, <2>4, <3>1
  <2> QED BY <2>2, <2>3, <2>4
<1>6. co <=> x0 + W * a < y0 + W * b
  <2>1. a \in Int /\ b \in Int BY <1>1
  <2> QED BY <1>4, <1>5, <2>1
<1>7. (x0 + W * a = y0 + W * b) <=> (x0 = y0 /\ r = 0)
  <2>1. x0 + W * a = y0 + W * b => x0 = y0 /\ a = b
    <3> HAVE x0 + W * a = y0 + W * b
    <3>1. W * a + x0 = W * b + y0 /\ a \in Int /\ b \in Int BY <1>1, <1>2
    <3>2. x0 \in 0..(W - 1) /\ y0 \in 0..(W - 1) BY DEF Below
    <3> QED BY <3>1, <3>2, UniqueDivision
  <2>2. x0 = y0 => (r = 0 <=> a = b) BY <1>1, <1>2, <1>3
  <2> QED BY <2>1, <2>2
<1>8. Signed(x0 + W * a, W * Base) = x0 + W * Signed(a, Base) BY Lengthened
<1>9. Signed(y0 + W * b, W * Base) = y0 + W * Signed(b, Base) BY Lengthened
<1>10. Signed(a, Base) \in Int /\ Signed(b, Base) \in Int BY SignedByte
<1> QED BY <1>5, <1>6, <1>7, <1>8, <1>9, <1>10

-----------------------------------------------------------------------------
(* Register pairs. *)

LEMMA WordFacts ==
  /\ WordBase \in Nat \ {0} /\ WordBase = Base * Base
  /\ WordBase % 2 = 0 /\ WordBase = 2 * (WordBase \div 2) /\ WordBase \div 2 \in Nat
  /\ WordBase >= 4 * Base
<1>1. WordBase = Base * Base BY DEF WordBase
<1>2. Base \in Nat \ {0} /\ 0 \in Below(Base) /\ 0 \in Byte BY BaseFacts DEF Below, Byte
<1>3. (Base * Base) % 2 = 0 BY <1>2, Lengthened
<1>4. WordBase \in Nat \ {0} /\ WordBase >= 4 * Base BY <1>1, BaseFacts
<1>5. WordBase = 2 * (WordBase \div 2) + (WordBase % 2) BY <1>4, DivMod
<1> QED BY <1>1, <1>3, <1>4, <1>5

LEMMA SignedWord ==
  ASSUME NEW w \in Below(WordBase), NEW Q, Q = WordBase \div 2
  PROVE  /\ w \in Nat /\ w < WordBase
         /\ NegativeWord(w) <=> w >= Q
         /\ Signed(w, WordBase) = (IF w >= Q THEN w - WordBase ELSE w)
BY WordFacts DEF Below, NegativeWord, Signed

LEMMA WordResultFields ==
  ASSUME NEW r, NEW v \in BOOLEAN, NEW c \in BOOLEAN, NEW f \in Flags
  PROVE  LET o == WordResult(r, v, c, f)
         IN  /\ o.r = r /\ o.f \in Flags
             /\ o.f.c = c /\ o.f.z = (r = 0) /\ o.f.v = v
             /\ o.f.s = (NegativeWord(r) # v)
<1> DEFINE n == NegativeWord(r)
           g == [f EXCEPT !.c = c, !.z = (r = 0), !.n = n, !.v = v, !.s = (n # v)]
           o == WordResult(r, v, c, f)
<1>1. n \in BOOLEAN BY DEF NegativeWord
<1>2. o = [r |-> r, f |-> g] BY DEF WordResult
<1> HIDE DEF n
<1>3. o.r = r /\ o.f = g BY <1>2
<1>4. g \in Flags BY <1>1, ZenonT(30) DEF Flags
<1>5. g.c = c /\ g.z = (r = 0) /\ g.v = v /\ g.s = (n # v) BY DEF Flags
<1> QED BY <1>3, <1>4, <1>5 DEF n

LEMMA AdiwFacts ==
  ASSUME NEW w \in Below(WordBase), NEW k \in Byte, NEW f \in Flags,
         NEW o, o = ADIW(w, k, f)
  PROVE  /\ o.r \in Below(WordBase) /\ o.f \in Flags
         /\ o.r + (IF o.f.c THEN WordBase ELSE 0) = w + k
         /\ o.f.z <=> o.r = 0
         /\ o.f.v <=> Signed(w, WordBase) + Signed(k, WordBase) # Signed(o.r, WordBase)
         /\ o.f.s <=> Signed(w, WordBase) + Signed(k, WordBase) < 0
<1> DEFINE r == (w + k) % WordBase
           Q == WordBase \div 2
<1>1. /\ o.r = r /\ o.f \in Flags /\ (o.f.z <=> r = 0)
      /\ o.f.c <=> (NegativeWord(w) /\ ~ NegativeWord(r))
      /\ o.f.v <=> (~ NegativeWord(w) /\ NegativeWord(r))
      /\ o.f.s <=> (NegativeWord(r) # (~ NegativeWord(w) /\ NegativeWord(r)))
  <2> DEFINE v == ~ NegativeWord(w) /\ NegativeWord(r)
             c == NegativeWord(w) /\ ~ NegativeWord(r)
  <2>1. v \in BOOLEAN /\ c \in BOOLEAN OBVIOUS
  <2>2. o = WordResult(r, v, c, f) BY DEF ADIW
  <2> HIDE DEF r, v, c
  <2>3. /\ o.r = r /\ o.f \in Flags /\ o.f.c = c /\ o.f.z = (r = 0) /\ o.f.v = v
        /\ o.f.s = (NegativeWord(r) # v)
    BY <2>1, <2>2, WordResultFields
  <2> QED BY <2>3 DEF v, c
<1>2. /\ w \in Nat /\ w < WordBase /\ k \in Nat /\ k < Q /\ Q \in Nat /\ WordBase = 2 * Q
  BY SignedByte, SignedWord, WordFacts, BaseFacts
<1>3. r = IF w + k < WordBase THEN w + k ELSE (w + k) - WordBase
  <2>1. WordBase \in Nat \ {0} BY WordFacts
  <2>2. w + k \in Int /\ w + k < 2 * WordBase /\ ~ (w + k < 0) /\ - WordBase <= w + k BY <1>2
  <2> QED BY <1>2, <2>1, <2>2, Wrapped
<1>4. r \in Below(WordBase) BY <1>2, <1>3 DEF Below
<1>5. k \in Below(WordBase) BY <1>2 DEF Below
<1>6. (NegativeWord(w) <=> w >= Q) /\ Signed(w, WordBase) = (IF w >= Q THEN w - WordBase ELSE w)
  BY SignedWord
<1>7. (NegativeWord(r) <=> r >= Q) /\ Signed(r, WordBase) = (IF r >= Q THEN r - WordBase ELSE r)
  BY <1>4, SignedWord
<1>8. Signed(k, WordBase) = k BY <1>2, <1>5, SignedWord
<1> HIDE DEF r, Q
<1>9. /\ o.f.c <=> (w >= Q /\ ~ (r >= Q))
      /\ o.f.v <=> (~ (w >= Q) /\ r >= Q)
      /\ o.f.s <=> ((r >= Q) # (~ (w >= Q) /\ r >= Q))
  BY <1>1 DEF NegativeWord, Q
<1>10. r + (IF o.f.c THEN WordBase ELSE 0) = w + k BY <1>2, <1>3, <1>9
<1>11. o.f.v <=> Signed(w, WordBase) + Signed(k, WordBase) # Signed(r, WordBase)
  BY <1>2, <1>3, <1>6, <1>7, <1>8, <1>9
<1>12. o.f.s <=> Signed(w, WordBase) + Signed(k, WordBase) < 0
  BY <1>2, <1>3, <1>6, <1>7, <1>8, <1>9
<1> QED BY <1>1, <1>4, <1>10, <1>11, <1>12

LEMMA SbiwFacts ==
  ASSUME NEW w \in Below(WordBase), NEW k \in Byte, NEW f \in Flags,
         NEW o, o = SBIW(w, k, f)
  PROVE  /\ o.r \in Below(WordBase) /\ o.f \in Flags
         /\ o.r = w - k + (IF o.f.c THEN WordBase ELSE 0)
         /\ o.f.c <=> w < k
         /\ o.f.z <=> w = k
         /\ o.f.s <=> Signed(w, WordBase) < Signed(k, WordBase)
<1> DEFINE r == (w - k) % WordBase
           Q == WordBase \div 2
<1>1. /\ o.r = r /\ o.f \in Flags /\ (o.f.z <=> r = 0)
      /\ o.f.c <=> (~ NegativeWord(w) /\ NegativeWord(r))
      /\ o.f.s <=> (NegativeWord(r) # (NegativeWord(w) /\ ~ NegativeWord(r)))
  <2> DEFINE v == NegativeWord(w) /\ ~ NegativeWord(r)
             c == ~ NegativeWord(w) /\ NegativeWord(r)
  <2>1. v \in BOOLEAN /\ c \in BOOLEAN OBVIOUS
  <2>2. o = WordResult(r, v, c, f) BY DEF SBIW
  <2> HIDE DEF r, v, c
  <2>3. /\ o.r = r /\ o.f \in Flags /\ o.f.c = c /\ o.f.z = (r = 0)
        /\ o.f.s = (NegativeWord(r) # v)
    BY <2>1, <2>2, WordResultFields
  <2> QED BY <2>3 DEF v, c
<1>2. /\ w \in Nat /\ w < WordBase /\ k \in Nat /\ k < Q /\ Q \in Nat /\ WordBase = 2 * Q
  BY SignedByte, SignedWord, WordFacts, BaseFacts
<1>3. r = IF w - k < 0 THEN w - k + WordBase ELSE w - k
  <2>1. WordBase \in Nat \ {0} BY WordFacts
  <2>2. w - k \in Int /\ w - k < WordBase /\ w - k < 2 * WordBase /\ - WordBase <= w - k BY <1>2
  <2> QED BY <1>2, <2>1, <2>2, Wrapped
<1>4. r \in Below(WordBase) BY <1>2, <1>3 DEF Below
<1>5. k \in Below(WordBase) BY <1>2 DEF Below
<1>6. (NegativeWord(w) <=> w >= Q) /\ Signed(w, WordBase) = (IF w >= Q THEN w - WordBase ELSE w)
  BY SignedWord
<1>7. NegativeWord(r) <=> r >= Q BY <1>4, SignedWord
<1>8. Signed(k, WordBase) = k BY <1>2, <1>5, SignedWord
<1> HIDE DEF r, Q
<1>9. /\ o.f.c <=> (~ (w >= Q) /\ r >= Q)
      /\ o.f.s <=> ((r >= Q) # (w >= Q /\ ~ (r >= Q)))
  BY <1>1 DEF NegativeWord, Q
<1>10. o.f.c <=> w < k BY <1>2, <1>3, <1>9
<1>11. r = w - k + (IF o.f.c THEN WordBase ELSE 0) BY <1>2, <1>3, <1>10
<1>12. o.f.s <=> Signed(w, WordBase) < Signed(k, WordBase)
  BY <1>2, <1>3, <1>6, <1>8, <1>9
<1>13. o.f.z <=> w = k BY <1>1, <1>2, <1>3
<1> QED BY <1>1, <1>4, <1>10, <1>11, <1>12, <1>13

-----------------------------------------------------------------------------
(* Shifts to the right, from the high byte down. *)

LEMMA ShiftFacts ==
  ASSUME NEW a \in Byte, NEW top \in BOOLEAN, NEW f \in Flags,
         NEW o, o = ShiftedRight(a, top, f)
  PROVE  /\ o.r \in Byte /\ o.f \in Flags
         /\ 2 * o.r + Carry(o.f) = a + (IF top THEN Base ELSE 0)
         /\ o.r >= Mid <=> top
<1> DEFINE r == (a \div 2) + (IF top THEN Mid ELSE 0)
<1>1. o.r = r /\ o.f \in Flags /\ (o.f.c <=> a % 2 = 1)
  <2> DEFINE c == a % 2 = 1
             n == Negative(r)
             g == [f EXCEPT !.c = c, !.z = (r = 0), !.n = n, !.v = (n # c), !.s = (n # (n # c))]
  <2>1. n \in BOOLEAN BY DEF Negative
  <2>2. o = [r |-> r, f |-> g] BY DEF ShiftedRight, Mid
  <2> HIDE DEF n
  <2>3. o.r = r /\ o.f = g BY <2>2
  <2>4. g \in Flags BY <2>1, ZenonT(30) DEF Flags
  <2>5. g.c = c BY DEF Flags
  <2> QED BY <2>3, <2>4, <2>5
<1>2. a \in Nat /\ a < Base /\ Base = 2 * Mid /\ Mid \in Nat BY SignedByte, BaseFacts
<1>3. a = 2 * (a \div 2) + (a % 2) /\ a \div 2 \in Nat /\ a % 2 \in {0, 1} BY <1>2
<1>4. r \in Byte BY <1>2, <1>3 DEF Byte
<1>5. Carry(o.f) = a % 2 BY <1>1, <1>3 DEF Carry
<1> QED BY <1>1, <1>2, <1>3, <1>4, <1>5

LEMMA LengthenedBelow ==
  ASSUME NEW W \in Nat \ {0}, W % 2 = 0, NEW x0 \in Below(W), NEW a \in Byte
  PROVE  /\ Base * x0 + a \in Below(W * Base)
         /\ Signed(Base * x0 + a, W * Base) = Base * Signed(x0, W) + a
<1> DEFINE M == W \div 2
<1>1. a \in Int /\ 0 <= a /\ a < Base BY SignedByte
<1>2. x0 \in Nat /\ x0 < W BY DEF Below
<1>3. Base \in Nat \ {0} BY BaseFacts
<1>4. W = 2 * M /\ M \in Int BY DivMod
<1> HIDE DEF M
<1>5. W * Base = Base * W /\ W * Base \in Nat BY <1>3
<1>6. a + Base * x0 < Base * W BY <1>1, <1>2, <1>3, HighPartFirst
<1>7. (a + Base * x0 >= Base * M) <=> x0 >= M BY <1>1, <1>2, <1>3, <1>4, HighPartFirst
<1>8. (W * Base) \div 2 = Base * M
  <2>1. W * Base = 2 * (Base * M) + 0 BY <1>3, <1>4
  <2>2. W * Base \in Int /\ Base * M \in Int /\ 0 \in 0..(2 - 1) /\ 2 \in Nat \ {0} BY <1>3, <1>4
  <2> QED BY <2>1, <2>2, Remainder
<1>9. Base * x0 \in Nat /\ Base * x0 + a = a + Base * x0 BY <1>1, <1>2, <1>3
<1>10. Signed(Base * x0 + a, W * Base)
        = (IF x0 >= M THEN Base * x0 + a - Base * W ELSE Base * x0 + a)
  BY <1>1, <1>5, <1>7, <1>8, <1>9 DEF Signed
<1>11. Signed(x0, W) = (IF x0 >= M THEN x0 - W ELSE x0) BY DEF Signed, M
<1>12. Base * (x0 - W) = Base * x0 - Base * W BY <1>2, <1>3
<1>13. Signed(Base * x0 + a, W * Base) = Base * Signed(x0, W) + a
  <2>1. Base * W \in Int BY <1>5
  <2> QED BY <1>1, <1>9, <1>10, <1>11, <1>12, <2>1
<1>14. Base * x0 + a \in Nat /\ Base * x0 + a < W * Base BY <1>1, <1>5, <1>6, <1>9
<1> QED BY <1>5, <1>13, <1>14 DEF Below

-----------------------------------------------------------------------------
(* Products. *)

LEMMA ProductBound ==
  ASSUME NEW a \in Int, NEW b \in Int, NEW m \in Nat, NEW n \in Nat,
         - m <= a, a <= m, - n <= b, b <= n
  PROVE  - (m * n) <= a * b /\ a * b <= m * n
<1>1. (m - a) * (n - b) >= 0 /\ (m + a) * (n + b) >= 0
  <2>1. m - a \in Nat /\ n - b \in Nat /\ m + a \in Nat /\ n + b \in Nat OBVIOUS
  <2> QED BY <2>1
<1>2. (m - a) * (n + b) >= 0 /\ (m + a) * (n - b) >= 0
  <2>1. m - a \in Nat /\ n - b \in Nat /\ m + a \in Nat /\ n + b \in Nat OBVIOUS
  <2> QED BY <2>1
<1>3. (m - a) * (n - b) = m * n - m * b - a * n + a * b OBVIOUS
<1>4. (m + a) * (n + b) = m * n + m * b + a * n + a * b OBVIOUS
<1>5. (m - a) * (n + b) = m * n + m * b - a * n - a * b OBVIOUS
<1>6. (m + a) * (n - b) = m * n - m * b + a * n - a * b OBVIOUS
<1>7. m * n \in Int /\ m * b \in Int /\ a * n \in Int /\ a * b \in Int OBVIOUS
<1> QED BY <1>1, <1>2, <1>3, <1>4, <1>5, <1>6, <1>7

LEMMA ProductFields ==
  ASSUME NEW P \in Int, NEW f \in Flags
  PROVE  LET o == Product(P, f)
         IN  o.r = P % WordBase /\ o.f \in Flags /\ o.f.c = NegativeWord(P % WordBase)
<1> DEFINE w == P % WordBase
           n == NegativeWord(w)
           g == [f EXCEPT !.c = n, !.z = (w = 0)]
           o == Product(P, f)
<1>1. n \in BOOLEAN BY DEF NegativeWord
<1>2. o = [r |-> w, f |-> g] BY DEF Product
<1> HIDE DEF n
<1>3. o.r = w /\ o.f = g BY <1>2
<1>4. g \in Flags BY <1>1, Zenon DEF Flags
<1>5. g.c = n BY DEF Flags
<1> QED BY <1>3, <1>4, <1>5 DEF n

LEMMA SignedProduct ==
  ASSUME NEW P \in Int, NEW f \in Flags, NEW Q, Q = WordBase \div 2, - Q <= P, P < Q,
         NEW o, o = Product(P, f)
  PROVE  /\ o.r \in Below(WordBase) /\ o.f \in Flags
         /\ o.r = P + (IF P < 0 THEN WordBase ELSE 0)
         /\ o.f.c = (P < 0)
<1>1. WordBase \in Nat \ {0} /\ Q \in Nat /\ WordBase = 2 * Q BY WordFacts
<1>2. - WordBase <= P /\ P < WordBase /\ P < 2 * WordBase BY <1>1
<1>3. P % WordBase = P + (IF P < 0 THEN WordBase ELSE 0)
  <2>1. P % WordBase = IF P < 0 THEN P + WordBase ELSE IF P < WordBase THEN P ELSE P - WordBase
    BY <1>1, <1>2, Wrapped
  <2> QED BY <1>1, <1>2, <2>1
<1>4. P % WordBase \in Below(WordBase) BY <1>1, <1>2, <1>3 DEF Below
<1>5. NegativeWord(P % WordBase) = (P < 0) BY <1>1, <1>3 DEF NegativeWord
<1>6. o.r = P % WordBase /\ o.f \in Flags /\ o.f.c = NegativeWord(P % WordBase) BY ProductFields
<1> QED BY <1>3, <1>4, <1>5, <1>6

LEMMA MulFacts ==
  ASSUME NEW a \in Byte, NEW b \in Byte, NEW f \in Flags, NEW o, o = MUL(a, b, f)
  PROVE  o.r \in Below(WordBase) /\ o.f \in Flags /\ o.r = a * b
<1>1. a \in Nat /\ b \in Nat /\ a < Base /\ b < Base /\ Base \in Nat \ {0} BY SignedByte, BaseFacts
<1>2. a * b \in Nat /\ a * b < WordBase
  <2>1. (Base - a) * b >= 0
    <3>1. Base - a \in Nat BY <1>1
    <3> QED BY <1>1, <3>1
  <2>2. (Base - a) * b = Base * b - a * b BY <1>1
  <2>3. Base * b < Base * Base
    <3>1. 0 + Base * b < Base * Base BY <1>1, HighPartFirst
    <3>2. 0 + Base * b = Base * b BY <1>1
    <3> QED BY <3>1, <3>2
  <2>4. a * b \in Nat /\ Base * b \in Nat /\ Base * Base \in Nat BY <1>1
  <2> QED BY <2>1, <2>2, <2>3, <2>4, WordFacts
<1>3. (a * b) % WordBase = a * b
  <2>1. WordBase \in Nat \ {0} BY WordFacts
  <2>2. a * b \in Int /\ - WordBase <= a * b /\ a * b < 2 * WordBase BY <1>2, <2>1
  <2>3. (a * b) % WordBase = IF a * b < 0 THEN a * b + WordBase
                             ELSE IF a * b < WordBase THEN a * b ELSE a * b - WordBase
    BY <2>1, <2>2, Wrapped
  <2> QED BY <1>2, <2>3
<1>4. o = Product(a * b, f) /\ a * b \in Int BY <1>2 DEF MUL
<1>5. o.r = (a * b) % WordBase /\ o.f \in Flags BY <1>4, ProductFields
<1>6. a * b \in Below(WordBase)
  <2>1. WordBase \in Nat BY WordFacts
  <2> QED BY <1>2, <2>1 DEF Below
<1> QED BY <1>3, <1>5, <1>6

LEMMA MulsFacts ==
  ASSUME NEW a \in Byte, NEW b \in Byte, NEW f \in Flags, NEW o, o = MULS(a, b, f),
         NEW P, P = Signed(a, Base) * Signed(b, Base)
  PROVE  /\ P \in Int /\ o.r \in Below(WordBase) /\ o.f \in Flags
         /\ o.r = P + (IF P < 0 THEN WordBase ELSE 0)
<1> DEFINE sa == Signed(a, Base)
           sb == Signed(b, Base)
<1>1. sa \in Int /\ sb \in Int /\ - Mid <= sa /\ sa <= Mid /\ - Mid <= sb /\ sb <= Mid
  BY SignedByte, BaseFacts
<1>2. Mid \in Nat /\ Mid >= 1 /\ Base = 2 * Mid /\ WordBase \div 2 = Base * Mid
  BY BaseFacts, WordFacts
<1> HIDE DEF sa, sb
<1>3. - (Mid * Mid) <= sa * sb /\ sa * sb <= Mid * Mid /\ sa * sb \in Int
  BY <1>1, <1>2, ProductBound
<1>4. Base * Mid = 2 * (Mid * Mid) /\ Mid * Mid >= 1 /\ Mid * Mid \in Nat
  <2>1. Mid * Mid \in Nat /\ Mid * Mid >= Mid BY <1>2, AtLeastOne
  <2> QED BY <1>2, <2>1
<1>5. P = sa * sb BY DEF sa, sb
<1>6. P \in Int /\ - (WordBase \div 2) <= P /\ P < WordBase \div 2 BY <1>2, <1>3, <1>4, <1>5
<1>7. o = Product(P, f) BY DEF MULS
<1> QED BY <1>6, <1>7, SignedProduct

LEMMA MulsuFacts ==
  ASSUME NEW a \in Byte, NEW b \in Byte, NEW f \in Flags, NEW o, o = MULSU(a, b, f),
         NEW P, P = Signed(a, Base) * b
  PROVE  /\ P \in Int /\ o.r \in Below(WordBase) /\ o.f \in Flags
         /\ o.r = P + (IF P < 0 THEN WordBase ELSE 0)
         /\ o.f.c = (P < 0)
<1> DEFINE sa == Signed(a, Base)
           m == Base - 1
<1>1. sa \in Int /\ - Mid <= sa /\ sa <= Mid /\ b \in Int /\ - m <= b /\ b <= m /\ m \in Nat
  BY SignedByte, BaseFacts
<1>2. Mid \in Nat /\ Mid >= 1 /\ Base = 2 * Mid /\ WordBase \div 2 = Base * Mid
  BY BaseFacts, WordFacts
<1> HIDE DEF sa
<1>3. - (Mid * m) <= sa * b /\ sa * b <= Mid * m /\ sa * b \in Int
  <2> HIDE DEF m
  <2> QED BY <1>1, <1>2, ProductBound
<1>4. Base * Mid = Mid * m + Mid /\ Mid * m \in Int BY <1>1, <1>2
<1>5. P = sa * b BY DEF sa
<1> HIDE DEF m
<1>6. P \in Int /\ - (WordBase \div 2) <= P /\ P < WordBase \div 2 BY <1>2, <1>3, <1>4, <1>5
<1>7. o = Product(P, f) BY DEF MULSU
<1> QED BY <1>6, <1>7, SignedProduct

(* Two overlapping products put together: the sum of the upper one, a byte    *)
(* higher, and the lower one, but for a carry out of the top.                 *)
LEMMA Assembled ==
  ASSUME NEW top \in Byte, NEW p \in Below(WordBase), NEW q \in Below(WordBase),
         NEW mid, mid = ADD(p % Base, q \div Base),
         NEW high, high = ADC(top, 0, mid.f),
         NEW R, R = WordBase * high.r + Base * mid.r + (q % Base)
  PROVE  /\ high.f \in Flags /\ p \div Base \in Byte
         /\ R \in Below(WordBase * Base)
         /\ \E ch \in {0, 1} :
              R = WordBase * (top - (p \div Base)) + Base * p + q - (WordBase * Base) * ch
<1> DEFINE ph == p \div Base
           pl == p % Base
           qh == q \div Base
           ql == q % Base
           cm == IF mid.f.c THEN 1 ELSE 0
           ch == IF high.f.c THEN 1 ELSE 0
<1>1. Base \in Nat \ {0} /\ WordBase = Base * Base /\ WordBase \in Nat \ {0}
  BY BaseFacts, WordFacts
<1>2. \A m \in Below(WordBase) :
        m \div Base \in Byte /\ m % Base \in Byte /\ m = Base * (m \div Base) + (m % Base)
  <2> TAKE m \in Below(WordBase)
  <2>1. m \in Nat /\ m < Base * Base BY <1>1 DEF Below
  <2>2. /\ m \div Base \in Int /\ m % Base \in 0..(Base - 1)
        /\ m = Base * (m \div Base) + (m % Base)
    <3>1. m \in Int BY <2>1
    <3> QED BY <1>1, <3>1, DivMod
  <2> DEFINE d == m \div Base
             e == m % Base
  <2> HIDE DEF d, e
  <2>3. /\ d \in Int /\ e \in Int /\ 0 <= e /\ e < Base /\ m = Base * d + e
    BY <1>1, <2>2 DEF d, e
  <2>4. (e + Base * d < Base * Base) <=> d < Base BY <1>1, <2>3, HighPartFirst
  <2>5. (e + Base * d >= Base * 0) <=> d >= 0 BY <1>1, <2>3, HighPartFirst
  <2>6. 0 <= d /\ d < Base BY <1>1, <2>1, <2>3, <2>4, <2>5
  <2> QED BY <1>1, <2>3, <2>6 DEF Byte, d, e
<1>3. ph \in Byte /\ pl \in Byte /\ p = Base * ph + pl BY <1>2
<1>4. qh \in Byte /\ ql \in Byte /\ q = Base * qh + ql BY <1>2
<1>5. mid = Sum(pl, qh, 0, TRUE) BY DEF ADD
<1> HIDE DEF ph, pl, qh, ql
<1>6. mid.r \in Byte /\ mid.f \in Flags /\ mid.r = pl + qh + 0 - (IF mid.f.c THEN Base ELSE 0)
  <2> DEFINE zero == TRUE
  <2>1. mid = Sum(pl, qh, 0, zero) /\ zero \in BOOLEAN /\ 0 \in {0, 1} BY <1>5
  <2> HIDE DEF zero
  <2> QED BY <1>3, <1>4, <2>1, SumFacts
<1>7. high = Sum(top, 0, cm, mid.f.z) /\ mid.f.z \in BOOLEAN BY <1>6 DEF ADC, Carry, Flags
<1>8. 0 \in Byte BY <1>1 DEF Byte
<1>9. high.r \in Byte /\ high.f \in Flags /\ high.r = top + 0 + cm - (IF high.f.c THEN Base ELSE 0)
  <2>1. cm \in {0, 1} OBVIOUS
  <2> HIDE DEF cm
  <2> QED BY <1>7, <1>8, <2>1, SumFacts
<1>10. /\ top \in Nat /\ ph \in Nat /\ pl \in Nat /\ qh \in Nat /\ ql \in Nat /\ ql < Base
       /\ mid.r \in Nat /\ high.r \in Nat /\ cm \in {0, 1} /\ ch \in {0, 1}
  BY <1>3, <1>4, <1>6, <1>9, SignedByte
<1>11. mid.r = pl + qh - Base * cm /\ high.r = top + cm - Base * ch
  BY <1>1, <1>6, <1>9, <1>10
<1> HIDE DEF cm, ch
<1>12. R = WordBase * high.r + Base * mid.r + ql BY DEF ql
<1>13. R = WordBase * (top - ph) + Base * p + q - (WordBase * Base) * ch
  <2>1. Base * mid.r = Base * pl + Base * qh - WordBase * cm BY <1>1, <1>10, <1>11
  <2>2. WordBase * high.r = WordBase * top + WordBase * cm - (WordBase * Base) * ch
    BY <1>1, <1>10, <1>11
  <2>3. Base * p = WordBase * ph + Base * pl BY <1>1, <1>3, <1>10
  <2>4. WordBase * (top - ph) = WordBase * top - WordBase * ph BY <1>1, <1>10
  <2>5. /\ Base * pl \in Int /\ Base * qh \in Int /\ WordBase * cm \in Int /\ WordBase * top \in Int
        /\ (WordBase * Base) * ch \in Int /\ WordBase * ph \in Int
    BY <1>1, <1>10
  <2> QED BY <1>4, <1>10, <1>12, <2>1, <2>2, <2>3, <2>4, <2>5
<1>14. R \in Below(WordBase * Base)
  <2>1. Base * mid.r + ql \in Below(WordBase)
    <3>1. ql + Base * mid.r \in Below(Base * Base)
      <4>1. ql \in Below(Base) BY <1>1, <1>10 DEF Below
      <4> QED BY <1>1, <1>6, <4>1, Lengthened
    <3>2. ql + Base * mid.r = Base * mid.r + ql BY <1>1, <1>10
    <3> QED BY <1>1, <3>1, <3>2
  <2>2. (Base * mid.r + ql) + WordBase * high.r \in Below(WordBase * Base)
    BY <1>1, <1>9, <2>1, Lengthened
  <2>3. Base * mid.r \in Int /\ WordBase * high.r \in Int BY <1>1, <1>10
  <2>4. R = (Base * mid.r + ql) + WordBase * high.r BY <1>10, <1>12, <2>3
  <2> QED BY <2>2, <2>4
<1> QED BY <1>3, <1>9, <1>10, <1>13, <1>14 DEF ph

(* A number that is right modulo M, and small enough, is right as a signed one. *)
LEMMA SignedModulo ==
  ASSUME NEW M \in Nat \ {0}, M % 2 = 0, NEW R \in Below(M), NEW K \in Int,
         NEW V \in Int, - (M \div 2) <= V, V < M \div 2, R = V + M * K
  PROVE  Signed(R, M) = V
<1>1. M = 2 * (M \div 2) /\ M \div 2 \in Nat BY DivMod
<1>2. R \in 0..(M - 1) BY DEF Below
<1>3. CASE V >= 0
  <2>1. M * 0 + R = M * K + V /\ V \in 0..(M - 1) /\ 0 \in Int BY <1>1, <1>2, <1>3
  <2>2. R = V BY <1>2, <2>1, UniqueDivision
  <2> QED BY <1>1, <1>3, <2>2 DEF Signed
<1>4. CASE V < 0
  <2>1. M * 0 + R = M * (K - 1) + (V + M) /\ V + M \in 0..(M - 1) /\ 0 \in Int /\ K - 1 \in Int
    BY <1>1, <1>2, <1>4
  <2>2. R = V + M BY <1>2, <2>1, UniqueDivision
  <2> QED BY <1>1, <1>4, <2>2 DEF Signed
<1> QED BY <1>3, <1>4

-----------------------------------------------------------------------------
(* The invariant: between routines the numbers are empty, within one they     *)
(* have whole bytes, and a shift has kept every bit in the result or in C.     *)

AtRest == kind = "none" => x = 0 /\ y = 0 /\ res = 0 /\ wide = 1 /\ counted = "never"
WholeBytes == kind # "none" => wide % 2 = 0
Shifted ==
  /\ kind = "lsr" => x = 2 * res + Carry(sreg)
  /\ kind = "asr" => Signed(x, wide) = 2 * Signed(res, wide) + Carry(sreg)

IInv ==
  /\ TypeOK /\ AtRest /\ WholeBytes /\ Shifted
  /\ AddsUp /\ Subtracts /\ Negates /\ Multiplies
  /\ BranchesDecide /\ OverflowTruthful

LEMMA StepType ==
  ASSUME TypeOK, NEW k \in Kinds, NEW o, o.r \in Byte, o.f \in Flags,
         NEW a \in Byte, NEW b \in Byte, Step(k, o, a, b)
  PROVE  TypeOK' /\ (wide % 2 = 0)' /\ (counted' = "never" <=> counted = "never")
<1>1. kind' = k /\ sreg' = o.f /\ x' = x + wide * a /\ y' = y + wide * b
      /\ res' = res + wide * o.r /\ wide' = wide * Base
      /\ counted' = IF counted = "never" THEN "never" ELSE "earlier"
  BY DEF Step
<1>2. wide \in Nat \ {0} /\ x \in Below(wide) /\ y \in Below(wide) /\ res \in Below(wide)
  BY DEF TypeOK
<1>3. x + wide * a \in Below(wide * Base) BY <1>2, Lengthened
<1>4. y + wide * b \in Below(wide * Base) BY <1>2, Lengthened
<1>5. res + wide * o.r \in Below(wide * Base) BY <1>2, Lengthened
<1>6. wide * Base \in Nat \ {0} /\ (wide * Base) % 2 = 0 BY <1>2, Lengthened
<1>7. (wide % 2 = 0)' BY <1>1, <1>6
<1>8. x' \in Below(wide') /\ y' \in Below(wide') /\ res' \in Below(wide') /\ wide' \in Nat \ {0}
  BY <1>1, <1>3, <1>4, <1>5, <1>6
<1>9. kind' \in Kinds /\ sreg' \in Flags /\ counted' \in {"never", "earlier", "last"}
  BY <1>1
<1>10. TypeOK' BY <1>8, <1>9 DEF TypeOK, Below
<1> QED BY <1>1, <1>7, <1>10

LEMMA AddStep ==
  ASSUME TypeOK, NEW ci \in {0, 1}, res + (IF ci = 1 THEN wide ELSE 0) = x + y,
         NEW zero \in BOOLEAN, counted = "never" => (zero <=> res = 0),
         NEW a \in Byte, NEW b \in Byte, NEW o, o = Sum(a, b, ci, zero), Step("add", o, a, b)
  PROVE  IInv'
<1>1. /\ o.r \in Byte /\ o.f \in Flags /\ o.f.c \in BOOLEAN
      /\ o.r = a + b + ci - (IF o.f.c THEN Base ELSE 0)
      /\ o.f.z <=> zero /\ o.r = 0
      /\ o.f.v <=> Signed(a, Base) + Signed(b, Base) + ci # Signed(o.r, Base)
      /\ o.f.s <=> Signed(a, Base) + Signed(b, Base) + ci < 0
  BY SumFacts DEF Flags
<1>2. TypeOK' /\ (wide % 2 = 0)' /\ (counted' = "never" <=> counted = "never")
  BY <1>1, StepType DEF Kinds
<1>3. /\ kind' = "add" /\ sreg' = o.f /\ x' = x + wide * a /\ y' = y + wide * b
      /\ res' = res + wide * o.r /\ wide' = wide * Base
  BY DEF Step
<1>4. wide \in Nat \ {0} /\ x \in Below(wide) /\ y \in Below(wide) /\ res \in Below(wide)
  BY DEF TypeOK
<1> DEFINE X == Signed(x + wide * a, wide * Base)
           Y == Signed(y + wide * b, wide * Base)
<1>5. /\ (res + wide * o.r) + (IF o.f.c THEN wide * Base ELSE 0) = (x + wide * a) + (y + wide * b)
      /\ X + Y < 0 <=> Signed(a, Base) + Signed(b, Base) + ci < 0
      /\ X + Y # Signed(res + wide * o.r, wide * Base)
            <=> Signed(a, Base) + Signed(b, Base) + ci # Signed(o.r, Base)
  <2> DEFINE co == o.f.c
             r == o.r
  <2>1. co \in BOOLEAN /\ r \in Byte /\ r = a + b + ci - (IF co THEN Base ELSE 0) BY <1>1
  <2> HIDE DEF co, r
  <2>3. (res + wide * r) + (IF co THEN wide * Base ELSE 0) = (x + wide * a) + (y + wide * b)
    BY <1>4, <2>1, SumLengthened
  <2>4. X + Y < 0 <=> Signed(a, Base) + Signed(b, Base) + ci < 0
    BY <1>4, <2>1, SumLengthened
  <2>5. X + Y # Signed(res + wide * r, wide * Base)
            <=> Signed(a, Base) + Signed(b, Base) + ci # Signed(r, Base)
    BY <1>4, <2>1, SumLengthened
  <2> QED BY <2>3, <2>4, <2>5 DEF co, r
<1>6. AddsUp' BY <1>3, <1>5 DEF AddsUp, CarryOut
<1>7. OverflowTruthful'
  <2>1. sreg'.v = (X + Y # Signed(res', wide')) BY <1>1, <1>2, <1>3, <1>5 DEF TypeOK, Flags
  <2>2. sreg'.s = (X + Y < 0) BY <1>1, <1>2, <1>3, <1>5 DEF TypeOK, Flags
  <2>3. X = Signed(x', wide') /\ Y = Signed(y', wide') BY <1>3
  <2> HIDE DEF X, Y
  <2> QED BY <2>1, <2>2, <2>3 DEF OverflowTruthful
<1>8. BranchesDecide'
  <2>1. o.r = 0 <=> wide * o.r = 0
    <3>1. o.r \in Nat BY <1>1, SignedByte
    <3>2. o.r >= 1 => wide * o.r >= wide BY <1>4, <3>1, AtLeastOne
    <3> QED BY <1>4, <3>1, <3>2
  <2>2. res \in Nat /\ wide * o.r \in Nat BY <1>1, <1>4, SignedByte DEF Below
  <2>3. counted' = "never" => (sreg'.z <=> res' = 0) BY <1>1, <1>2, <1>3, <2>1, <2>2
  <2>4. sreg'.z \in BOOLEAN BY <1>2 DEF TypeOK, Flags
  <2> QED BY <1>3, <2>3, <2>4 DEF BranchesDecide
<1> QED BY <1>2, <1>3, <1>6, <1>7, <1>8
        DEF IInv, AtRest, WholeBytes, Shifted, Subtracts, Negates, Multiplies

LEMMA DifferenceStep ==
  ASSUME TypeOK, NEW k \in {"sub", "compare"}, NEW ci \in {0, 1}, ci = 1 <=> x < y,
         k = "sub" => res = x - y + (IF ci = 1 THEN wide ELSE 0),
         NEW zero \in BOOLEAN, counted = "never" => (zero <=> x = y),
         NEW a \in Byte, NEW b \in Byte, NEW o, o = Difference(a, b, ci, zero),
         NEW u, u.f = o.f, u.r = IF k = "sub" THEN o.r ELSE 0, Step(k, u, a, b)
  PROVE  IInv'
<1>1. /\ o.r \in Byte /\ o.f \in Flags /\ o.f.c \in BOOLEAN
      /\ o.r = a - b - ci + (IF o.f.c THEN Base ELSE 0)
      /\ o.f.z <=> zero /\ o.r = 0
      /\ o.f.s <=> Signed(a, Base) - Signed(b, Base) - ci < 0
  BY DifferenceFacts DEF Flags
<1>2. TypeOK' /\ (wide % 2 = 0)' /\ (counted' = "never" <=> counted = "never")
  <2>1. 0 \in Byte BY BaseFacts DEF Byte
  <2>2. u.r \in Byte /\ u.f \in Flags /\ k \in Kinds BY <1>1, <2>1 DEF Kinds
  <2> QED BY <2>2, StepType
<1>3. /\ kind' = k /\ sreg' = o.f /\ x' = x + wide * a /\ y' = y + wide * b
      /\ res' = res + wide * u.r /\ wide' = wide * Base
  BY DEF Step
<1>4. wide \in Nat \ {0} /\ x \in Below(wide) /\ y \in Below(wide) /\ res \in Below(wide)
  BY DEF TypeOK
<1>5. /\ o.f.c <=> x' < y'
      /\ x' = y' <=> (x = y /\ o.r = 0)
      /\ Signed(x', wide') < Signed(y', wide') <=> Signed(a, Base) - Signed(b, Base) - ci < 0
  BY <1>1, <1>3, <1>4, DifferenceLengthened
<1>6. BranchesDecide'
  <2>1. sreg'.c \in BOOLEAN /\ sreg'.z \in BOOLEAN /\ sreg'.s \in BOOLEAN
    BY <1>2 DEF TypeOK, Flags
  <2>2. sreg'.c = (x' < y') BY <1>3, <1>5, <2>1
  <2>3. counted' = "never" => sreg'.z = (x' = y') BY <1>1, <1>2, <1>3, <1>5, <2>1
  <2>4. sreg'.s = (Signed(x', wide') < Signed(y', wide')) BY <1>1, <1>3, <1>5, <2>1
  <2> QED BY <1>3, <2>2, <2>3, <2>4 DEF BranchesDecide
<1>7. Subtracts'
  <2>1. CASE k = "sub"
    <3> DEFINE wa == wide * a
               wb == wide * b
               wr == wide * o.r
               carryIn == IF ci = 1 THEN wide ELSE 0
               carryOut == IF o.f.c THEN wide * Base ELSE 0
    <3>1. wr = wa - wb - carryIn + carryOut
      <4>1. wide * o.r = wide * (a - b - ci + (IF o.f.c THEN Base ELSE 0)) BY <1>1
      <4>2. wide * (a - b - ci + (IF o.f.c THEN Base ELSE 0)) = wa - wb - carryIn + carryOut
        BY <1>4, SignedByte, BaseFacts
      <4> QED BY <4>1, <4>2
    <3>2. wa \in Int /\ wb \in Int /\ wr \in Int /\ carryIn \in Int /\ carryOut \in Int
      BY <1>1, <1>4, SignedByte, BaseFacts
    <3>3. res = x - y + carryIn /\ x \in Int /\ y \in Int /\ res \in Int
      BY <1>4, <2>1 DEF Below
    <3>4. res' = res + wr /\ x' = x + wa /\ y' = y + wb BY <1>3, <2>1
    <3>5. CarryOut' = carryOut BY <1>3 DEF CarryOut
    <3> HIDE DEF wa, wb, wr, carryIn, carryOut
    <3>6. res' = x' - y' + carryOut BY <3>1, <3>2, <3>3, <3>4
    <3> QED BY <3>5, <3>6 DEF Subtracts
  <2>2. CASE k = "compare" BY <1>3, <2>2 DEF Subtracts
  <2> QED BY <2>1, <2>2
<1> QED BY <1>2, <1>3, <1>6, <1>7
        DEF IInv, AtRest, WholeBytes, Shifted, AddsUp, Negates, Multiplies, OverflowTruthful

LEMMA NegFacts ==
  ASSUME NEW a \in Byte, NEW o, o = NEG(a)
  PROVE  o.r \in Byte /\ o.f \in Flags /\ o.r = (IF o.f.c THEN Base ELSE 0) - a
<1> DEFINE r == (- a) % Base
           v == a = Base \div 2
<1>1. o = [r |-> r, f |-> [c |-> r # 0, z |-> r = 0, n |-> Negative(r), v |-> v,
                           s |-> Negative(r) # v, h |-> Bit3(r) \/ Bit3(a)]]
  BY DEF NEG
<1>2. o.r = r /\ o.f \in Flags /\ (o.f.c <=> r # 0)
  <2> DEFINE n == Negative(r)
             h == Bit3(r) \/ Bit3(a)
  <2>1. n \in BOOLEAN /\ h \in BOOLEAN /\ v \in BOOLEAN BY DEF Negative, Bit3
  <2> HIDE DEF n, h, v, r
  <2>2. o = [r |-> r, f |-> [c |-> r # 0, z |-> r = 0, n |-> n, v |-> v, s |-> n # v, h |-> h]]
    BY <1>1 DEF n, h
  <2>3. /\ o.r = r
        /\ o.f = [c |-> r # 0, z |-> r = 0, n |-> n, v |-> v, s |-> n # v, h |-> h]
    BY <2>2
  <2>4. (n # v) \in BOOLEAN /\ (r # 0) \in BOOLEAN /\ (r = 0) \in BOOLEAN OBVIOUS
  <2>5. o.f \in Flags BY <2>1, <2>3, <2>4 DEF Flags
  <2>6. o.f.c = (r # 0) BY <2>3
  <2> QED BY <2>3, <2>5, <2>6
<1>3. a \in Nat /\ a < Base /\ Base \in Nat \ {0} BY SignedByte, BaseFacts
<1>4. r = IF a = 0 THEN 0 ELSE Base - a
  <2>1. - a \in Int /\ - Base <= - a /\ - a < 2 * Base BY <1>3
  <2>2. r = IF - a < 0 THEN - a + Base ELSE IF - a < Base THEN - a ELSE - a - Base
    BY <1>3, <2>1, Wrapped
  <2> QED BY <1>3, <2>2
<1> HIDE DEF r
<1>5. r \in Byte BY <1>3, <1>4 DEF Byte
<1> QED BY <1>2, <1>3, <1>4, <1>5

LEMMA NegateStep ==
  ASSUME TypeOK, NEW ci \in {0, 1}, res = (IF ci = 1 THEN wide ELSE 0) - x,
         NEW a \in Byte, NEW o, o.r \in Byte, o.f \in Flags,
         o.r = (IF o.f.c THEN Base ELSE 0) - a - ci, Step("negate", o, a, 0)
  PROVE  IInv'
<1>1. TypeOK' /\ (wide % 2 = 0)'
  <2>1. 0 \in Byte /\ "negate" \in Kinds BY BaseFacts DEF Byte, Kinds
  <2> QED BY <2>1, StepType
<1>2. /\ kind' = "negate" /\ sreg' = o.f /\ x' = x + wide * a
      /\ res' = res + wide * o.r /\ wide' = wide * Base
  BY DEF Step
<1>3. wide \in Nat \ {0} /\ x \in Nat /\ res \in Nat BY DEF TypeOK, Below
<1>4. a \in Nat /\ o.r \in Nat /\ Base \in Nat /\ o.f.c \in BOOLEAN BY SignedByte, BaseFacts DEF Flags
<1>5. Negates'
  <2> DEFINE wa == wide * a
             wr == wide * o.r
             carryIn == IF ci = 1 THEN wide ELSE 0
             carryOut == IF o.f.c THEN wide * Base ELSE 0
  <2>1. wr = carryOut - wa - carryIn
    <3>1. wide * o.r = wide * ((IF o.f.c THEN Base ELSE 0) - a - ci) OBVIOUS
    <3>2. wide * ((IF o.f.c THEN Base ELSE 0) - a - ci) = carryOut - wa - carryIn BY <1>3, <1>4
    <3> QED BY <3>1, <3>2
  <2>2. wa \in Int /\ wr \in Int /\ carryIn \in Int /\ carryOut \in Int BY <1>3, <1>4
  <2>3. res = carryIn - x /\ res' = res + wr /\ x' = x + wa BY <1>2
  <2>4. CarryOut' = carryOut BY <1>2 DEF CarryOut
  <2> HIDE DEF wa, wr, carryIn, carryOut
  <2>5. res' = carryOut - x' BY <1>3, <2>1, <2>2, <2>3
  <2> QED BY <2>4, <2>5 DEF Negates
<1> QED BY <1>1, <1>2, <1>5 DEF IInv, AtRest, WholeBytes, Shifted, AddsUp, Subtracts, Multiplies,
        BranchesDecide, OverflowTruthful

LEMMA WordOfBytes ==
  ASSUME NEW a1 \in Byte, NEW a0 \in Byte, NEW k \in Byte
  PROVE  /\ Base * a1 + a0 \in Below(WordBase) /\ k \in Below(WordBase)
         /\ Signed(Base * a1 + a0, WordBase) = Base * Signed(a1, Base) + a0
<1>1. Base \in Nat \ {0} /\ WordBase = Base * Base /\ WordBase >= Base /\ WordBase \in Nat
  BY BaseFacts, WordFacts
<1>2. a0 \in Below(Base) BY DEF Below, Byte
<1>3. /\ a0 + Base * a1 \in Below(Base * Base)
      /\ Signed(a0 + Base * a1, Base * Base) = a0 + Base * Signed(a1, Base)
  BY <1>1, <1>2, Lengthened
<1>4. /\ a0 + Base * a1 = Base * a1 + a0
      /\ a0 + Base * Signed(a1, Base) = Base * Signed(a1, Base) + a0
  BY <1>1, SignedByte
<1>5. k \in Below(WordBase) BY <1>1, SignedByte DEF Below
<1> QED BY <1>1, <1>3, <1>4, <1>5

LEMMA WordType ==
  ASSUME TypeOK, AtRest, NEW k \in Kinds, NEW o, o.r \in Below(WordBase), o.f \in Flags,
         NEW a1 \in Byte, NEW a0 \in Byte, NEW i \in Byte, Word(k, o, a1, a0, i)
  PROVE  /\ TypeOK' /\ (wide % 2 = 0)' /\ counted' = "never"
         /\ kind' = k /\ sreg' = o.f /\ x' = Base * a1 + a0 /\ y' = i /\ res' = o.r
         /\ wide' = WordBase
         /\ Base * a1 + a0 \in Below(WordBase) /\ i \in Below(WordBase)
<1>1. /\ kind' = k /\ sreg' = o.f /\ x' = Base * a1 + a0 /\ y' = i /\ res' = o.r
      /\ wide' = WordBase /\ counted' = "never"
  BY DEF Word, AtRest
<1>2. Base * a1 + a0 \in Below(WordBase) /\ i \in Below(WordBase) BY WordOfBytes
<1>3. WordBase \in Nat \ {0} /\ WordBase % 2 = 0 BY WordFacts
<1>4. TypeOK'
  <2>1. x' \in Below(wide') /\ y' \in Below(wide') /\ res' \in Below(wide') BY <1>1, <1>2
  <2> QED BY <1>1, <1>3, <2>1 DEF TypeOK, Below
<1> QED BY <1>1, <1>2, <1>3, <1>4

LEMMA AddImmediateStep ==
  ASSUME IInv, NEW a1 \in Byte, NEW a0 \in Byte, NEW i \in Byte, AddImmediate(a1, a0, i)
  PROVE  IInv'
<1> DEFINE w == Base * a1 + a0
           o == ADIW(w, i, sreg)
<1>1. w \in Below(WordBase) /\ sreg \in Flags /\ TypeOK /\ AtRest
  BY WordOfBytes DEF IInv, TypeOK
<1> HIDE DEF w
<1>2. /\ o.r \in Below(WordBase) /\ o.f \in Flags
      /\ o.r + (IF o.f.c THEN WordBase ELSE 0) = w + i
      /\ o.f.z <=> o.r = 0
      /\ o.f.v <=> Signed(w, WordBase) + Signed(i, WordBase) # Signed(o.r, WordBase)
      /\ o.f.s <=> Signed(w, WordBase) + Signed(i, WordBase) < 0
  BY <1>1, AdiwFacts
<1> HIDE DEF o
<1>3. Word("add", o, a1, a0, i) BY DEF AddImmediate, o, w
<1>4. /\ TypeOK' /\ (wide % 2 = 0)' /\ counted' = "never"
      /\ kind' = "add" /\ sreg' = o.f /\ x' = w /\ y' = i /\ res' = o.r /\ wide' = WordBase
  <2>1. "add" \in Kinds BY DEF Kinds
  <2> QED BY <1>1, <1>2, <1>3, <2>1, WordType DEF w
<1>5. AddsUp' BY <1>2, <1>4 DEF AddsUp, CarryOut
<1>6. sreg'.z \in BOOLEAN /\ sreg'.v \in BOOLEAN /\ sreg'.s \in BOOLEAN BY <1>4 DEF TypeOK, Flags
<1>7. BranchesDecide' BY <1>2, <1>4, <1>6 DEF BranchesDecide
<1>8. OverflowTruthful'
  <2> DEFINE sum == Signed(x', wide') + Signed(y', wide')
  <2>1. sreg'.v = (sum # Signed(res', wide')) BY <1>2, <1>4, <1>6
  <2>2. sreg'.s = (sum < 0) BY <1>2, <1>4, <1>6
  <2> QED BY <2>1, <2>2 DEF OverflowTruthful
<1> QED BY <1>4, <1>5, <1>7, <1>8
        DEF IInv, AtRest, WholeBytes, Shifted, Subtracts, Negates, Multiplies

LEMMA SubtractImmediateStep ==
  ASSUME IInv, NEW a1 \in Byte, NEW a0 \in Byte, NEW i \in Byte, SubtractImmediate(a1, a0, i)
  PROVE  IInv'
<1> DEFINE w == Base * a1 + a0
           o == SBIW(w, i, sreg)
<1>1. w \in Below(WordBase) /\ sreg \in Flags /\ TypeOK /\ AtRest
  BY WordOfBytes DEF IInv, TypeOK
<1> HIDE DEF w
<1>2. /\ o.r \in Below(WordBase) /\ o.f \in Flags
      /\ o.r = w - i + (IF o.f.c THEN WordBase ELSE 0)
      /\ o.f.c <=> w < i
      /\ o.f.z <=> w = i
      /\ o.f.s <=> Signed(w, WordBase) < Signed(i, WordBase)
  BY <1>1, SbiwFacts
<1> HIDE DEF o
<1>3. Word("sub", o, a1, a0, i) BY DEF SubtractImmediate, o, w
<1>4. /\ TypeOK' /\ (wide % 2 = 0)' /\ counted' = "never"
      /\ kind' = "sub" /\ sreg' = o.f /\ x' = w /\ y' = i /\ res' = o.r /\ wide' = WordBase
  <2>1. "sub" \in Kinds BY DEF Kinds
  <2> QED BY <1>1, <1>2, <1>3, <2>1, WordType DEF w
<1>5. Subtracts' BY <1>2, <1>4 DEF Subtracts, CarryOut
<1>6. sreg'.c \in BOOLEAN /\ sreg'.z \in BOOLEAN /\ sreg'.s \in BOOLEAN BY <1>4 DEF TypeOK, Flags
<1>7. BranchesDecide'
  <2>1. sreg'.c = (x' < y') /\ sreg'.z = (x' = y') BY <1>2, <1>4, <1>6
  <2>2. sreg'.s = (Signed(x', wide') < Signed(y', wide')) BY <1>2, <1>4, <1>6
  <2> QED BY <1>4, <2>1, <2>2 DEF BranchesDecide
<1> QED BY <1>4, <1>5, <1>7
        DEF IInv, AtRest, WholeBytes, Shifted, AddsUp, Negates, Multiplies, OverflowTruthful

LEMMA StepDownType ==
  ASSUME TypeOK, kind # "none" => wide % 2 = 0, kind = "none" => x = 0 /\ res = 0 /\ wide = 1,
         NEW k \in Kinds, NEW o, o.r \in Byte, o.f \in Flags, NEW a \in Byte, StepDown(k, o, a)
  PROVE  /\ TypeOK' /\ (wide % 2 = 0)'
         /\ kind' = k /\ sreg' = o.f
         /\ kind = "none" => x' = a /\ res' = o.r /\ wide' = Base
         /\ kind # "none" =>
              /\ x' = Base * x + a /\ res' = Base * res + o.r
              /\ Signed(x', wide') = Base * Signed(x, wide) + a
              /\ Signed(res', wide') = Base * Signed(res, wide) + o.r
<1>1. /\ kind' = k /\ sreg' = o.f /\ x' = Base * x + a /\ res' = Base * res + o.r
      /\ wide' = wide * Base /\ y' = y /\ counted' = counted
  BY DEF StepDown
<1>2. wide \in Nat \ {0} /\ x \in Below(wide) /\ y \in Below(wide) /\ res \in Below(wide)
  BY DEF TypeOK
<1>3. wide * Base \in Nat \ {0} /\ wide <= wide * Base /\ (wide * Base) % 2 = 0
  <2>1. a \in Byte OBVIOUS
  <2> QED BY <1>2, <2>1, Lengthened
<1>4. y' \in Below(wide') BY <1>1, <1>2, <1>3 DEF Below
<1>5. /\ a \in Nat /\ a < Base /\ o.r \in Nat /\ o.r < Base /\ Base \in Nat
  BY SignedByte, BaseFacts
<1>6. CASE kind = "none"
  <2>1. x' = a /\ res' = o.r /\ wide' = Base BY <1>1, <1>5, <1>6
  <2>2. x' \in Below(wide') /\ res' \in Below(wide') BY <1>5, <2>1 DEF Below
  <2>3. TypeOK' BY <1>1, <1>3, <1>4, <2>2 DEF TypeOK, Below
  <2> QED BY <1>1, <1>3, <1>6, <2>1, <2>3
<1>7. CASE kind # "none"
  <2>1. wide % 2 = 0 BY <1>7
  <2>2. /\ Base * x + a \in Below(wide * Base)
        /\ Signed(Base * x + a, wide * Base) = Base * Signed(x, wide) + a
    BY <1>2, <2>1, LengthenedBelow
  <2>3. /\ Base * res + o.r \in Below(wide * Base)
        /\ Signed(Base * res + o.r, wide * Base) = Base * Signed(res, wide) + o.r
    BY <1>2, <2>1, LengthenedBelow
  <2>4. TypeOK' BY <1>1, <1>3, <1>4, <2>2, <2>3 DEF TypeOK, Below
  <2> QED BY <1>1, <1>3, <1>7, <2>2, <2>3, <2>4
<1> QED BY <1>6, <1>7

(* Twice the half, with the bit shifted out, stays so when a byte follows. *)
LEMMA HalfGoesOn ==
  ASSUME NEW X \in Int, NEW Z \in Int, NEW ci \in {0, 1}, X = 2 * Z + ci,
         NEW a \in Int, NEW r \in Int, NEW co \in {0, 1}, 2 * r + co = a + Base * ci
  PROVE  Base * X + a = 2 * (Base * Z + r) + co
<1>1. Base \in Int BY BaseFacts
<1>2. Base * X = 2 * (Base * Z) + Base * ci BY <1>1
<1>3. Base * Z \in Int /\ Base * ci \in Int /\ Base * X \in Int BY <1>1
<1> QED BY <1>2, <1>3

LEMMA ShiftRightStep ==
  ASSUME IInv, NEW a \in Byte, ShiftRight(a)
  PROVE  IInv'
<1>1. /\ TypeOK /\ (kind # "none" => wide % 2 = 0) /\ (kind = "none" => x = 0 /\ res = 0 /\ wide = 1)
      /\ sreg \in Flags /\ Shifted
  BY DEF IInv, TypeOK, WholeBytes, AtRest
<1>2. a \in Nat /\ a < Base /\ Base \in Nat /\ Base = 2 * Mid /\ Mid \in Nat BY SignedByte, BaseFacts
<1>3. ASSUME NEW k \in {"lsr", "asr"}, NEW top \in BOOLEAN, NEW o, o = ShiftedRight(a, top, sreg),
             StepDown(k, o, a), Shifted'
      PROVE  IInv'
  <2>1. o.r \in Byte /\ o.f \in Flags BY <1>1, <1>3, ShiftFacts
  <2>2. TypeOK' /\ (wide % 2 = 0)' /\ kind' = k
    <3>1. k \in Kinds BY DEF Kinds
    <3> QED BY <1>1, <1>3, <2>1, <3>1, StepDownType
  <2> QED BY <1>3, <2>2 DEF IInv, AtRest, WholeBytes, AddsUp, Subtracts, Negates, Multiplies,
          BranchesDecide, OverflowTruthful
<1>4. CASE kind = "none" /\ StepDown("lsr", LSR(a, sreg), a)
  <2> DEFINE top == FALSE
             o == ShiftedRight(a, top, sreg)
  <2>1. top \in BOOLEAN /\ ~ top /\ StepDown("lsr", o, a) BY <1>4 DEF LSR
  <2> HIDE DEF top
  <2>2. /\ o.r \in Byte /\ o.f \in Flags
        /\ 2 * o.r + Carry(o.f) = a + (IF top THEN Base ELSE 0)
    BY <1>1, <2>1, ShiftFacts
  <2> HIDE DEF o
  <2>3. kind' = "lsr" /\ sreg' = o.f /\ x' = a /\ res' = o.r
    BY <1>1, <1>4, <2>1, <2>2, StepDownType DEF Kinds
  <2>4. 2 * o.r + Carry(o.f) = a BY <1>2, <2>1, <2>2
  <2>5. Shifted' BY <2>3, <2>4 DEF Shifted, Carry
  <2> QED BY <1>3, <2>1, <2>5 DEF o
<1>5. CASE kind = "none" /\ StepDown("asr", ASR(a, sreg), a)
  <2> DEFINE top == Negative(a)
             o == ShiftedRight(a, top, sreg)
  <2>1. top \in BOOLEAN /\ (top <=> a >= Mid) BY DEF Negative, Mid
  <2>2. StepDown("asr", o, a) BY <1>5 DEF ASR
  <2> HIDE DEF top
  <2>3. /\ o.r \in Byte /\ o.f \in Flags
        /\ 2 * o.r + Carry(o.f) = a + (IF top THEN Base ELSE 0)
        /\ o.r >= Mid <=> top
    BY <1>1, <2>1, ShiftFacts
  <2> HIDE DEF o
  <2>4. kind' = "asr" /\ sreg' = o.f /\ x' = a /\ res' = o.r /\ wide' = Base
    BY <1>1, <1>5, <2>2, <2>3, StepDownType DEF Kinds
  <2>5. /\ Signed(a, Base) = (IF a >= Mid THEN a - Base ELSE a)
        /\ Signed(o.r, Base) = (IF o.r >= Mid THEN o.r - Base ELSE o.r)
        /\ o.r \in Nat
    BY <2>3, SignedByte
  <2>6. Carry(o.f) \in {0, 1} BY DEF Carry
  <2>7. Signed(a, Base) = 2 * Signed(o.r, Base) + Carry(o.f) BY <1>2, <2>1, <2>3, <2>5, <2>6
  <2>8. Shifted' BY <2>4, <2>7 DEF Shifted, Carry
  <2> QED BY <1>3, <2>1, <2>2, <2>8 DEF o
<1>6. ASSUME NEW k \in {"lsr", "asr"}, GoesOn(k), StepDown(k, ROR(a, sreg), a)
      PROVE  IInv'
  <2> DEFINE top == sreg.c
             o == ShiftedRight(a, top, sreg)
             ci == Carry(sreg)
             co == Carry(o.f)
  <2>1. top \in BOOLEAN /\ ci \in {0, 1} /\ (IF top THEN Base ELSE 0) = Base * ci
    BY <1>1, <1>2 DEF Flags, Carry
  <2>2. StepDown(k, o, a) /\ kind = k /\ kind # "none" BY <1>6 DEF ROR, GoesOn
  <2> HIDE DEF top
  <2>3. /\ o.r \in Byte /\ o.f \in Flags
        /\ 2 * o.r + co = a + (IF top THEN Base ELSE 0)
    BY <1>1, <2>1, ShiftFacts
  <2>4. co \in {0, 1} BY DEF Carry
  <2> HIDE DEF o
  <2>5. /\ kind' = k /\ sreg' = o.f /\ x' = Base * x + a /\ res' = Base * res + o.r
        /\ Signed(x', wide') = Base * Signed(x, wide) + a
        /\ Signed(res', wide') = Base * Signed(res, wide) + o.r
    <3>1. k \in Kinds BY DEF Kinds
    <3> QED BY <1>1, <2>2, <2>3, <3>1, StepDownType
  <2>6. 2 * o.r + co = a + Base * ci BY <2>1, <2>3
  <2>7. x \in Int /\ res \in Int /\ Signed(x, wide) \in Int /\ Signed(res, wide) \in Int
    BY <1>1 DEF TypeOK, Below, Signed
  <2>8. o.r \in Int /\ a \in Int
    <3>1. o.r \in Nat BY <2>3, SignedByte
    <3> QED BY <1>2, <3>1
  <2>9. /\ k = "lsr" => x = 2 * res + ci
        /\ k = "asr" => Signed(x, wide) = 2 * Signed(res, wide) + ci
    BY <1>1, <2>2 DEF Shifted
  <2> HIDE DEF ci, co
  <2>10. k = "lsr" => x' = 2 * res' + co
    <3>1. ASSUME k = "lsr"
          PROVE  Base * x + a = 2 * (Base * res + o.r) + co
      <4>1. x = 2 * res + ci BY <2>9, <3>1
      <4>2. Base * x = 2 * (Base * res) + Base * ci BY <1>2, <2>1, <2>7, <4>1
      <4>3. Base * res \in Int /\ Base * ci \in Int /\ Base * x \in Int BY <1>2, <2>1, <2>7
      <4> QED BY <2>4, <2>6, <2>8, <4>2, <4>3
    <3> QED BY <2>5, <3>1
  <2>11. k = "asr" => Signed(x', wide') = 2 * Signed(res', wide') + co
    BY <2>1, <2>4, <2>5, <2>6, <2>7, <2>8, <2>9, HalfGoesOn
  <2>12. Shifted' BY <2>5, <2>10, <2>11 DEF Shifted, Carry, co
  <2> QED BY <1>3, <2>1, <2>2, <2>12 DEF o
<1> QED BY <1>4, <1>5, <1>6 DEF ShiftRight

LEMMA ProductType ==
  ASSUME TypeOK, AtRest, NEW k \in {"multiply", "umultiply"},
         NEW a \in Byte, NEW b1 \in Byte, NEW b0 \in Byte, NEW top \in Byte,
         NEW p, p.r \in Below(WordBase), NEW q, q.r \in Below(WordBase),
         Product24(k, a, b1, b0, top, p, q)
  PROVE  /\ TypeOK' /\ (wide % 2 = 0)' /\ kind' = k /\ x' = a /\ y' = Base * b1 + b0
         /\ wide' = WordBase * Base /\ res' \in Below(WordBase * Base)
         /\ \E ch \in {0, 1} :
              res' = WordBase * (top - (p.r \div Base)) + Base * p.r + q.r - (WordBase * Base) * ch
<1> DEFINE mid == ADD(p.r % Base, q.r \div Base)
           high == ADC(top, 0, mid.f)
           R == WordBase * high.r + Base * mid.r + (q.r % Base)
           M == WordBase * Base
<1>1. /\ kind' = k /\ sreg' = high.f /\ x' = a /\ y' = Base * b1 + b0 /\ res' = R
      /\ wide' = M /\ counted' = counted
  BY DEF Product24
<1>2. /\ high.f \in Flags /\ R \in Below(M)
      /\ \E ch \in {0, 1} :
           R = WordBase * (top - (p.r \div Base)) + Base * p.r + q.r - M * ch
  <2> DEFINE pr == p.r
             qr == q.r
  <2>1. /\ pr \in Below(WordBase) /\ qr \in Below(WordBase)
        /\ mid = ADD(pr % Base, qr \div Base) /\ high = ADC(top, 0, mid.f)
        /\ R = WordBase * high.r + Base * mid.r + (qr % Base)
    OBVIOUS
  <2> HIDE DEF mid, high, R, pr, qr
  <2>2. /\ high.f \in Flags /\ R \in Below(M)
        /\ \E ch \in {0, 1} :
             R = WordBase * (top - (pr \div Base)) + Base * pr + qr - M * ch
    BY <2>1, Assembled
  <2> QED BY <2>2 DEF pr, qr
<1> HIDE DEF mid, high, R
<1>3. /\ M \in Nat \ {0} /\ WordBase <= M /\ M % 2 = 0
  <2>1. WordBase \in Nat \ {0} /\ 0 \in Below(WordBase) BY WordFacts DEF Below
  <2> QED BY <2>1, Lengthened
<1>4. Base * b1 + b0 \in Below(WordBase) /\ a \in Below(WordBase) BY WordOfBytes
<1>5. x' \in Below(wide') /\ y' \in Below(wide') /\ res' \in Below(wide')
  <2>1. WordBase \in Nat BY WordFacts
  <2> HIDE DEF M
  <2> QED BY <1>1, <1>2, <1>3, <1>4, <2>1 DEF Below
<1>6. TypeOK'
  <2>1. kind' \in Kinds BY <1>1 DEF Kinds
  <2>2. wide' \in Nat \ {0} BY <1>1, <1>3
  <2>3. counted' \in {"never", "earlier", "last"} BY <1>1 DEF TypeOK
  <2> QED BY <1>1, <1>2, <1>5, <2>1, <2>2, <2>3 DEF TypeOK, Below
<1> QED BY <1>1, <1>2, <1>3, <1>6

LEMMA MultiplyUnsignedStep ==
  ASSUME IInv, NEW a \in Byte, NEW b1 \in Byte, NEW b0 \in Byte, MultiplyUnsigned(a, b1, b0)
  PROVE  IInv'
<1> DEFINE p == MUL(a, b1, sreg)
           q == MUL(a, b0, p.f)
           ph == p.r \div Base
           M == WordBase * Base
           Y == Base * b1 + b0
<1>1. TypeOK /\ AtRest /\ sreg \in Flags BY DEF IInv, TypeOK
<1>2. p.r \in Below(WordBase) /\ p.f \in Flags /\ p.r = a * b1 BY <1>1, MulFacts
<1>3. Product24("umultiply", a, b1, b0, ph, p, q) BY DEF MultiplyUnsigned
<1> HIDE DEF p
<1>4. q.r \in Below(WordBase) /\ q.f \in Flags /\ q.r = a * b0 BY <1>2, MulFacts
<1>5. ph \in Byte
  <2> DEFINE pr == p.r
  <2>1. pr \in Below(WordBase) BY <1>2
  <2> HIDE DEF pr
  <2>2. pr \div Base \in Byte BY <2>1, Assembled
  <2> QED BY <2>2 DEF pr
<1> HIDE DEF q, ph
<1>6. /\ TypeOK' /\ (wide % 2 = 0)' /\ kind' = "umultiply" /\ x' = a /\ y' = Y
      /\ wide' = M /\ res' \in Below(M)
      /\ \E ch \in {0, 1} :
           res' = WordBase * (ph - ph) + Base * p.r + q.r - M * ch
  BY <1>1, <1>2, <1>3, <1>4, <1>5, ProductType DEF ph
<1>7. /\ Base \in Nat \ {0} /\ WordBase \in Nat \ {0} /\ WordBase = Base * Base
  BY BaseFacts, WordFacts
<1>8. /\ a \in Nat /\ a < Base /\ b1 \in Nat /\ b0 \in Nat /\ ph \in Nat BY <1>5, SignedByte
<1>9. Y \in Nat /\ Y < WordBase BY <1>7, WordOfBytes DEF Below
<1>10. Base * p.r + q.r = a * Y BY <1>2, <1>4, <1>7, <1>8
<1> HIDE DEF Y, M
<1>11. a * Y \in Nat /\ a * Y < M
  <2>1. (Base - a) * Y >= 0 /\ (Base - a) * Y = Base * Y - a * Y
    <3>1. Base - a \in Nat BY <1>7, <1>8
    <3> QED BY <1>7, <1>8, <1>9, <3>1
  <2>2. 0 + Base * Y < Base * WordBase BY <1>7, <1>9, HighPartFirst
  <2>3. M = Base * WordBase BY <1>7 DEF M
  <2>4. Base * Y \in Nat /\ a * Y \in Nat /\ Base * WordBase \in Nat BY <1>7, <1>8, <1>9
  <2> QED BY <2>1, <2>2, <2>3, <2>4
<1>12. res' = a * Y
  <2>1. PICK ch \in {0, 1} : res' = WordBase * (ph - ph) + Base * p.r + q.r - M * ch BY <1>6
  <2>2. WordBase * (ph - ph) = 0 BY <1>7, <1>8
  <2>3. M \in Nat BY <1>7 DEF M
  <2>4. Base * p.r \in Int /\ q.r \in Int BY <1>2, <1>4, <1>7, <1>8
  <2>5. res' = a * Y - M * ch BY <1>10, <2>1, <2>2, <2>3, <2>4
  <2>6. res' \in Nat BY <1>6, <2>3 DEF Below
  <2>7. ch = 0 BY <1>11, <2>3, <2>5, <2>6
  <2> QED BY <1>11, <2>3, <2>5, <2>7
<1>13. Multiplies' BY <1>6, <1>12 DEF Multiplies
<1> QED BY <1>6, <1>13 DEF IInv, AtRest, WholeBytes, Shifted, AddsUp, Subtracts, Negates,
        BranchesDecide, OverflowTruthful

LEMMA MultiplyStep ==
  ASSUME IInv, NEW a \in Byte, NEW b1 \in Byte, NEW b0 \in Byte, Multiply(a, b1, b0)
  PROVE  IInv'
<1> DEFINE sa == Signed(a, Base)
           sb == Signed(b1, Base)
           P == sa * sb
           Q == sa * b0
           p == MULS(a, b1, sreg)
           q == MULSU(a, b0, p.f)
           ph == p.r \div Base
           sub == Difference(ph, 0, Carry(q.f), q.f.z)
           top == sub.r
           M == WordBase * Base
           Y == Base * b1 + b0
<1>1. TypeOK /\ AtRest /\ sreg \in Flags BY DEF IInv, TypeOK
<1>2. Product24("multiply", a, b1, b0, top, p, q) BY DEF Multiply, SBC
<1>3. /\ P \in Int /\ p.r \in Below(WordBase) /\ p.f \in Flags
      /\ p.r = P + (IF P < 0 THEN WordBase ELSE 0)
  BY <1>1, MulsFacts
<1> HIDE DEF p
<1>4. /\ Q \in Int /\ q.r \in Below(WordBase) /\ q.f \in Flags
      /\ q.r = Q + (IF Q < 0 THEN WordBase ELSE 0)
      /\ q.f.c = (Q < 0)
  BY <1>3, MulsuFacts
<1>5. ph \in Byte
  <2> DEFINE pr == p.r
  <2>1. pr \in Below(WordBase) BY <1>3
  <2> HIDE DEF pr
  <2>2. pr \div Base \in Byte BY <2>1, Assembled
  <2> QED BY <2>2 DEF pr
<1> DEFINE cq == IF Q < 0 THEN 1 ELSE 0
           kp == IF P < 0 THEN 1 ELSE 0
           ct == IF sub.f.c THEN 1 ELSE 0
<1>6. Carry(q.f) = cq BY <1>4 DEF Carry
<1> HIDE DEF q, ph
<1>7. top \in Byte /\ top = ph - 0 - cq + (IF sub.f.c THEN Base ELSE 0)
  <2>1. Carry(q.f) \in {0, 1} /\ q.f.z \in BOOLEAN /\ 0 \in Byte
    BY <1>4, BaseFacts DEF Carry, Flags, Byte
  <2>2. top \in Byte /\ top = ph - 0 - Carry(q.f) + (IF sub.f.c THEN Base ELSE 0)
    BY <1>5, <2>1, DifferenceFacts
  <2> QED BY <1>6, <2>2
<1> HIDE DEF sub
<1>8. /\ TypeOK' /\ (wide % 2 = 0)' /\ kind' = "multiply" /\ x' = a /\ y' = Y
      /\ wide' = M /\ res' \in Below(M)
      /\ \E ch \in {0, 1} :
           res' = WordBase * (top - ph) + Base * p.r + q.r - M * ch
  BY <1>1, <1>2, <1>3, <1>4, <1>7, ProductType DEF ph
<1>9. /\ Base \in Nat \ {0} /\ WordBase \in Nat \ {0} /\ WordBase = Base * Base
      /\ Base = 2 * Mid /\ Mid \in Nat \ {0} /\ M \in Nat \ {0} /\ M % 2 = 0
  <2>1. 0 \in Below(WordBase) /\ 0 \in Byte /\ WordBase \in Nat \ {0} BY BaseFacts, WordFacts DEF Below, Byte
  <2>2. M \in Nat \ {0} /\ M % 2 = 0 BY <2>1, Lengthened
  <2> HIDE DEF M
  <2> QED BY <2>2, BaseFacts, WordFacts
<1>10. /\ sa \in Int /\ sb \in Int /\ - Mid <= sa /\ sa <= Mid /\ b0 \in Nat /\ ph \in Nat
       /\ top \in Nat
  BY <1>5, <1>7, <1>9, SignedByte
<1> DEFINE V == sa * Signed(Y, WordBase)
<1>11. Y \in Below(WordBase) /\ Signed(Y, WordBase) = Base * sb + b0 BY WordOfBytes
<1>12. V = Base * P + Q BY <1>9, <1>10, <1>11
<1>13. V \in Int /\ - (M \div 2) <= V /\ V < M \div 2
  <2> DEFINE n == WordBase \div 2
             sy == Signed(Y, WordBase)
  <2>1. n \in Nat /\ WordBase = 2 * n BY WordFacts
  <2>2. sy \in Int /\ - n <= sy /\ sy <= n
    <3>1. Y \in Nat /\ Y < WordBase /\ sy = (IF Y >= n THEN Y - WordBase ELSE Y)
      BY <1>11, SignedWord
    <3> HIDE DEF n, sy, Y
    <3> QED BY <2>1, <3>1
  <2>3. V = sa * sy OBVIOUS
  <2> HIDE DEF sa, sy, n, Y, M, V
  <2>4. - (Mid * n) <= sa * sy /\ sa * sy <= Mid * n /\ sa * sy \in Int
    BY <1>9, <1>10, <2>1, <2>2, ProductBound
  <2>5. M = 2 * (2 * (Mid * n)) BY <1>9, <2>1 DEF M
  <2>6. Mid * n \in Nat /\ Mid * n >= 1
    <3>1. n >= 1 BY <1>9, <2>1
    <3>2. Mid * n >= Mid /\ Mid * n \in Nat BY <1>9, <2>1, <3>1, AtLeastOne
    <3> QED BY <1>9, <3>2
  <2>7. M \div 2 = 2 * (Mid * n)
    <3> DEFINE h == Mid * n
    <3>1. h \in Nat /\ M = 2 * (2 * h) BY <2>5, <2>6
    <3> HIDE DEF h
    <3>2. M \div 2 = 2 * h BY <3>1
    <3> QED BY <3>2 DEF h
  <2> QED BY <2>3, <2>4, <2>6, <2>7
<1>14. PICK ch \in {0, 1} : res' = WordBase * (top - ph) + Base * p.r + q.r - M * ch BY <1>8
<1>15. res' = V + M * (ct + kp - ch)
  <2> HIDE DEF sa, sb, P, Q, Y
  <2>1. cq \in {0, 1} /\ kp \in {0, 1} /\ ct \in {0, 1} OBVIOUS
  <2>2. top - ph = Base * ct - cq BY <1>7, <1>9, <1>10
  <2>3. p.r = P + WordBase * kp /\ q.r = Q + WordBase * cq BY <1>3, <1>4, <1>9
  <2> HIDE DEF cq, kp, ct
  <2>4. WordBase * (top - ph) = M * ct - WordBase * cq BY <1>9, <1>10, <2>1, <2>2
  <2>5. Base * p.r = Base * P + M * kp BY <1>3, <1>9, <2>1, <2>3
  <2>6. M * (ct + kp - ch) = M * ct + M * kp - M * ch BY <1>9, <2>1
  <2>7. /\ M * ct \in Int /\ M * kp \in Int /\ M * ch \in Int /\ WordBase * cq \in Int
        /\ Base * P \in Int
    BY <1>3, <1>9, <2>1
  <2> HIDE DEF M, V
  <2> QED BY <1>4, <1>12, <1>14, <2>3, <2>4, <2>5, <2>6, <2>7
<1>16. Signed(res', M) = V
  <2> DEFINE K == ct + kp - ch
  <2>1. K \in Int OBVIOUS
  <2> HIDE DEF ct, kp, V, M, K
  <2>2. res' = V + M * K BY <1>15 DEF K
  <2> QED BY <1>8, <1>9, <1>13, <2>1, <2>2, SignedModulo
<1>17. Multiplies' BY <1>8, <1>16 DEF Multiplies
<1> QED BY <1>8, <1>17 DEF IInv, AtRest, WholeBytes, Shifted, AddsUp, Subtracts, Negates,
        BranchesDecide, OverflowTruthful

LEMMA StepCounterStep ==
  ASSUME IInv, NEW a \in Byte, StepCounter(a)
  PROVE  IInv'
<1>1. kind # "none" /\ sreg \in Flags BY DEF StepCounter, IInv, TypeOK
<1>2. /\ kind' = kind /\ x' = x /\ y' = y /\ wide' = wide /\ res' = res /\ counted' = "last"
      /\ sreg' \in {DEC(a, sreg).f, INC(a, sreg).f}
  BY DEF StepCounter
<1>3. \A r, v : v \in BOOLEAN => Stepped(r, v, sreg).f \in Flags /\ Stepped(r, v, sreg).f.c = sreg.c
  <2> TAKE r, v
  <2> HAVE v \in BOOLEAN
  <2> DEFINE n == Negative(r)
             g == [sreg EXCEPT !.z = (r = 0), !.n = n, !.v = v, !.s = (n # v)]
  <2>1. n \in BOOLEAN BY DEF Negative
  <2>2. Stepped(r, v, sreg) = [r |-> r, f |-> g] BY DEF Stepped
  <2> HIDE DEF n
  <2>3. Stepped(r, v, sreg).f = g BY <2>2
  <2>4. g \in Flags BY <1>1, <2>1, Zenon DEF Flags
  <2>5. g.c = sreg.c BY <1>1 DEF Flags
  <2> QED BY <2>3, <2>4, <2>5
<1>4. sreg' \in Flags /\ sreg'.c = sreg.c
  <2>1. CASE sreg' = DEC(a, sreg).f BY <1>3, <2>1 DEF DEC
  <2>2. CASE sreg' = INC(a, sreg).f BY <1>3, <2>2 DEF INC
  <2> QED BY <1>2, <2>1, <2>2
<1>5. TypeOK' BY <1>2, <1>4 DEF IInv, TypeOK, Below
<1>6. CarryOut' = CarryOut /\ Carry(sreg)' = Carry(sreg) BY <1>2, <1>4 DEF CarryOut, Carry
<1>7. /\ AtRest' /\ WholeBytes' /\ Shifted' /\ AddsUp' /\ Subtracts' /\ Negates' /\ Multiplies'
  BY <1>1, <1>2, <1>6
     DEF IInv, AtRest, WholeBytes, Shifted, AddsUp, Subtracts, Negates, Multiplies
<1>8. BranchesDecide' /\ OverflowTruthful'
  BY <1>2, <1>4 DEF IInv, BranchesDecide, OverflowTruthful
<1> QED BY <1>5, <1>7, <1>8 DEF IInv

LEMMA FinishStep ==
  ASSUME IInv, Finish
  PROVE  IInv'
<1>1. /\ kind' = "none" /\ x' = 0 /\ y' = 0 /\ wide' = 1 /\ res' = 0 /\ counted' = "never"
      /\ sreg' = sreg /\ sreg \in Flags
  BY DEF Finish, Idle, IInv, TypeOK
<1>2. TypeOK' BY <1>1 DEF TypeOK, Kinds, Below
<1> QED BY <1>1, <1>2 DEF IInv, AtRest, WholeBytes, Shifted, AddsUp, Subtracts, Negates, Multiplies,
        BranchesDecide, OverflowTruthful

-----------------------------------------------------------------------------
LEMMA Initially == Init => IInv
<1> SUFFICES ASSUME Init PROVE IInv OBVIOUS
<1>1. TypeOK BY DEF Init, TypeOK, Kinds, Flags, Below
<1> QED BY <1>1 DEF Init, IInv, AtRest, WholeBytes, Shifted, AddsUp, Subtracts, Negates, Multiplies,
        BranchesDecide, OverflowTruthful

LEMMA InductiveStep == IInv /\ [Next]_vars => IInv'
<1> SUFFICES ASSUME IInv, [Next]_vars PROVE IInv' OBVIOUS
<1>1. /\ TypeOK /\ sreg \in Flags /\ AtRest /\ wide \in Nat \ {0}
      /\ x \in Nat /\ y \in Nat /\ res \in Nat
  BY DEF IInv, TypeOK, Below
<1>2. /\ sreg.c \in BOOLEAN /\ sreg.z \in BOOLEAN /\ Carry(sreg) \in {0, 1}
      /\ CarryOut = (IF Carry(sreg) = 1 THEN wide ELSE 0)
      /\ Carry(sreg) = 1 <=> sreg.c
  BY <1>1 DEF Flags, Carry, CarryOut
<1>3. Operands \subseteq Byte /\ Immediates \subseteq Byte
  BY ChainAssumption DEF ChainAssumption
<1>4. 0 \in Byte /\ Base - 1 \in Byte /\ Base \in Nat BY BaseFacts DEF Byte
<1>5. ASSUME NEW a \in Byte, NEW b \in Byte, Add(a, b)
      PROVE  IInv'
  <2>1. CASE kind = "none" /\ Step("add", ADD(a, b), a, b)
    <3> DEFINE zero == TRUE
               o == Sum(a, b, 0, zero)
    <3>1. zero \in BOOLEAN /\ zero /\ Step("add", o, a, b) BY <2>1 DEF ADD
    <3> HIDE DEF zero
    <3>2. res = 0 /\ x = 0 /\ y = 0 BY <1>1, <2>1 DEF AtRest
    <3>3. res + (IF 0 = 1 THEN wide ELSE 0) = x + y BY <3>2
    <3>4. 0 \in {0, 1} /\ (zero <=> res = 0) BY <3>1, <3>2
    <3> QED BY <1>1, <3>1, <3>3, <3>4, AddStep
  <2>2. CASE GoesOn("add") /\ Step("add", ADC(a, b, sreg), a, b)
    <3> DEFINE ci == Carry(sreg)
               zero == sreg.z
               o == Sum(a, b, ci, zero)
    <3>1. Step("add", o, a, b) /\ kind = "add" BY <2>2 DEF ADC, GoesOn
    <3>2. res + (IF ci = 1 THEN wide ELSE 0) = x + y BY <1>2, <3>1 DEF IInv, AddsUp
    <3>3. counted = "never" => (zero <=> res = 0) BY <3>1 DEF IInv, BranchesDecide
    <3> QED BY <1>1, <1>2, <3>1, <3>2, <3>3, AddStep
  <2> QED BY <1>5, <2>1, <2>2 DEF Add
<1>6. ASSUME NEW k \in {"sub", "compare"}, NEW a \in Byte, NEW b \in Byte,
             NEW ci \in {0, 1}, NEW zero \in BOOLEAN, NEW u,
             \/ kind = "none" /\ ci = 0 /\ zero
             \/ kind = k /\ ci = Carry(sreg) /\ zero = sreg.z,
             u.f = Difference(a, b, ci, zero).f,
             u.r = IF k = "sub" THEN Difference(a, b, ci, zero).r ELSE 0,
             Step(k, u, a, b)
      PROVE  IInv'
  <2> DEFINE o == Difference(a, b, ci, zero)
  <2>1. ci = 1 <=> x < y
    <3>1. CASE kind = "none" BY <1>1, <1>6, <3>1 DEF AtRest
    <3>2. CASE kind = k BY <1>2, <1>6, <3>2 DEF IInv, BranchesDecide
    <3> QED BY <1>6, <3>1, <3>2
  <2>2. k = "sub" => res = x - y + (IF ci = 1 THEN wide ELSE 0)
    <3>1. CASE kind = "none" BY <1>1, <1>6, <3>1 DEF AtRest
    <3>2. CASE kind = k BY <1>2, <1>6, <3>2 DEF IInv, Subtracts
    <3> QED BY <1>6, <3>1, <3>2
  <2>3. counted = "never" => (zero <=> x = y)
    <3>1. CASE kind = "none" BY <1>1, <1>6, <3>1 DEF AtRest
    <3>2. CASE kind = k BY <1>6, <3>2 DEF IInv, BranchesDecide
    <3> QED BY <1>6, <3>1, <3>2
  <2>4. u.f = o.f /\ u.r = (IF k = "sub" THEN o.r ELSE 0) /\ Step(k, u, a, b) BY <1>6
  <2> QED BY <1>1, <2>1, <2>2, <2>3, <2>4, DifferenceStep
<1>7. ASSUME NEW a \in Byte, NEW b \in Byte, Subtract(a, b)
      PROVE  IInv'
  <2>1. CASE kind = "none" /\ Step("sub", SUB(a, b), a, b)
    <3> DEFINE zero == TRUE
    <3>1. zero \in BOOLEAN /\ zero /\ Step("sub", Difference(a, b, 0, zero), a, b) BY <2>1 DEF SUB
    <3> HIDE DEF zero
    <3> QED BY <1>6, <2>1, <3>1
  <2>2. CASE GoesOn("sub") /\ Step("sub", SBC(a, b, sreg), a, b)
    <3> DEFINE ci == Carry(sreg)
               zero == sreg.z
    <3>1. Step("sub", Difference(a, b, ci, zero), a, b) /\ kind = "sub" BY <2>2 DEF SBC, GoesOn
    <3>2. ci \in {0, 1} /\ zero \in BOOLEAN BY <1>2
    <3> QED BY <1>6, <3>1, <3>2
  <2> QED BY <1>7, <2>1, <2>2 DEF Subtract
<1>8. ASSUME NEW a \in Byte, NEW b \in Byte, Compare(a, b)
      PROVE  IInv'
  <2>1. CASE kind = "none" /\ Step("compare", FlagsOnly(CP(a, b)), a, b)
    <3> DEFINE zero == TRUE
               u == FlagsOnly(Difference(a, b, 0, zero).f)
    <3>1. zero \in BOOLEAN /\ zero /\ Step("compare", u, a, b) BY <2>1 DEF CP, SUB
    <3>2. u.f = Difference(a, b, 0, zero).f /\ u.r = 0 BY DEF FlagsOnly
    <3> HIDE DEF zero, u
    <3> QED BY <1>6, <2>1, <3>1, <3>2
  <2>2. CASE GoesOn("compare") /\ Step("compare", FlagsOnly(CPC(a, b, sreg)), a, b)
    <3> DEFINE ci == Carry(sreg)
               zero == sreg.z
               u == FlagsOnly(Difference(a, b, ci, zero).f)
    <3>1. Step("compare", u, a, b) /\ kind = "compare" BY <2>2 DEF CPC, SBC, GoesOn
    <3>2. u.f = Difference(a, b, ci, zero).f /\ u.r = 0 BY DEF FlagsOnly
    <3>3. ci \in {0, 1} /\ zero \in BOOLEAN BY <1>2
    <3> HIDE DEF u
    <3> QED BY <1>6, <3>1, <3>2, <3>3
  <2> QED BY <1>8, <2>1, <2>2 DEF Compare
<1>9. ASSUME NEW a \in Byte, Negate(a)
      PROVE  IInv'
  <2>1. CASE kind = "none" /\ Step("negate", NEG(a), a, 0)
    <3> DEFINE o == NEG(a)
    <3>1. o.r \in Byte /\ o.f \in Flags /\ o.r = (IF o.f.c THEN Base ELSE 0) - a BY NegFacts
    <3>2. res = (IF 0 = 1 THEN wide ELSE 0) - x
      <4>1. res = 0 /\ x = 0 BY <1>1, <2>1 DEF AtRest
      <4> QED BY <4>1
    <3>3. o.r = (IF o.f.c THEN Base ELSE 0) - a - 0 BY <1>4, <3>1, SignedByte
    <3>4. Step("negate", o, a, 0) /\ 0 \in {0, 1} BY <2>1
    <3> HIDE DEF o
    <3> QED BY <1>1, <3>1, <3>2, <3>3, <3>4, NegateStep
  <2>2. CASE GoesOn("negate") /\ Step("negate", SBC(COM(a, sreg).r, Base - 1, sreg), a, 0)
    <3> DEFINE ci == Carry(sreg)
               zero == sreg.z
               m == Base - 1
               d == m - a
               o == Difference(d, m, ci, zero)
    <3>1. COM(a, sreg).r = d BY DEF COM
    <3>2. Step("negate", o, a, 0) /\ kind = "negate" BY <2>2, <3>1 DEF SBC, GoesOn
    <3>3. d \in Byte /\ m \in Byte /\ d \in Nat /\ a \in Nat /\ m \in Nat
      BY <1>4, SignedByte DEF Byte
    <3>4. d = m - a OBVIOUS
    <3> HIDE DEF d, m
    <3>5. o.r \in Byte /\ o.f \in Flags /\ o.r = d - m - ci + (IF o.f.c THEN Base ELSE 0)
      BY <1>2, <3>3, DifferenceFacts
    <3>6. res = (IF ci = 1 THEN wide ELSE 0) - x BY <1>2, <3>2 DEF IInv, Negates
    <3>7. o.r = (IF o.f.c THEN Base ELSE 0) - a - ci BY <1>2, <1>4, <3>3, <3>4, <3>5
    <3> HIDE DEF o
    <3> QED BY <1>1, <1>2, <3>2, <3>5, <3>6, <3>7, NegateStep
  <2> QED BY <1>9, <2>1, <2>2 DEF Negate
<1>10. CASE UNCHANGED vars
  BY <1>10 DEF vars, IInv, TypeOK, AtRest, WholeBytes, Shifted, AddsUp, Subtracts, Negates, Multiplies,
     BranchesDecide, OverflowTruthful, CarryOut, Below
<1>11. CASE Next
  BY <1>3, <1>5, <1>7, <1>8, <1>9, <1>11, ShiftRightStep, StepCounterStep, AddImmediateStep,
     SubtractImmediateStep, MultiplyStep, MultiplyUnsignedStep, FinishStep DEF Next
<1> QED BY <1>10, <1>11

LEMMA Invariance == Spec => []IInv
<1> QED BY Initially, InductiveStep, PTL DEF Spec

(* For every width of a byte, and numbers of any length, each instruction     *)
(* stores a byte and each number has as many bytes as were taken.             *)
THEOREM TypeCorrect == Spec => []TypeOK
<1>1. IInv => TypeOK BY DEF IInv
<1> QED BY <1>1, Invariance, PTL

(* Sums, differences, negatives, halves and products of any length are those  *)
(* of integers.                                                               *)
THEOREM ByteByByte == Spec => []ChainsCompute
<1>1. IInv => ChainsCompute
  <2> SUFFICES ASSUME IInv PROVE Halves BY DEF IInv, ChainsCompute
  <2>1. /\ x \in Nat /\ res \in Nat /\ wide \in Nat \ {0} /\ sreg.c \in BOOLEAN
        /\ Carry(sreg) \in {0, 1} /\ (sreg.c <=> Carry(sreg) = 1)
    BY DEF IInv, TypeOK, Below, Flags, Carry
  <2>2. kind = "lsr" => res = x \div 2 /\ sreg.c = (x % 2 = 1)
    BY <2>1 DEF IInv, Shifted
  <2>3. kind = "asr" => Signed(res, wide) = Signed(x, wide) \div 2 /\ sreg.c = (x % 2 = 1)
    <3> DEFINE X == Signed(x, wide)
               Z == Signed(res, wide)
               c == Carry(sreg)
               M == wide \div 2
    <3> SUFFICES ASSUME kind = "asr" PROVE Z = X \div 2 /\ sreg.c = (x % 2 = 1)
      OBVIOUS
    <3>1. X = 2 * Z + c /\ c \in {0, 1} /\ wide % 2 = 0 BY <2>1 DEF IInv, Shifted, WholeBytes
    <3>2. wide = 2 * M /\ M \in Nat BY <2>1, <3>1
    <3>3. X \in Int /\ Z \in Int /\ (x = X \/ x = X + wide) BY <2>1 DEF Signed
    <3> HIDE DEF X, Z, c, M
    <3>4. X \div 2 = Z BY <3>1, <3>3
    <3>5. x % 2 = c
      <4>1. CASE x = X BY <2>1, <3>1, <3>3, <4>1
      <4>2. CASE x = X + wide
        <5>1. x = 2 * (Z + M) + c /\ Z + M \in Int BY <3>1, <3>2, <3>3, <4>2
        <5> QED BY <2>1, <3>1, <5>1, Remainder
      <4> QED BY <3>3, <4>1, <4>2
    <3> QED BY <2>1, <3>4, <3>5 DEF c
  <2> QED BY <2>2, <2>3 DEF Halves
<1> QED BY <1>1, Invariance, PTL

(* C, Z and S after a subtraction or comparison of any length decide the      *)
(* order of the whole numbers.                                                *)
THEOREM Order == Spec => []BranchesDecide
<1>1. IInv => BranchesDecide BY DEF IInv
<1> QED BY <1>1, Invariance, PTL

(* V and S after an addition of any length.                                   *)
THEOREM Overflow == Spec => []OverflowTruthful
<1>1. IInv => OverflowTruthful BY DEF IInv
<1> QED BY <1>1, Invariance, PTL
-----------------------------------------------------------------------------
(* The machine of Registers, whose bytes have eight bits. *)

LEMMA EightBitBytes ==
  ASSUME Half = 16
  PROVE  /\ Base = 256 /\ Byte = EightBits /\ WordBase = PcBase /\ PcBase = 65536
         /\ Below(WordBase) = W16
<1>1. Base = 256 BY DEF Base
<1>2. Byte = EightBits BY <1>1 DEF Byte, EightBits
<1>3. WordBase = PcBase /\ PcBase = 65536 BY SMT, <1>1 DEF WordBase, PcBase
<1>4. Below(WordBase) = W16
  <2>1. WordBase = WordLimit /\ WordLimit \in Nat BY <1>3 DEF WordLimit
  <2>2. \A u : u \in Below(WordBase) <=> u \in Nat /\ u < WordBase BY <2>1 DEF Below
  <2>3. \A u : u \in W16 <=> u \in Nat /\ u < WordBase BY <2>1 DEF W16
  <2> QED BY <2>2, <2>3
<1> QED BY ONLY <1>1, <1>2, <1>3, <1>4, SMT

LEMMA MachineFields ==
  ASSUME NEW m \in Machine
  PROVE  /\ m.pc \in Below(PcBase) /\ m.r \in [Reg -> Byte] /\ m.f \in Flags
         /\ m.t \in BOOLEAN /\ m.i \in BOOLEAN
         /\ m.flash \in [Below(FlashSize) -> Byte] /\ m.fault \in BOOLEAN
BY DEF Machine, Below, Reg

LEMMA PutRegisters ==
  ASSUME NEW m \in Machine, NEW regs \in [Reg -> Byte]
  PROVE  [m EXCEPT !.r = regs] \in Machine
BY Zenon DEF Machine, Reg

LEMMA PutFlags ==
  ASSUME NEW m \in Machine, NEW g \in Flags
  PROVE  [m EXCEPT !.f = g] \in Machine
BY Zenon DEF Machine

LEMMA PutBits ==
  ASSUME NEW m \in Machine, NEW b \in BOOLEAN
  PROVE  [m EXCEPT !.t = b] \in Machine /\ [m EXCEPT !.i = b] \in Machine
         /\ Faulted(m) \in Machine
BY Zenon DEF Machine, Faulted

LEMMA PutPc ==
  ASSUME NEW m \in Machine, NEW p \in Below(PcBase)
  PROVE  [m EXCEPT !.pc = p] \in Machine
BY Zenon DEF Machine, Below

LEMMA PutFlash ==
  ASSUME NEW m \in Machine, NEW bytes \in [Below(FlashSize) -> Byte]
  PROVE  [m EXCEPT !.flash = bytes] \in Machine
BY Zenon DEF Machine, Below

LEMMA PutType ==
  ASSUME NEW m \in Machine, NEW d \in Reg, NEW b \in Byte
  PROVE  Put(m, d, b) \in Machine
<1>1. [m.r EXCEPT ![d] = b] \in [Reg -> Byte] BY MachineFields
<1>2. Put(m, d, b) = [m EXCEPT !.r = [m.r EXCEPT ![d] = b]] BY DEF Put
<1> QED BY <1>1, <1>2, PutRegisters

Outcomes == [r : Byte, f : Flags]
WordOutcomes == [r : Below(WordBase), f : Flags]

LEMMA PutResultType ==
  ASSUME NEW m \in Machine, NEW d \in Reg, NEW o \in Outcomes
  PROVE  PutResult(m, d, o) \in Machine
<1>1. o.r \in Byte /\ o.f \in Flags BY DEF Outcomes
<1>2. [m.r EXCEPT ![d] = o.r] \in [Reg -> Byte] BY <1>1, MachineFields
<1> DEFINE n == [m EXCEPT !.r = [m.r EXCEPT ![d] = o.r]]
<1>3. n \in Machine BY <1>2, PutRegisters
<1>4. PutResult(m, d, o) = [n EXCEPT !.f = o.f] BY DEF PutResult
<1> HIDE DEF n
<1> QED BY <1>1, <1>3, <1>4, PutFlags

LEMMA ReadPairType ==
  ASSUME NEW m \in Machine, NEW d \in 0..30
  PROVE  readRegWord(m, d) \in Below(WordBase)
<1>1. d \in Reg /\ d + 1 \in Reg BY DEF Reg
<1>2. m.r[d] \in Byte /\ m.r[d + 1] \in Byte BY <1>1, MachineFields
<1> QED BY <1>2, WordOfBytes DEF readRegWord

LEMMA PairBytes ==
  ASSUME NEW w \in Below(WordBase)
  PROVE  w % Base \in Byte /\ w \div Base \in Byte
<1>1. Base \in Nat \ {0} /\ WordBase = Base * Base /\ w \in Int /\ 0 <= w /\ w < Base * Base
  BY BaseFacts, WordFacts DEF Below
<1> DEFINE q == w \div Base
           r == w % Base
<1>2. q \in Int /\ r \in 0..(Base - 1) /\ w = Base * q + r BY <1>1, DivMod
<1> HIDE DEF q, r
<1>3. r \in Int /\ 0 <= r /\ r < Base BY <1>1, <1>2
<1>4. r + Base * q = w /\ Base * 0 = 0 BY <1>1, <1>2, <1>3
<1>5. q < Base
  <2>1. r + Base * q < Base * Base BY <1>1, <1>4
  <2> QED BY <1>1, <1>2, <1>3, <2>1, HighPartFirst
<1>6. q >= 0
  <2>1. r + Base * q >= Base * 0 BY <1>1, <1>4
  <2> QED BY <1>1, <1>2, <1>3, <2>1, HighPartFirst
<1>7. q \in Byte /\ r \in Byte BY <1>1, <1>2, <1>5, <1>6 DEF Byte
<1> QED BY <1>7 DEF q, r

LEMMA WritePairType ==
  ASSUME NEW m \in Machine, NEW d \in 0..30, NEW w \in Below(WordBase)
  PROVE  writeRegWord(m, d, w) \in Machine
<1>1. d \in Reg /\ d + 1 \in Reg BY DEF Reg
<1>2. w % Base \in Byte /\ w \div Base \in Byte BY PairBytes
<1> DEFINE regs == [[m.r EXCEPT ![d] = w % Base] EXCEPT ![d + 1] = w \div Base]
<1>3. regs \in [Reg -> Byte] BY <1>1, <1>2, MachineFields, Zenon
<1>4. writeRegWord(m, d, w) = [m EXCEPT !.r = regs] BY MachineFields DEF writeRegWord
<1> HIDE DEF regs
<1> QED BY <1>3, <1>4, PutRegisters

LEMMA PutWordResultType ==
  ASSUME NEW m \in Machine, NEW d \in 0..30, NEW o \in WordOutcomes
  PROVE  PutWordResult(m, d, o) \in Machine
<1>1. o.r \in Below(WordBase) /\ o.f \in Flags BY DEF WordOutcomes
<1> QED BY <1>1, WritePairType, PutFlags DEF PutWordResult

LEMMA FlagNames ==
  ASSUME NEW m \in Machine, NEW b \in 0..7
  PROVE  /\ getFlag(m, b) \in BOOLEAN
         /\ \A set \in BOOLEAN : putFlag(m, b, set) \in Machine
<1>1. CASE b = 7 BY <1>1, PutBits, MachineFields DEF getFlag, putFlag
<1>2. CASE b = 6 BY <1>2, PutBits, MachineFields DEF getFlag, putFlag
<1>3. CASE b # 7 /\ b # 6
  <2> DEFINE name == sregFlags[b + 1]
  <2>1. name \in {"c", "z", "n", "v", "s", "h"} BY <1>3 DEF sregFlags
  <2>2. getFlag(m, b) = m.f[name] BY <1>3 DEF getFlag
  <2>3. ASSUME NEW set \in BOOLEAN PROVE putFlag(m, b, set) \in Machine
    <3>1. putFlag(m, b, set) = [m EXCEPT !.f = [m.f EXCEPT ![name] = set]] BY <1>3 DEF putFlag
    <3>2. [m.f EXCEPT ![name] = set] \in Flags BY <2>1, MachineFields DEF Flags
    <3> HIDE DEF name
    <3> QED BY <3>1, <3>2, PutFlags
  <2> HIDE DEF name
  <2>4. m.f[name] \in BOOLEAN BY <2>1, MachineFields DEF Flags
  <2> QED BY <2>2, <2>3, <2>4
<1> QED BY <1>1, <1>2, <1>3

LEMMA JumpType ==
  ASSUME NEW m \in Machine, NEW target \in Int
  PROVE  Jump(m, target) \in Machine
<1>1. PcBase \in Nat \ {0} BY SMT DEF PcBase
<1>2. target % PcBase \in Below(PcBase) BY <1>1, DivMod DEF Below
<1> QED BY <1>2, PutPc DEF Jump

(* What the operators of Alu return. *)

LEMMA OutcomeFields ==
  /\ \A S, o : o \in [r : S, f : Flags] <=> \E r \in S, g \in Flags : o = [r |-> r, f |-> g]
  /\ \A r \in Byte, g \in Flags : [r |-> r, f |-> g] \in Outcomes
  /\ \A r \in Below(WordBase), g \in Flags : [r |-> r, f |-> g] \in WordOutcomes
BY DEF Outcomes, WordOutcomes

LEMMA CarryBit ==
  ASSUME NEW f \in Flags
  PROVE  Carry(f) \in {0, 1} /\ f.z \in BOOLEAN /\ f.c \in BOOLEAN
BY DEF Carry, Flags

LEMMA SumOutcome ==
  ASSUME NEW a \in Byte, NEW b \in Byte, NEW ci \in {0, 1}, NEW zero \in BOOLEAN
  PROVE  Sum(a, b, ci, zero) \in Outcomes /\ Difference(a, b, ci, zero) \in Outcomes
<1>1. Sum(a, b, ci, zero).r \in Byte /\ Sum(a, b, ci, zero).f \in Flags BY SumFacts
<1>2. Difference(a, b, ci, zero).r \in Byte /\ Difference(a, b, ci, zero).f \in Flags
  BY DifferenceFacts
<1>3. \E r, g : Sum(a, b, ci, zero) = [r |-> r, f |-> g] BY DEF Sum
<1>4. \E r, g : Difference(a, b, ci, zero) = [r |-> r, f |-> g] BY DEF Difference
<1>5. \A r, g, o : o = [r |-> r, f |-> g] => o.r = r /\ o.f = g OBVIOUS
<1> QED BY <1>1, <1>2, <1>3, <1>4, <1>5, OutcomeFields

LEMMA AdditionOutcomes ==
  ASSUME NEW a \in Byte, NEW b \in Byte, NEW f \in Flags
  PROVE  /\ ADD(a, b) \in Outcomes /\ ADC(a, b, f) \in Outcomes
         /\ SUB(a, b) \in Outcomes /\ SBC(a, b, f) \in Outcomes
         /\ CP(a, b) \in Flags /\ CPC(a, b, f) \in Flags
<1>1. Carry(f) \in {0, 1} /\ f.z \in BOOLEAN BY CarryBit
<1>2. 0 \in {0, 1} /\ TRUE \in BOOLEAN OBVIOUS
<1>3. /\ ADD(a, b) \in Outcomes /\ ADC(a, b, f) \in Outcomes
      /\ SUB(a, b) \in Outcomes /\ SBC(a, b, f) \in Outcomes
  BY <1>1, <1>2, SumOutcome DEF ADD, ADC, SUB, SBC
<1>4. \A o \in Outcomes : o.f \in Flags BY DEF Outcomes
<1> QED BY <1>3, <1>4 DEF CP, CPC

LEMMA SteppedOutcome ==
  ASSUME NEW r \in Byte, NEW v \in BOOLEAN, NEW f \in Flags
  PROVE  Stepped(r, v, f) \in Outcomes
<1> DEFINE n == Negative(r)
           g == [f EXCEPT !.z = (r = 0), !.n = n, !.v = v, !.s = (n # v)]
<1>1. n \in BOOLEAN BY DEF Negative
<1>2. Stepped(r, v, f) = [r |-> r, f |-> g] BY DEF Stepped
<1> HIDE DEF n
<1>3. g \in Flags BY <1>1, Zenon DEF Flags
<1> HIDE DEF g
<1> QED BY <1>2, <1>3, OutcomeFields

LEMMA OneOperandOutcomes ==
  ASSUME NEW a \in Byte, NEW f \in Flags
  PROVE  /\ INC(a, f) \in Outcomes /\ DEC(a, f) \in Outcomes /\ COM(a, f) \in Outcomes
         /\ NEG(a) \in Outcomes /\ LSR(a, f) \in Outcomes /\ ASR(a, f) \in Outcomes
         /\ ROR(a, f) \in Outcomes
<1>1. Base \in Nat \ {0} /\ a \in Int /\ 0 <= a /\ a < Base BY BaseFacts DEF Byte
<1>2. (a + 1) % Base \in Byte /\ (a - 1) % Base \in Byte
  <2>1. \A n \in Int : n % Base \in Byte BY <1>1, DivMod DEF Byte
  <2> QED BY <1>1, <2>1
<1>3. INC(a, f) \in Outcomes /\ DEC(a, f) \in Outcomes BY <1>2, SteppedOutcome DEF INC, DEC
<1>4. COM(a, f) \in Outcomes
  <2> DEFINE r == Base - 1 - a
             n == Negative(r)
             g == [f EXCEPT !.c = TRUE, !.z = (r = 0), !.n = n, !.v = FALSE, !.s = n]
  <2>1. r \in Byte BY <1>1 DEF Byte
  <2>2. n \in BOOLEAN BY DEF Negative
  <2>3. COM(a, f) = [r |-> r, f |-> g] BY DEF COM
  <2> HIDE DEF n, r
  <2>4. g \in Flags BY <2>2, Zenon DEF Flags
  <2> HIDE DEF g
  <2> QED BY <2>1, <2>3, <2>4, OutcomeFields
<1>5. \A r, g, o : o = [r |-> r, f |-> g] => o.r = r /\ o.f = g OBVIOUS
<1>6. NEG(a) \in Outcomes
  <2>1. NEG(a).r \in Byte /\ NEG(a).f \in Flags BY NegFacts
  <2>2. \E r, g : NEG(a) = [r |-> r, f |-> g] BY DEF NEG
  <2> QED BY <1>5, <2>1, <2>2, OutcomeFields
<1>7. ASSUME NEW top \in BOOLEAN PROVE ShiftedRight(a, top, f) \in Outcomes
  <2>1. ShiftedRight(a, top, f).r \in Byte /\ ShiftedRight(a, top, f).f \in Flags BY ShiftFacts
  <2>2. \E r, g : ShiftedRight(a, top, f) = [r |-> r, f |-> g] BY DEF ShiftedRight
  <2> QED BY <1>5, <2>1, <2>2, OutcomeFields
<1>8. f.c \in BOOLEAN /\ Negative(a) \in BOOLEAN BY CarryBit DEF Negative
<1> QED BY <1>3, <1>4, <1>6, <1>7, <1>8 DEF LSR, ASR, ROR

LEMMA PairOutcomes ==
  ASSUME NEW w \in Below(WordBase), NEW k \in Byte, NEW f \in Flags
  PROVE  ADIW(w, k, f) \in WordOutcomes /\ SBIW(w, k, f) \in WordOutcomes
<1>1. \A r, g, o : o = [r |-> r, f |-> g] => o.r = r /\ o.f = g OBVIOUS
<1>2. \A r, v, c : \E g : WordResult(r, v, c, f) = [r |-> r, f |-> g] BY DEF WordResult
<1>3. \E r, g : ADIW(w, k, f) = [r |-> r, f |-> g] BY <1>2 DEF ADIW
<1>4. \E r, g : SBIW(w, k, f) = [r |-> r, f |-> g] BY <1>2 DEF SBIW
<1>5. ADIW(w, k, f).r \in Below(WordBase) /\ ADIW(w, k, f).f \in Flags BY AdiwFacts
<1>6. SBIW(w, k, f).r \in Below(WordBase) /\ SBIW(w, k, f).f \in Flags BY SbiwFacts
<1> QED BY <1>1, <1>3, <1>4, <1>5, <1>6, OutcomeFields

LEMMA ProductOutcome ==
  ASSUME NEW P \in Int, NEW f \in Flags
  PROVE  Product(P, f) \in WordOutcomes
<1>1. P % WordBase \in Below(WordBase) BY WordFacts, DivMod DEF Below
<1>2. Product(P, f).r = P % WordBase /\ Product(P, f).f \in Flags BY ProductFields
<1>3. \E r, g : Product(P, f) = [r |-> r, f |-> g] BY DEF Product
<1>4. \A r, g, o : o = [r |-> r, f |-> g] => o.r = r /\ o.f = g OBVIOUS
<1> QED BY <1>1, <1>2, <1>3, <1>4, OutcomeFields

LEMMA ProductOutcomes ==
  ASSUME NEW a \in Byte, NEW b \in Byte, NEW f \in Flags
  PROVE  /\ MUL(a, b, f) \in WordOutcomes /\ MULS(a, b, f) \in WordOutcomes
         /\ MULSU(a, b, f) \in WordOutcomes /\ FMUL(a, b, f) \in WordOutcomes
         /\ FMULS(a, b, f) \in WordOutcomes /\ FMULSU(a, b, f) \in WordOutcomes
<1>1. a \in Int /\ b \in Int /\ Signed(a, Base) \in Int /\ Signed(b, Base) \in Int BY SignedByte
<1>2. \A j, k \in Int : j * k \in Int /\ 2 * j * k \in Int OBVIOUS
<1> QED BY <1>1, <1>2, ProductOutcome DEF MUL, MULS, MULSU, FMUL, FMULS, FMULSU

LEMMA LogicalType ==
  ASSUME Half = 16, NEW m \in Machine, NEW d \in Reg, NEW S
  PROVE  ByteOf(S) \in Byte /\ Logical(m, d, S) \in Machine
<1>1. ByteOf(S) \in Byte
  <2> DEFINE weight(b) == IF b \in S THEN 2^b ELSE 0
  <2>1. /\ weight(0) \in {0, 1} /\ weight(1) \in {0, 2} /\ weight(2) \in {0, 4}
        /\ weight(3) \in {0, 8} /\ weight(4) \in {0, 16} /\ weight(5) \in {0, 32}
        /\ weight(6) \in {0, 64} /\ weight(7) \in {0, 128}
    BY Powers
  <2>2. ByteOf(S) = weight(0) + weight(1) + weight(2) + weight(3) + weight(4) + weight(5)
                      + weight(6) + weight(7)
    BY DEF ByteOf
  <2> HIDE DEF weight
  <2>3. ByteOf(S) \in EightBits BY <2>1, <2>2 DEF EightBits
  <2> QED BY <2>3, EightBitBytes
<1> DEFINE b == ByteOf(S)
           n == Negative(b)
           f == m.f
           g == [f EXCEPT !.c = FALSE, !.z = (b = 0), !.v = FALSE, !.n = f.n \/ n, !.s = n]
<1>2. n \in BOOLEAN BY DEF Negative
<1>3. f \in Flags BY MachineFields
<1>4. Logical(m, d, S) = PutResult(m, d, [r |-> b, f |-> g]) BY DEF Logical
<1> HIDE DEF b, n, f
<1>5. g \in Flags BY <1>2, <1>3, Zenon DEF Flags
<1> HIDE DEF g
<1>6. b \in Byte BY <1>1 DEF b
<1>7. [r |-> b, f |-> g] \in Outcomes BY <1>5, <1>6, OutcomeFields
<1> QED BY <1>1, <1>4, <1>7, PutResultType

LEMMA SwapType ==
  ASSUME Half = 16, NEW m \in Machine, NEW d \in Reg
  PROVE  SWAP(m, d) \in Machine
<1>1. m.r[d] \in EightBits BY MachineFields, EightBitBytes
<1>2. \A v \in EightBits : (16 * (v % 16)) + (v \div 16) \in EightBits BY DEF EightBits
<1>3. (Half * (m.r[d] % Half)) + (m.r[d] \div Half) \in Byte BY <1>1, <1>2, EightBitBytes
<1> QED BY <1>3, PutType DEF SWAP

LEMMA StoreBitType ==
  ASSUME NEW m \in Machine, NEW d, NEW b
  PROVE  BST(m, d, b) \in Machine
<1>1. BST(m, d, b) = [m EXCEPT !.t = b \in Bits(m.r[d])] BY DEF BST, putFlag
<1>2. (b \in Bits(m.r[d])) \in BOOLEAN OBVIOUS
<1> QED BY <1>1, <1>2, PutBits

LEMMA LoadBitType ==
  ASSUME Half = 16, NEW m \in Machine, NEW d \in Reg, NEW b
  PROVE  BLD(m, d, b) \in Machine
BY LogicalType, PutType DEF BLD

-----------------------------------------------------------------------------
(* Program memory. *)

LEMMA FlashWordType ==
  ASSUME Half = 16, NEW m \in Machine, NEW a \in Nat, a + 1 < FlashSize
  PROVE  FlashWord(m, a) \in W16
<1>1. a \in Below(FlashSize) /\ a + 1 \in Below(FlashSize)
  BY FlashSizeAssumption DEF Below, FlashSizeAssumption
<1>2. m.flash[a] \in Byte /\ m.flash[a + 1] \in Byte BY <1>1, MachineFields
<1>3. (Base * m.flash[a + 1]) + m.flash[a] \in Below(WordBase) BY <1>2, WordOfBytes
<1>4. Base = 256 /\ Below(WordBase) = W16 BY EightBitBytes
<1>5. \A h, l \in Byte : l + (256 * h) = (256 * h) + l BY BaseFacts DEF Byte
<1> QED BY <1>2, <1>3, <1>4, <1>5 DEF FlashWord

LEMMA SkipType ==
  ASSUME Half = 16, NEW m \in Machine, NEW holds \in BOOLEAN
  PROVE  SkipIf(m, holds) \in Machine
<1>1. m.pc \in Nat BY MachineFields DEF Below
<1>2. CASE m.pc + 1 >= FlashSize \/ ~ Decodes(FlashWord(m, m.pc))
  BY <1>2, PutBits DEF SkipIf, skipNextInstruction
<1>3. CASE ~ (m.pc + 1 >= FlashSize \/ ~ Decodes(FlashWord(m, m.pc)))
  <2>1. FlashWord(m, m.pc) \in W16
    BY <1>1, <1>3, FlashWordType, FlashSizeAssumption DEF FlashSizeAssumption
  <2> DEFINE n == Words(decodeInstruction(FlashWord(m, m.pc)))
  <2>2. n \in {1, 2} BY <1>3, <2>1, FoundWords
  <2>3. skipNextInstruction(m) = Jump(m, m.pc + (2 * n)) BY <1>3 DEF skipNextInstruction
  <2> HIDE DEF n
  <2>4. m.pc + (2 * n) \in Int BY <1>1, <2>2
  <2> QED BY <2>3, <2>4, JumpType DEF SkipIf
<1> QED BY <1>2, <1>3

LEMMA LoadProgram ==
  ASSUME NEW m \in Machine, NEW d \in Reg, NEW mode
  PROVE  LPM(m, d, mode) \in Machine
<1> DEFINE z == readRegWord(m, 30)
           loaded == Put(m, d, m.flash[z])
<1>1. z \in Below(WordBase) BY ReadPairType
<1>2. CASE z >= FlashSize BY <1>2, PutBits DEF LPM
<1>3. CASE ~ (z >= FlashSize)
  <2>1. z \in Nat /\ WordBase \in Nat \ {0} BY <1>1, WordFacts DEF Below
  <2>2. z \in Below(FlashSize) BY <1>3, <2>1, FlashSizeAssumption DEF Below, FlashSizeAssumption
  <2>3. loaded \in Machine BY <2>2, MachineFields, PutType
  <2>4. (z + 1) % WordBase \in Below(WordBase)
    <3>1. z + 1 \in Int BY <2>1
    <3> HIDE DEF z
    <3> QED BY <2>1, <3>1, DivMod DEF Below
  <2>5. LPM(m, d, mode) = IF mode = 1 THEN writeRegWord(loaded, 30, (z + 1) % WordBase) ELSE loaded
    BY <1>3 DEF LPM
  <2> HIDE DEF z, loaded
  <2> QED BY <2>3, <2>4, <2>5, WritePairType
<1> QED BY <1>2, <1>3

LEMMA StoreProgram ==
  ASSUME NEW m \in Machine
  PROVE  SPM(m) \in Machine
<1> DEFINE z == readRegWord(m, 30)
<1>1. z \in Nat BY ReadPairType, WordFacts DEF Below
<1>2. CASE z + 1 >= FlashSize BY <1>2 DEF SPM
<1>3. CASE ~ (z + 1 >= FlashSize)
  <2>1. z \in Below(FlashSize) /\ z + 1 \in Below(FlashSize)
    BY <1>1, <1>3, FlashSizeAssumption DEF Below, FlashSizeAssumption
  <2>2. m.r[0] \in Byte /\ m.r[1] \in Byte BY MachineFields DEF Reg
  <2> DEFINE bytes == [[m.flash EXCEPT ![z] = m.r[0]] EXCEPT ![z + 1] = m.r[1]]
  <2>3. SPM(m) = [m EXCEPT !.flash = bytes] BY <1>3 DEF SPM
  <2>4. m.flash \in [Below(FlashSize) -> Byte] BY MachineFields
  <2> HIDE DEF z
  <2>5. bytes \in [Below(FlashSize) -> Byte] BY <2>1, <2>2, <2>4, Zenon
  <2> HIDE DEF bytes
  <2> QED BY <2>3, <2>5, PutFlash
<1> QED BY <1>2, <1>3

(* The functions of each form keep a machine a machine. *)

LEMMA TwoRegisterMachine ==
  ASSUME Half = 16, NEW m \in Machine, NEW call \in [fn : TwoRegisterFns, args : Reg \X Reg]
  PROVE  Perform(call, m) \in Machine
<1> DEFINE d == call.args[1]
           k == call.args[2]
<1>1. d \in Reg /\ k \in Reg /\ 0 \in 0..30 OBVIOUS
<1>2. m.r[d] \in Byte /\ m.r[k] \in Byte /\ m.f \in Flags BY <1>1, MachineFields
<1>3. CASE call.fn = "ADD"
  <2>1. Perform(call, m) = PutResult(m, d, ADD(m.r[d], m.r[k])) BY <1>3 DEF Perform
  <2> QED BY <2>1, <1>1, <1>2, AdditionOutcomes, PutResultType
<1>4. CASE call.fn = "ADC"
  <2>1. Perform(call, m) = PutResult(m, d, ADC(m.r[d], m.r[k], m.f)) BY <1>4 DEF Perform
  <2> QED BY <2>1, <1>1, <1>2, AdditionOutcomes, PutResultType
<1>5. CASE call.fn = "MUL"
  <2>1. Perform(call, m) = PutWordResult(m, 0, MUL(m.r[d], m.r[k], m.f)) BY <1>5 DEF Perform
  <2> QED BY <2>1, <1>1, <1>2, ProductOutcomes, PutWordResultType
<1>6. CASE call.fn = "SBC"
  <2>1. Perform(call, m) = PutResult(m, d, SBC(m.r[d], m.r[k], m.f)) BY <1>6 DEF Perform
  <2> QED BY <2>1, <1>1, <1>2, AdditionOutcomes, PutResultType
<1>7. CASE call.fn = "SUB"
  <2>1. Perform(call, m) = PutResult(m, d, SUB(m.r[d], m.r[k])) BY <1>7 DEF Perform
  <2> QED BY <2>1, <1>1, <1>2, AdditionOutcomes, PutResultType
<1>8. CASE call.fn = "AND"
  <2>1. Perform(call, m) = AND(m, d, m.r[k]) BY <1>8 DEF Perform
  <2> QED BY <2>1, <1>1, <1>2, LogicalType DEF AND
<1>9. CASE call.fn = "EOR"
  <2>1. Perform(call, m) = EOR(m, d, m.r[k]) BY <1>9 DEF Perform
  <2> QED BY <2>1, <1>1, <1>2, LogicalType DEF EOR
<1>10. CASE call.fn = "OR"
  <2>1. Perform(call, m) = OR(m, d, m.r[k]) BY <1>10 DEF Perform
  <2> QED BY <2>1, <1>1, <1>2, LogicalType DEF OR
<1>11. CASE call.fn = "CP"
  <2>1. Perform(call, m) = [m EXCEPT !.f = CP(m.r[d], m.r[k])] BY <1>11 DEF Perform
  <2> QED BY <2>1, <1>1, <1>2, AdditionOutcomes, PutFlags
<1>12. CASE call.fn = "CPC"
  <2>1. Perform(call, m) = [m EXCEPT !.f = CPC(m.r[d], m.r[k], m.f)] BY <1>12 DEF Perform
  <2> QED BY <2>1, <1>1, <1>2, AdditionOutcomes, PutFlags
<1>13. CASE call.fn = "CPSE"
  <2>1. Perform(call, m) = SkipIf(m, m.r[d] = m.r[k]) BY <1>13 DEF Perform
  <2> QED BY <2>1, <1>1, <1>2, SkipType
<1>14. CASE call.fn = "MOV"
  <2>1. Perform(call, m) = Put(m, d, m.r[k]) BY <1>14 DEF Perform
  <2> QED BY <2>1, <1>1, <1>2, PutType
<1> QED BY <1>3, <1>4, <1>5, <1>6, <1>7, <1>8, <1>9, <1>10, <1>11, <1>12, <1>13, <1>14 DEF TwoRegisterFns

LEMMA ConstantMachine ==
  ASSUME Half = 16, NEW m \in Machine, NEW call \in [fn : ConstantFns, args : (16..31) \X EightBits]
  PROVE  Perform(call, m) \in Machine
<1> DEFINE d == call.args[1]
           k == call.args[2]
<1>1. d \in Reg /\ k \in Byte BY EightBitBytes DEF Reg
<1>2. m.r[d] \in Byte /\ m.f \in Flags BY <1>1, MachineFields
<1>3. CASE call.fn = "SBCI"
  <2>1. Perform(call, m) = PutResult(m, d, SBC(m.r[d], k, m.f)) BY <1>3 DEF Perform
  <2> QED BY <2>1, <1>1, <1>2, AdditionOutcomes, PutResultType
<1>4. CASE call.fn = "SUBI"
  <2>1. Perform(call, m) = PutResult(m, d, SUB(m.r[d], k)) BY <1>4 DEF Perform
  <2> QED BY <2>1, <1>1, <1>2, AdditionOutcomes, PutResultType
<1>5. CASE call.fn = "ANDI"
  <2>1. Perform(call, m) = AND(m, d, k) BY <1>5 DEF Perform
  <2> QED BY <2>1, <1>1, <1>2, LogicalType DEF AND
<1>6. CASE call.fn = "ORI"
  <2>1. Perform(call, m) = OR(m, d, k) BY <1>6 DEF Perform
  <2> QED BY <2>1, <1>1, <1>2, LogicalType DEF OR
<1>7. CASE call.fn = "SER"
  <2>1. Perform(call, m) = Put(m, d, Base - 1) BY <1>7 DEF Perform
  <2> QED BY <2>1, <1>1, <1>2, PutType, BaseFacts DEF Byte
<1>8. CASE call.fn = "CPI"
  <2>1. Perform(call, m) = [m EXCEPT !.f = CP(m.r[d], k)] BY <1>8 DEF Perform
  <2> QED BY <2>1, <1>1, <1>2, AdditionOutcomes, PutFlags
<1>9. CASE call.fn = "LDI"
  <2>1. Perform(call, m) = Put(m, d, k) BY <1>9 DEF Perform
  <2> QED BY <2>1, <1>1, <1>2, PutType
<1> QED BY <1>3, <1>4, <1>5, <1>6, <1>7, <1>8, <1>9 DEF ConstantFns

LEMMA OneRegisterMachine ==
  ASSUME Half = 16, NEW m \in Machine, NEW call \in [fn : OneRegisterFns, args : OneOperand(Reg)]
  PROVE  Perform(call, m) \in Machine
<1> DEFINE d == call.args[1]
           k == call.args[2]
<1>1. d \in Reg BY DEF OneOperand
<1>2. m.r[d] \in Byte /\ m.f \in Flags BY <1>1, MachineFields
<1>3. CASE call.fn = "ASR"
  <2>1. Perform(call, m) = PutResult(m, d, ASR(m.r[d], m.f)) BY <1>3 DEF Perform
  <2> QED BY <2>1, <1>1, <1>2, OneOperandOutcomes, PutResultType
<1>4. CASE call.fn = "DEC"
  <2>1. Perform(call, m) = PutResult(m, d, DEC(m.r[d], m.f)) BY <1>4 DEF Perform
  <2> QED BY <2>1, <1>1, <1>2, OneOperandOutcomes, PutResultType
<1>5. CASE call.fn = "INC"
  <2>1. Perform(call, m) = PutResult(m, d, INC(m.r[d], m.f)) BY <1>5 DEF Perform
  <2> QED BY <2>1, <1>1, <1>2, OneOperandOutcomes, PutResultType
<1>6. CASE call.fn = "COM"
  <2>1. Perform(call, m) = PutResult(m, d, COM(m.r[d], m.f)) BY <1>6 DEF Perform
  <2> QED BY <2>1, <1>1, <1>2, OneOperandOutcomes, PutResultType
<1>7. CASE call.fn = "LSR"
  <2>1. Perform(call, m) = PutResult(m, d, LSR(m.r[d], m.f)) BY <1>7 DEF Perform
  <2> QED BY <2>1, <1>1, <1>2, OneOperandOutcomes, PutResultType
<1>8. CASE call.fn = "ROR"
  <2>1. Perform(call, m) = PutResult(m, d, ROR(m.r[d], m.f)) BY <1>8 DEF Perform
  <2> QED BY <2>1, <1>1, <1>2, OneOperandOutcomes, PutResultType
<1>9. CASE call.fn = "NEG"
  <2>1. Perform(call, m) = PutResult(m, d, NEG(m.r[d])) BY <1>9 DEF Perform
  <2> QED BY <2>1, <1>1, <1>2, OneOperandOutcomes, PutResultType
<1>10. CASE call.fn = "SWAP"
  <2>1. Perform(call, m) = SWAP(m, d) BY <1>10 DEF Perform
  <2> QED BY <2>1, <1>1, <1>2, SwapType
<1>11. CASE call.fn \in {"POP", "PUSH"}
  <2>1. Perform(call, m) = Faulted(m) BY <1>11 DEF Perform
  <2> QED BY <2>1, <1>1, <1>2, PutBits
<1> QED BY <1>3, <1>4, <1>5, <1>6, <1>7, <1>8, <1>9, <1>10, <1>11 DEF OneRegisterFns, OneRegister

LEMMA LpmMachine ==
  ASSUME Half = 16, NEW m \in Machine, NEW call \in [fn : {"LPM"}, args : Reg \X (0..1)]
  PROVE  Perform(call, m) \in Machine
<1> DEFINE d == call.args[1]
           k == call.args[2]
<1>1. d \in Reg OBVIOUS
<1>2. CASE call.fn = "LPM"
  <2>1. Perform(call, m) = LPM(m, d, k) BY <1>2 DEF Perform
  <2> QED BY <2>1, <1>1, LoadProgram
<1> QED BY <1>2

LEMMA PairMachine ==
  ASSUME Half = 16, NEW m \in Machine, NEW call \in [fn : {"ADIW", "SBIW"}, args : Pairs \X SixBits]
  PROVE  Perform(call, m) \in Machine
<1> DEFINE d == call.args[1]
           k == call.args[2]
<1>1. d \in 0..30 BY DEF Pairs
<1>2. k \in Byte BY EightBitBytes DEF SixBits, EightBits
<1>3. readRegWord(m, d) \in Below(WordBase) /\ m.f \in Flags BY <1>1, ReadPairType, MachineFields
<1>4. CASE call.fn = "ADIW"
  <2>1. Perform(call, m) = PutWordResult(m, d, ADIW(readRegWord(m, d), k, m.f)) BY <1>4 DEF Perform
  <2> QED BY <2>1, <1>1, <1>2, <1>3, PairOutcomes, PutWordResultType
<1>5. CASE call.fn = "SBIW"
  <2>1. Perform(call, m) = PutWordResult(m, d, SBIW(readRegWord(m, d), k, m.f)) BY <1>5 DEF Perform
  <2> QED BY <2>1, <1>1, <1>2, <1>3, PairOutcomes, PutWordResultType
<1> QED BY <1>4, <1>5

LEMMA HalfMachine ==
  ASSUME Half = 16, NEW m \in Machine, NEW call \in [fn : {"MULS", "MOVW"}, args : (0..15) \X (0..15)]
  PROVE  Perform(call, m) \in Machine
<1> DEFINE d == call.args[1]
           k == call.args[2]
<1>1. d + 16 \in Reg /\ k + 16 \in Reg /\ 2 * d \in 0..30 /\ 2 * k \in 0..30 /\ 0 \in 0..30 BY DEF Reg
<1>2. m.r[d + 16] \in Byte /\ m.r[k + 16] \in Byte /\ m.f \in Flags BY <1>1, MachineFields
<1>3. CASE call.fn = "MULS"
  <2>1. Perform(call, m) = PutWordResult(m, 0, MULS(m.r[d + 16], m.r[k + 16], m.f)) BY <1>3 DEF Perform
  <2> QED BY <2>1, <1>1, <1>2, ProductOutcomes, PutWordResultType
<1>4. CASE call.fn = "MOVW"
  <2>1. Perform(call, m) = writeRegWord(m, 2 * d, readRegWord(m, 2 * k)) BY <1>4 DEF Perform
  <2> QED BY <2>1, <1>1, <1>2, ReadPairType, WritePairType
<1> QED BY <1>3, <1>4

LEMMA FractionMachine ==
  ASSUME Half = 16, NEW m \in Machine, NEW call \in [fn : {"MULSU", "FMUL", "FMULS", "FMULSU"}, args : (16..23) \X (16..23)]
  PROVE  Perform(call, m) \in Machine
<1> DEFINE d == call.args[1]
           k == call.args[2]
<1>1. d \in Reg /\ k \in Reg /\ 0 \in 0..30 BY DEF Reg
<1>2. m.r[d] \in Byte /\ m.r[k] \in Byte /\ m.f \in Flags BY <1>1, MachineFields
<1>3. CASE call.fn = "MULSU"
  <2>1. Perform(call, m) = PutWordResult(m, 0, MULSU(m.r[d], m.r[k], m.f)) BY <1>3 DEF Perform
  <2> QED BY <2>1, <1>1, <1>2, ProductOutcomes, PutWordResultType
<1>4. CASE call.fn = "FMUL"
  <2>1. Perform(call, m) = PutWordResult(m, 0, FMUL(m.r[d], m.r[k], m.f)) BY <1>4 DEF Perform
  <2> QED BY <2>1, <1>1, <1>2, ProductOutcomes, PutWordResultType
<1>5. CASE call.fn = "FMULS"
  <2>1. Perform(call, m) = PutWordResult(m, 0, FMULS(m.r[d], m.r[k], m.f)) BY <1>5 DEF Perform
  <2> QED BY <2>1, <1>1, <1>2, ProductOutcomes, PutWordResultType
<1>6. CASE call.fn = "FMULSU"
  <2>1. Perform(call, m) = PutWordResult(m, 0, FMULSU(m.r[d], m.r[k], m.f)) BY <1>6 DEF Perform
  <2> QED BY <2>1, <1>1, <1>2, ProductOutcomes, PutWordResultType
<1> QED BY <1>3, <1>4, <1>5, <1>6

LEMMA BranchMachine ==
  ASSUME Half = 16, NEW m \in Machine, NEW call \in [fn : {"BRBS", "BRBC"}, args : (-64..63) \X (0..7)]
  PROVE  Perform(call, m) \in Machine
<1> DEFINE d == call.args[1]
           k == call.args[2]
<1>1. d \in Int /\ k \in 0..7 OBVIOUS
<1>2. m.pc + (2 * d) \in Int BY <1>1, MachineFields DEF Below
<1>3. CASE call.fn = "BRBS"
  <2>1. Perform(call, m) = Branch(m, getFlag(m, k), d) BY <1>3 DEF Perform
  <2> QED BY <2>1, <1>1, <1>2, JumpType DEF Branch
<1>4. CASE call.fn = "BRBC"
  <2>1. Perform(call, m) = Branch(m, ~ getFlag(m, k), d) BY <1>4 DEF Perform
  <2> QED BY <2>1, <1>1, <1>2, JumpType DEF Branch
<1> QED BY <1>3, <1>4

LEMMA RelativeMachine ==
  ASSUME Half = 16, NEW m \in Machine, NEW call \in [fn : {"RJMP", "RCALL"}, args : OneOperand(Offsets)]
  PROVE  Perform(call, m) \in Machine
<1> DEFINE d == call.args[1]
           k == call.args[2]
<1>1. d \in Int BY SMTT(30) DEF OneOperand, Offsets
<1>2. m.pc + (2 * d) \in Int BY <1>1, MachineFields DEF Below
<1>3. CASE call.fn = "RJMP"
  <2>1. Perform(call, m) = Jump(m, m.pc + (2 * d)) BY <1>3 DEF Perform
  <2> QED BY <2>1, <1>1, <1>2, JumpType
<1>4. CASE call.fn = "RCALL"
  <2>1. Perform(call, m) = Faulted(m) BY <1>4 DEF Perform
  <2> QED BY <2>1, <1>1, <1>2, PutBits
<1> QED BY <1>3, <1>4

LEMMA LongMachine ==
  ASSUME Half = 16, NEW m \in Machine, NEW call \in [fn : {"JMP", "CALL"}, args : OneOperand(LongAddresses)]
  PROVE  Perform(call, m) \in Machine
<1> DEFINE d == call.args[1]
           k == call.args[2]
<1>1. d \in Int BY SMT DEF OneOperand, LongAddresses
<1>2. 2 * d \in Int BY <1>1
<1>3. CASE call.fn = "JMP"
  <2>1. Perform(call, m) = Jump(m, 2 * d) BY <1>3 DEF Perform
  <2> QED BY <2>1, <1>1, <1>2, JumpType
<1>4. CASE call.fn = "CALL"
  <2>1. Perform(call, m) = Faulted(m) BY <1>4 DEF Perform
  <2> QED BY <2>1, <1>1, <1>2, PutBits
<1> QED BY <1>3, <1>4

LEMMA BitMachine ==
  ASSUME Half = 16, NEW m \in Machine, NEW call \in [fn : {"SBIC", "SBIS", "CBI", "SBI", "SBRC", "SBRS", "BLD", "BST"}, args : Reg \X (0..7)]
  PROVE  Perform(call, m) \in Machine
<1> DEFINE d == call.args[1]
           k == call.args[2]
<1>1. d \in Reg /\ k \in 0..7 OBVIOUS
<1>2. (k \in Bits(m.r[d])) \in BOOLEAN /\ (k \notin Bits(m.r[d])) \in BOOLEAN OBVIOUS
<1>3. CASE call.fn \in {"SBIC", "SBIS", "CBI", "SBI"}
  <2>1. Perform(call, m) = Faulted(m) BY <1>3 DEF Perform
  <2> HIDE DEF d, k
  <2> QED BY <2>1, <1>1, <1>2, PutBits
<1>4. CASE call.fn = "SBRC"
  <2>1. Perform(call, m) = SkipIf(m, k \notin Bits(m.r[d])) BY <1>4 DEF Perform
  <2> HIDE DEF d, k
  <2> QED BY <2>1, <1>1, <1>2, SkipType
<1>5. CASE call.fn = "SBRS"
  <2>1. Perform(call, m) = SkipIf(m, k \in Bits(m.r[d])) BY <1>5 DEF Perform
  <2> HIDE DEF d, k
  <2> QED BY <2>1, <1>1, <1>2, SkipType
<1>6. CASE call.fn = "BLD"
  <2>1. Perform(call, m) = BLD(m, d, k) BY <1>6 DEF Perform
  <2> HIDE DEF d, k
  <2> QED BY <2>1, <1>1, <1>2, LoadBitType
<1>7. CASE call.fn = "BST"
  <2>1. Perform(call, m) = BST(m, d, k) BY <1>7 DEF Perform
  <2> HIDE DEF d, k
  <2> QED BY <2>1, <1>1, <1>2, StoreBitType
<1> QED BY <1>3, <1>4, <1>5, <1>6, <1>7

LEMMA FlagMachine ==
  ASSUME Half = 16, NEW m \in Machine, NEW call \in [fn : {"BSET", "BCLR"}, args : OneOperand(0..7)]
  PROVE  Perform(call, m) \in Machine
<1> DEFINE d == call.args[1]
           k == call.args[2]
<1>1. d \in 0..7 BY DEF OneOperand
<1>2. CASE call.fn \in {"BSET", "BCLR"}
  <2>1. Perform(call, m) = putFlag(m, d, call.fn = "BSET") BY <1>2 DEF Perform
  <2> QED BY <2>1, <1>1, FlagNames
<1> QED BY <1>2

LEMMA NoOperandMachine ==
  ASSUME Half = 16, NEW m \in Machine, NEW call \in [fn : NoOperandFns, args : {<<>>}]
  PROVE  Perform(call, m) \in Machine
<1> DEFINE d == call.args[1]
           k == call.args[2]
<1>1. readRegWord(m, 30) \in Int BY ReadPairType, WordFacts DEF Below
<1>2. 2 * readRegWord(m, 30) \in Int BY <1>1
<1>3. CASE call.fn = "IJMP"
  <2>1. Perform(call, m) = Jump(m, 2 * readRegWord(m, 30)) BY <1>3 DEF Perform
  <2> QED BY <2>1, <1>1, <1>2, JumpType
<1>4. CASE call.fn = "SPM_E"
  <2>1. Perform(call, m) = SPM(m) BY <1>4 DEF Perform
  <2> QED BY <2>1, <1>1, <1>2, StoreProgram
<1>5. CASE call.fn \in {"ICALL", "RET", "RETI"}
  <2>1. Perform(call, m) = Faulted(m) BY <1>5 DEF Perform
  <2> QED BY <2>1, <1>1, <1>2, PutBits
<1>6. CASE call.fn \in {"NOP", "SLEEP", "WDR", "BREAK"}
  <2>1. Perform(call, m) = m BY <1>6 DEF Perform
  <2> QED BY <2>1, <1>1, <1>2, PutBits
<1> QED BY <1>3, <1>4, <1>5, <1>6 DEF NoOperandFns

LEMMA ElsewhereMachine ==
  ASSUME NEW m \in Machine, NEW call,
         call.fn \in Through \cup {"LDD_Y", "LDD_Z", "STD_Y", "STD_Z", "LDS", "STS", "IN", "OUT"}
  PROVE  Perform(call, m) \in Machine
<1>1. Perform(call, m) = Faulted(m) BY DEF Perform, Through
<1> QED BY <1>1, PutBits

LEMMA PerformType ==
  ASSUME Half = 16, NEW m \in Machine, NEW call \in Calls
  PROVE  Perform(call, m) \in Machine
<1>1. CASE call \in [fn : TwoRegisterFns, args : Reg \X Reg] BY <1>1, TwoRegisterMachine
<1>2. CASE call \in [fn : ConstantFns, args : (16..31) \X EightBits] BY <1>2, ConstantMachine
<1>3. CASE call \in [fn : OneRegisterFns, args : OneOperand(Reg)] BY <1>3, OneRegisterMachine
<1>4. CASE call \in [fn : {"LPM"}, args : Reg \X (0..1)] BY <1>4, LpmMachine
<1>5. CASE call \in [fn : {"ADIW", "SBIW"}, args : Pairs \X SixBits] BY <1>5, PairMachine
<1>6. CASE call \in [fn : {"MULS", "MOVW"}, args : (0..15) \X (0..15)] BY <1>6, HalfMachine
<1>7. CASE call \in [fn : {"MULSU", "FMUL", "FMULS", "FMULSU"}, args : (16..23) \X (16..23)]
  BY <1>7, FractionMachine
<1>8. CASE call.fn \in Through \cup {"LDD_Y", "LDD_Z", "STD_Y", "STD_Z", "LDS", "STS", "IN", "OUT"}
  BY <1>8, ElsewhereMachine
<1>9. CASE call \in [fn : {"BRBS", "BRBC"}, args : (-64..63) \X (0..7)] BY <1>9, BranchMachine
<1>10. CASE call \in [fn : {"RJMP", "RCALL"}, args : OneOperand(Offsets)] BY <1>10, RelativeMachine
<1>11. CASE call \in [fn : {"JMP", "CALL"}, args : OneOperand(LongAddresses)] BY <1>11, LongMachine
<1>12. CASE call \in [fn : {"SBIC", "SBIS", "CBI", "SBI", "SBRC", "SBRS", "BLD", "BST"},
                      args : Reg \X (0..7)]
  BY <1>12, BitMachine
<1>13. CASE call \in [fn : {"BSET", "BCLR"}, args : OneOperand(0..7)] BY <1>13, FlagMachine
<1>14. CASE call \in [fn : NoOperandFns, args : {<<>>}] BY <1>14, NoOperandMachine
<1>15. \A F, A, E : F \subseteq E /\ call \in [fn : F, args : A] => call.fn \in E OBVIOUS
<1>16. CASE \/ call \in [fn : Through, args : Reg \X (0..3)]
            \/ call \in [fn : {"LDD_Y", "LDD_Z", "STD_Y", "STD_Z"}, args : Reg \X SixBits]
            \/ call \in [fn : {"LDS", "STS"}, args : Reg \X W16]
            \/ call \in [fn : {"IN"}, args : Reg \X SixBits]
            \/ call \in [fn : {"OUT"}, args : SixBits \X Reg]
  BY <1>8, <1>15, <1>16
<1> QED BY <1>1, <1>2, <1>3, <1>4, <1>5, <1>6, <1>7, <1>9, <1>10, <1>11, <1>12, <1>13, <1>14,
           <1>16, Zenon DEF Calls

(* Whatever is in flash, a turn of the loop leaves a machine: bytes in the 32  *)
(* registers and in flash, flags that are on or off and a pc of 16 bits.  No   *)
(* operand of any word reaches a register or a bit that there is not, and the  *)
(* casts to uint8_t and uint16_t are where they have to be.                    *)
THEOREM TurnsStayInMachine ==
  ASSUME Half = 16, NEW m \in Machine
  PROVE  Turn(m) \in Machine
<1>1. m.pc \in Nat BY MachineFields DEF Below
<1> DEFINE w == FlashWord(m, m.pc)
           i == decodeInstruction(w)
           next == (m.pc + (2 * Words(i))) % PcBase
           extra == IF Words(i) = 2 /\ m.pc + 3 < FlashSize THEN FlashWord(m, m.pc + 2) ELSE 0
           call == executeInstruction(i, w, extra)
<1>2. CASE m.fault \/ m.pc + 1 >= FlashSize \/ ~ Decodes(w) BY <1>2 DEF Turn
<1>3. CASE ~ (m.fault \/ m.pc + 1 >= FlashSize \/ ~ Decodes(w))
  <2>1. w \in W16 BY <1>1, <1>3, FlashWordType, FlashSizeAssumption DEF FlashSizeAssumption
  <2>2. Words(i) \in {1, 2} BY <1>3, <2>1, FoundWords
  <2>3. CASE Words(i) = 2 /\ m.pc + 3 >= FlashSize BY <1>3, <2>3 DEF Turn
  <2>4. CASE ~ (Words(i) = 2 /\ m.pc + 3 >= FlashSize)
    <3>1. extra \in W16
      <4>1. CASE Words(i) = 2 /\ m.pc + 3 < FlashSize
        <5>1. m.pc + 2 \in Nat /\ (m.pc + 2) + 1 < FlashSize BY <1>1, <4>1
        <5> QED BY <4>1, <5>1, FlashWordType
      <4>2. CASE ~ (Words(i) = 2 /\ m.pc + 3 < FlashSize)
        <5>1. 0 \in W16 BY SMT DEF W16, WordLimit
        <5> QED BY <4>2, <5>1
      <4> QED BY <4>1, <4>2
    <3>2. Turn(m) = Perform(call, [m EXCEPT !.pc = next]) BY <1>3, <2>4 DEF Turn
    <3> HIDE DEF extra
    <3>3. call \in Calls BY <1>3, <2>1, <3>1, DispatchInRange
    <3>4. next \in Below(PcBase)
      <4> HIDE DEF i
      <4>1. m.pc + (2 * Words(i)) \in Int BY <1>1, <2>2
      <4>2. PcBase \in Nat \ {0} BY SMT DEF PcBase
      <4> QED BY <4>1, <4>2, DivMod DEF Below
    <3> HIDE DEF call, next
    <3>5. [m EXCEPT !.pc = next] \in Machine BY <3>4, PutPc
    <3> QED BY <3>2, <3>3, <3>5, PerformType
  <2> QED BY <2>3, <2>4
<1> QED BY <1>2, <1>3

VARIABLE machine  \* of a loop that only takes turns

(* Every run of the loop stays in AvrState: no word of any program, nor one    *)
(* that SPM writes, makes a register, a byte of flash or pc wider than it is.  *)
THEOREM RunsStayInMachine ==
  ASSUME Half = 16
  PROVE  machine \in Machine /\ [][machine' = Turn(machine)]_machine => [](machine \in Machine)
<1>1. machine \in Machine /\ [machine' = Turn(machine)]_machine => (machine \in Machine)'
  BY TurnsStayInMachine
<1> QED BY <1>1, PTL

=============================================================================
