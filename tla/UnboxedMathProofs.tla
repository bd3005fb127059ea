------------------------- MODULE UnboxedMathProofs -------------------------
(***************************************************************************)
(* Proofs about UnboxedMath and RangeLoop, for words of any width.         *)
(***************************************************************************)
EXTENDS RangeLoop, WellFoundedInduction, TLAPS

-----------------------------------------------------------------------------
(* Powers of two *)

LEMMA SmallestOf ==
    ASSUME NEW T, T \subseteq Nat, T # {}
    PROVE  \E x \in T : \A y \in T : x <= y
  <1> DEFINE R == OpToRel(<, Nat)
  <1>1. IsWellFoundedOn(R, Nat)
    BY NatLessThanWellFounded, Zenon
  <1>2. \A x, y \in Nat : y < x => <<y, x>> \in R
    BY DEF OpToRel
  <1> HIDE DEF R
  <1>3. PICK x \in T : \A y \in T : ~ (<<y, x>> \in R)
    BY <1>1, WFMin
  <1>4. \A y \in T : ~(y < x)
    BY <1>2, <1>3
  <1>5. QED
    BY <1>4

\* f is the table of the first n + 1 powers.
Powers(f, n) == f = [k \in 0..n |-> IF k = 0 THEN 1 ELSE 2 * f[k - 1]]

LEMMA PowersExist ==
    ASSUME NEW n \in Nat
    PROVE  \E f : Powers(f, n) /\ \A k \in 0..n : f[k] \in Nat \ {0}
  <1> DEFINE Has(k) == \E f : Powers(f, k) /\ \A j \in 0..k : f[j] \in Nat \ {0}
             Bad == {k \in Nat : ~Has(k)}
  <1>1. ASSUME Bad # {} PROVE FALSE
    <2>1. PICK k \in Bad : \A j \in Bad : k <= j
      BY <1>1, SmallestOf
    <2>2. k # 0
      <3> DEFINE g == [j \in 0..0 |-> 1]
      <3>1. Powers(g, 0) /\ \A j \in 0..0 : g[j] \in Nat \ {0}
        BY DEF Powers
      <3>2. QED
        BY <2>1, <3>1
    <2>3. k - 1 \in Nat /\ ~(k <= k - 1)
      BY <2>1, <2>2
    <2>4. PICK f : Powers(f, k - 1) /\ \A j \in 0..(k - 1) : f[j] \in Nat \ {0}
      BY <2>1, <2>3
    <2> DEFINE g == [j \in 0..k |-> IF j = k THEN 2 * f[k - 1] ELSE f[j]]
    <2>5. \A j \in 0..(k - 1) : f[j] = IF j = 0 THEN 1 ELSE 2 * f[j - 1]
      BY <2>4 DEF Powers
    <2>6. \A j \in 0..k : g[j] = IF j = 0 THEN 1 ELSE 2 * g[j - 1]
      <3> SUFFICES ASSUME NEW j \in 0..k PROVE g[j] = IF j = 0 THEN 1 ELSE 2 * g[j - 1]
        OBVIOUS
      <3>1. CASE j = k
        BY <2>2, <2>3, <3>1
      <3>2. CASE j # k
        BY <2>1, <2>3, <2>5, <3>2
      <3>3. QED
        BY <3>1, <3>2
    <2>7. Powers(g, k)
      BY <2>6 DEF Powers
    <2>8. \A j \in 0..k : g[j] \in Nat \ {0}
      BY <2>1, <2>3, <2>4
    <2>9. QED
      BY <2>1, <2>7, <2>8
  <1>2. QED
    BY <1>1

\* Two tables have the same powers.
LEMMA PowersAgree ==
    ASSUME NEW m \in Nat, NEW n \in Nat, NEW f, NEW g, Powers(f, m), Powers(g, n)
    PROVE  \A k \in Nat : k <= m /\ k <= n => f[k] = g[k]
  <1> DEFINE Bad == {k \in Nat : k <= m /\ k <= n /\ f[k] # g[k]}
  <1>1. ASSUME Bad # {} PROVE FALSE
    <2>1. PICK k \in Bad : \A j \in Bad : k <= j
      BY <1>1, SmallestOf
    <2>2. f[k] = (IF k = 0 THEN 1 ELSE 2 * f[k - 1]) /\ g[k] = (IF k = 0 THEN 1 ELSE 2 * g[k - 1])
      BY <2>1 DEF Powers
    <2>3. k # 0 /\ f[k - 1] # g[k - 1]
      BY <2>1, <2>2
    <2>4. k - 1 \in Bad /\ ~(k <= k - 1)
      BY <2>1, <2>3
    <2>5. QED
      BY <2>1, <2>4
  <1>2. QED
    BY <1>1

LEMMA Pow2Step ==
    /\ Pow2[0] = 1
    /\ \A n \in Nat : Pow2[n + 1] = 2 * Pow2[n]
    /\ \A n \in Nat : Pow2[n] \in Nat \ {0}
  <1> DEFINE T(n) == CHOOSE f : Powers(f, n)
             F == [n \in Nat |-> T(n)[n]]
  <1>1. \A n \in Nat : Powers(T(n), n) /\ T(n)[n] \in Nat \ {0}
    <2> SUFFICES ASSUME NEW n \in Nat PROVE Powers(T(n), n) /\ T(n)[n] \in Nat \ {0}
      OBVIOUS
    <2>1. PICK f : Powers(f, n) /\ \A k \in 0..n : f[k] \in Nat \ {0}
      BY PowersExist
    <2>2. Powers(T(n), n)
      BY <2>1
    <2>3. T(n)[n] = f[n]
      BY <2>1, <2>2, PowersAgree
    <2>4. QED
      BY <2>1, <2>2, <2>3
  <1>2. \A n \in Nat : F[n] = IF n = 0 THEN 1 ELSE 2 * F[n - 1]
    <2> SUFFICES ASSUME NEW n \in Nat PROVE F[n] = IF n = 0 THEN 1 ELSE 2 * F[n - 1]
      OBVIOUS
    <2> HIDE DEF T
    <2>1. T(n)[n] = IF n = 0 THEN 1 ELSE 2 * T(n)[n - 1]
      BY <1>1 DEF Powers
    <2>2. n # 0 => n - 1 \in Nat /\ T(n)[n - 1] = T(n - 1)[n - 1]
      <3>1. n # 0 => n - 1 \in Nat /\ n - 1 <= n /\ n - 1 <= n - 1
        OBVIOUS
      <3>2. QED
        BY <1>1, <3>1, PowersAgree
    <2>3. QED
      BY <2>1, <2>2
  <1> HIDE DEF T
  <1>3. F = [n \in Nat |-> IF n = 0 THEN 1 ELSE 2 * F[n - 1]]
    BY <1>2
  <1> HIDE DEF F
  <1>4. Pow2 = [n \in Nat |-> IF n = 0 THEN 1 ELSE 2 * Pow2[n - 1]]
    BY <1>3 DEF Pow2
  <1>5. \A n \in Nat : Pow2[n] \in Nat \ {0}
    <2> DEFINE Bad == {n \in Nat : Pow2[n] \notin Nat \ {0}}
    <2>1. ASSUME Bad # {} PROVE FALSE
      <3>1. PICK n \in Bad : \A j \in Bad : n <= j
        BY <2>1, SmallestOf
      <3>2. Pow2[n] = IF n = 0 THEN 1 ELSE 2 * Pow2[n - 1]
        BY <1>4, <3>1
      <3>3. n # 0 /\ n - 1 \in Nat /\ ~(n <= n - 1)
        BY <3>1, <3>2
      <3>4. Pow2[n - 1] \in Nat \ {0}
        BY <3>1, <3>3
      <3>5. QED
        BY <3>1, <3>2, <3>3, <3>4
    <2>2. QED
      BY <2>1
  <1>6. \A n \in Nat : Pow2[n + 1] = 2 * Pow2[n]
    BY <1>4
  <1>7. QED
    BY <1>4, <1>5, <1>6

-----------------------------------------------------------------------------
(* Division *)

LEMMA ProductGrows ==
    ASSUME NEW m \in Nat, NEW q \in Int, q > 0
    PROVE  m * q \in Int /\ m * q >= m
  <1>1. m * q = m + m * (q - 1) /\ m * (q - 1) \in Int
    OBVIOUS
  <1>2. m * (q - 1) >= 0
    OBVIOUS
  <1>3. QED
    BY <1>1, <1>2

LEMMA Euclid ==
    ASSUME NEW n \in Int, NEW m \in Nat \ {0}
    PROVE  /\ n \div m \in Int
           /\ n % m \in Int /\ 0 <= n % m /\ n % m < m
           /\ n = m * (n \div m) + (n % m)
  OBVIOUS

LEMMA EuclidUnique ==
    ASSUME NEW m \in Nat \ {0}, NEW q \in Int, NEW r \in Int, 0 <= r, r < m,
           NEW k \in Int, NEW s \in Int, 0 <= s, s < m, m * q + r = m * k + s
    PROVE  q = k /\ r = s
  <1>1. m * (q - k) = s - r /\ m * (k - q) = r - s
    OBVIOUS
  <1>2. ~(q > k)
    <2>1. q > k => m * (q - k) >= m
      BY ProductGrows
    <2>2. QED
      BY <1>1, <2>1
  <1>3. ~(k > q)
    <2>1. k > q => m * (k - q) >= m
      BY ProductGrows
    <2>2. QED
      BY <1>1, <2>1
  <1>4. q = k
    BY <1>2, <1>3
  <1>5. QED
    BY <1>4

LEMMA DivisionIs ==
    ASSUME NEW m \in Nat \ {0}, NEW q \in Int, NEW r \in Int, 0 <= r, r < m, NEW n \in Int,
           n = m * q + r
    PROVE  n \div m = q /\ n % m = r
  BY Euclid, EuclidUnique

-----------------------------------------------------------------------------
(* Words *)

M == Pow2[Width]
H == Pow2[Width - 1]

LEMMA WordHalves ==
    /\ M \in Nat \ {0} /\ H \in Nat \ {0} /\ M = 2 * H
    /\ MAXLONG = H - 1 /\ MINLONG = -H
    /\ Word = (-H)..(H - 1)
  <1>1. Width - 1 \in Nat /\ Width \in Nat /\ (Width - 1) + 1 = Width
    BY WordAssumption
  <1>2. QED
    BY <1>1, Pow2Step DEF M, H, MAXLONG, MINLONG, Word

\* The numbers differ by a multiple of 2^Width: their lowest bits are the same.
Same(a, b) == (a - b) % M = 0

LEMMA SameMeans ==
    ASSUME NEW a \in Int, NEW b \in Int
    PROVE  Same(a, b) <=> \E k \in Int : a = b + M * k
  <1>1. ASSUME Same(a, b) PROVE \E k \in Int : a = b + M * k
    <2>1. a - b = M * ((a - b) \div M) + 0 /\ (a - b) \div M \in Int
      <3>1. a - b \in Int /\ M \in Nat \ {0}
        BY WordHalves
      <3>2. a - b = M * ((a - b) \div M) + ((a - b) % M) /\ (a - b) \div M \in Int
        BY <3>1, Euclid, Zenon
      <3>3. QED
        BY <1>1, <3>2, Zenon DEF Same
    <2>2. a = b + M * ((a - b) \div M)
      BY <2>1, WordHalves
    <2>3. QED
      BY <2>1, <2>2
  <1>2. ASSUME NEW k \in Int, a = b + M * k PROVE Same(a, b)
    <2>1. a - b = M * k + 0
      BY <1>2, WordHalves
    <2>2. QED
      BY <2>1, WordHalves, DivisionIs DEF Same
  <1>3. QED
    BY <1>1, <1>2

LEMMA SameIsEquivalence ==
    ASSUME NEW a \in Int, NEW b \in Int, NEW c \in Int
    PROVE  /\ Same(a, a)
           /\ Same(a, b) => Same(b, a)
           /\ Same(a, b) /\ Same(b, c) => Same(a, c)
  <1>1. Same(a, a)
    <2>1. a = a + M * 0
      BY WordHalves
    <2>2. QED
      BY <2>1, SameMeans
  <1>2. ASSUME Same(a, b) PROVE Same(b, a)
    <2>1. PICK k \in Int : a = b + M * k
      BY <1>2, SameMeans
    <2>2. b = a + M * (-k) /\ -k \in Int
      BY <2>1, WordHalves
    <2>3. QED
      BY <2>2, SameMeans
  <1>3. ASSUME Same(a, b), Same(b, c) PROVE Same(a, c)
    <2>1. PICK k \in Int : a = b + M * k
      BY <1>3, SameMeans
    <2>2. PICK j \in Int : b = c + M * j
      BY <1>3, SameMeans
    <2>3. a = c + M * (k + j) /\ k + j \in Int
      BY <2>1, <2>2, WordHalves
    <2>4. QED
      BY <2>3, SameMeans
  <1>4. QED
    BY <1>1, <1>2, <1>3

\* Different words are never the same.
LEMMA SameWords ==
    ASSUME NEW a \in Word, NEW b \in Word, Same(a, b)
    PROVE  a = b
  <1>1. a \in Int /\ b \in Int /\ a - b < M /\ b - a < M
    BY WordHalves
  <1>2. PICK k \in Int : a = b + M * k
    BY <1>1, SameMeans
  <1>3. b = a + M * (-k) /\ M * k \in Int
    BY <1>1, <1>2, WordHalves
  <1>4. ~(k > 0)
    <2>1. k > 0 => M * k >= M
      BY WordHalves, ProductGrows
    <2>2. QED
      BY <1>1, <1>2, <2>1, WordHalves
  <1>5. ~(-k > 0)
    <2>1. -k > 0 => M * (-k) >= M
      BY WordHalves, ProductGrows
    <2>2. QED
      BY <1>1, <1>3, <2>1, WordHalves
  <1>6. k = 0
    BY <1>4, <1>5
  <1>7. QED
    BY <1>1, <1>2, <1>6, WordHalves

\* What does not fit wraps around: to a word, with the same lowest bits.
LEMMA WrapIs ==
    ASSUME NEW n \in Int
    PROVE  Wrap(n) \in Word /\ Wrap(n) \in Int /\ Same(Wrap(n), n)
  <1> DEFINE q == (n + H) \div M
             r == (n + H) % M
  <1>1. n + H \in Int /\ q \in Int /\ r \in Int /\ 0 <= r /\ r < M /\ n + H = M * q + r
    <2>1. n + H \in Int /\ M \in Nat \ {0}
      BY WordHalves
    <2>2. QED
      BY <2>1, Euclid, Zenon
  <1>2. Wrap(n) = r - H
    <2>1. n - MINLONG = n + H
      BY WordHalves
    <2>2. Wrap(n) = ((n - MINLONG) % M) + MINLONG
      BY DEF Wrap, M
    <2>3. Wrap(n) = r + MINLONG
      BY <2>1, <2>2
    <2>4. QED
      BY <1>1, <2>3, WordHalves
  <1> HIDE DEF q, r
  <1>3. Wrap(n) \in Word /\ Wrap(n) \in Int
    BY <1>1, <1>2, WordHalves
  <1>4. Wrap(n) = n + M * (-q) /\ -q \in Int
    BY <1>1, <1>2, WordHalves
  <1>5. QED
    BY <1>3, <1>4, SameMeans

LEMMA WrapWord ==
    ASSUME NEW n \in Word
    PROVE  Wrap(n) = n
  BY WrapIs, SameWords, WordHalves

LEMMA WrapSame ==
    ASSUME NEW a \in Int, NEW b \in Int, Same(a, b)
    PROVE  Wrap(a) = Wrap(b)
  <1>1. Same(Wrap(a), a) /\ Same(Wrap(b), b) /\ Wrap(a) \in Word /\ Wrap(b) \in Word
        /\ Wrap(a) \in Int /\ Wrap(b) \in Int
    BY WrapIs
  <1>2. Same(Wrap(a), b) /\ Same(b, Wrap(b))
    BY <1>1, SameIsEquivalence
  <1>3. Same(Wrap(a), Wrap(b))
    BY <1>1, <1>2, SameIsEquivalence
  <1>4. QED
    BY <1>1, <1>3, SameWords

-----------------------------------------------------------------------------
(* Python's operators and the compiled ones *)

LEMMA PythonIs ==
    ASSUME NEW x, NEW y
    PROVE  /\ Python("ADD", x, y) = x + y
           /\ Python("SUBTRACT", x, y) = x - y
           /\ Python("MULTIPLY", x, y) = x * y
           /\ Python("LSHIFT", x, y) = x * Pow2[y]
           /\ Python("RSHIFT", x, y) = x \div Pow2[y]
           /\ Python("FLOOR_DIVIDE", x, y) = IF y > 0 THEN x \div y ELSE (-x) \div (-y)
           /\ Python("MODULO", x, y) = IF y > 0 THEN x % y ELSE -((-x) % (-y))
  BY Zenon DEF Python

LEMMA PythonUnaryIs ==
    ASSUME NEW x
    PROVE  /\ PythonUnary("POSITIVE", x) = x
           /\ PythonUnary("NEGATIVE", x) = -x
           /\ PythonUnary("INVERT", x) = (-x) - 1
  BY Zenon DEF PythonUnary

LEMMA EmittedIs ==
    ASSUME NEW x, NEW y
    PROVE  /\ emit_binary_int("ADD", x, y) = Wrap(x + y)
           /\ emit_binary_int("SUBTRACT", x, y) = Wrap(x - y)
           /\ emit_binary_int("MULTIPLY", x, y) = Wrap(x * y)
           /\ emit_binary_int("LSHIFT", x, y) = Wrap(x * Pow2[y % Width])
           /\ emit_binary_int("RSHIFT", x, y) = x \div Pow2[y % Width]
           /\ emit_binary_int("FLOOR_DIVIDE", x, y) =
                 IF y = 0 THEN MAXLONG ELSE PyJit_LongFloorDivide(x, y)
           /\ emit_binary_int("MODULO", x, y) =
                 IF y = 0 THEN MAXLONG ELSE PyJit_LongMod(x, y)
  BY Zenon DEF emit_binary_int

LEMMA EmittedUnaryIs ==
    ASSUME NEW x
    PROVE  /\ emit_unary_int("POSITIVE", x) = Wrap(Abs(x))
           /\ emit_unary_int("NEGATIVE", x) = Wrap(-x)
           /\ emit_unary_int("INVERT", x) = Wrap(-Wrap(x + 1))
  BY Zenon DEF emit_unary_int, emit_unboxed_unary_positive, emit_unboxed_unary_invert

LEMMA ErrorIs ==
    ASSUME NEW o, NEW y
    PROVE  PythonError(o, y) = IF o \in Division /\ y = 0 THEN "ZeroDivisionError"
                               ELSE IF o \in Shift /\ y < 0 THEN "ValueError" ELSE "none"
  <1>0. o \in Division => o \notin Shift
    BY DEF Division, Shift
  <1>1. CASE o \in Division /\ y = 0
    BY <1>0, <1>1, Zenon DEF PythonError
  <1>2. CASE ~(o \in Division /\ y = 0) /\ o \in Shift /\ y < 0
    BY <1>2, Zenon DEF PythonError
  <1>3. CASE ~(o \in Division /\ y = 0) /\ ~(o \in Shift /\ y < 0)
    BY <1>3, Zenon DEF PythonError
  <1>4. QED
    BY <1>1, <1>2, <1>3, Zenon

\* Python's quotient and remainder are those whose remainder has the sign of the divisor.
LEMMA FloorIs ==
    ASSUME NEW x \in Int, NEW y \in Int, y # 0, NEW q \in Int, NEW r \in Int, x = y * q + r,
           (y > 0 /\ 0 <= r /\ r < y) \/ (y < 0 /\ y < r /\ r <= 0)
    PROVE  Python("FLOOR_DIVIDE", x, y) = q /\ Python("MODULO", x, y) = r
  <1>1. CASE y > 0
    <2>1. x \div y = q /\ x % y = r
      BY <1>1, DivisionIs
    <2>2. QED
      BY <1>1, <2>1, PythonIs
  <1>2. CASE ~(y > 0)
    <2>1. -y \in Nat \ {0} /\ -x \in Int /\ -r \in Int /\ 0 <= -r /\ -r < -y
      BY <1>2
    <2>2. -x = (-y) * q + (-r)
      OBVIOUS
    <2>3. (-x) \div (-y) = q /\ (-x) % (-y) = -r
      BY <2>1, <2>2, DivisionIs
    <2>4. Python("FLOOR_DIVIDE", x, y) = (-x) \div (-y) /\ Python("MODULO", x, y) = -((-x) % (-y))
      BY <1>2, PythonIs, Zenon
    <2>5. -(-r) = r
      OBVIOUS
    <2>6. QED
      BY <2>3, <2>4, <2>5, Zenon
  <1>3. QED
    BY <1>1, <1>2

\* The quotient of C++ is that of the absolute values, its remainder has the sign of x.
LEMMA TruncationIs ==
    ASSUME NEW x \in Int, NEW y \in Int, y # 0, NEW q \in Nat, NEW r \in Nat, r < Abs(y),
           Abs(x) = Abs(y) * q + r
    PROVE  /\ Quotient(x, y) = IF SameSign(x, y) THEN q ELSE -q
           /\ Remainder(x, y) = IF x < 0 THEN 0 - r ELSE r
  <1>1. Abs(y) \in Nat \ {0} /\ Abs(x) \in Nat
    BY DEF Abs
  <1>2. Abs(x) \div Abs(y) = q
    BY <1>1, DivisionIs
  <1>3. Quotient(x, y) = IF SameSign(x, y) THEN q ELSE -q
    BY <1>2, Zenon DEF Quotient
  <1>4. Remainder(x, y) = x - y * (IF SameSign(x, y) THEN q ELSE -q)
    BY <1>3, Zenon DEF Remainder
  <1>5. CASE x < 0 /\ y < 0
    <2>1. -x = (-y) * q + r /\ Remainder(x, y) = x - y * q
      BY <1>4, <1>5 DEF SameSign, Abs
    <2>2. QED
      BY <1>3, <1>5, <2>1
  <1>6. CASE x < 0 /\ ~(y < 0)
    <2>1. -x = y * q + r /\ Remainder(x, y) = x - y * (-q)
      BY <1>4, <1>6 DEF SameSign, Abs
    <2>2. QED
      BY <1>3, <1>6, <2>1
  <1>7. CASE ~(x < 0) /\ y < 0
    <2>1. x = (-y) * q + r /\ Remainder(x, y) = x - y * (-q)
      BY <1>4, <1>7 DEF SameSign, Abs
    <2>2. QED
      BY <1>3, <1>7, <2>1
  <1>8. CASE ~(x < 0) /\ ~(y < 0)
    <2>1. x = y * q + r /\ Remainder(x, y) = x - y * q
      BY <1>4, <1>8 DEF SameSign, Abs
    <2>2. QED
      BY <1>3, <1>8, <2>1
  <1>9. QED
    BY <1>3, <1>5, <1>6, <1>7, <1>8

LEMMA Truncation ==
    ASSUME NEW x \in Int, NEW y \in Int, y # 0
    PROVE  \E q \in Nat, r \in Nat :
              /\ r < Abs(y) /\ Abs(x) = Abs(y) * q + r
              /\ Quotient(x, y) = IF SameSign(x, y) THEN q ELSE -q
              /\ Remainder(x, y) = IF x < 0 THEN 0 - r ELSE r
  <1> DEFINE q == Abs(x) \div Abs(y)
             r == Abs(x) % Abs(y)
  <1>1. Abs(y) \in Nat \ {0} /\ Abs(x) \in Nat /\ Abs(x) \in Int
    BY DEF Abs
  <1>2. q \in Int /\ r \in Int /\ 0 <= r /\ r < Abs(y) /\ Abs(x) = Abs(y) * q + r
    BY <1>1, Euclid, Zenon
  <1> HIDE DEF q, r
  <1>3. q >= 0
    <2>1. -q > 0 => Abs(y) * (-q) >= Abs(y)
      BY <1>1, <1>2, ProductGrows
    <2>2. Abs(y) * (-q) = r - Abs(x)
      BY <1>1, <1>2
    <2>3. QED
      BY <1>1, <1>2, <2>1, <2>2
  <1>4. q \in Nat /\ r \in Nat
    BY <1>2, <1>3
  <1>5. QED
    BY <1>2, <1>4, TruncationIs

\* The helper for // : the quotient of C++, corrected for operands of different signs, is
\* Python's, for all integers but a divisor of zero.
THEOREM FloorDivideIsPythons ==
    ASSUME NEW x \in Int, NEW y \in Int, y # 0
    PROVE  PyJit_LongFloorDivide(x, y) = Python("FLOOR_DIVIDE", x, y)
  <1> DEFINE q == Quotient(x, y)
             r == Remainder(x, y)
  <1>1. PICK n \in Nat, s \in Nat :
           /\ s < Abs(y) /\ Abs(x) = Abs(y) * n + s
           /\ q = (IF SameSign(x, y) THEN n ELSE -n)
           /\ r = IF x < 0 THEN 0 - s ELSE s
    BY Truncation
  <1>2. q \in Int /\ r \in Int /\ r = x - y * q
    <2>1. r = x - y * q
      BY DEF Remainder
    <2> HIDE DEF q, r
    <2>2. QED
      BY <1>1, <2>1
  <1>3. x = y * q + r
    BY <1>2
  <1>4. PyJit_LongFloorDivide(x, y) = IF (x # y /\ SameSign(x, y)) \/ r = 0 THEN q ELSE q - 1
    BY DEF PyJit_LongFloorDivide
  <1>5. x = y => r = 0
    <2>1. x = y => Abs(x) = Abs(y) * 1 + 0 /\ 0 < Abs(y)
      BY DEF Abs
    <2>2. x = y => r = IF x < 0 THEN 0 - 0 ELSE 0
      BY <2>1, TruncationIs
    <2>3. QED
      BY <2>2
  <1> HIDE DEF q, r
  <1>6. CASE SameSign(x, y) \/ r = 0
    <2>1. (y > 0 /\ 0 <= r /\ r < y) \/ (y < 0 /\ y < r /\ r <= 0)
      BY <1>1, <1>6 DEF SameSign, Abs
    <2>2. Python("FLOOR_DIVIDE", x, y) = q
      BY <1>2, <1>3, <2>1, FloorIs
    <2>3. QED
      BY <1>4, <1>5, <1>6, <2>2
  <1>7. CASE ~(SameSign(x, y) \/ r = 0)
    <2>1. (y > 0 /\ 0 <= r + y /\ r + y < y) \/ (y < 0 /\ y < r + y /\ r + y <= 0)
      BY <1>1, <1>7 DEF SameSign, Abs
    <2>2. x = y * (q - 1) + (r + y) /\ q - 1 \in Int /\ r + y \in Int
      BY <1>2, <1>3
    <2>3. Python("FLOOR_DIVIDE", x, y) = q - 1
      BY <2>1, <2>2, FloorIs
    <2>4. QED
      BY <1>4, <1>7, <2>3
  <1>8. QED
    BY <1>6, <1>7

\* The helper for % : adding the divisor and taking the remainder again comes to Python's
\* remainder, which has the sign of the divisor.
THEOREM ModIsPythons ==
    ASSUME NEW x \in Int, NEW y \in Int, y # 0
    PROVE  PyJit_LongMod(x, y) = Python("MODULO", x, y)
  <1> DEFINE q == Quotient(x, y)
             r == Remainder(x, y)
  <1>1. PICK n \in Nat, s \in Nat :
           /\ s < Abs(y) /\ Abs(x) = Abs(y) * n + s
           /\ q = (IF SameSign(x, y) THEN n ELSE -n)
           /\ r = IF x < 0 THEN 0 - s ELSE s
    BY Truncation
  <1>2. q \in Int /\ r \in Int /\ r = x - y * q
    <2>1. r = x - y * q
      BY DEF Remainder
    <2> HIDE DEF q, r
    <2>2. QED
      BY <1>1, <2>1
  <1>3. x = y * q + r /\ q \in Int /\ r \in Int
    BY <1>2
  <1>4. PyJit_LongMod(x, y) = IF x # y /\ SameSign(x, y) THEN r ELSE Remainder(y + r, y)
    BY DEF PyJit_LongMod
  <1>5. Remainder(y, y) = 0
    <2>1. Abs(y) = Abs(y) * 1 + 0 /\ 0 < Abs(y)
      BY DEF Abs
    <2>2. Remainder(y, y) = IF y < 0 THEN 0 - 0 ELSE 0
      BY <2>1, TruncationIs
    <2>3. 0 - 0 = 0
      OBVIOUS
    <2>4. QED
      BY <2>2, <2>3, Zenon
  <1>6. x = y => r = 0
    BY <1>5
  <1> HIDE DEF q, r
  <1>7. CASE r = 0
    <2>1. (y > 0 /\ 0 <= r /\ r < y) \/ (y < 0 /\ y < r /\ r <= 0)
      BY <1>7
    <2>2. Python("MODULO", x, y) = 0
      BY <1>3, <1>7, <2>1, FloorIs, Zenon
    <2>3. y + r = y
      BY <1>7
    <2>4. QED
      BY <1>4, <1>5, <1>7, <2>2, <2>3
  <1>8. CASE r # 0 /\ SameSign(x, y)
    <2>1. (y > 0 /\ 0 <= r /\ r < y) \/ (y < 0 /\ y < r /\ r <= 0)
      BY <1>1, <1>8 DEF SameSign, Abs
    <2>2. Python("FLOOR_DIVIDE", x, y) = q /\ Python("MODULO", x, y) = r
      BY <1>3, <2>1, FloorIs, Zenon
    <2>3. QED
      BY <1>4, <1>6, <1>8, <2>2
  <1>9. CASE r # 0 /\ ~SameSign(x, y)
    <2> DEFINE z == y + r
    <2>1. z \in Int /\ ((y > 0 /\ 0 <= z /\ z < y) \/ (y < 0 /\ y < z /\ z <= 0))
      BY <1>1, <1>9 DEF SameSign, Abs
    <2>2. x = y * (q - 1) + z /\ q - 1 \in Int
      BY <1>2, <1>3
    <2>3. Python("MODULO", x, y) = z
      BY <2>1, <2>2, FloorIs
    <2>4. Abs(z) \in Nat /\ Abs(z) < Abs(y) /\ Abs(y) \in Int
      BY <2>1 DEF Abs
    <2>5. Abs(z) = Abs(y) * 0 + Abs(z)
      BY <2>4
    <2>6. Remainder(z, y) = IF z < 0 THEN 0 - Abs(z) ELSE Abs(z)
      BY <2>1, <2>4, <2>5, TruncationIs
    <2>7. Remainder(z, y) = z
      BY <2>1, <2>6 DEF Abs
    <2>8. QED
      BY <1>4, <1>9, <2>3, <2>7
  <1>10. QED
    BY <1>7, <1>8, <1>9

LEMMA PythonInt ==
    ASSUME NEW o \in Binary, NEW x \in Int, NEW y \in Int, PythonError(o, y) = "none"
    PROVE  Python(o, x, y) \in Int
  <1>1. o \in {"ADD", "SUBTRACT", "MULTIPLY", "LSHIFT", "RSHIFT", "FLOOR_DIVIDE", "MODULO"}
    BY DEF Binary, Additive, Division, Shift
  <1>2. CASE o \in {"ADD", "SUBTRACT", "MULTIPLY"}
    BY <1>2, PythonIs
  <1>3. CASE o \in {"LSHIFT", "RSHIFT"}
    <2>1. y \in Nat
      BY <1>3, ErrorIs DEF Shift, Division
    <2>2. Pow2[y] \in Nat \ {0}
      BY <2>1, Pow2Step
    <2>3. x * Pow2[y] \in Int /\ x \div Pow2[y] \in Int
      BY <2>2
    <2>4. QED
      BY <1>3, <2>3, PythonIs
  <1>4. CASE o \in {"FLOOR_DIVIDE", "MODULO"}
    <2>1. y # 0
      BY <1>4, ErrorIs DEF Division
    <2>2. CASE y > 0
      <3>1. x \div y \in Int /\ x % y \in Int
        BY <2>2, Euclid
      <3>2. QED
        BY <1>4, <2>2, <3>1, PythonIs
    <2>3. CASE ~(y > 0)
      <3>1. -y \in Nat \ {0} /\ -x \in Int
        BY <2>1, <2>3
      <3>2. (-x) \div (-y) \in Int /\ (-x) % (-y) \in Int
        BY <3>1, Euclid, Zenon
      <3>3. -((-x) % (-y)) \in Int
        BY <3>2
      <3>4. QED
        BY <1>4, <2>3, <3>2, <3>3, PythonIs
    <2>4. QED
      BY <2>2, <2>3
  <1>5. QED
    BY <1>1, <1>2, <1>3, <1>4

LEMMA PythonUnaryInt ==
    ASSUME NEW o \in Unary, NEW x \in Int
    PROVE  PythonUnary(o, x) \in Int
  BY PythonUnaryIs DEF Unary

\* Equal lowest bits stay equal under sums, products, left shifts, - and ~.
LEMMA RingRespects ==
    ASSUME NEW o \in Binary, o \in Ring, NEW x \in Int, NEW e \in Int, NEW y \in Int,
           PythonError(o, y) = "none", Same(x, e)
    PROVE  Same(Python(o, x, y), Python(o, e, y))
  <1>1. o \in {"ADD", "SUBTRACT", "MULTIPLY", "LSHIFT"}
    BY DEF Binary, Ring, Additive, Division, Shift
  <1>2. PICK k \in Int : x = e + M * k
    BY SameMeans
  <1>3. CASE o = "ADD"
    <2>1. x + y = (e + y) + M * k
      BY <1>2, WordHalves
    <2>2. QED
      BY <1>3, <2>1, SameMeans, PythonIs
  <1>4. CASE o = "SUBTRACT"
    <2>1. x - y = (e - y) + M * k
      BY <1>2, WordHalves
    <2>2. QED
      BY <1>4, <2>1, SameMeans, PythonIs
  <1>5. ASSUME NEW z \in Int PROVE Same(x * z, e * z)
    <2>1. x * z \in Int /\ e * z \in Int /\ k * z \in Int
      OBVIOUS
    <2>2. x * z = e * z + M * (k * z)
      BY <1>2, WordHalves
    <2>3. QED
      BY <2>1, <2>2, SameMeans, Zenon
  <1>6. CASE o = "MULTIPLY"
    BY <1>5, <1>6, PythonIs
  <1>7. CASE o = "LSHIFT"
    <2>1. y \in Nat
      BY <1>7, ErrorIs DEF Shift, Division
    <2>2. Pow2[y] \in Int
      BY <2>1, Pow2Step
    <2>3. Same(x * Pow2[y], e * Pow2[y])
      BY <1>5, <2>2, Zenon
    <2>4. QED
      BY <1>7, <2>3, PythonIs, Zenon
  <1>8. QED
    BY <1>1, <1>3, <1>4, <1>6, <1>7

LEMMA RingRespectsUnary ==
    ASSUME NEW o \in Unary, o \in Ring, NEW x \in Int, NEW e \in Int, Same(x, e)
    PROVE  Same(PythonUnary(o, x), PythonUnary(o, e))
  <1>1. o \in {"NEGATIVE", "INVERT"}
    BY DEF Unary, Ring, Additive
  <1>2. PICK k \in Int : x = e + M * k
    BY SameMeans
  <1>3. -x = -e + M * (-k) /\ (-x) - 1 = ((-e) - 1) + M * (-k) /\ -k \in Int
    BY <1>2, WordHalves
  <1>4. Same(-x, -e) /\ Same((-x) - 1, (-e) - 1)
    BY <1>3, SameMeans
  <1>5. QED
    BY <1>1, <1>4, PythonUnaryIs

\* Where nothing is unusual the compiled operators compute Python's lowest bits.
LEMMA EmittedIsPythons ==
    ASSUME NEW o \in Binary, NEW x \in Word, NEW y \in Int, ~Unusual(o, x, y),
           PythonError(o, y) = "none"
    PROVE  Wrap(emit_binary_int(o, x, y)) = Wrap(Python(o, x, y))
  <1>1. o \in {"ADD", "SUBTRACT", "MULTIPLY", "LSHIFT", "RSHIFT", "FLOOR_DIVIDE", "MODULO"}
    BY DEF Binary, Additive, Division, Shift
  <1>2. x \in Int
    BY WordHalves
  <1>3. ASSUME NEW n \in Int PROVE Wrap(Wrap(n)) = Wrap(n)
    BY WrapIs, WrapWord
  <1>4. CASE o \in {"ADD", "SUBTRACT", "MULTIPLY"}
    <2>1. x + y \in Int /\ x - y \in Int /\ x * y \in Int
      BY <1>2
    <2>2. QED
      BY <1>3, <1>4, <2>1, PythonIs, EmittedIs
  <1>5. CASE o \in {"LSHIFT", "RSHIFT"}
    <2>1. y \in 0..(Width - 1)
      BY <1>5 DEF Unusual, Shift
    <2>2. y % Width = y
      <3>1. y = Width * 0 + y /\ Width \in Nat \ {0} /\ 0 <= y /\ y < Width
        BY <2>1, WordAssumption
      <3>2. QED
        BY <3>1, DivisionIs
    <2>3. Pow2[y] \in Nat
      BY <2>1, Pow2Step
    <2>4. x * Pow2[y] \in Int
      BY <1>2, <2>3
    <2>5. QED
      BY <1>3, <1>5, <2>2, <2>4, PythonIs, EmittedIs
  <1>6. CASE o \in {"FLOOR_DIVIDE", "MODULO"}
    <2>1. y # 0
      BY <1>6, ErrorIs DEF Division
    <2>2. PyJit_LongFloorDivide(x, y) = Python("FLOOR_DIVIDE", x, y)
          /\ PyJit_LongMod(x, y) = Python("MODULO", x, y)
      BY <1>2, <2>1, FloorDivideIsPythons, ModIsPythons
    <2>3. emit_binary_int("FLOOR_DIVIDE", x, y) = PyJit_LongFloorDivide(x, y)
          /\ emit_binary_int("MODULO", x, y) = PyJit_LongMod(x, y)
      BY <2>1, EmittedIs, Zenon
    <2>4. QED
      BY <1>6, <2>2, <2>3, Zenon
  <1>7. QED
    BY <1>1, <1>4, <1>5, <1>6

LEMMA EmittedUnaryIsPythons ==
    ASSUME NEW o \in Unary, NEW x \in Word, ~Unusual(o, x, 0)
    PROVE  emit_unary_int(o, x) = Wrap(PythonUnary(o, x))
  <1>1. o \in {"POSITIVE", "NEGATIVE", "INVERT"}
    BY DEF Unary
  <1>2. x \in Int
    BY WordHalves
  <1>3. CASE o = "POSITIVE"
    <2>1. ~(x < 0)
      BY <1>3 DEF Unusual
    <2>2. Abs(x) = x
      BY <2>1 DEF Abs
    <2>3. QED
      BY <1>3, <2>2, EmittedUnaryIs, PythonUnaryIs
  <1>4. CASE o = "NEGATIVE"
    BY <1>4, EmittedUnaryIs, PythonUnaryIs
  <1>5. CASE o = "INVERT"
    <2>1. x + 1 \in Int
      BY <1>2
    <2>2. Wrap(x + 1) \in Int /\ Same(Wrap(x + 1), x + 1)
      BY <2>1, WrapIs
    <2>3. PICK k \in Int : Wrap(x + 1) = (x + 1) + M * k
      BY <2>1, <2>2, SameMeans
    <2>4. -Wrap(x + 1) = ((-x) - 1) + M * (-k) /\ -k \in Int
      BY <1>2, <2>3, WordHalves
    <2>5. -Wrap(x + 1) \in Int /\ (-x) - 1 \in Int
      BY <1>2, <2>2
    <2>6. Wrap(-Wrap(x + 1)) = Wrap((-x) - 1)
      BY <2>4, <2>5, SameMeans, WrapSame
    <2>7. QED
      BY <1>5, <2>6, EmittedUnaryIs, PythonUnaryIs
  <1>6. QED
    BY <1>1, <1>3, <1>4, <1>5

-----------------------------------------------------------------------------
(* The invariant *)

\* Where Python's value fits, it is the compiled code's; where it does not, the lowest
\* bits are.  An unboxed value is a word, which makes the second part the first when the
\* value comes back into the range.
MathInv ==
    /\ value \in Int /\ exact \in Int /\ boxed \in BOOLEAN
    /\ past \in {"fits", "wrapped", "lost"}
    /\ boxed = FALSE => value \in Word
    /\ past = "fits" => exact \in Word
    /\ FitsIsExact
    /\ WrappedIsCongruent

LoopType == [state : {"new", "iterator", "ended"}, index : Nat, pending : BOOLEAN, over : Iterables]

\* The iterator is somewhere between the first item and the end, and has a part that does
\* not fit only if an error is pending.
LoopInv ==
    /\ loop = NoLoop \/ loop \in LoopType
    /\ loop.state = "new" => loop.index = 0
    /\ loop.state \in {"iterator", "ended"} => loop.pending = ~(Parts(loop.over) \subseteq Word)
    /\ LoopsArePythons

IInv == MathInv /\ LoopInv

-----------------------------------------------------------------------------
(* The steps of the arithmetic *)

\* What an operator has to do on the compiled side, when nothing is unusual: raise what Python
\* raises, and otherwise come to Python's result, or to its lowest bits.
LEMMA FollowKeeps ==
    ASSUME MathInv, Running, NEW o, NEW result, NEW err, NEW unusual \in BOOLEAN,
           Follow(o, result, err, unusual),
           boxed' = boxed, value' \in Int, boxed = FALSE => value' \in Word,
           err = "none" => result \in Int,
           ~unusual => raised' = err,
           ~unusual /\ err # "none" /\ o \in Ring => value' = value,
           ~unusual /\ err = "none" /\ value = exact =>
               Same(value', result) /\ (boxed = TRUE => value' = result),
           ~unusual /\ err = "none" /\ o \in Ring /\ Same(value, exact) => Same(value', result)
    PROVE  MathInv'
  <1>1. /\ value \in Int /\ exact \in Int /\ boxed \in BOOLEAN
        /\ past \in {"fits", "wrapped", "lost"}
        /\ past = "fits" => exact \in Word /\ value = exact
        /\ past = "wrapped" => Same(value, exact)
    BY Zenon DEF MathInv, FitsIsExact, WrappedIsCongruent, Running, Same, M
  <1>2. /\ error' = err
        /\ exact' = IF err = "none" THEN result ELSE exact
        /\ past' = IF unusual \/ past = "lost" \/ (past = "wrapped" /\ o \notin Ring) THEN "lost"
                   ELSE IF exact' \in Word /\ (past = "fits" \/ ~boxed) THEN "fits" ELSE "wrapped"
    BY DEF Follow
  <1>3. exact' \in Int /\ past' \in {"fits", "wrapped", "lost"}
    BY <1>1, <1>2
  <1>4. past' # "lost" =>
           ~unusual /\ past # "lost" /\ (past = "wrapped" => o \in Ring) /\ raised' = error'
    BY <1>2
  <1>5. past' = "fits" => exact' \in Word
    BY <1>2
  <1>6. ASSUME past' # "lost", err = "none" PROVE exact' = result /\ Same(value', exact')
    <2>1. exact' = result
      BY <1>2, <1>6
    <2>2. CASE past = "fits"
      BY <1>1, <1>4, <1>6, <2>1, <2>2
    <2>3. CASE past = "wrapped"
      BY <1>1, <1>4, <1>6, <2>1, <2>3
    <2>4. QED
      BY <1>1, <1>4, <1>6, <2>1, <2>2, <2>3
  <1>7. ASSUME past' = "fits", err = "none" PROVE value' = exact'
    <2>1. CASE boxed = FALSE
      BY <1>5, <1>6, <1>7, <2>1, SameWords
    <2>2. CASE boxed = TRUE
      <3>1. past = "fits" /\ ~unusual
        BY <1>2, <1>7, <2>2
      <3>2. QED
        BY <1>1, <1>6, <1>7, <2>2, <3>1
    <2>3. QED
      BY <1>1, <2>1, <2>2
  <1>8. FitsIsExact'
    <2>1. past' = "fits" => raised' = error' /\ (Running' => value' = exact')
      BY <1>2, <1>4, <1>7 DEF Running
    <2>2. QED
      BY <2>1, Zenon DEF FitsIsExact
  <1>9. ASSUME past' = "wrapped" PROVE raised' = error' /\ Same(value', exact')
    <2>1. CASE err = "none"
      BY <1>4, <1>6, <1>9, <2>1
    <2>2. CASE err # "none"
      <3>1. exact' = exact /\ past = "wrapped" /\ o \in Ring
        BY <1>1, <1>2, <1>4, <1>9, <2>2
      <3>2. value' = value
        BY <1>4, <1>9, <2>2, <3>1
      <3>3. QED
        BY <1>1, <1>4, <1>9, <3>1, <3>2
    <2>3. QED
      BY <2>1, <2>2
  <1>10. WrappedIsCongruent'
    BY <1>9, Zenon DEF WrappedIsCongruent, Same, M
  <1>11. QED
    BY <1>1, <1>3, <1>5, <1>8, <1>10 DEF MathInv

LEMMA EmittedInt ==
    ASSUME NEW o \in Binary, NEW x \in Int, NEW y \in Int
    PROVE  emit_binary_int(o, x, y) \in Int
  <1>1. o \in {"ADD", "SUBTRACT", "MULTIPLY", "LSHIFT", "RSHIFT", "FLOOR_DIVIDE", "MODULO"}
    BY DEF Binary, Additive, Division, Shift
  <1>2. CASE o \in {"ADD", "SUBTRACT", "MULTIPLY"}
    <2>1. x + y \in Int /\ x - y \in Int /\ x * y \in Int
      OBVIOUS
    <2>2. Wrap(x + y) \in Int /\ Wrap(x - y) \in Int /\ Wrap(x * y) \in Int
      BY <2>1, WrapIs, Zenon
    <2>3. emit_binary_int("ADD", x, y) \in Int /\ emit_binary_int("SUBTRACT", x, y) \in Int
          /\ emit_binary_int("MULTIPLY", x, y) \in Int
      BY <2>2, EmittedIs, Zenon
    <2>4. QED
      BY <1>2, <2>3
  <1>3. CASE o \in {"LSHIFT", "RSHIFT"}
    <2>1. Width \in Nat \ {0}
      BY WordAssumption
    <2>2. y % Width \in Nat
      BY <2>1, Euclid
    <2>3. Pow2[y % Width] \in Nat \ {0}
      BY <2>2, Pow2Step, Zenon
    <2>4. x * Pow2[y % Width] \in Int /\ x \div Pow2[y % Width] \in Int
      BY <2>3
    <2>5. Wrap(x * Pow2[y % Width]) \in Int
      BY <2>4, WrapIs
    <2>6. emit_binary_int("LSHIFT", x, y) \in Int /\ emit_binary_int("RSHIFT", x, y) \in Int
      BY <2>4, <2>5, EmittedIs, Zenon
    <2>7. QED
      BY <1>3, <2>6
  <1>4. CASE o \in {"FLOOR_DIVIDE", "MODULO"}
    <2>1. CASE y = 0
      <3>1. MAXLONG \in Int
        BY WordHalves
      <3>2. QED
        BY <1>4, <2>1, <3>1, EmittedIs, Zenon
    <2>2. CASE y # 0
      <3>1. o \in Binary /\ PythonError(o, y) = "none"
        BY <1>4, <2>2, ErrorIs DEF Division, Shift
      <3>2. Python(o, x, y) \in Int
        BY <3>1, PythonInt
      <3>3. emit_binary_int(o, x, y) = Python(o, x, y)
        <4>1. PyJit_LongFloorDivide(x, y) = Python("FLOOR_DIVIDE", x, y)
              /\ PyJit_LongMod(x, y) = Python("MODULO", x, y)
          BY <2>2, FloorDivideIsPythons, ModIsPythons
        <4>2. emit_binary_int("FLOOR_DIVIDE", x, y) = PyJit_LongFloorDivide(x, y)
              /\ emit_binary_int("MODULO", x, y) = PyJit_LongMod(x, y)
          BY <2>2, EmittedIs, Zenon
        <4>3. QED
          BY <1>4, <4>1, <4>2, Zenon
      <3>4. QED
        BY <3>2, <3>3
    <2>3. QED
      BY <2>1, <2>2
  <1>5. QED
    BY <1>1, <1>2, <1>3, <1>4

LEMMA UnboxedBinaryKeeps ==
    ASSUME MathInv, NEW o \in Binary, NEW y \in Operands, UnboxedBinary(o, y)
    PROVE  MathInv'
  <1> DEFINE right == PyJit_LongAsLongLong(y)
             result == emit_binary_int(o, value, right.value)
             python == Python(o, exact, y)
             err == PythonError(o, y)
             unusual == Unusual(o, value, y)
  <1>1. /\ Running /\ boxed = FALSE /\ boxed' = boxed
        /\ Follow(o, python, err, unusual)
        /\ \/ right.raised # "none" /\ value' = value
           \/ /\ right.raised = "none"
              /\ value' = Wrap(result)
              /\ raised' = IF canReturnInfinity(o) /\ result = MAXLONG
                           THEN "ZeroDivisionError" ELSE "none"
           \/ o \in Division /\ value = MINLONG /\ y = -1 /\ value' = value
    BY DEF UnboxedBinary, MathInv
  <1>2. y \in Int /\ value \in Word /\ value \in Int /\ exact \in Int
    BY <1>1, WordAssumption DEF MathInv
  <1>3. right.raised = "none" <=> y \in Word
    BY DEF PyJit_LongAsLongLong
  <1>4. y \in Word => right.value = y
    BY DEF PyJit_LongAsLongLong
  <1>5. ~unusual => /\ y \in Word
                    /\ ~(o \in Division /\ value = MINLONG /\ y = -1)
                    /\ o \in Shift => y \in 0..(Width - 1)
                    /\ ~(o \in Division /\ y # 0 /\ emit_binary_int(o, value, y) = MAXLONG)
    BY Zenon DEF Unusual
  <1>6. value' \in Word /\ value' \in Int
    <2>1. right.value \in Int
      BY <1>2, WordHalves DEF PyJit_LongAsLongLong
    <2>2. result \in Int
      BY <1>2, <2>1, EmittedInt
    <2>3. Wrap(result) \in Word /\ Wrap(result) \in Int
      BY <2>2, WrapIs
    <2>4. QED
      BY <1>1, <1>2, <2>3, Zenon
  <1>7. err = "none" => python \in Int
    BY <1>2, PythonInt
  <1>8. ASSUME ~unusual PROVE raised' = err /\ value' = Wrap(emit_binary_int(o, value, y))
    <2>1. y \in Word /\ result = emit_binary_int(o, value, y)
      BY <1>4, <1>5, <1>8
    <2>2. /\ value' = Wrap(result)
          /\ raised' = IF o \in Division /\ result = MAXLONG
                       THEN "ZeroDivisionError" ELSE "none"
      BY <1>1, <1>3, <1>5, <1>8, <2>1, Zenon DEF canReturnInfinity
    <2>3. CASE o \in Division
      <3>1. o \in {"FLOOR_DIVIDE", "MODULO"} /\ o \notin Shift
        BY <2>3 DEF Division, Shift
      <3>2. y = 0 <=> result = MAXLONG
        <4>1. y = 0 => emit_binary_int(o, value, y) = MAXLONG
          BY <3>1, EmittedIs, Zenon
        <4>2. QED
          BY <1>5, <1>8, <2>1, <2>3, <4>1, Zenon
      <3>3. err = IF y = 0 THEN "ZeroDivisionError" ELSE "none"
        BY <2>3, <3>1, ErrorIs, Zenon
      <3>4. QED
        BY <2>1, <2>2, <2>3, <3>2, <3>3, Zenon
    <2>4. CASE o \notin Division
      <3>1. o \in Shift => ~(y < 0)
        BY <1>2, <1>5, <1>8
      <3>2. err = "none"
        BY <2>4, <3>1, ErrorIs, Zenon
      <3>3. QED
        BY <2>1, <2>2, <2>4, <3>2, Zenon
    <2>5. QED
      BY <2>3, <2>4
  <1>9. ASSUME ~unusual, err = "none"
        PROVE  value' = Wrap(Python(o, value, y)) /\ Python(o, value, y) \in Int
               /\ Same(value', Python(o, value, y))
    <2>1. value' = Wrap(Python(o, value, y))
      BY <1>2, <1>8, <1>9, EmittedIsPythons
    <2>2. Python(o, value, y) \in Int
      BY <1>2, <1>9, PythonInt
    <2>3. QED
      BY <2>1, <2>2, WrapIs
  <1>10. ASSUME ~unusual, err = "none", o \in Ring, Same(value, exact) PROVE Same(value', python)
    <2>1. Same(Python(o, value, y), python)
      BY <1>2, <1>10, RingRespects
    <2>2. python \in Int
      BY <1>7, <1>10
    <2>3. QED
      BY <1>6, <1>9, <1>10, <2>1, <2>2, SameIsEquivalence
  <1>11. ASSUME ~unusual, err # "none" PROVE o \notin Ring
    <2>1. o \in Shift => ~(y < 0)
      BY <1>2, <1>5, <1>11
    <2>2. o \in Division
      BY <1>11, <2>1, ErrorIs
    <2>3. QED
      BY <2>2 DEF Division, Ring, Additive
  <1>12. unusual \in BOOLEAN
    BY Zenon DEF Unusual
  <1> HIDE DEF right, result, python, err, unusual
  <1>13. ~unusual /\ err = "none" /\ value = exact => Same(value', python)
    <2>1. value = exact => Python(o, value, y) = python
      BY Zenon DEF python
    <2>2. QED
      BY <1>9, <2>1
  <1>14. QED
    BY <1>1, <1>6, <1>7, <1>8, <1>10, <1>11, <1>12, <1>13, FollowKeeps

LEMMA UnboxedUnaryKeeps ==
    ASSUME MathInv, NEW o \in Unary, UnboxedUnary(o)
    PROVE  MathInv'
  <1> DEFINE python == PythonUnary(o, exact)
             unusual == Unusual(o, value, 0)
  <1>1. /\ Running /\ boxed = FALSE /\ boxed' = boxed /\ raised' = raised
        /\ value' = emit_unary_int(o, value)
        /\ Follow(o, python, "none", unusual)
    BY DEF UnboxedUnary, MathInv
  <1>2. value \in Word /\ value \in Int /\ exact \in Int
    BY <1>1 DEF MathInv
  <1>3. value' \in Word /\ value' \in Int
    <2>1. Abs(value) \in Int /\ -value \in Int /\ value + 1 \in Int
      BY <1>2 DEF Abs
    <2>2. -Wrap(value + 1) \in Int
      BY <2>1, WrapIs
    <2>3. o \in {"POSITIVE", "NEGATIVE", "INVERT"}
      BY DEF Unary
    <2>4. QED
      BY <1>1, <2>1, <2>2, <2>3, EmittedUnaryIs, WrapIs
  <1>4. python \in Int /\ PythonUnary(o, value) \in Int
    BY <1>2, PythonUnaryInt
  <1>5. ASSUME ~unusual PROVE Same(value', PythonUnary(o, value))
    <2>1. value' = Wrap(PythonUnary(o, value))
      BY <1>1, <1>2, <1>5, EmittedUnaryIsPythons
    <2>2. QED
      BY <1>4, <2>1, WrapIs
  <1>6. ASSUME ~unusual, o \in Ring, Same(value, exact) PROVE Same(value', python)
    <2>1. Same(PythonUnary(o, value), python)
      BY <1>2, <1>6, RingRespectsUnary
    <2>2. QED
      BY <1>3, <1>4, <1>5, <1>6, <2>1, SameIsEquivalence
  <1>7. unusual \in BOOLEAN
    BY Zenon DEF Unusual
  <1>8. raised' = "none"
    BY <1>1 DEF Running
  <1>9. value = exact => PythonUnary(o, value) = python
    OBVIOUS
  <1> HIDE DEF python, unusual
  <1>10. ~unusual /\ value = exact => Same(value', python)
    BY <1>5, <1>9
  <1>11. QED
    BY <1>1, <1>3, <1>4, <1>6, <1>7, <1>8, <1>10, FollowKeeps

LEMMA BoxedBinaryKeeps ==
    ASSUME MathInv, NEW o \in Binary, NEW y \in Operands, BoxedBinary(o, y)
    PROVE  MathInv'
  <1> DEFINE python == Python(o, exact, y)
             err == PythonError(o, y)
  <1>1. /\ Running /\ boxed = TRUE /\ boxed' = boxed /\ raised' = err
        /\ value' = IF err = "none" THEN Python(o, value, y) ELSE value
        /\ Follow(o, python, err, FALSE)
    BY DEF BoxedBinary, MathInv
  <1>2. y \in Int /\ value \in Int /\ exact \in Int
    BY WordAssumption DEF MathInv
  <1>3. err = "none" => python \in Int /\ Python(o, value, y) \in Int
    BY <1>2, PythonInt
  <1>4. value' \in Int
    BY <1>1, <1>2, <1>3
  <1>5. ASSUME err = "none", o \in Ring, Same(value, exact) PROVE Same(value', python)
    BY <1>1, <1>2, <1>5, RingRespects
  <1>6. err = "none" /\ value = exact => value' = python
    BY <1>1
  <1> HIDE DEF python, err
  <1>7. err = "none" /\ value = exact => Same(value', python)
    BY <1>3, <1>6, SameIsEquivalence
  <1>8. err # "none" => value' = value
    BY <1>1
  <1>9. QED
    BY <1>1, <1>3, <1>4, <1>5, <1>6, <1>7, <1>8, FollowKeeps

LEMMA BoxKeeps ==
    ASSUME MathInv, Box
    PROVE  MathInv'
  BY DEF MathInv, Box, FitsIsExact, WrappedIsCongruent, Running

LEMMA UnboxKeeps ==
    ASSUME MathInv, Unbox
    PROVE  MathInv'
  <1>1. /\ Running /\ boxed' = FALSE
        /\ value' = (IF value \in Word THEN value ELSE MAXLONG)
        /\ raised' = (IF value \in Word THEN "none" ELSE "OverflowError")
        /\ exact' = exact /\ error' = error /\ past' = past
    BY DEF Unbox, PyJit_LongAsLongLong
  <1>2. MAXLONG \in Word
    BY WordHalves
  <1>3. value' \in Word /\ value' \in Int
    BY <1>1, <1>2, WordHalves
  <1>4. past = "fits" => value' = value /\ raised' = raised
    BY <1>1 DEF MathInv, FitsIsExact, Running
  <1>5. FitsIsExact'
    BY <1>1, <1>4 DEF MathInv, FitsIsExact, Running
  <1>6. WrappedIsCongruent'
    <2>1. CASE value \in Word
      BY <1>1, <2>1 DEF MathInv, WrappedIsCongruent, Running
    <2>2. CASE value \notin Word
      BY <1>1, <2>2 DEF WrappedIsCongruent
    <2>3. QED
      BY <2>1, <2>2
  <1>7. QED
    BY <1>1, <1>3, <1>5, <1>6 DEF MathInv

\* Values that are not big are words.
LEMMA InitKeeps ==
    ASSUME Init
    PROVE  MathInv
  <1>1. /\ value \in Operands /\ ~isBig(value) /\ exact = value /\ boxed = TRUE
        /\ raised = "none" /\ error = "none" /\ past = "fits"
    BY DEF Init
  <1>2. value \in Int
    BY <1>1, WordAssumption
  <1>3. Pow2[Width - 4] \in Nat /\ Pow2[Width - 4] <= H
    <2>1. Width - 4 \in Nat /\ Width - 3 \in Nat /\ Width - 2 \in Nat
          /\ (Width - 4) + 1 = Width - 3 /\ (Width - 3) + 1 = Width - 2
          /\ (Width - 2) + 1 = Width - 1
      BY WordAssumption
    <2>2. Pow2[Width - 3] = 2 * Pow2[Width - 4] /\ Pow2[Width - 2] = 2 * Pow2[Width - 3]
          /\ H = 2 * Pow2[Width - 2] /\ Pow2[Width - 4] \in Nat
      BY <2>1, Pow2Step, Zenon DEF H
    <2>3. QED
      BY <2>2
  <1>4. value \in Word
    BY <1>1, <1>2, <1>3, WordHalves DEF isBig
  <1>5. QED
    BY <1>1, <1>2, <1>4 DEF MathInv, FitsIsExact, WrappedIsCongruent

LEMMA NextKeeps ==
    ASSUME MathInv, Next
    PROVE  MathInv'
  BY BoxKeeps, UnboxKeeps, UnboxedBinaryKeeps, BoxedBinaryKeeps, UnboxedUnaryKeeps DEF Next

-----------------------------------------------------------------------------
(* The steps of the loop *)

\* A range of words: the iterator has its parts.
LEMMA PartsAre ==
    ASSUME NEW i \in Iterables
    PROVE  /\ i.start \in Int /\ i.step \in Int /\ i.length \in Nat
           /\ Part(i.start) \in Int /\ Part(i.step) \in Int /\ Part(i.length) \in Int
           /\ Parts(i) \subseteq Word =>
                 Part(i.start) = i.start /\ Part(i.step) = i.step /\ Part(i.length) = i.length
  <1>1. i.start \in Int /\ i.step \in Int /\ i.length \in Nat
    BY LoopAssumption DEF Iterable
  <1>2. QED
    BY <1>1 DEF Part, Parts

LEMMA GetIterKeeps ==
    ASSUME IInv, GetIter
    PROVE  IInv'
  <1>1. /\ Running /\ loop.state = "new"
        /\ kind' = kind /\ boxed' = boxed /\ value' = value /\ exact' = exact /\ error' = error
        /\ \/ /\ loop' = [loop EXCEPT !.state = "iterator",
                                      !.pending = ~(Parts(loop.over) \subseteq Word)]
              /\ past' = IF loop'.pending THEN "lost" ELSE past
              /\ raised' = raised
           \/ past' = "lost" /\ loop' = loop
    BY DEF GetIter, PyJit_GetUnboxedIter
  <1>2. loop \in LoopType /\ loop.index = 0
    BY <1>1 DEF IInv, LoopInv, LoopType, NoLoop
  <1>3. MathInv'
    <2>1. past' = "lost" \/ (past' = past /\ raised' = raised)
      BY <1>1
    <2>2. QED
      BY <1>1, <2>1 DEF IInv, MathInv, FitsIsExact, WrappedIsCongruent, Running
  <1>4. LoopInv'
    <2>1. CASE loop' = loop
      BY <2>1 DEF IInv, LoopInv, LoopsArePythons
    <2>2. CASE loop' # loop
      <3>1. /\ loop' \in LoopType /\ loop'.state = "iterator" /\ loop'.index = 0
            /\ loop'.over = loop.over
            /\ loop'.pending = ~(Parts(loop.over) \subseteq Word)
        BY <1>1, <1>2, <2>2 DEF LoopType
      <3>2. 0 <= loop.over.length
        BY <1>2, PartsAre DEF LoopType
      <3>3. LoopsArePythons'
        BY <3>1, <3>2 DEF LoopsArePythons
      <3>4. QED
        BY <3>1, <3>3 DEF LoopInv, LoopType
    <2>3. QED
      BY <2>1, <2>2
  <1>5. QED
    BY <1>3, <1>4 DEF IInv

LEMMA ForIterKeeps ==
    ASSUME IInv, ForIter
    PROVE  IInv'
  <1> DEFINE i == loop.over
             n == loop.index
             next == pyjion_rangeiter_next(i)
             after == IF HasNext(i) THEN loop.index + 1 ELSE loop.index
  <1>1. /\ Running /\ loop.state = "iterator" /\ raised' = raised /\ error' = error
        /\ \/ /\ next = SIG_STOP_ITER
              /\ loop' = [loop EXCEPT !.state = "ended", !.index = after]
              /\ boxed' = boxed /\ value' = value /\ exact' = exact /\ past' = past
           \/ /\ next # SIG_STOP_ITER
              /\ loop' = [loop EXCEPT !.index = after]
              /\ boxed' = FALSE
              /\ value' = next
              /\ exact' = PythonItem(i)
              /\ past' = IF loop.pending THEN "lost"
                         ELSE IF PythonItem(i) \in Word THEN "fits" ELSE "wrapped"
    BY DEF ForIter
  <1>2. loop \in LoopType /\ i \in Iterables /\ n \in Nat
    BY <1>1 DEF IInv, LoopInv, LoopType, NoLoop
  <1>3. /\ loop.pending = ~(Parts(i) \subseteq Word)
        /\ Parts(i) \subseteq Word => n <= i.length
    BY <1>1 DEF IInv, LoopInv, LoopsArePythons
  <1>4. Item(i) \in Int /\ PythonItem(i) \in Int
    BY <1>2, PartsAre DEF Item, PythonItem
  <1>5. Parts(i) \subseteq Word => Item(i) = PythonItem(i) /\ (HasNext(i) <=> n < i.length)
    BY <1>2, PartsAre DEF Item, PythonItem, HasNext
  <1>6. next = IF HasNext(i) THEN Wrap(Item(i)) ELSE SIG_STOP_ITER
    BY DEF pyjion_rangeiter_next
  <1>7. Wrap(Item(i)) \in Word /\ Wrap(Item(i)) \in Int /\ Same(Wrap(Item(i)), Item(i))
    BY <1>4, WrapIs
  <1>8. after \in Nat
    BY <1>2
  <1>9. CASE next = SIG_STOP_ITER
    <2>1. MathInv'
      BY <1>1, <1>9 DEF IInv, MathInv, FitsIsExact, WrappedIsCongruent, Running
    <2>2. /\ loop' \in LoopType /\ loop'.state = "ended" /\ loop'.index = after
          /\ loop'.over = i /\ loop'.pending = loop.pending
      BY <1>1, <1>2, <1>8, <1>9 DEF LoopType
    <2>3. ASSUME Parts(i) \subseteq Word
          PROVE  /\ after <= i.length
                 /\ \/ after = i.length
                    \/ (i.start + (after - 1) * i.step - SIG_STOP_ITER) % M = 0
      <3>1. CASE HasNext(i)
        <4>1. after = n + 1 /\ n < i.length /\ i.length \in Nat
          BY <1>2, <1>5, <2>3, <3>1, PartsAre
        <4>2. after - 1 = n /\ after <= i.length
          BY <1>2, <4>1
        <4>3. Same(Item(i), SIG_STOP_ITER)
          <5>1. SIG_STOP_ITER = Wrap(Item(i))
            BY <1>6, <1>9, <3>1
          <5>2. QED
            BY <1>4, <1>7, <5>1, SameIsEquivalence
        <4>4. (i.start + n * i.step - SIG_STOP_ITER) % M = 0
          <5>1. Same(PythonItem(i), SIG_STOP_ITER)
            BY <1>5, <2>3, <4>3
          <5>2. PythonItem(i) - SIG_STOP_ITER = i.start + n * i.step - SIG_STOP_ITER
            BY <1>2, PartsAre, LoopAssumption, WordHalves DEF PythonItem
          <5>3. QED
            BY <5>1, <5>2, Zenon DEF Same
        <4>5. QED
          BY <4>2, <4>4, Zenon
      <3>2. CASE ~HasNext(i)
        BY <1>2, <1>3, <1>5, <2>3, <3>2, PartsAre
      <3>3. QED
        BY <3>1, <3>2
    <2>4. LoopsArePythons'
      BY <1>3, <2>2, <2>3 DEF LoopsArePythons, M
    <2>5. LoopInv'
      BY <1>3, <2>2, <2>4 DEF LoopInv, LoopType
    <2>6. QED
      BY <2>1, <2>5 DEF IInv
  <1>10. CASE next # SIG_STOP_ITER
    <2>1. HasNext(i) /\ value' = Wrap(Item(i)) /\ after = n + 1
      BY <1>1, <1>6, <1>10
    <2>2. boxed' = FALSE /\ value' \in Word /\ value' \in Int /\ exact' \in Int
      BY <1>1, <1>4, <1>7, <1>10, <2>1
    <2>3. past' \in {"fits", "wrapped", "lost"} /\ (past' = "fits" => exact' \in Word)
      BY <1>1, <1>10
    <2>4. past' # "lost" => Same(value', exact')
      BY <1>1, <1>3, <1>5, <1>7, <1>10, <2>1
    <2>5. past' = "fits" => value' = exact'
      BY <2>2, <2>3, <2>4, SameWords
    <2>6. raised' = error'
      BY <1>1 DEF Running
    <2>7. FitsIsExact' /\ WrappedIsCongruent'
      BY <2>4, <2>5, <2>6, Zenon DEF FitsIsExact, WrappedIsCongruent, Same, M
    <2>8. MathInv'
      BY <2>2, <2>3, <2>7 DEF MathInv
    <2>9. /\ loop' \in LoopType /\ loop'.state = "iterator" /\ loop'.index = n + 1
          /\ loop'.over = i /\ loop'.pending = loop.pending
      BY <1>1, <1>2, <1>8, <1>10, <2>1 DEF LoopType
    <2>10. Parts(i) \subseteq Word => n + 1 <= i.length
      BY <1>2, <1>5, <2>1, PartsAre
    <2>11. LoopsArePythons'
      BY <1>3, <2>9, <2>10 DEF LoopsArePythons
    <2>12. LoopInv'
      BY <1>3, <2>9, <2>11 DEF LoopInv, LoopType
    <2>13. QED
      BY <2>8, <2>12 DEF IInv
  <1>11. QED
    BY <1>9, <1>10

\* The arithmetic of the body leaves the iterator alone.
LEMMA BodyKeeps ==
    ASSUME IInv, Next, loop' = loop
    PROVE  IInv'
  <1>1. MathInv'
    BY NextKeeps DEF IInv
  <1>2. LoopInv'
    BY DEF IInv, LoopInv, LoopsArePythons
  <1>3. QED
    BY <1>1, <1>2 DEF IInv

LEMMA LoopInitKeeps ==
    ASSUME LoopInit
    PROVE  IInv
  <1>1. MathInv
    BY InitKeeps DEF LoopInit
  <1>2. CASE loop = NoLoop
    <2>1. LoopInv
      BY <1>2 DEF LoopInv, LoopsArePythons, NoLoop
    <2>2. QED
      BY <1>1, <2>1 DEF IInv
  <1>3. CASE loop # NoLoop
    <2>1. PICK i \in Iterables :
             loop = [state |-> "new", index |-> 0, pending |-> FALSE, over |-> i]
      BY <1>3 DEF LoopInit
    <2>2. loop \in LoopType /\ loop.state = "new" /\ loop.index = 0
      BY <2>1 DEF LoopType
    <2>3. LoopInv
      BY <2>2 DEF LoopInv, LoopsArePythons
    <2>4. QED
      BY <1>1, <2>3 DEF IInv
  <1>4. QED
    BY <1>2, <1>3

-----------------------------------------------------------------------------
(* The theorems *)

\* Along every sequence of operators, boxing, unboxing and rounds of a loop, words of any
\* width carry Python's value or its lowest bits.
THEOREM ArithmeticIsSound == LoopSpec => []IInv
  <1>1. LoopInit => IInv
    BY LoopInitKeeps
  <1>2. IInv /\ [LoopNext]_loopVars => IInv'
    <2>1. ASSUME IInv, LoopNext PROVE IInv'
      BY <2>1, BodyKeeps, GetIterKeeps, ForIterKeeps DEF LoopNext
    <2>2. ASSUME IInv, UNCHANGED loopVars PROVE IInv'
      BY <2>2 DEF IInv, MathInv, LoopInv, FitsIsExact, WrappedIsCongruent, LoopsArePythons,
                  Running, loopVars, vars
    <2>3. QED
      BY <2>1, <2>2
  <1>3. QED
    BY <1>1, <1>2, PTL DEF LoopSpec

\* While Python's integer fits into a word the unboxed value is the same, and the same
\* errors are raised.
THEOREM UnboxedIsExact == LoopSpec => []FitsIsExact
  <1>1. IInv => FitsIsExact
    BY DEF IInv, MathInv
  <1>2. QED
    BY <1>1, ArithmeticIsSound, PTL

\* While it does not fit, the lowest bits are right, or unboxing a big object has raised
\* OverflowError.
THEOREM OverflowIsModular == LoopSpec => []WrappedIsCongruent
  <1>1. IInv => WrappedIsCongruent
    BY DEF IInv, MathInv
  <1>2. QED
    BY <1>1, ArithmeticIsSound, PTL

\* The unboxed iterator of a range of words ends behind the last item, or at an item that is
\* the word for the end.
THEOREM LoopsEndWhereTheyShould == LoopSpec => []LoopsArePythons
  <1>1. IInv => LoopsArePythons
    BY DEF IInv, LoopInv
  <1>2. QED
    BY <1>1, ArithmeticIsSound, PTL
=============================================================================
