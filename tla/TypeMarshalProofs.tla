------------------------- MODULE TypeMarshalProofs -------------------------
(***************************************************************************)
(* Proofs about the marshallers and TypeMarshal, for all types, values and *)
(* blocks.                                                                 *)
(*                                                                         *)
(* A number that is written most significant byte first is read again      *)
(* (CodeComesBack), and with it the value of a member (RoundTrip).  A call *)
(* is described by its stack (CallInv): that gives the type invariant and  *)
(* Rewinds.  The room that the structs around the cursor leave (RoomInv)   *)
(* gives EnoughRoom.  And where a record lies, with how far a call that    *)
(* reads it has come (BackInv), gives ComesBack.                           *)
(***************************************************************************)
EXTENDS TypeMarshal, TLAPS, FiniteSetTheorems, SequenceTheorems,
        WellFoundedInduction

(***************************************************************************)
(* Induction and recursion over numbers.  The theorems of the library take *)
(* an operator; here a property is the set of numbers that have it.        *)
(***************************************************************************)
Below == {p \in Nat \X Nat : p[1] < p[2]}

LEMMA BelowWellFounded == IsWellFoundedOn(Below, Nat)
  BY NatLessThanWellFounded DEF Below, OpToRel

LEMMA HasLeast ==
  ASSUME NEW T, T \subseteq Nat, T # {}
  PROVE  \E m \in T : \A k \in T : m <= k
<1>1. PICK m \in T : \A k \in T : <<k, m>> \notin Below
  BY BelowWellFounded, WFMin
<1>2. ASSUME NEW k \in T PROVE m <= k
  <2>1. <<k, m>> \in Nat \X Nat /\ <<k, m>> \notin Below
    BY <1>1
  <2>2. ~(k < m)
    BY <2>1 DEF Below
  <2> QED
    BY <2>2
<1> QED BY <1>2

LEMMA Induction ==
  ASSUME NEW T, 0 \in T, \A n \in Nat : n \in T => n + 1 \in T
  PROVE  \A n \in Nat : n \in T
<1> SUFFICES ASSUME Nat \ T # {} PROVE FALSE
  OBVIOUS
<1>1. PICK m \in Nat \ T : \A k \in Nat \ T : m <= k
  BY HasLeast
<1>2. m - 1 \in T
  BY <1>1
<1> QED
  BY <1>1, <1>2

\* f lists x and what the steps F make of it, one after the other.
Unrolls(f, S, x, F, n) ==
  f \in [0 .. n -> S] /\ f[0] = x /\ \A k \in 1 .. n : f[k] = F[<<k, f[k - 1]>>]

\* Steps can be taken as often as one likes.
LEMMA Recursion ==
  ASSUME NEW S, NEW x \in S, NEW F \in [Nat \X S -> S], NEW n \in Nat
  PROVE  \E f : Unrolls(f, S, x, F, n)
<1> DEFINE T == {m \in Nat : \E f : Unrolls(f, S, x, F, m)}
<1>1. 0 \in T
  <2>1. Unrolls([k \in 0 .. 0 |-> x], S, x, F, 0)
    BY DEF Unrolls
  <2> QED
    BY <2>1
<1>2. ASSUME NEW m \in Nat, m \in T PROVE m + 1 \in T
  <2>1. PICK f : Unrolls(f, S, x, F, m)
    BY <1>2
  <2> DEFINE g == [k \in 0 .. m + 1 |-> IF k = m + 1 THEN F[<<m + 1, f[m]>>] ELSE f[k]]
  <2>2. g \in [0 .. m + 1 -> S] /\ g[0] = x
    <3>1. f[m] \in S
      BY <2>1 DEF Unrolls
    <3> QED
      BY <2>1, <3>1 DEF Unrolls
  <2>3. ASSUME NEW k \in 1 .. m + 1 PROVE g[k] = F[<<k, g[k - 1]>>]
    <3>1. CASE k = m + 1
      <4>1. g[k] = F[<<m + 1, f[m]>>] /\ g[k - 1] = f[m]
        BY <3>1
      <4> QED
        BY <3>1, <4>1
    <3>2. CASE k \in 1 .. m
      <4>1. g[k] = f[k] /\ g[k - 1] = f[k - 1]
        BY <3>2
      <4> QED
        BY <2>1, <3>2, <4>1 DEF Unrolls
    <3> QED
      BY <3>1, <3>2
  <2>4. Unrolls(g, S, x, F, m + 1)
    BY <2>2, <2>3 DEF Unrolls
  <2>5. m + 1 \in Nat
    OBVIOUS
  <2> HIDE DEF g
  <2> QED
    BY <2>4, <2>5
<1> HIDE DEF T
<1>3. n \in T
  BY <1>1, <1>2, Induction
<1> QED
  BY <1>3 DEF T

\* What is in S, and stays in S whatever step is taken, is always in S.
Continues(f, S, x, F, n) ==
  /\ f[0] = x
  /\ \A k \in 1 .. n : f[k - 1] \in S => f[k] = F[<<k, f[k - 1]>>]

LEMMA RecursionStays ==
  ASSUME NEW S, NEW x \in S, NEW F \in [Nat \X S -> S], NEW n \in Nat, NEW f,
         Continues(f, S, x, F, n)
  PROVE  \A k \in 0 .. n : f[k] \in S
<1> USE DEF Continues
<1> DEFINE T == {k \in Nat : k <= n => f[k] \in S}
<1>1. 0 \in T
  OBVIOUS
<1>2. ASSUME NEW k \in Nat, k \in T PROVE k + 1 \in T
  <2> SUFFICES ASSUME k + 1 <= n PROVE f[k + 1] \in S
    OBVIOUS
  <2>1. f[k] \in S
    BY <1>2
  <2>2. f[k + 1] = F[<<k + 1, f[k]>>]
    BY <2>1
  <2> QED
    BY <2>1, <2>2
<1> HIDE DEF T
<1>3. \A k \in Nat : k \in T
  BY <1>1, <1>2, Induction
<1> QED
  BY <1>3 DEF T

-----------------------------------------------------------------------------
(* Shifts and digits. *)

LEMMA TwoToIs ==
  \A n \in Nat : TwoTo[n] = IF n = 0 THEN 1 ELSE 2 * TwoTo[n - 1]
<1> DEFINE F == [p \in Nat \X Nat |-> 2 * p[2]]
           g == [n \in Nat |-> (CHOOSE f : Unrolls(f, Nat, 1, F, n))[n]]
<1>1. F \in [Nat \X Nat -> Nat] /\ \A k, x \in Nat : F[<<k, x>>] = 2 * x
  OBVIOUS
<1> HIDE DEF F
<1>2. ASSUME NEW n \in Nat
      PROVE  Unrolls(CHOOSE f : Unrolls(f, Nat, 1, F, n), Nat, 1, F, n)
  <2>1. \E f : Unrolls(f, Nat, 1, F, n)
    BY <1>1, Recursion
  <2> QED
    BY <2>1
<1>3. ASSUME NEW n \in Nat, NEW f, NEW m \in Nat, NEW h,
             Unrolls(f, Nat, 1, F, n), Unrolls(h, Nat, 1, F, m), n <= m
      PROVE  f[n] = h[n]
  <2> DEFINE T == {k \in Nat : k <= n => f[k] = h[k]}
  <2>1. 0 \in T
    BY <1>3 DEF Unrolls
  <2>2. ASSUME NEW k \in Nat, k \in T PROVE k + 1 \in T
    <3> SUFFICES ASSUME k + 1 <= n PROVE f[k + 1] = h[k + 1]
      OBVIOUS
    <3>1. f[k] = h[k]
      BY <2>2
    <3>2. k + 1 \in 1 .. n /\ k + 1 \in 1 .. m /\ (k + 1) - 1 = k
      BY <1>3
    <3>3. f[k + 1] = F[<<k + 1, f[k]>>] /\ h[k + 1] = F[<<k + 1, h[k]>>]
      BY <1>3, <3>2 DEF Unrolls
    <3> QED
      BY <3>1, <3>3
  <2> HIDE DEF T
  <2>3. n \in T
    BY <2>1, <2>2, Induction
  <2> QED
    BY <2>3 DEF T
<1>4. ASSUME NEW n \in Nat PROVE g[n] = IF n = 0 THEN 1 ELSE 2 * g[n - 1]
  <2> DEFINE f == CHOOSE x : Unrolls(x, Nat, 1, F, n)
             h == CHOOSE x : Unrolls(x, Nat, 1, F, n - 1)
  <2>1. g[n] = f[n] /\ Unrolls(f, Nat, 1, F, n)
    BY <1>2
  <2>2. CASE n = 0
    BY <2>1, <2>2 DEF Unrolls
  <2>3. CASE n # 0
    <3>1. n - 1 \in Nat /\ n \in 1 .. n /\ n - 1 \in 0 .. n
      BY <2>3
    <3>2. g[n - 1] = h[n - 1] /\ Unrolls(h, Nat, 1, F, n - 1)
      BY <1>2, <3>1
    <3> HIDE DEF f, h, g
    <3>3. h[n - 1] = f[n - 1]
      BY <1>3, <2>1, <3>1, <3>2
    <3>4. f[n] = F[<<n, f[n - 1]>>] /\ f[n - 1] \in Nat
      BY <2>1, <3>1 DEF Unrolls
    <3> QED
      BY <1>1, <2>1, <2>3, <3>1, <3>2, <3>3, <3>4
  <2> QED
    BY <2>2, <2>3
<1>5. g = [n \in Nat |-> IF n = 0 THEN 1 ELSE 2 * g[n - 1]]
  <2>1. g = [n \in Nat |-> g[n]]
    OBVIOUS
  <2> HIDE DEF g
  <2> QED
    BY <1>4, <2>1
<1> HIDE DEF g
<1>6. \E f : f = [n \in Nat |-> IF n = 0 THEN 1 ELSE 2 * f[n - 1]]
  BY <1>5
<1>7. TwoTo = [n \in Nat |-> IF n = 0 THEN 1 ELSE 2 * TwoTo[n - 1]]
  BY <1>6 DEF TwoTo
<1> QED
  BY <1>7

LEMMA TwoToNat == \A n \in Nat : TwoTo[n] \in Nat \ {0}
<1> DEFINE T == {n \in Nat : TwoTo[n] \in Nat \ {0}}
<1>1. 0 \in T
  BY TwoToIs
<1>2. ASSUME NEW n \in Nat, n \in T PROVE n + 1 \in T
  <2>1. TwoTo[n + 1] = 2 * TwoTo[n]
    BY TwoToIs
  <2> QED
    BY <1>2, <2>1
<1> HIDE DEF T
<1>3. \A n \in Nat : n \in T
  BY <1>1, <1>2, Induction
<1> QED
  BY <1>3 DEF T

LEMMA TwoToSum == \A a, b \in Nat : TwoTo[a + b] = TwoTo[a] * TwoTo[b]
<1> SUFFICES ASSUME NEW a \in Nat PROVE \A b \in Nat : TwoTo[a + b] = TwoTo[a] * TwoTo[b]
  OBVIOUS
<1> DEFINE T == {b \in Nat : TwoTo[a + b] = TwoTo[a] * TwoTo[b]}
<1>1. 0 \in T
  <2>1. TwoTo[0] = 1 /\ TwoTo[a] \in Nat /\ a + 0 = a
    BY TwoToIs, TwoToNat
  <2> QED
    BY <2>1
<1>2. ASSUME NEW b \in Nat, b \in T PROVE b + 1 \in T
  <2>1. TwoTo[b + 1] = 2 * TwoTo[b] /\ TwoTo[a + (b + 1)] = 2 * TwoTo[a + b]
    <3>1. a + (b + 1) \in Nat /\ a + (b + 1) # 0 /\ a + (b + 1) - 1 = a + b
          /\ b + 1 \in Nat /\ b + 1 # 0 /\ (b + 1) - 1 = b
      OBVIOUS
    <3> QED
      BY <3>1, TwoToIs
  <2>2. TwoTo[a] \in Nat /\ TwoTo[b] \in Nat /\ TwoTo[a + b] = TwoTo[a] * TwoTo[b]
    BY <1>2, TwoToNat
  <2>3. \A x, y \in Nat : 2 * (x * y) = x * (2 * y)
    OBVIOUS
  <2>4. TwoTo[a + (b + 1)] = TwoTo[a] * TwoTo[b + 1]
    BY <2>1, <2>2, <2>3
  <2> QED
    BY <2>4
<1> HIDE DEF T
<1>3. \A b \in Nat : b \in T
  BY <1>1, <1>2, Induction
<1> QED
  BY <1>3 DEF T

LEMMA TimesAtLeast == \A x, y \in Nat \ {0} : x <= x * y
  OBVIOUS

LEMMA TwoToGrows == \A a, b \in Nat : a <= b => TwoTo[a] <= TwoTo[b]
<1> SUFFICES ASSUME NEW a \in Nat, NEW b \in Nat, a <= b PROVE TwoTo[a] <= TwoTo[b]
  OBVIOUS
<1>1. b - a \in Nat /\ a + (b - a) = b
  OBVIOUS
<1>2. TwoTo[b] = TwoTo[a] * TwoTo[b - a]
  BY <1>1, TwoToSum
<1> QED
  BY <1>1, <1>2, TwoToNat, TimesAtLeast

LEMMA Below1 == \A v, w \in Nat : v < w => v % w = v
  OBVIOUS

LEMMA DivTwice ==
  \A v \in Nat, x \in Nat \ {0}, b \in Nat \ {0} : v \div (x * b) = (v \div x) \div b
  OBVIOUS

LEMMA DivIs ==
  \A n \in Nat, q \in Nat \ {0}, k \in Nat, r \in Nat : n = q * k + r /\ r < q => n % q = r
  OBVIOUS

LEMMA Division == \A n \in Nat, r \in Nat \ {0} : (n \div r) * r + (n % r) = n
  OBVIOUS

LEMMA DivisionIs ==
  \A n \in Nat, q \in Nat \ {0} :
    /\ (n \div q) * q + (n % q) = n /\ n \div q \in Nat /\ n % q \in Nat /\ n % q < q
<1>1. \A n \in Nat, q \in Nat \ {0} : n \div q \in Nat /\ n % q \in Nat /\ n % q < q
  OBVIOUS
<1> QED
  BY <1>1, Division, Zenon

LEMMA OneMore ==
  \A n, i \in Nat : i + 1 <= n =>
    /\ i + 1 \in 1 .. n /\ (i + 1) - 1 = i /\ n - (i + 1) \in Nat
    /\ n - i = (n - (i + 1)) + 1 /\ i <= n
  OBVIOUS

\* The last digit and the digits before it.
LEMMA Digits ==
  ASSUME NEW u \in Nat, NEW b \in Nat \ {0}, NEW w \in Nat \ {0}
  PROVE  ((u \div b) % w) * b + (u % b) = u % (w * b)
<1> DEFINE a == u \div b
           c == a \div w
           d == a % w
           r == u % b
<1>1. u = a * b + r /\ a \in Nat /\ r \in Nat /\ r < b
  BY DivisionIs
<1>2. a = c * w + d /\ c \in Nat /\ d \in Nat /\ d < w
  <2>1. a \in Nat
    BY <1>1
  <2> HIDE DEF a
  <2> QED
    BY <2>1, DivisionIs
<1> HIDE DEF a, c, d, r
<1>3. u = (w * b) * c + (d * b + r)
  <2>1. \A x, y, z, t \in Nat : (z * y + t) * x = (y * x) * z + t * x
    OBVIOUS
  <2> QED
    BY <1>1, <1>2, <2>1
<1>4. d * b + r \in Nat /\ d * b + r < w * b
  <2>1. \A x, y \in Nat, z \in Nat : x + 1 <= y => x * z + z <= y * z
    OBVIOUS
  <2>2. d * b + b <= w * b /\ d * b \in Nat /\ w * b \in Nat
    BY <1>2, <2>1
  <2> QED
    BY <1>1, <2>2
<1>5. w * b \in Nat \ {0}
  OBVIOUS
<1>6. u % (w * b) = d * b + r
  BY <1>2, <1>3, <1>4, <1>5, DivIs
<1> QED
  BY <1>6 DEF a, d, r

LEMMA BitsAre == ByteBits \in Nat \ {0} /\ \A n \in Nat : ByteBits * n \in Nat
  BY MarshallersAssumption

LEMMA BaseIs == Base \in Nat \ {0} /\ 2 <= Base
<1>1. TwoTo[0] = 1
  BY TwoToIs
<1>2. 1 \in Nat /\ TwoTo[1] = 2 * TwoTo[1 - 1] /\ 1 - 1 = 0
  BY TwoToIs
<1>3. TwoTo[1] <= TwoTo[ByteBits] /\ TwoTo[ByteBits] \in Nat
  BY BitsAre, TwoToGrows, TwoToNat
<1> QED
  BY <1>1, <1>2, <1>3 DEF Base

LEMMA WidthZero == Width(0) = 1
  BY BitsAre, TwoToIs DEF Width

LEMMA WidthNat == \A n \in Nat : Width(n) \in Nat \ {0}
  BY BitsAre, TwoToNat DEF Width

LEMMA WidthNext == \A n \in Nat : Width(n + 1) = Width(n) * Base
<1> SUFFICES ASSUME NEW n \in Nat PROVE Width(n + 1) = Width(n) * Base
  OBVIOUS
<1>1. ByteBits * (n + 1) = ByteBits * n + ByteBits
  BY BitsAre
<1> QED
  BY <1>1, BitsAre, TwoToSum DEF Width, Base

LEMMA WidthGrows == \A n, k \in Nat : n <= k => Width(n) <= Width(k)
<1> SUFFICES ASSUME NEW n \in Nat, NEW k \in Nat, n <= k PROVE Width(n) <= Width(k)
  OBVIOUS
<1>1. ByteBits * n <= ByteBits * k
  BY BitsAre
<1> QED
  BY <1>1, BitsAre, TwoToGrows DEF Width

\* ret is what the loop of demarshal() has read after each byte.
Loop(ret, m, n, in) ==
  /\ ret \in [0 .. n -> Nat] /\ ret[0] = 0
  /\ \A i \in 1 .. n : ret[i] = ret[i - 1] * Base + in[i]
  /\ ReadCode(m, in) = ret[n]

LEMMA ReadCodeIs ==
  ASSUME NEW m, NEW n \in Nat, n = Bytes(m), NEW in, \A i \in 1 .. n : in[i] \in Nat
  PROVE  \E ret : Loop(ret, m, n, in)
<1> DEFINE F == [p \in Nat \X Nat |->
                   p[2] * Base + (IF p[1] \in 1 .. n THEN in[p[1]] ELSE 0)]
           G(r) == [i \in 0 .. n |-> IF i = 0 THEN 0 ELSE r[i - 1] * Base + in[i]]
           ret == CHOOSE r : r = G(r)
<1>1. /\ F \in [Nat \X Nat -> Nat]
      /\ \A k, x \in Nat : F[<<k, x>>] = x * Base + (IF k \in 1 .. n THEN in[k] ELSE 0)
  <2>1. \A x \in Nat : x * Base \in Nat
    BY BaseIs
  <2>2. \A k \in Nat : (IF k \in 1 .. n THEN in[k] ELSE 0) \in Nat
    OBVIOUS
  <2>3. \A x, y \in Nat : x + y \in Nat
    OBVIOUS
  <2> QED
    BY <2>1, <2>2, <2>3
<1>2. ReadCode(m, in) = ret[n]
  BY DEF ReadCode
<1> HIDE DEF F
<1>3. PICK f : Unrolls(f, Nat, 0, F, n)
  BY <1>1, Recursion
<1>4. ASSUME NEW i \in 1 .. n
      PROVE  i \in Nat /\ i - 1 \in 0 .. n /\ i \in 0 .. n /\ i # 0
  OBVIOUS
<1>5. /\ f \in [0 .. n -> Nat] /\ f[0] = 0
      /\ \A i \in 1 .. n : f[i] = f[i - 1] * Base + in[i]
  BY <1>1, <1>3, <1>4 DEF Unrolls
<1>6. f = G(f)
  <2>1. \A i \in 0 .. n : f[i] = IF i = 0 THEN 0 ELSE f[i - 1] * Base + in[i]
    BY <1>5
  <2> QED
    BY <1>5, <2>1
<1>7. ret = G(ret)
  <2> HIDE DEF G
  <2> QED
    BY <1>6
<1> HIDE DEF ret
<1>8. ret[0] = 0 /\ \A i \in 1 .. n : ret[i] = ret[i - 1] * Base + in[i]
  BY <1>4, <1>7
<1>9. \A i \in 0 .. n : ret[i] \in Nat
  <2>1. \A i \in 1 .. n : ret[i - 1] \in Nat => ret[i] = F[<<i, ret[i - 1]>>]
    BY <1>1, <1>4, <1>8
  <2> DEFINE S == Nat
             x == 0
  <2>2. x \in S /\ F \in [Nat \X S -> S]
    BY <1>1
  <2>3. Continues(ret, S, x, F, n)
    BY <1>8, <2>1 DEF Continues
  <2> HIDE DEF S, x
  <2>4. \A i \in 0 .. n : ret[i] \in S
    BY <2>2, <2>3, RecursionStays
  <2> QED
    BY <2>4 DEF S
<1>10. ret \in [0 .. n -> Nat]
  BY <1>7, <1>9
<1> QED
  BY <1>2, <1>8, <1>10 DEF Loop

\* What marshal() wrote is read again, as far as the bytes suffice.
THEOREM CodeComesBack ==
  ASSUME NEW m, NEW n \in Nat, n = Bytes(m), NEW v \in Nat, NEW in,
         \A i \in 1 .. n : in[i] = BigEndian(v, n)[i]
  PROVE  ReadCode(m, in) = v % Width(n)
<1> DEFINE ret == CHOOSE f : Loop(f, m, n, in)
<1>1. ASSUME NEW i \in 1 .. n
      PROVE  /\ in[i] = (v \div Width(n - i)) % Base /\ in[i] \in Nat
             /\ v \div Width(n - i) \in Nat
  <2>1. n - i \in Nat /\ Width(n - i) \in Nat \ {0} /\ Base \in Nat \ {0}
    BY WidthNat, BaseIs
  <2>2. in[i] = (v \div Width(n - i)) % Base
    BY DEF BigEndian
  <2> QED
    BY <2>1, <2>2, DivisionIs
<1>2. /\ ret \in [0 .. n -> Nat] /\ ret[0] = 0
      /\ \A i \in 1 .. n : ret[i] = ret[i - 1] * Base + in[i]
      /\ ReadCode(m, in) = ret[n]
  <2>1. \A i \in 1 .. n : in[i] \in Nat
    BY <1>1
  <2>2. \E f : Loop(f, m, n, in)
    BY <2>1, ReadCodeIs
  <2>3. Loop(ret, m, n, in)
    BY <2>2
  <2> QED
    BY <2>3 DEF Loop
<1> HIDE DEF ret
<1> DEFINE T == {i \in Nat : i <= n => ret[i] = (v \div Width(n - i)) % Width(i)}
<1> HIDE DEF T
<1>3. 0 \in T
  <2>1. Width(0) = 1 /\ Width(n - 0) \in Nat \ {0} /\ \A x \in Nat : x % 1 = 0
    BY WidthZero, WidthNat
  <2>2. v \div Width(n - 0) \in Nat
    BY <2>1, DivisionIs
  <2> QED
    BY <1>2, <2>1, <2>2 DEF T
<1>4. ASSUME NEW i \in Nat, i \in T PROVE i + 1 \in T
  <2> SUFFICES ASSUME i + 1 <= n
               PROVE  ret[i + 1] = (v \div Width(n - (i + 1))) % Width(i + 1)
    BY DEF T
  <2> DEFINE u == v \div Width(n - (i + 1))
             x == Width(n - (i + 1))
  <2>1. i + 1 \in 1 .. n /\ (i + 1) - 1 = i /\ n - (i + 1) \in Nat
        /\ n - i = (n - (i + 1)) + 1 /\ i <= n
    BY OneMore
  <2>2. ret[i] = (v \div Width(n - i)) % Width(i)
    BY <1>4, <2>1 DEF T
  <2>3. ret[i + 1] = ret[i] * Base + (u % Base) /\ u \in Nat
    BY <1>1, <1>2, <2>1
  <2>4. Width(n - i) = x * Base /\ x \in Nat \ {0} /\ Base \in Nat \ {0}
        /\ Width(i) \in Nat \ {0} /\ Width(i + 1) = Width(i) * Base
    BY <2>1, WidthNat, WidthNext, BaseIs
  <2>5. v \div Width(n - i) = u \div Base
    <3> HIDE DEF x
    <3> QED
      BY <2>4, DivTwice DEF x
  <2> HIDE DEF u, x
  <2>6. ((u \div Base) % Width(i)) * Base + (u % Base) = u % (Width(i) * Base)
    BY <2>3, <2>4, Digits
  <2> QED
    BY <2>2, <2>3, <2>4, <2>5, <2>6 DEF u
<1>5. n \in T
  BY <1>3, <1>4, Induction
<1>6. ret[n] = (v \div Width(n - n)) % Width(n)
  BY <1>5 DEF T
<1>7. n - n = 0 /\ Width(0) = 1 /\ \A x \in Nat : x \div 1 = x
  BY WidthZero
<1> QED
  BY <1>2, <1>6, <1>7

-----------------------------------------------------------------------------
(* The marshallers of single members. *)

LEMMA MinIs ==
  ASSUME NEW S, S \subseteq Nat, S # {}
  PROVE  Min(S) \in S
<1>1. \E x \in S : \A y \in S : x <= y
  BY HasLeast
<1> QED
  BY <1>1 DEF Min

LEMMA Ceil ==
  \A x \in Nat, y \in Nat \ {0} :
    /\ (x + y - 1) \div y \in Nat /\ x <= ((x + y - 1) \div y) * y
    /\ x > 0 => (x + y - 1) \div y > 0
<1> SUFFICES ASSUME NEW x \in Nat, NEW y \in Nat \ {0}
             PROVE  /\ (x + y - 1) \div y \in Nat /\ x <= ((x + y - 1) \div y) * y
                    /\ x > 0 => (x + y - 1) \div y > 0
  OBVIOUS
<1> DEFINE k == (x + y - 1) \div y
           r == (x + y - 1) % y
<1>1. k * y + r = x + y - 1 /\ k \in Nat /\ r \in Nat /\ r < y
  <2>1. x + y - 1 \in Nat
    OBVIOUS
  <2> QED
    BY <2>1, DivisionIs
<1> HIDE DEF k, r
<1>2. k * y \in Nat /\ x <= k * y
  BY <1>1
<1>3. x > 0 => k > 0
  BY <1>1
<1> QED
  BY <1>1, <1>2, <1>3 DEF k

LEMMA RangeBytesIs ==
  ASSUME NEW m
  PROVE  /\ RangeBytes(m) \in 1 .. IntBytes
         /\ RangeBytes(m) = IntBytes \/ Width(RangeBytes(m)) > Signed(m.max - m.min)
<1> DEFINE S == {n \in 1 .. IntBytes : n = IntBytes \/ Width(n) > Signed(m.max - m.min)}
<1>1. S \subseteq Nat /\ IntBytes \in S
  BY MarshallersAssumption
<1>2. RangeBytes(m) \in S
  <2>1. RangeBytes(m) = Min(S)
    BY DEF RangeBytes
  <2> HIDE DEF S
  <2> QED
    BY <1>1, <2>1, MinIs
<1> QED
  BY <1>2

LEMMA BitBytesIs ==
  ASSUME NEW bits
  PROVE  /\ BitBytes(bits) \in 1 .. IntBytes
         /\ BitBytes(bits) = IntBytes \/ BitBytes(bits) * ByteBits >= bits
<1> DEFINE S == {n \in 1 .. IntBytes : n = IntBytes \/ n * ByteBits >= bits}
<1>1. S \subseteq Nat /\ IntBytes \in S
  BY MarshallersAssumption
<1>2. BitBytes(bits) \in S
  <2>1. BitBytes(bits) = Min(S)
    BY DEF BitBytes
  <2> HIDE DEF S
  <2> QED
    BY <1>1, <2>1, MinIs
<1> QED
  BY <1>2

\* A member takes at least a byte, and an integer no more than its type.
LEMMA BytesIs ==
  ASSUME NEW m, IsMarshaller(m)
  PROVE  /\ Bytes(m) \in Nat /\ Bytes(m) > 0
         /\ m.kind \in {"int", "uint", "float", "string"} => Bytes(m) <= IntBytes
         /\ m.kind = "uint64" => Bytes(m) <= LongBytes /\ m.bits <= ByteBits * Bytes(m)
<1>1. CASE m.kind = "int"
  BY <1>1, RangeBytesIs DEF Bytes
<1>2. CASE m.kind = "uint"
  BY <1>2, BitBytesIs DEF Bytes
<1>3. CASE m.kind = "uint64"
  <2>1. m.bits \in Nat /\ m.bits > 0 /\ m.bits <= ByteBits * LongBytes
    BY <1>3, BitsAre, MarshallersAssumption DEF IsMarshaller
  <2> DEFINE n == (m.bits + ByteBits - 1) \div ByteBits
  <2>2. n \in Nat /\ m.bits <= n * ByteBits /\ n > 0
    BY <2>1, BitsAre, Ceil
  <2>3. n <= LongBytes
    <3>1. n * ByteBits + ((m.bits + ByteBits - 1) % ByteBits) = m.bits + ByteBits - 1
          /\ (m.bits + ByteBits - 1) % ByteBits \in Nat
      <4>1. m.bits + ByteBits - 1 \in Nat
        BY <2>1, BitsAre
      <4> QED
        BY <4>1, BitsAre, DivisionIs
    <3> DEFINE r == (m.bits + ByteBits - 1) % ByteBits
    <3>2. n * ByteBits \in Nat /\ n * ByteBits < ByteBits * LongBytes + ByteBits
      <4> HIDE DEF n, r
      <4>1. n * ByteBits \in Nat /\ ByteBits * LongBytes \in Nat
        BY <2>2, BitsAre, MarshallersAssumption
      <4>2. n * ByteBits + r = m.bits + ByteBits - 1 /\ r \in Nat
        BY <3>1 DEF n, r
      <4> QED
        BY <2>1, <4>1, <4>2, BitsAre
    <3>3. \A x, y \in Nat, b \in Nat \ {0} : x * b < b * y + b => x <= y
      <4>1. \A x, y \in Nat, b \in Nat \ {0} : x >= y + 1 => x * b >= b * y + b
        OBVIOUS
      <4>2. \A x, y \in Nat : ~(x >= y + 1) => x <= y
        OBVIOUS
      <4>3. \A x, y \in Nat, b \in Nat \ {0} : x * b \in Nat /\ b * y + b \in Nat
        OBVIOUS
      <4> QED
        BY <4>1, <4>2, <4>3
    <3> HIDE DEF n
    <3> QED
      BY <2>2, <3>2, <3>3, BitsAre, MarshallersAssumption
  <2>4. Bytes(m) = n
    BY <1>3 DEF Bytes, CeilDiv
  <2>5. n * ByteBits = ByteBits * n
    <3> HIDE DEF n
    <3> QED
      BY <2>2, BitsAre
  <2> HIDE DEF n
  <2> QED
    BY <1>3, <2>2, <2>3, <2>4, <2>5
<1>4. CASE m.kind = "float"
  BY <1>4, RangeBytesIs DEF Bytes
<1>5. CASE m.kind = "string"
  BY <1>5, RangeBytesIs DEF Bytes
<1>6. CASE m.kind = "bool"
  BY <1>6 DEF Bytes
<1> QED
  BY <1>1, <1>2, <1>3, <1>4, <1>5, <1>6 DEF IsMarshaller

LEMMA IntDivision ==
  \A v \in Int, q \in Nat \ {0} :
    /\ (v \div q) * q + (v % q) = v /\ v \div q \in Int
    /\ v % q \in Nat /\ v % q < q
  OBVIOUS

LEMMA IntDivIs ==
  \A v \in Int, q \in Nat \ {0}, k \in Int, r \in Nat : v = k * q + r /\ r < q => v % q = r
  OBVIOUS

LEMMA ModMod ==
  ASSUME NEW v \in Int, NEW a \in Nat \ {0}, NEW b \in Nat \ {0}
  PROVE  (v % (a * b)) % a = v % a
<1> DEFINE u == v % (a * b)
           q == v \div (a * b)
           s == u % a
           k == u \div a
<1>1. a * b \in Nat \ {0}
  OBVIOUS
<1>2. q * (a * b) + u = v /\ q \in Int /\ u \in Nat
  BY <1>1, IntDivision
<1>3. k * a + s = u /\ k \in Nat /\ s \in Nat /\ s < a
  <2> HIDE DEF u
  <2> QED
    BY <1>2, DivisionIs
<1> HIDE DEF u, q, s, k
<1>4. v = (q * b + k) * a + s /\ q * b + k \in Int
  <2>1. q * (a * b) = (q * b) * a /\ (q * b + k) * a = (q * b) * a + k * a /\ q * b \in Int
    <3>1. \A x \in Int, y, z \in Nat, t \in Nat :
            x * (y * z) = (x * z) * y /\ (x * z + t) * y = (x * z) * y + t * y /\ x * z \in Int
      OBVIOUS
    <3> QED
      BY <1>2, <1>3, <3>1
  <2> QED
    BY <1>2, <1>3, <2>1
<1>5. v % a = s
  BY <1>3, <1>4, IntDivIs
<1> QED
  BY <1>5 DEF s, u

LEMMA UintWidthIs ==
  /\ UintWidth \in Nat \ {0} /\ UintWidth = Width(IntBytes) /\ UintWidth \div 2 \in Nat
  /\ UintWidth \div 2 <= UintWidth
  /\ LongWidth \in Nat \ {0} /\ LongWidth = Width(LongBytes)
<1>1. UintWidth = Width(IntBytes) /\ LongWidth = Width(LongBytes)
      /\ IntBytes \in Nat /\ LongBytes \in Nat
  BY MarshallersAssumption DEF UintWidth, LongWidth
<1>2. UintWidth \in Nat \ {0} /\ LongWidth \in Nat \ {0}
  BY <1>1, WidthNat
<1>3. \A x \in Nat : x \div 2 \in Nat /\ x \div 2 <= x
  OBVIOUS
<1> QED
  BY <1>1, <1>2, <1>3

LEMMA SignedIs ==
  \A max \in CInt : \A x \in Nat : x <= max => Signed(x) = x /\ x < UintWidth
<1> SUFFICES ASSUME NEW max \in CInt, NEW x \in Nat, x <= max
             PROVE  Signed(x) = x /\ x < UintWidth
  OBVIOUS
<1> DEFINE h == UintWidth \div 2
<1>1. max \in Int /\ max <= h - 1 /\ h \in Nat /\ h <= UintWidth /\ UintWidth \in Nat \ {0}
  BY UintWidthIs DEF CInt
<1>2. Signed(x) = IF x % UintWidth < h THEN x % UintWidth ELSE (x % UintWidth) - UintWidth
  BY DEF Signed
<1> HIDE DEF h
<1>3. x < h /\ x < UintWidth
  BY <1>1
<1>4. x % UintWidth = x
  BY <1>1, <1>3, Below1
<1> QED
  BY <1>2, <1>3, <1>4

LEMMA SignedInt ==
  ASSUME NEW x \in Int
  PROVE  Signed(x) \in Int
<1> DEFINE h == UintWidth \div 2
           u == x % UintWidth
<1>1. u \in Nat /\ UintWidth \in Nat \ {0}
  BY UintWidthIs, IntDivision
<1>2. Signed(x) = IF u < h THEN u ELSE u - UintWidth
  BY DEF Signed
<1> HIDE DEF h, u
<1> QED
  BY <1>1, <1>2

LEMMA BigEndianIs ==
  ASSUME NEW v \in Nat, NEW n \in Nat
  PROVE  BigEndian(v, n) \in Seq(Byte) /\ Len(BigEndian(v, n)) = n
<1>1. ASSUME NEW i \in 1 .. n PROVE (v \div Width(n - i)) % Base \in Byte
  <2>1. n - i \in Nat
    OBVIOUS
  <2>2. Width(n - i) \in Nat \ {0} /\ Base \in Nat \ {0}
    BY <2>1, WidthNat, BaseIs
  <2> DEFINE x == v \div Width(n - i)
             d == x % Base
  <2>3. x \in Nat
    BY <2>2, DivisionIs
  <2> HIDE DEF x
  <2>4. d \in Nat /\ d < Base
    BY <2>2, <2>3, DivisionIs
  <2> HIDE DEF d
  <2>5. d \in Byte
    BY <2>2, <2>4 DEF Byte
  <2> QED
    BY <2>5 DEF d, x
<1>2. BigEndian(v, n) = [i \in 1 .. n |-> (v \div Width(n - i)) % Base]
  BY DEF BigEndian
<1>3. BigEndian(v, n) \in [1 .. n -> Byte]
  BY <1>1, <1>2
<1> QED
  BY <1>3

LEMMA RangeFits ==
  ASSUME NEW m, m.min = 0, m.max \in CInt, NEW x \in Nat, x <= m.max
  PROVE  x < Width(RangeBytes(m))
<1>1. Signed(x) = x /\ x < UintWidth /\ m.max \in Int
  BY SignedIs DEF CInt
<1>2. m.max \in Nat /\ m.max - m.min = m.max
  BY <1>1
<1>3. Signed(m.max) = m.max
  BY <1>2, SignedIs
<1>4. CASE RangeBytes(m) = IntBytes
  BY <1>1, <1>4, UintWidthIs
<1>5. CASE Width(RangeBytes(m)) > Signed(m.max - m.min)
  <2>1. RangeBytes(m) \in Nat
    BY RangeBytesIs, MarshallersAssumption
  <2>2. Width(RangeBytes(m)) \in Nat
    BY <2>1, WidthNat
  <2> QED
    BY <1>2, <1>3, <1>5, <2>2
<1> QED
  BY <1>4, <1>5, RangeBytesIs

LEMMA ShiftFits ==
  ASSUME NEW bits \in Nat, NEW n \in Nat, bits <= ByteBits * n, NEW w \in Nat \ {0},
         NEW v \in Nat, v <= (TwoTo[bits] - 1) % w
  PROVE  v < Width(n)
<1>1. TwoTo[bits] \in Nat \ {0} /\ TwoTo[bits] <= Width(n) /\ Width(n) \in Nat
  BY BitsAre, TwoToNat, TwoToGrows, WidthNat DEF Width
<1>2. \A x \in Nat, y \in Nat \ {0} : x % y <= x /\ x % y \in Nat
  OBVIOUS
<1>3. TwoTo[bits] - 1 \in Nat
  BY <1>1
<1>4. (TwoTo[bits] - 1) % w <= TwoTo[bits] - 1 /\ (TwoTo[bits] - 1) % w \in Nat
  BY <1>2, <1>3
<1> QED
  BY <1>1, <1>4

LEMMA Kinds ==
  ASSUME NEW m, IsMarshaller(m)
  PROVE  /\ m.kind = "int" => m.min \in CInt /\ m.max \in CInt
         /\ m.kind = "uint" => m.bits \in Nat
         /\ m.kind = "uint64" => m.bits \in Nat /\ m.bits <= ByteBits * LongBytes
         /\ m.kind = "float" => /\ m.min \in Int /\ m.max \in Int /\ m.prec \in Nat \ {0}
                                /\ CeilDiv(m.max - m.min, m.prec) + 1 \in CInt
         /\ m.kind = "string" => m.maxSize \in Nat /\ m.maxSize \in CInt
         /\ m.kind \in {"int", "uint", "uint64", "float", "string", "bool"}
<1>1. ByteBits * LongBytes \in Nat
  BY BitsAre, MarshallersAssumption
<1> QED
  BY <1>1 DEF IsMarshaller

LEMMA CIntIsInt == \A x \in CInt : x \in Int
  BY UintWidthIs DEF CInt

\* The steps of a float count from zero and fit its int_.
LEMMA FloatSteps ==
  ASSUME NEW min \in Int, NEW max \in Int, NEW p \in Nat \ {0}, NEW v \in Int,
         min <= v, v <= max
  PROVE  /\ (v - min) \div p \in Nat /\ (v - min) \div p <= CeilDiv(max - min, p) + 1
         /\ ((v - min) \div p) * p + min <= v
         /\ v - (((v - min) \div p) * p + min) < p
<1> DEFINE c == (v - min) \div p
           r == (v - min) % p
           k == CeilDiv(max - min, p)
<1>1. c * p + r = v - min /\ c \in Nat /\ r \in Nat /\ r < p
  <2>1. v - min \in Nat
    OBVIOUS
  <2> QED
    BY <2>1, DivisionIs
<1>2. k \in Nat /\ max - min <= k * p
  <2>1. max - min \in Nat
    OBVIOUS
  <2> QED
    BY <2>1, Ceil DEF CeilDiv
<1> HIDE DEF c, r, k
<1>3. c * p \in Nat /\ k * p \in Nat
  BY <1>1, <1>2
<1>4. c * p <= k * p
  BY <1>1, <1>2, <1>3
<1>5. c <= k
  <2>1. \A x, y \in Nat, z \in Nat \ {0} : x >= y + 1 => x * z >= y * z + z
    OBVIOUS
  <2>2. ~(c >= k + 1)
    BY <1>1, <1>2, <1>3, <1>4, <2>1
  <2> QED
    BY <1>1, <1>2, <2>2
<1> QED
  BY <1>1, <1>2, <1>3, <1>5 DEF c, k

\* A value that marshal() accepts has a code that its bytes can hold; that of
\* an int whose range does not begin at zero is cut.
LEMMA CodeIs ==
  ASSUME NEW m, IsMarshaller(m), NEW v, IsValue(m, v), Legal(m, v)
  PROVE  /\ Code(m, v) \in Nat
         /\ (m.kind = "int" /\ m.min # 0) \/ Code(m, v) < Width(Bytes(m))
<1>1. CASE m.kind = "int"
  <2>1. v \in Int /\ m.min \in Int /\ m.max \in CInt /\ m.min <= v /\ v <= m.max
    <3>1. v \in CInt /\ m.min \in CInt /\ m.max \in CInt
      BY <1>1, Kinds DEF IsValue
    <3> QED
      BY <1>1, <3>1, CIntIsInt DEF Legal
  <2>2. Code(m, v) = v % UintWidth
    BY <1>1 DEF Code
  <2>3. v % UintWidth \in Nat
    BY <2>1, UintWidthIs, IntDivision
  <2>4. ASSUME m.min = 0 PROVE v % UintWidth < Width(Bytes(m))
    <3>1. v \in Nat
      BY <2>1, <2>4
    <3>2. v % UintWidth = v
      BY <2>1, <3>1, SignedIs, Below1, UintWidthIs
    <3>3. v < Width(RangeBytes(m))
      BY <2>1, <2>4, <3>1, RangeFits
    <3> QED
      BY <1>1, <3>2, <3>3 DEF Bytes
  <2> QED
    BY <1>1, <2>2, <2>3, <2>4
<1>2. CASE m.kind = "uint"
  <2>1. v \in Nat /\ v < UintWidth /\ m.bits \in Nat /\ v <= (ShiftedOne(m.bits) - 1) % UintWidth
    BY <1>2, Kinds, UintWidthIs DEF IsValue, Legal
  <2>2. Code(m, v) = v /\ Bytes(m) = BitBytes(m.bits)
    BY <1>2 DEF Code, Bytes
  <2>3. CASE BitBytes(m.bits) = IntBytes
    BY <2>1, <2>2, <2>3, UintWidthIs
  <2>4. CASE BitBytes(m.bits) # IntBytes
    <3> DEFINE n == BitBytes(m.bits)
    <3>1. n \in Nat /\ n < IntBytes /\ n < LongBytes /\ n * ByteBits >= m.bits
      BY <2>4, BitBytesIs, MarshallersAssumption
    <3> HIDE DEF n
    <3>2. n * ByteBits = ByteBits * n
      BY <3>1, BitsAre
    <3>3. \A x, y \in Nat, b \in Nat \ {0} : x < y => b * x < b * y
      OBVIOUS
    <3>4. ByteBits * n < ByteBits * LongBytes /\ ByteBits * n \in Nat
          /\ ByteBits * LongBytes \in Nat
      BY <3>1, <3>3, BitsAre, MarshallersAssumption
    <3>5. m.bits <= ByteBits * n /\ m.bits < ByteBits * LongBytes
      BY <2>1, <3>1, <3>2, <3>4
    <3>6. ShiftedOne(m.bits) = TwoTo[m.bits]
      BY <3>5 DEF ShiftedOne
    <3> QED
      BY <2>1, <2>2, <3>1, <3>5, <3>6, ShiftFits, UintWidthIs DEF n
  <2> QED
    BY <2>1, <2>2, <2>3, <2>4
<1>3. CASE m.kind = "uint64"
  <2>1. v \in Nat /\ v < LongWidth /\ m.bits \in Nat /\ v <= (ShiftedOne(m.bits) - 1) % LongWidth
        /\ m.bits <= ByteBits * LongBytes /\ m.bits <= ByteBits * Bytes(m) /\ Bytes(m) \in Nat
    BY <1>3, Kinds, BytesIs, UintWidthIs DEF IsValue, Legal
  <2>2. Code(m, v) = v
    BY <1>3 DEF Code
  <2>3. ByteBits * LongBytes \in Nat
    BY BitsAre, MarshallersAssumption
  <2>4. CASE m.bits < ByteBits * LongBytes
    <3>1. ShiftedOne(m.bits) = TwoTo[m.bits]
      BY <2>4 DEF ShiftedOne
    <3> QED
      BY <2>1, <2>2, <3>1, ShiftFits, UintWidthIs
  <2>5. CASE m.bits = ByteBits * LongBytes
    <3>1. TwoTo[m.bits] = LongWidth /\ TwoTo[m.bits] <= Width(Bytes(m))
      BY <2>1, <2>5, BitsAre, TwoToGrows DEF LongWidth, Width
    <3>2. Width(Bytes(m)) \in Nat
      BY <2>1, WidthNat
    <3> QED
      BY <2>1, <2>2, <3>1, <3>2, UintWidthIs
  <2> QED
    BY <2>1, <2>3, <2>4, <2>5
<1>4. CASE m.kind = "float"
  <2>1. /\ v \in Int /\ m.min \in Int /\ m.max \in Int /\ m.prec \in Nat \ {0}
        /\ m.min <= v /\ v <= m.max /\ CeilDiv(m.max - m.min, m.prec) + 1 \in CInt
    BY <1>4, Kinds DEF IsValue, Legal
  <2> DEFINE f == FloatInt(m)
  <2>2. f.min = 0 /\ f.max = CeilDiv(m.max - m.min, m.prec) + 1
    BY DEF FloatInt, IntMarshaller
  <2>3. Code(m, v) = (v - m.min) \div m.prec /\ Bytes(m) = RangeBytes(f)
    BY <1>4 DEF Code, Bytes
  <2> DEFINE min == m.min
             max == m.max
             p   == m.prec
  <2>a. /\ v \in Int /\ min \in Int /\ max \in Int /\ p \in Nat \ {0}
        /\ min <= v /\ v <= max
    BY <2>1
  <2> HIDE DEF f, min, max, p
  <2>b. (v - min) \div p \in Nat /\ (v - min) \div p <= CeilDiv(max - min, p) + 1
    BY <2>a, FloatSteps
  <2>4. Code(m, v) \in Nat /\ Code(m, v) <= f.max
    BY <2>2, <2>3, <2>b DEF min, max, p
  <2> QED
    BY <2>1, <2>2, <2>3, <2>4, RangeFits
<1>5. CASE m.kind = "string"
  <2>1. Len(v) \in Nat /\ m.maxSize \in CInt /\ Len(v) <= m.maxSize
    BY <1>5, Kinds, LenProperties DEF IsValue, Legal
  <2> DEFINE f == StringInt(m)
  <2>2. f.min = 0 /\ f.max = m.maxSize
    BY DEF StringInt, IntMarshaller
  <2>3. Code(m, v) = Len(v) /\ Bytes(m) = RangeBytes(f)
    BY <1>5 DEF Code, Bytes
  <2> HIDE DEF f
  <2> QED
    BY <2>1, <2>2, <2>3, RangeFits
<1>6. CASE m.kind = "bool"
  <2>1. Code(m, v) \in {0, 1} /\ Bytes(m) = 1
    BY <1>6 DEF Code, Bytes
  <2>2. Width(1) = Base
    <3>1. Width(0 + 1) = Width(0) * Base /\ Width(0) = 1 /\ 0 + 1 = 1
      BY WidthNext, WidthZero
    <3> QED
      BY <3>1, BaseIs
  <2> QED
    BY <2>1, <2>2, BaseIs
<1> QED
  BY <1>1, <1>2, <1>3, <1>4, <1>5, <1>6, Kinds

LEMMA ConcatIs ==
  ASSUME NEW s \in Seq(Byte), NEW t \in Seq(Byte)
  PROVE  /\ s \o t \in Seq(Byte) /\ Len(s \o t) = Len(s) + Len(t)
         /\ Len(s) \in Nat /\ Len(t) \in Nat
         /\ \A i \in 1 .. Len(s) : (s \o t)[i] = s[i]
         /\ \A i \in 1 .. Len(t) : (s \o t)[Len(s) + i] = t[i]
<1>1. s \o t \in Seq(Byte) /\ Len(s \o t) = Len(s) + Len(t)
  BY ConcatProperties
<1>2. Len(s) \in Nat /\ Len(t) \in Nat
  BY LenProperties
<1>3. \A i \in 1 .. Len(s) + Len(t) :
        (s \o t)[i] = IF i <= Len(s) THEN s[i] ELSE t[i - Len(s)]
  BY ConcatProperties
<1>4. ASSUME NEW i \in 1 .. Len(t) PROVE (s \o t)[Len(s) + i] = t[i]
  <2>1. Len(s) + i \in 1 .. Len(s) + Len(t) /\ ~(Len(s) + i <= Len(s))
        /\ (Len(s) + i) - Len(s) = i
    BY <1>2
  <2> QED
    BY <1>3, <2>1
<1>5. ASSUME NEW i \in 1 .. Len(s) PROVE (s \o t)[i] = s[i]
  <2>1. i \in 1 .. Len(s) + Len(t) /\ i <= Len(s)
    BY <1>2
  <2> QED
    BY <1>3, <2>1
<1> QED
  BY <1>1, <1>2, <1>4, <1>5

\* What marshal() writes: the code, and after it the bytes of a string.
LEMMA MarshalledIs ==
  ASSUME NEW m, IsMarshaller(m), NEW v, IsValue(m, v), Legal(m, v),
         NEW out, out = Marshalled(m, v), NEW n, n = Bytes(m)
  PROVE  /\ out \in Seq(Byte) /\ n \in Nat /\ n > 0 /\ Len(out) > 0
         /\ Len(out) <= MaxMarshalledSize(m)
         /\ Len(out) = n + (IF m.kind = "string" THEN Len(v) ELSE 0)
         /\ \A i \in 1 .. n : out[i] = BigEndian(Code(m, v), n)[i]
         /\ m.kind = "string" => v \in Seq(Byte) /\ \A i \in 1 .. Len(v) : out[n + i] = v[i]
<1> DEFINE b == BigEndian(Code(m, v), n)
           s == IF m.kind = "string" THEN v ELSE <<>>
<1>1. n \in Nat /\ n > 0 /\ Code(m, v) \in Nat
  BY BytesIs, CodeIs
<1>2. b \in Seq(Byte) /\ Len(b) = n
  BY <1>1, BigEndianIs
<1>3. s \in Seq(Byte) /\ Len(s) = (IF m.kind = "string" THEN Len(v) ELSE 0)
  <2>1. CASE m.kind = "string"
    BY <2>1 DEF IsValue
  <2>2. CASE m.kind # "string"
    BY <2>2, EmptySeq
  <2> QED
    BY <2>1, <2>2
<1>4. out = b \o s
  BY DEF Marshalled
<1>5. m.kind = "string" => s = v
  OBVIOUS
<1> HIDE DEF b, s
<1>6. /\ out \in Seq(Byte) /\ Len(out) = n + Len(s) /\ Len(s) \in Nat
      /\ \A i \in 1 .. n : out[i] = b[i]
      /\ \A i \in 1 .. Len(s) : out[n + i] = s[i]
  <2>1. b \in Seq(Byte) /\ s \in Seq(Byte)
    BY <1>2, <1>3
  <2> DEFINE w == b \o s
  <2>2. /\ w \in Seq(Byte) /\ Len(w) = Len(b) + Len(s) /\ Len(s) \in Nat
        /\ \A i \in 1 .. Len(b) : w[i] = b[i]
        /\ \A i \in 1 .. Len(s) : w[Len(b) + i] = s[i]
    BY ONLY <2>1, ConcatIs
  <2>3. out = w
    BY <1>4
  <2> HIDE DEF w
  <2> QED
    BY <1>2, <2>2, <2>3
<1>7. Len(out) <= MaxMarshalledSize(m)
  <2>1. CASE m.kind = "string"
    <3>1. Len(s) <= m.maxSize /\ m.maxSize \in Nat
      BY <1>5, <2>1, Kinds DEF Legal
    <3>2. MaxMarshalledSize(m) = n + m.maxSize
      BY <2>1 DEF MaxMarshalledSize
    <3> QED
      BY <1>1, <1>6, <3>1, <3>2
  <2>2. CASE m.kind # "string"
    <3>1. MaxMarshalledSize(m) = n + 0
      BY <2>2 DEF MaxMarshalledSize
    <3> QED
      BY <1>1, <1>3, <1>6, <2>2, <3>1
  <2> QED
    BY <2>1, <2>2
<1>8. Len(out) > 0
  BY <1>1, <1>6
<1>9. m.kind = "string" => v \in Seq(Byte) /\ \A i \in 1 .. Len(v) : out[n + i] = v[i]
  BY <1>3, <1>5, <1>6
<1> QED
  BY <1>1, <1>3, <1>6, <1>7, <1>8, <1>9 DEF b

LEMMA WidthSum == \A a, b \in Nat : Width(a + b) = Width(a) * Width(b)
<1> SUFFICES ASSUME NEW a \in Nat, NEW b \in Nat PROVE Width(a + b) = Width(a) * Width(b)
  OBVIOUS
<1>1. ByteBits * (a + b) = ByteBits * a + ByteBits * b
  BY BitsAre
<1> QED
  BY <1>1, BitsAre, TwoToSum DEF Width

\* The part of a sequence after n elements.
LEMMA PartIs ==
  ASSUME NEW in \in Seq(Byte), NEW n \in Nat, NEW v \in Seq(Byte), n + Len(v) <= Len(in),
         \A i \in 1 .. Len(v) : in[n + i] = v[i]
  PROVE  SubSeq(in, n + 1, n + Len(v)) = v
<1> DEFINE k == Len(v)
           c == SubSeq(in, n + 1, n + k)
<1>1. k \in Nat /\ Len(in) \in Nat
  BY LenProperties
<1>2. \A i \in n + 1 .. n + k : in[i] \in Byte
  <2>1. \A i \in 1 .. Len(in) : in[i] \in Byte
    BY ElementOfSeq
  <2> HIDE DEF k
  <2>2. n + k <= Len(in)
    BY DEF k
  <2> QED
    BY <1>1, <2>1, <2>2
<1>3. c \in Seq(Byte) /\ Len(c) = k /\ \A i \in 1 .. k : c[i] = in[n + i]
  <2> HIDE DEF k
  <2>1. n + 1 \in Int /\ n + k \in Int /\ n + 1 <= (n + k) + 1
    BY <1>1
  <2>2. /\ c \in Seq(Byte)
        /\ Len(c) = IF n + 1 <= n + k THEN (n + k) - (n + 1) + 1 ELSE 0
        /\ \A i \in 1 .. (n + k) - (n + 1) + 1 : c[i] = in[(n + 1) + i - 1]
    BY <1>2, <2>1, SubSeqProperties
  <2> HIDE DEF c
  <2>3. Len(c) = k
    BY <1>1, <2>2
  <2>4. ASSUME NEW i \in 1 .. k PROVE c[i] = in[n + i]
    <3>1. i \in 1 .. (n + k) - (n + 1) + 1 /\ (n + 1) + i - 1 = n + i
      BY <1>1
    <3> QED
      BY <2>2, <3>1
  <2> QED
    BY <2>2, <2>3, <2>4
<1> HIDE DEF c
<1>4. c \in Seq(Byte) /\ v \in Seq(Byte) /\ Len(c) = Len(v) /\ \A i \in 1 .. Len(c) : c[i] = v[i]
  BY <1>3
<1>5. c = v
  BY <1>4, SeqEqual
<1> QED
  BY <1>5 DEF c

\* in begins with the sequence out.
Begins(in, out) == Len(out) <= Len(in) /\ \A i \in 1 .. Len(out) : in[i] = out[i]

LEMMA BeginsIs ==
  ASSUME NEW m, IsMarshaller(m), NEW v, IsValue(m, v), Legal(m, v),
         NEW in \in Seq(Byte), Begins(in, Marshalled(m, v))
  PROVE  /\ ReadCode(m, in) = Code(m, v) % Width(Bytes(m))
         /\ Len(in) \in Nat /\ Bytes(m) <= Len(in)
         /\ m.kind = "string" =>
              /\ v \in Seq(Byte) /\ Bytes(m) + Len(v) <= Len(in)
              /\ \A i \in 1 .. Len(v) : in[Bytes(m) + i] = v[i]
<1> DEFINE n == Bytes(m)
           out == Marshalled(m, v)
<1>1. /\ n \in Nat /\ n > 0 /\ Code(m, v) \in Nat
  BY BytesIs, CodeIs
<1>2. /\ out \in Seq(Byte)
      /\ Len(out) = n + (IF m.kind = "string" THEN Len(v) ELSE 0)
      /\ \A i \in 1 .. n : out[i] = BigEndian(Code(m, v), n)[i]
      /\ m.kind = "string" => v \in Seq(Byte) /\ \A i \in 1 .. Len(v) : out[n + i] = v[i]
  BY MarshalledIs
<1>3. Len(out) <= Len(in) /\ \A i \in 1 .. Len(out) : in[i] = out[i]
  BY DEF Begins
<1>4. Len(in) \in Nat
  BY LenProperties
<1>5. m.kind = "string" => Len(v) \in Nat
  BY <1>2, LenProperties
<1>6. n = Bytes(m)
  OBVIOUS
<1> HIDE DEF n, out
<1>7. \A i \in 1 .. n : in[i] = BigEndian(Code(m, v), n)[i]
  BY <1>1, <1>2, <1>3, <1>5
<1>8. ReadCode(m, in) = Code(m, v) % Width(n)
  BY <1>1, <1>6, <1>7, CodeComesBack
<1>9. Bytes(m) <= Len(in)
  BY <1>1, <1>2, <1>3, <1>4, <1>5, <1>6
<1>10. ASSUME m.kind = "string"
       PROVE  /\ v \in Seq(Byte) /\ Bytes(m) + Len(v) <= Len(in)
              /\ \A i \in 1 .. Len(v) : in[Bytes(m) + i] = v[i]
  <2>1. /\ Len(out) = n + Len(v) /\ v \in Seq(Byte) /\ Len(v) \in Nat
        /\ \A i \in 1 .. Len(v) : out[n + i] = v[i]
    BY <1>2, <1>5, <1>10
  <2>2. n + Len(v) <= Len(in)
    BY <1>3, <2>1
  <2>3. ASSUME NEW i \in 1 .. Len(v) PROVE in[n + i] = v[i]
    <3>1. n + i \in 1 .. Len(out)
      BY <1>1, <2>1
    <3> QED
      BY <1>3, <2>1, <3>1
  <2> QED
    BY <1>6, <2>1, <2>2, <2>3
<1> QED
  BY <1>4, <1>6, <1>8, <1>9, <1>10

\* What demarshal() makes of an int.
LEMMA IntComesBack ==
  ASSUME NEW m, IsMarshaller(m), NEW v, IsValue(m, v), Legal(m, v), m.kind = "int"
  PROVE  /\ Code(m, v) % Width(Bytes(m)) = v % Width(Bytes(m))
         /\ m.min = 0 => IntRead(m, v % Width(Bytes(m))) = v
         /\ v \in Int /\ m.min \in Int /\ m.max \in Int
<1> DEFINE n == Bytes(m)
<1>1. n \in Nat /\ n > 0 /\ n <= IntBytes /\ Width(n) \in Nat \ {0}
  BY BytesIs, WidthNat
<1>2. IntBytes \in Nat /\ n = Bytes(m)
  BY MarshallersAssumption
<1>3. v \in CInt /\ m.min \in CInt /\ m.max \in CInt /\ m.min <= v /\ v <= m.max
      /\ Code(m, v) = v % UintWidth
  BY Kinds DEF IsValue, Legal, Code
<1>4. v \in Int /\ m.min \in Int /\ m.max \in Int
  BY <1>3, CIntIsInt
<1> HIDE DEF n
<1>5. UintWidth = Width(n) * Width(IntBytes - n) /\ Width(IntBytes - n) \in Nat \ {0}
  <2>1. IntBytes - n \in Nat /\ n + (IntBytes - n) = IntBytes
    BY <1>1, <1>2
  <2> QED
    BY <1>1, <2>1, WidthSum, WidthNat, UintWidthIs
<1>6. (v % UintWidth) % Width(n) = v % Width(n)
  BY <1>1, <1>4, <1>5, ModMod
<1>7. ASSUME m.min = 0 PROVE IntRead(m, v % Width(n)) = v
  <2>1. v \in Nat
    BY <1>3, <1>4, <1>7
  <2>2. v % UintWidth = v
    BY <1>3, <2>1, SignedIs, UintWidthIs, Below1
  <2>3. v < Width(n)
    BY <1>2, <1>3, <1>7, <2>2, CodeIs, <2>1, RangeFits DEF Bytes
  <2>4. v % Width(n) = v
    BY <1>1, <2>1, <2>3, Below1
  <2>5. v + m.min = v
    BY <1>7, <2>1
  <2>6. Signed(v) = v
    BY <1>3, <2>1, SignedIs
  <2> QED
    BY <2>4, <2>5, <2>6 DEF IntRead
<1> QED
  BY <1>2, <1>3, <1>4, <1>6, <1>7

\* A code that counts from zero is in the range of its integer.
LEMMA InRange ==
  ASSUME NEW n, n.min = 0, n.max \in CInt, NEW x \in Nat, x <= n.max
  PROVE  IntRead(n, x) = x /\ n.min <= IntRead(n, x) /\ IntRead(n, x) <= n.max
<1>1. x + n.min = x
  OBVIOUS
<1>2. Signed(x) = x
  BY SignedIs
<1> QED
  BY <1>1, <1>2 DEF IntRead

(***************************************************************************)
(* demarshal() of what marshal() wrote: it finds all of it and takes no    *)
(* more, and unless min is added to an int it accepts it and makes of it a *)
(* value like the one that was written.                                    *)
(***************************************************************************)
THEOREM RoundTrip ==
  ASSUME NEW m, IsMarshaller(m), NEW v, IsValue(m, v), Legal(m, v),
         NEW in \in Seq(Byte), Begins(in, Marshalled(m, v))
  PROVE  /\ Complete(m, in) /\ Taken(m, in) = Len(Marshalled(m, v)) /\ Taken(m, in) > 0
         /\ FromZero(m) => Accepts(m, in) /\ Alike(m, v, Demarshalled(m, in))
<1> DEFINE n == Bytes(m)
           c == ReadCode(m, in)
           R == FromZero(m) => Accepts(m, in) /\ Alike(m, v, Demarshalled(m, in))
<1>1. n \in Nat /\ n > 0 /\ n = Bytes(m) /\ Code(m, v) \in Nat
  BY BytesIs, CodeIs
<1>2. /\ c = Code(m, v) % Width(n) /\ Len(in) \in Nat /\ n <= Len(in)
      /\ m.kind = "string" =>
           /\ v \in Seq(Byte) /\ n + Len(v) <= Len(in)
           /\ \A i \in 1 .. Len(v) : in[n + i] = v[i]
  BY BeginsIs
<1>3. /\ Len(Marshalled(m, v)) = n + (IF m.kind = "string" THEN Len(v) ELSE 0)
      /\ Len(Marshalled(m, v)) > 0
  BY MarshalledIs
<1>4. ASSUME m.kind # "int" PROVE c = Code(m, v)
  <2>1. Code(m, v) < Width(n)
    BY <1>4, CodeIs
  <2>2. Width(n) \in Nat
    BY <1>1, WidthNat
  <2> HIDE DEF n, c
  <2> QED
    BY <1>1, <1>2, <2>1, <2>2, Below1
<1>5. c = ReadCode(m, in)
  OBVIOUS
<1>6. ASSUME m.kind = "string" PROVE c = Len(v) /\ Len(v) \in Nat
  BY <1>2, <1>4, <1>6, LenProperties DEF Code
<1>7. Complete(m, in) /\ Taken(m, in) = Len(Marshalled(m, v)) /\ Taken(m, in) > 0
  <2> HIDE DEF n, c
  <2>1. CASE m.kind = "string"
    <3>1. Len(in) >= n /\ Len(in) - n >= c
      BY <1>1, <1>2, <1>6, <2>1
    <3>2. Complete(m, in)
      BY <1>1, <1>5, <3>1 DEF Complete
    <3>3. Taken(m, in) = n + c
      BY <1>1, <1>5, <2>1 DEF Taken
    <3> QED
      BY <1>3, <1>6, <2>1, <3>2, <3>3
  <2>2. CASE m.kind # "string"
    <3>1. Complete(m, in)
      BY <1>1, <1>2, <2>2 DEF Complete
    <3>2. Taken(m, in) = n + 0
      BY <1>1, <2>2 DEF Taken
    <3> QED
      BY <1>1, <1>3, <2>2, <3>1, <3>2
  <2> QED
    BY <2>1, <2>2
<1> SUFFICES R
  BY <1>7
<1>8. CASE m.kind = "int"
  <2>1. /\ c = v % Width(n) /\ v \in Int /\ m.min \in Int /\ m.max \in Int
        /\ m.min = 0 => IntRead(m, v % Width(n)) = v
    BY <1>2, <1>8, IntComesBack
  <2>2. Demarshalled(m, in) = IntRead(m, c)
    BY <1>8 DEF Demarshalled
  <2>3. Accepts(m, in) = (m.min <= IntRead(m, c) /\ IntRead(m, c) <= m.max)
    BY <1>8 DEF Accepts
  <2>4. m.min <= v /\ v <= m.max
    BY <1>8 DEF Legal
  <2>5. Alike(m, v, Demarshalled(m, in)) = (v = Demarshalled(m, in))
    BY <1>8 DEF Alike
  <2>6. FromZero(m) = (m.min = 0)
    BY <1>8 DEF FromZero
  <2> HIDE DEF n, c
  <2> QED
    BY <2>1, <2>2, <2>3, <2>4, <2>5, <2>6
<1>9. CASE m.kind = "float"
  <2> DEFINE k == FloatInt(m)
  <2>1. m.min \in Int /\ m.max \in Int /\ m.prec \in Nat \ {0} /\ v \in Int
        /\ m.min <= v /\ v <= m.max /\ CeilDiv(m.max - m.min, m.prec) + 1 \in CInt
    BY <1>9, Kinds DEF IsValue, Legal
  <2>2. k.min = 0 /\ k.max = CeilDiv(m.max - m.min, m.prec) + 1
    BY DEF FloatInt, IntMarshaller
  <2>3. c = (v - m.min) \div m.prec
    BY <1>4, <1>9 DEF Code
  <2>4. /\ c \in Nat /\ c <= k.max
        /\ c * m.prec + m.min <= v /\ v - (c * m.prec + m.min) < m.prec
    <3> DEFINE lo == m.min
               hi == m.max
               p  == m.prec
               w  == (v - lo) \div p
    <3>1. lo \in Int /\ hi \in Int /\ p \in Nat \ {0} /\ v \in Int /\ lo <= v /\ v <= hi
      BY <2>1
    <3>2. c = w /\ k.max = CeilDiv(hi - lo, p) + 1
      BY <2>2, <2>3
    <3> HIDE DEF k, lo, hi, p
    <3>3. /\ w \in Nat /\ w <= CeilDiv(hi - lo, p) + 1
          /\ w * p + lo <= v /\ v - (w * p + lo) < p
      BY ONLY <3>1, FloatSteps
    <3> HIDE DEF c, w
    <3>4. /\ c \in Nat /\ c <= k.max
          /\ c * p + lo <= v /\ v - (c * p + lo) < p
      BY ONLY <3>2, <3>3
    <3> QED
      BY ONLY <3>4 DEF lo, p
  <2>5. Accepts(m, in) = (k.min <= IntRead(k, c) /\ IntRead(k, c) <= k.max)
    BY <1>9 DEF Accepts
  <2>6. Demarshalled(m, in) = c * m.prec + m.min
    BY <1>9 DEF Demarshalled
  <2>7. Alike(m, v, c * m.prec + m.min)
    <3> HIDE DEF c
    <3> QED
      BY <1>9, <2>4 DEF Alike
  <2>8. k.min <= IntRead(k, c) /\ IntRead(k, c) <= k.max
    <3> HIDE DEF k, c
    <3> QED
      BY <2>1, <2>2, <2>4, InRange
  <2> QED
    BY <2>5, <2>6, <2>7, <2>8
<1>10. CASE m.kind = "string"
  <2> DEFINE k == StringInt(m)
  <2>1. m.maxSize \in CInt /\ Len(v) <= m.maxSize
    BY <1>10, Kinds DEF Legal
  <2>2. k.min = 0 /\ k.max = m.maxSize
    BY DEF StringInt, IntMarshaller
  <2>3. c = Len(v) /\ c \in Nat
    BY <1>6, <1>10
  <2>4. Accepts(m, in) = (k.min <= IntRead(k, c) /\ IntRead(k, c) <= k.max)
    BY <1>10 DEF Accepts
  <2>5. k.min <= IntRead(k, c) /\ IntRead(k, c) <= k.max
    <3> HIDE DEF k, c
    <3> QED
      BY <2>1, <2>2, <2>3, InRange
  <2>6. Demarshalled(m, in) = SubSeq(in, n + 1, n + Len(v))
    <3>1. Taken(m, in) = n + Len(v)
      BY <1>3, <1>7, <1>10
    <3> QED
      BY <1>10, <3>1 DEF Demarshalled
  <2>7. SubSeq(in, n + 1, n + Len(v)) = v
    <3> HIDE DEF n
    <3> QED
      BY <1>1, <1>2, <1>10, PartIs
  <2>8. Alike(m, v, v)
    BY <1>10 DEF Alike
  <2> QED
    BY <2>4, <2>5, <2>6, <2>7, <2>8
<1>11. CASE m.kind \in {"uint", "uint64"}
  <2>1. c = v
    BY <1>4, <1>11 DEF Code
  <2>2. Demarshalled(m, in) = c
    BY <1>11 DEF Demarshalled
  <2>3. Accepts(m, in)
    BY <1>11, <2>1 DEF Accepts
  <2>4. Alike(m, v, v)
    BY <1>11 DEF Alike
  <2> QED
    BY <2>1, <2>2, <2>3, <2>4
<1>12. CASE m.kind = "bool"
  <2>1. c = (IF v THEN 1 ELSE 0) /\ v \in BOOLEAN
    BY <1>4, <1>12 DEF Code, IsValue
  <2>2. Demarshalled(m, in) = (c # 0)
    BY <1>12 DEF Demarshalled
  <2>3. Accepts(m, in)
    BY <1>12 DEF Accepts
  <2>4. (c # 0) = v
    <3> HIDE DEF c
    <3> QED
      BY <2>1
  <2>5. Alike(m, v, v)
    BY <1>12 DEF Alike
  <2> QED
    BY <2>2, <2>3, <2>4, <2>5
<1> QED
  BY <1>8, <1>9, <1>10, <1>11, <1>12, Kinds

\* Whatever the block holds: what demarshal() takes is there.
LEMMA TakenIs ==
  ASSUME NEW m, IsMarshaller(m), NEW in \in Seq(Byte), Complete(m, in)
  PROVE  Taken(m, in) \in Nat /\ Taken(m, in) <= Len(in) /\ Len(in) \in Nat
<1> DEFINE n == Bytes(m)
           c == ReadCode(m, in)
<1>1. n \in Nat /\ Len(in) \in Nat /\ n <= Len(in)
  BY BytesIs, LenProperties DEF Complete
<1>2. \A i \in 1 .. n : in[i] \in Nat
  <2>1. \A i \in 1 .. Len(in) : in[i] \in Byte
    BY ElementOfSeq
  <2>2. Byte \subseteq Nat
    BY BaseIs DEF Byte
  <2> HIDE DEF n
  <2>3. ASSUME NEW i \in 1 .. n PROVE in[i] \in Nat
    <3>1. i \in 1 .. Len(in)
      BY <1>1
    <3> QED
      BY <2>1, <2>2, <3>1
  <2> QED
    BY <2>3
<1>3. c \in Nat
  <2>1. n = Bytes(m)
    OBVIOUS
  <2> HIDE DEF n
  <2>2. PICK ret : Loop(ret, m, n, in)
    BY <1>1, <1>2, <2>1, ReadCodeIs
  <2> QED
    BY <1>1, <2>2 DEF Loop
<1>4. CASE m.kind = "string"
  <2>1. Taken(m, in) = n + c /\ Len(in) - n >= c
    BY <1>4 DEF Taken, Complete
  <2> HIDE DEF n, c
  <2> QED
    BY <1>1, <1>3, <2>1
<1>5. CASE m.kind # "string"
  <2>1. Taken(m, in) = n + 0
    BY <1>5 DEF Taken
  <2> HIDE DEF n
  <2> QED
    BY <1>1, <2>1
<1> QED
  BY <1>4, <1>5

(***************************************************************************)
(* The types and the stack of structs.                                     *)
(***************************************************************************)
LEMMA TypesAre ==
  ASSUME NEW t \in DOMAIN Types
  PROVE  /\ Types[t] \in Seq(Members) /\ Len(Types[t]) \in Nat /\ Len(Types[t]) > 0
         /\ \A i \in 1 .. Len(Types[t]) : Types[t][i] \in Members
<1>1. Types[t] \in Seq(Members) /\ Types[t] # <<>>
  BY TypeMarshalAssumption
<1> HIDE DEF Members
<1>2. Len(Types[t]) \in Nat \ {0}
  BY <1>1, EmptySeq
<1>3. \A i \in 1 .. Len(Types[t]) : Types[t][i] \in Members
  BY <1>1, ElementOfSeq
<1> QED
  BY <1>1, <1>2, <1>3

LEMMA MembersAre ==
  ASSUME NEW m \in Members
  PROVE  /\ m.kind = "type" => m.type \in DOMAIN Types
         /\ m.kind # "type" => IsMarshaller(m) /\ \A v \in Sample(m) : IsValue(m, v)
<1> HIDE DEF Members
<1> QED
  BY TypeMarshalAssumption

FrameSet == [type : DOMAIN Types, next : Nat \ {0}, start : Nat]

\* The struct on top goes on to its next member.
Onward(s, s2) ==
  /\ s2 \in Seq(FrameSet) /\ Len(s2) = Len(s)
  /\ \A i \in 1 .. Len(s) :
       /\ s2[i].type = s[i].type /\ s2[i].start = s[i].start
       /\ s2[i].next = IF i = Len(s) THEN s[i].next + 1 ELSE s[i].next

LEMMA OnwardIs ==
  ASSUME NEW s \in Seq(FrameSet), Len(s) > 0
  PROVE  Onward(s, [s EXCEPT ![Len(s)].next = @ + 1])
<1> DEFINE n == Len(s)
           f == [s[n] EXCEPT !.next = @ + 1]
           s2 == [s EXCEPT ![n] = f]
<1>1. n \in Nat /\ n \in 1 .. n
  BY LenProperties
<1>2. s[n] \in FrameSet
  BY <1>1, ElementOfSeq
<1>3. f \in FrameSet /\ f.type = s[n].type /\ f.start = s[n].start /\ f.next = s[n].next + 1
  <2> DEFINE r == s[n]
  <2>1. r \in FrameSet
    BY <1>2
  <2> HIDE DEF r
  <2>2. r = [type |-> r.type, next |-> r.next, start |-> r.start]
        /\ r.type \in DOMAIN Types /\ r.next \in Nat \ {0} /\ r.start \in Nat
    BY <2>1 DEF FrameSet
  <2>3. [r EXCEPT !.next = @ + 1] = [type |-> r.type, next |-> r.next + 1, start |-> r.start]
    BY <2>2
  <2>4. r.next + 1 \in Nat \ {0}
    BY <2>2
  <2>5. [type |-> r.type, next |-> r.next + 1, start |-> r.start] \in FrameSet
    BY <2>2, <2>4 DEF FrameSet
  <2>6. f = [type |-> r.type, next |-> r.next + 1, start |-> r.start]
    BY <2>3 DEF r
  <2> HIDE DEF f
  <2>7. f.type = r.type /\ f.start = r.start /\ f.next = r.next + 1
    BY <2>6
  <2> QED
    BY <2>5, <2>6, <2>7 DEF r
<1>4. [s EXCEPT ![Len(s)].next = @ + 1] = s2
  OBVIOUS
<1>5. /\ s2 \in Seq(FrameSet) /\ Len(s2) = n
      /\ \A j \in 1 .. n : s2[j] = IF j = n THEN f ELSE s[j]
  <2> HIDE DEF f
  <2> QED
    BY <1>1, <1>3, ExceptSeq
<1> HIDE DEF f, s2
<1>6. Onward(s, s2)
  BY <1>3, <1>5 DEF Onward
<1> QED
  BY <1>4, <1>6

LEMMA FrontIs ==
  ASSUME NEW s \in Seq(FrameSet), Len(s) > 1
  PROVE  /\ Front(s) \in Seq(FrameSet) /\ Len(Front(s)) = Len(s) - 1
         /\ \A i \in 1 .. Len(s) - 1 : Front(s)[i] = s[i]
<1> DEFINE n == Len(s)
<1>1. n \in Nat
  BY LenProperties
<1>2. Front(s) = SubSeq(s, 1, n - 1)
  BY DEF Front
<1> HIDE DEF n
<1>3. \A i \in 1 .. n - 1 : s[i] \in FrameSet
  BY <1>1, ElementOfSeq DEF n
<1>4. /\ SubSeq(s, 1, n - 1) \in Seq(FrameSet)
      /\ Len(SubSeq(s, 1, n - 1)) = IF 1 <= n - 1 THEN n - 1 - 1 + 1 ELSE 0
      /\ \A i \in 1 .. n - 1 - 1 + 1 : SubSeq(s, 1, n - 1)[i] = s[1 + i - 1]
  <2>1. 1 \in Int /\ n - 1 \in Int
    BY <1>1
  <2> QED
    BY <1>3, <2>1, SubSeqProperties
<1>5. n > 1
  BY DEF n
<1>6. Len(SubSeq(s, 1, n - 1)) = n - 1
  BY <1>1, <1>4, <1>5
<1>7. ASSUME NEW i \in 1 .. n - 1 PROVE SubSeq(s, 1, n - 1)[i] = s[i]
  <2>1. i \in 1 .. n - 1 - 1 + 1 /\ 1 + i - 1 = i
    BY <1>1
  <2> QED
    BY <1>4, <2>1
<1> QED
  BY <1>2, <1>4, <1>6, <1>7 DEF n

LEMMA EnteredIs ==
  ASSUME NEW s \in Seq(FrameSet), NEW f \in FrameSet
  PROVE  /\ Append(s, f) \in Seq(FrameSet) /\ Len(Append(s, f)) = Len(s) + 1
         /\ Len(s) \in Nat /\ Append(s, f)[Len(s) + 1] = f
         /\ \A i \in 1 .. Len(s) : Append(s, f)[i] = s[i]
<1>1. Len(s) \in Nat
  BY LenProperties
<1> QED
  BY <1>1, AppendProperties

\* Where the cursor is, or was when the next struct began.
Reached(s, q, i) == IF i = Len(s) THEN q ELSE s[i + 1].start

\* The structs around the cursor q of a call that began with type t at p: each
\* is the next member of the one around it, and members done have taken bytes.
Nested(s, t, p, q) ==
  /\ s \in Seq(FrameSet) /\ Len(s) > 0 /\ p \in Nat /\ q \in Nat /\ p <= q
  /\ s[1].type = t /\ s[1].start = p
  /\ \A i \in 1 .. Len(s) :
       /\ p <= s[i].start /\ s[i].start <= Reached(s, q, i) /\ Reached(s, q, i) <= q
       /\ s[i].next > 1 => s[i].start < Reached(s, q, i)
       /\ s[i].next <= Len(Types[s[i].type]) + 1
       /\ i # Len(s) =>
            /\ s[i].next <= Len(Types[s[i].type])
            /\ Types[s[i].type][s[i].next].kind = "type"
            /\ Types[s[i].type][s[i].next].type = s[i + 1].type

LEMMA FramesAre ==
  ASSUME NEW s \in Seq(FrameSet)
  PROVE  /\ Len(s) \in Nat
         /\ \A i \in 1 .. Len(s) :
              /\ s[i] \in FrameSet /\ s[i].type \in DOMAIN Types
              /\ s[i].next \in Nat /\ s[i].next > 0 /\ s[i].start \in Nat
              /\ Len(Types[s[i].type]) \in Nat
<1>1. Len(s) \in Nat
  BY LenProperties
<1>2. ASSUME NEW i \in 1 .. Len(s)
      PROVE  /\ s[i] \in FrameSet /\ s[i].type \in DOMAIN Types
             /\ s[i].next \in Nat /\ s[i].next > 0 /\ s[i].start \in Nat
             /\ Len(Types[s[i].type]) \in Nat
  <2>1. s[i] \in FrameSet
    BY ElementOfSeq
  <2>2. s[i].type \in DOMAIN Types /\ s[i].next \in Nat \ {0} /\ s[i].start \in Nat
    BY <2>1 DEF FrameSet
  <2> QED
    BY <2>1, <2>2, TypesAre
<1> QED
  BY <1>1, <1>2

LEMMA NestedStart ==
  ASSUME NEW t \in DOMAIN Types, NEW p \in Nat
  PROVE  Nested(<<[type |-> t, next |-> 1, start |-> p]>>, t, p, p)
<1> DEFINE f == [type |-> t, next |-> 1, start |-> p]
           s == <<f>>
<1>1. f \in FrameSet /\ f.type = t /\ f.next = 1 /\ f.start = p
  BY DEF FrameSet
<1>2. s \in Seq(FrameSet) /\ Len(s) = 1 /\ s[1] = f
  <2> HIDE DEF f
  <2> QED
    BY <1>1
<1>3. Len(Types[t]) \in Nat
  BY TypesAre
<1> HIDE DEF f, s
<1>4. Nested(s, t, p, p)
  BY <1>1, <1>2, <1>3 DEF Nested, Reached
<1> QED
  BY <1>4 DEF s, f

LEMMA NestedOnward ==
  ASSUME NEW s, NEW s2, NEW t, NEW p, NEW q, Nested(s, t, p, q), Onward(s, s2),
         NEW q2 \in Nat, q < q2, s[Len(s)].next <= Len(Types[s[Len(s)].type])
  PROVE  Nested(s2, t, p, q2)
<1> DEFINE n == Len(s)
<1>1. /\ s \in Seq(FrameSet) /\ n > 0 /\ p \in Nat /\ q \in Nat /\ p <= q
      /\ s[1].type = t /\ s[1].start = p
  BY DEF Nested
<1>2. /\ n \in Nat
      /\ \A i \in 1 .. n :
           /\ s[i].next \in Nat /\ s[i].next > 0 /\ s[i].start \in Nat
           /\ Len(Types[s[i].type]) \in Nat
  BY <1>1, FramesAre
<1>3. /\ s2 \in Seq(FrameSet) /\ Len(s2) = n
      /\ \A i \in 1 .. n :
           /\ s2[i].type = s[i].type /\ s2[i].start = s[i].start
           /\ s2[i].next = IF i = n THEN s[i].next + 1 ELSE s[i].next
  BY DEF Onward
<1>4. n = Len(s)
  OBVIOUS
<1> HIDE DEF n
<1>5. 1 \in 1 .. n
  BY <1>1, <1>2
<1>6. ASSUME NEW i \in 1 .. n
      PROVE  /\ p <= s2[i].start /\ s2[i].start <= Reached(s2, q2, i)
             /\ Reached(s2, q2, i) <= q2
             /\ s2[i].next > 1 => s2[i].start < Reached(s2, q2, i)
             /\ s2[i].next <= Len(Types[s2[i].type]) + 1
             /\ i # n =>
                  /\ s2[i].next <= Len(Types[s2[i].type])
                  /\ Types[s2[i].type][s2[i].next].kind = "type"
                  /\ Types[s2[i].type][s2[i].next].type = s2[i + 1].type
  <2>1. /\ p <= s[i].start /\ s[i].start <= Reached(s, q, i) /\ Reached(s, q, i) <= q
        /\ s[i].next > 1 => s[i].start < Reached(s, q, i)
        /\ s[i].next <= Len(Types[s[i].type]) + 1
        /\ i # n =>
             /\ s[i].next <= Len(Types[s[i].type])
             /\ Types[s[i].type][s[i].next].kind = "type"
             /\ Types[s[i].type][s[i].next].type = s[i + 1].type
    BY <1>4 DEF Nested
  <2>2. CASE i = n
    <3>1. Reached(s, q, i) = q /\ Reached(s2, q2, i) = q2
      BY <1>3, <1>4, <2>2 DEF Reached
    <3>2. s2[i].type = s[i].type /\ s2[i].start = s[i].start /\ s2[i].next = s[i].next + 1
      BY <1>3, <2>2
    <3>3. s[i].next <= Len(Types[s[i].type])
      BY <1>4, <2>2
    <3> DEFINE x == s[i].start
               l == Len(Types[s[i].type])
               k == s[i].next
    <3>4. /\ p <= x /\ x <= q /\ q < q2 /\ k <= l
          /\ x \in Nat /\ l \in Nat /\ k \in Nat /\ q \in Nat
      BY <1>1, <1>2, <2>1, <3>1, <3>3
    <3>5. s2[i].start = x /\ s2[i].next = k + 1 /\ Len(Types[s2[i].type]) = l
      BY <3>2
    <3> HIDE DEF x, l, k
    <3>6. p <= x /\ x <= q2 /\ x < q2 /\ k + 1 <= l + 1
      BY <3>4
    <3> QED
      BY <2>2, <3>1, <3>5, <3>6
  <2>3. CASE i # n
    <3>1. i + 1 \in 1 .. n
      BY <1>2, <2>3
    <3>2. Reached(s, q, i) = s[i + 1].start /\ Reached(s2, q2, i) = s[i + 1].start
      BY <1>3, <1>4, <2>3, <3>1 DEF Reached
    <3>3. /\ s2[i].type = s[i].type /\ s2[i].start = s[i].start /\ s2[i].next = s[i].next
          /\ s2[i + 1].type = s[i + 1].type
      BY <1>3, <2>3, <3>1
    <3>4. s[i + 1].start <= q2
      BY <1>1, <1>2, <2>1, <3>1, <3>2
    <3> QED
      BY <2>1, <2>3, <3>2, <3>3, <3>4
  <2> QED
    BY <2>2, <2>3
<1>7. p <= q2
  BY <1>1
<1>8. s2[1].type = t /\ s2[1].start = p
  BY <1>1, <1>3, <1>5
<1> QED
  BY <1>1, <1>3, <1>6, <1>7, <1>8 DEF Nested

LEMMA NestedEnter ==
  ASSUME NEW s, NEW t, NEW p, NEW q, Nested(s, t, p, q), NEW u \in DOMAIN Types,
         s[Len(s)].next <= Len(Types[s[Len(s)].type]),
         Types[s[Len(s)].type][s[Len(s)].next].kind = "type",
         Types[s[Len(s)].type][s[Len(s)].next].type = u
  PROVE  Nested(Append(s, [type |-> u, next |-> 1, start |-> q]), t, p, q)
<1> DEFINE n == Len(s)
           f == [type |-> u, next |-> 1, start |-> q]
           s2 == Append(s, f)
<1>1. /\ s \in Seq(FrameSet) /\ n > 0 /\ p \in Nat /\ q \in Nat /\ p <= q
      /\ s[1].type = t /\ s[1].start = p
  BY DEF Nested
<1>2. /\ n \in Nat
      /\ \A i \in 1 .. n :
           /\ s[i].next \in Nat /\ s[i].next > 0 /\ s[i].start \in Nat
           /\ Len(Types[s[i].type]) \in Nat
  BY <1>1, FramesAre
<1>3. f \in FrameSet /\ f.type = u /\ f.next = 1 /\ f.start = q
  BY <1>1 DEF FrameSet
<1> HIDE DEF f
<1>4. /\ s2 \in Seq(FrameSet) /\ Len(s2) = n + 1 /\ s2[n + 1] = f
      /\ \A i \in 1 .. n : s2[i] = s[i]
  BY <1>1, <1>3, EnteredIs
<1>5. n = Len(s) /\ Len(Types[u]) \in Nat
  BY TypesAre
<1> HIDE DEF s2, n
<1>6. 1 \in 1 .. n
  BY <1>1, <1>2
<1>7. ASSUME NEW i \in 1 .. n + 1
      PROVE  /\ p <= s2[i].start /\ s2[i].start <= Reached(s2, q, i)
             /\ Reached(s2, q, i) <= q
             /\ s2[i].next > 1 => s2[i].start < Reached(s2, q, i)
             /\ s2[i].next <= Len(Types[s2[i].type]) + 1
             /\ i # n + 1 =>
                  /\ s2[i].next <= Len(Types[s2[i].type])
                  /\ Types[s2[i].type][s2[i].next].kind = "type"
                  /\ Types[s2[i].type][s2[i].next].type = s2[i + 1].type
  <2>1. CASE i = n + 1
    <3>1. Reached(s2, q, i) = q
      BY <1>4, <2>1 DEF Reached
    <3>2. s2[i] = f
      BY <1>4, <2>1
    <3> QED
      BY <1>1, <1>3, <1>5, <2>1, <3>1, <3>2
  <2>2. CASE i # n + 1
    <3>1. i \in 1 .. n /\ s2[i] = s[i]
      BY <1>2, <1>4, <2>2
    <3>2. /\ p <= s[i].start /\ s[i].start <= Reached(s, q, i) /\ Reached(s, q, i) <= q
          /\ s[i].next > 1 => s[i].start < Reached(s, q, i)
          /\ s[i].next <= Len(Types[s[i].type]) + 1
          /\ i # n =>
               /\ s[i].next <= Len(Types[s[i].type])
               /\ Types[s[i].type][s[i].next].kind = "type"
               /\ Types[s[i].type][s[i].next].type = s[i + 1].type
      BY <1>5, <3>1 DEF Nested
    <3>3. CASE i = n
      <4>1. Reached(s2, q, i) = q /\ Reached(s, q, i) = q
        BY <1>1, <1>3, <1>4, <1>5, <2>2, <3>3 DEF Reached
      <4>2. /\ s[i].next <= Len(Types[s[i].type])
            /\ Types[s[i].type][s[i].next].kind = "type"
            /\ Types[s[i].type][s[i].next].type = s2[i + 1].type
        BY <1>3, <1>4, <1>5, <3>3
      <4> QED
        BY <3>1, <3>2, <4>1, <4>2
    <3>4. CASE i # n
      <4>1. i + 1 \in 1 .. n
        BY <1>2, <3>1, <3>4
      <4>2. s2[i + 1] = s[i + 1]
        BY <1>4, <4>1
      <4>3. Reached(s2, q, i) = Reached(s, q, i)
        BY <1>4, <1>5, <2>2, <3>4, <4>2 DEF Reached
      <4> QED
        BY <3>1, <3>2, <3>4, <4>2, <4>3
    <3> QED
      BY <3>3, <3>4
  <2> QED
    BY <2>1, <2>2
<1>8. Nested(s2, t, p, q)
  <2>1. s2[1].type = t /\ s2[1].start = p
    BY <1>1, <1>4, <1>6
  <2>2. Len(s2) > 0
    BY <1>2, <1>4
  <2> QED
    BY <1>1, <1>4, <1>7, <2>1, <2>2 DEF Nested
<1> QED
  BY <1>8 DEF s2, f

LEMMA NestedLeave ==
  ASSUME NEW s, NEW s2, NEW t, NEW p, NEW q, Nested(s, t, p, q), Len(s) > 1,
         q # s[Len(s)].start, Onward(Front(s), s2)
  PROVE  Nested(s2, t, p, q)
<1> DEFINE n == Len(s) - 1
<1>1. /\ s \in Seq(FrameSet) /\ p \in Nat /\ q \in Nat /\ p <= q
      /\ s[1].type = t /\ s[1].start = p
  BY DEF Nested
<1>2. /\ Len(s) \in Nat
      /\ \A i \in 1 .. Len(s) :
           /\ s[i].next \in Nat /\ s[i].next > 0 /\ s[i].start \in Nat
           /\ Len(Types[s[i].type]) \in Nat
  BY <1>1, FramesAre
<1>3. Len(Front(s)) = n /\ \A i \in 1 .. n : Front(s)[i] = s[i]
  BY <1>1, FrontIs
<1>4. n \in Nat /\ n > 0 /\ Len(s) = n + 1
  BY <1>2
<1> HIDE DEF n
<1>5. /\ s2 \in Seq(FrameSet) /\ Len(s2) = n
      /\ \A i \in 1 .. n :
           /\ s2[i].type = s[i].type /\ s2[i].start = s[i].start
           /\ s2[i].next = IF i = n THEN s[i].next + 1 ELSE s[i].next
  BY <1>3 DEF Onward
<1>6. ASSUME NEW i \in 1 .. n
      PROVE  /\ p <= s2[i].start /\ s2[i].start <= Reached(s2, q, i)
             /\ Reached(s2, q, i) <= q
             /\ s2[i].next > 1 => s2[i].start < Reached(s2, q, i)
             /\ s2[i].next <= Len(Types[s2[i].type]) + 1
             /\ i # n =>
                  /\ s2[i].next <= Len(Types[s2[i].type])
                  /\ Types[s2[i].type][s2[i].next].kind = "type"
                  /\ Types[s2[i].type][s2[i].next].type = s2[i + 1].type
  <2>1. i \in 1 .. Len(s) /\ i # Len(s) /\ i + 1 \in 1 .. Len(s)
    BY <1>4
  <2>2. /\ p <= s[i].start /\ s[i].start <= s[i + 1].start /\ s[i + 1].start <= q
        /\ s[i].next > 1 => s[i].start < s[i + 1].start
        /\ s[i].next <= Len(Types[s[i].type])
        /\ Types[s[i].type][s[i].next].kind = "type"
        /\ Types[s[i].type][s[i].next].type = s[i + 1].type
    BY <2>1 DEF Nested, Reached
  <2>3. /\ s[i].next \in Nat /\ s[i].start \in Nat /\ s[i + 1].start \in Nat
        /\ Len(Types[s[i].type]) \in Nat
    BY <1>2, <2>1
  <2>4. CASE i = n
    <3>1. Reached(s2, q, i) = q
      BY <1>5, <2>4 DEF Reached
    <3>2. s[i + 1].start < q
      <4>1. s[i + 1].start # q
        BY <1>4, <2>4
      <4> QED
        BY <1>1, <2>2, <2>3, <4>1
    <3>3. s2[i].type = s[i].type /\ s2[i].start = s[i].start /\ s2[i].next = s[i].next + 1
      BY <1>5, <2>4
    <3>4. s[i].next + 1 <= Len(Types[s[i].type]) + 1
      BY <2>2, <2>3
    <3>5. s2[i].next <= Len(Types[s2[i].type]) + 1
      BY <3>3, <3>4
    <3>6. p <= s2[i].start /\ s2[i].start < q
      <4>1. p <= s[i].start /\ s[i].start < q
        BY <1>1, <2>2, <2>3, <3>2
      <4> QED
        BY <3>3, <4>1
    <3>7. s2[i].start <= q
      BY <1>1, <2>3, <3>3, <3>6
    <3>8. q <= q
      BY <1>1
    <3> QED
      BY <2>4, <3>1, <3>5, <3>6, <3>7, <3>8
  <2>5. CASE i # n
    <3>1. i + 1 \in 1 .. n
      BY <1>4, <2>5
    <3>2. /\ s2[i].type = s[i].type /\ s2[i].start = s[i].start /\ s2[i].next = s[i].next
          /\ s2[i + 1].type = s[i + 1].type /\ s2[i + 1].start = s[i + 1].start
      BY <1>5, <2>5, <3>1
    <3>3. Reached(s2, q, i) = s[i + 1].start
      BY <1>5, <2>5, <3>2 DEF Reached
    <3> QED
      BY <2>2, <2>3, <3>2, <3>3
  <2> QED
    BY <2>4, <2>5
<1>7. s2[1].type = t /\ s2[1].start = p
  <2>1. 1 \in 1 .. n
    BY <1>4
  <2> QED
    BY <1>1, <1>5, <2>1
<1> QED
  BY <1>1, <1>4, <1>5, <1>6, <1>7 DEF Nested

(***************************************************************************)
(* The cursor and the call.                                                *)
(***************************************************************************)
BlockOK == bytes \in [1 .. Size -> Byte] /\ pos \in 0 .. Size /\ atEof \in BOOLEAN

\* A call in progress, as its caller and its stack tell it.
InCall ==
  /\ call \in {"marshal", "demarshal"} /\ begun.call = call /\ returned = NULL
  /\ begun.type \in DOMAIN Types
  /\ Nested(stack, begun.type, begun.pos, pos)

NoCall ==
  /\ call = "none" /\ stack = <<>>
  /\ returned \in {NULL, Thrown} \cup 0 .. Size
  /\ returned \in Nat => begun.pos \in Nat /\ pos = begun.pos + returned

CallInv == BlockOK /\ (InCall \/ NoCall)

LEMMA SizesAre == Size \in Nat /\ NULL \notin Nat /\ Thrown \notin Nat
  BY TypeMarshalAssumption

LEMMA CallInvMeans == CallInv => TypeOK /\ Rewinds
<1> SUFFICES ASSUME CallInv PROVE TypeOK /\ Rewinds
  OBVIOUS
<1>1. CASE InCall
  <2> DEFINE s == stack
  <2>1. /\ s \in Seq(FrameSet) /\ Len(s) > 0 /\ begun.pos \in Nat /\ pos \in Nat
        /\ \A i \in 1 .. Len(s) :
             /\ begun.pos <= s[i].start /\ s[i].start <= Reached(s, pos, i)
             /\ Reached(s, pos, i) <= pos /\ s[i].next <= Len(Types[s[i].type]) + 1
    BY <1>1 DEF InCall, Nested
  <2>2. /\ Len(s) \in Nat /\ DOMAIN s = 1 .. Len(s) /\ s # <<>>
    BY <2>1, LenProperties, EmptySeq
  <2>3. \A i \in 1 .. Len(s) :
          /\ s[i].type \in DOMAIN Types /\ s[i].next \in Nat /\ s[i].next > 0
          /\ s[i].start \in Nat /\ Len(Types[s[i].type]) \in Nat
    BY <2>1, FramesAre
  <2>4. ASSUME NEW i \in DOMAIN stack
        PROVE  /\ stack[i].type \in DOMAIN Types
               /\ stack[i].next \in 1 .. Len(Types[stack[i].type]) + 1
               /\ stack[i].start \in begun.pos .. pos
    <3>1. i \in 1 .. Len(s)
      BY <2>2
    <3>2. s[i].start <= pos
      <4>1. i # Len(s) => i + 1 \in 1 .. Len(s)
        BY <2>2, <3>1
      <4>2. Reached(s, pos, i) \in Nat
        BY <2>1, <2>3, <3>1, <4>1 DEF Reached
      <4> QED
        BY <2>1, <2>3, <3>1, <4>2
    <3> QED
      BY <2>1, <2>3, <3>1, <3>2
  <2>5. call # "none" /\ call \in {"none", "marshal", "demarshal"} /\ returned = NULL
    BY <1>1 DEF InCall
  <2>6. returned \notin Nat
    BY <2>5, SizesAre
  <2>7. stack # <<>>
    BY <2>2
  <2> QED
    BY <2>4, <2>5, <2>6, <2>7 DEF TypeOK, Rewinds, CallInv, BlockOK
<1>2. CASE NoCall
  BY <1>2 DEF NoCall, TypeOK, Rewinds, CallInv, BlockOK
<1> QED
  BY <1>1, <1>2 DEF CallInv

LEMMA NullIs == NULL \in {NULL, Thrown} \cup 0 .. Size /\ NULL \notin Nat
  BY SizesAre

\* What the caller does between two calls.
LEMMA DirectKeeps ==
  ASSUME CallInv, Direct, BlockOK'
  PROVE  CallInv'
<1>1. call = "none" /\ NoCall
  BY DEF CallInv, InCall, Direct
<1>2. call' = "none" /\ stack' = <<>> /\ returned' = NULL
  BY <1>1 DEF Direct, NoCall
<1> QED
  BY <1>2, NullIs DEF CallInv, NoCall

LEMMA FirstByte == 0 \in Byte
  BY BaseIs DEF Byte

LEMMA Moves ==
  ASSUME BlockOK, NEW n \in Nat
  PROVE  pos + Least(n, Left) \in 0 .. Size
  BY SizesAre DEF BlockOK, Left, Least

LEMMA CallerKeeps ==
  ASSUME CallInv,
         \/ \E p \in Places : Seek(p)
         \/ \E b \in Noise : Fill(b)
         \/ \E n \in {1, Size} : Read(n) \/ Write(n, 0) \/ Extract(n)
  PROVE  CallInv' /\ Direct
<1>1. BlockOK
  BY DEF CallInv
<1>2. CASE \E p \in Places : Seek(p)
  <2>1. BlockOK'
    BY <1>1, <1>2, TypeMarshalAssumption DEF BlockOK, Seek, MoveTo
  <2> QED
    BY <1>2, <2>1, DirectKeeps DEF Seek
<1>3. CASE \E b \in Noise : Fill(b)
  <2>1. PICK b \in Noise : Fill(b)
    BY <1>3
  <2>2. b \in [1 .. Size -> Byte] /\ 0 \in 0 .. Size
    BY TypeMarshalAssumption
  <2>3. BlockOK'
    BY <2>1, <2>2 DEF BlockOK, Fill, MoveTo
  <2> QED
    BY <2>1, <2>3, DirectKeeps DEF Fill
<1>4. CASE \E n \in {1, Size} : Read(n) \/ Write(n, 0) \/ Extract(n)
  <2>1. PICK n \in {1, Size} : Read(n) \/ Write(n, 0) \/ Extract(n)
    BY <1>4
  <2>2. n \in Nat
    BY SizesAre
  <2>3. pos + Least(n, Left) \in 0 .. Size
    BY <1>1, <2>2, Moves
  <2>4. CASE Read(n)
    <3>1. BlockOK'
      BY <1>1, <2>3, <2>4 DEF BlockOK, Read
    <3> QED
      BY <2>4, <3>1, DirectKeeps DEF Read
  <2>5. CASE Write(n, 0)
    <3>1. bytes' \in [1 .. Size -> Byte]
      <4>1. bytes' = [i \in 1 .. Size |-> IF i \in pos + 1 .. pos + n THEN 0 ELSE bytes[i]]
        BY <2>5 DEF Write
      <4>2. \A i \in 1 .. Size : bytes[i] \in Byte
        BY <1>1 DEF BlockOK
      <4> QED
        BY <4>1, <4>2, FirstByte
    <3>2. BlockOK'
      BY <1>1, <2>3, <2>5, <3>1 DEF BlockOK, Write
    <3> QED
      BY <2>5, <3>2, DirectKeeps DEF Write
  <2>6. CASE Extract(n)
    <3>1. BlockOK'
      BY <1>1, <2>6 DEF BlockOK, Extract
    <3> QED
      BY <2>6, <3>1, DirectKeeps DEF Extract
  <2> QED
    BY <2>1, <2>4, <2>5, <2>6
<1> QED
  BY <1>2, <1>3, <1>4

LEMMA CallKeeps ==
  ASSUME CallInv, NEW which \in {"marshal", "demarshal"}, NEW t \in DOMAIN Types,
         Call(which, t)
  PROVE  CallInv' /\ InCall'
<1>1. BlockOK /\ pos \in Nat
  BY SizesAre DEF CallInv, BlockOK
<1>2. BlockOK'
  BY <1>1 DEF BlockOK, Call, block
<1>3. /\ call' = which /\ stack' = <<[type |-> t, next |-> 1, start |-> pos]>>
      /\ begun' = [call |-> which, type |-> t, pos |-> pos] /\ returned' = NULL
      /\ pos' = pos
  BY DEF Call, Frame, block
<1>4. Nested(stack', t, pos, pos')
  BY <1>1, <1>3, NestedStart
<1>5. begun'.call = which /\ begun'.type = t /\ begun'.pos = pos
  BY <1>3
<1>6. InCall'
  BY <1>3, <1>4, <1>5 DEF InCall
<1> QED
  BY <1>2, <1>6 DEF CallInv

\* The struct on top and its next member.
LEMMA TopIs ==
  ASSUME CallInv, call # "none"
  PROVE  /\ InCall /\ BlockOK /\ stack \in Seq(FrameSet) /\ Len(stack) \in Nat
         /\ Len(stack) > 0 /\ Top = stack[Len(stack)] /\ Top.type \in DOMAIN Types
         /\ Top.next \in Nat /\ Top.next > 0 /\ Top.start \in Nat
         /\ begun.pos \in Nat /\ pos \in Nat /\ begun.pos <= pos /\ pos <= Size
         /\ stack[1].start = begun.pos /\ stack[1].type = begun.type
         /\ begun.pos <= Top.start /\ Top.start <= pos
         /\ Top.next > 1 => Top.start < pos
         /\ Len(Types[Top.type]) \in Nat /\ Len(Types[Top.type]) > 0
         /\ More => Member \in Members
<1>1. InCall /\ BlockOK
  BY DEF CallInv, NoCall
<1>2. Nested(stack, begun.type, begun.pos, pos)
  BY <1>1 DEF InCall
<1>3. /\ stack \in Seq(FrameSet) /\ Len(stack) > 0 /\ begun.pos \in Nat /\ pos \in Nat
      /\ begun.pos <= pos /\ stack[1].type = begun.type /\ stack[1].start = begun.pos
  BY <1>2 DEF Nested
<1>4. Len(stack) \in Nat
  BY <1>3, LenProperties
<1>5. Len(stack) \in 1 .. Len(stack)
  BY <1>3, <1>4
<1>6. /\ begun.pos <= Top.start /\ Top.start <= pos
      /\ Top.next > 1 => Top.start < pos
  BY <1>2, <1>5 DEF Nested, Reached, Top
<1>7. Top.type \in DOMAIN Types /\ Top.next \in Nat /\ Top.next > 0 /\ Top.start \in Nat
  BY <1>3, <1>5, FramesAre DEF Top
<1>8. /\ Len(Types[Top.type]) \in Nat /\ Len(Types[Top.type]) > 0
      /\ \A i \in 1 .. Len(Types[Top.type]) : Types[Top.type][i] \in Members
  BY <1>7, TypesAre
<1>9. More => Member \in Members
  BY <1>7, <1>8 DEF More, Member
<1>10. pos <= Size
  BY <1>1, SizesAre DEF BlockOK
<1> QED
  BY <1>1, <1>3, <1>4, <1>6, <1>7, <1>8, <1>9, <1>10 DEF Top

\* A call that ends.
LEMMA FailsKeeps ==
  ASSUME CallInv, call # "none", Fails
  PROVE  CallInv'
<1>1. /\ BlockOK /\ begun.pos \in Nat /\ pos \in Nat /\ begun.pos <= pos /\ pos <= Size
      /\ stack[1].start = begun.pos
  BY TopIs
<1>2. /\ call' = "none" /\ stack' = <<>> /\ returned' = 0 /\ pos' = begun.pos
      /\ atEof' = FALSE /\ bytes' = bytes /\ begun' = begun
  BY <1>1 DEF Fails, Return, MoveTo
<1>3. BlockOK'
  <2>1. begun.pos \in 0 .. Size
    BY <1>1, SizesAre
  <2>2. bytes' \in [1 .. Size -> Byte]
    BY <1>1, <1>2 DEF BlockOK
  <2> QED
    BY <1>2, <2>1, <2>2 DEF BlockOK
<1>4. NoCall'
  <2>1. 0 \in 0 .. Size
    BY SizesAre
  <2>2. begun.pos = begun.pos + 0
    BY <1>1
  <2> QED
    BY <1>1, <1>2, <2>1, <2>2 DEF NoCall
<1> QED
  BY <1>3, <1>4 DEF CallInv

LEMMA ThrowsKeeps ==
  ASSUME CallInv, Throws
  PROVE  CallInv'
<1>1. BlockOK'
  BY DEF CallInv, BlockOK, Throws, block
<1>2. NoCall'
  BY SizesAre DEF NoCall, Throws, Return
<1> QED
  BY <1>1, <1>2 DEF CallInv

\* A member that is done.
LEMMA MemberKeeps ==
  ASSUME CallInv, call # "none", More, NEW n \in Nat, n > 0, n <= Left,
         bytes' \in [1 .. Size -> Byte], pos' = pos + n, atEof' \in BOOLEAN,
         NextMember, UNCHANGED <<call, begun, returned>>
  PROVE  CallInv' /\ Onward(stack, stack')
<1>1. /\ InCall /\ BlockOK /\ stack \in Seq(FrameSet) /\ Len(stack) > 0
      /\ pos \in Nat /\ pos <= Size
  BY TopIs
<1>2. BlockOK'
  <2>1. pos + n \in 0 .. Size
    BY <1>1, SizesAre DEF Left
  <2> QED
    BY <2>1 DEF BlockOK
<1>3. Onward(stack, stack')
  BY <1>1, OnwardIs DEF NextMember
<1>4. Nested(stack, begun.type, begun.pos, pos)
  BY <1>1 DEF InCall
<1>5. pos' \in Nat /\ pos < pos'
  BY <1>1
<1>6. Nested(stack', begun.type, begun.pos, pos')
  BY <1>3, <1>4, <1>5, NestedOnward DEF More, Top
<1>7. InCall'
  BY <1>1, <1>6 DEF InCall
<1> QED
  BY <1>2, <1>3, <1>7 DEF CallInv

LEMMA EnterKeeps ==
  ASSUME CallInv, Enter
  PROVE  CallInv' /\ Member.type \in DOMAIN Types
<1>1. call # "none" /\ More /\ Member.kind = "type"
  BY DEF Enter
<1>2. InCall /\ BlockOK /\ Member \in Members
  BY <1>1, TopIs
<1>3. Member.type \in DOMAIN Types
  BY <1>1, <1>2, MembersAre
<1>4. /\ stack' = Append(stack, [type |-> Member.type, next |-> 1, start |-> pos])
      /\ UNCHANGED <<bytes, pos, atEof, call, begun, returned>>
  BY DEF Enter, Frame, block
<1>5. Nested(stack, begun.type, begun.pos, pos)
  BY <1>2 DEF InCall
<1>6. Nested(Append(stack, [type |-> Member.type, next |-> 1, start |-> pos]),
             begun.type, begun.pos, pos)
  BY <1>1, <1>3, <1>5, NestedEnter DEF More, Top, Member
<1>7. InCall'
  BY <1>2, <1>4, <1>6 DEF InCall
<1>8. BlockOK'
  BY <1>2, <1>4 DEF BlockOK
<1> QED
  BY <1>3, <1>7, <1>8 DEF CallInv

LEMMA PutKeeps ==
  ASSUME BlockOK, NEW out \in Seq(Byte), Put(out)
  PROVE  bytes' \in [1 .. Size -> Byte]
<1>1. /\ pos \in Nat /\ Len(out) \in Nat /\ \A i \in 1 .. Len(out) : out[i] \in Byte
      /\ \A i \in 1 .. Size : bytes[i] \in Byte
  BY LenProperties, ElementOfSeq, SizesAre DEF BlockOK
<1>2. bytes' = [i \in 1 .. Size |->
                  IF i \in pos + 1 .. pos + Len(out) THEN out[i - pos] ELSE bytes[i]]
  BY DEF Put
<1>3. ASSUME NEW i \in 1 .. Size
      PROVE  (IF i \in pos + 1 .. pos + Len(out) THEN out[i - pos] ELSE bytes[i]) \in Byte
  <2>1. CASE i \in pos + 1 .. pos + Len(out)
    <3>1. i - pos \in 1 .. Len(out)
      BY <1>1, <2>1
    <3> QED
      BY <1>1, <2>1, <3>1
  <2> QED
    BY <1>1, <2>1
<1> QED
  BY <1>2, <1>3

\* The three ways marshal() of a member ends.  It never writes nothing.
MarshalEnds(v) ==
  \/ Throws
  \/ /\ Legal(Member, v) /\ ~HasRoom(Marshalled(Member, v)) /\ Fails
  \/ /\ Legal(Member, v) /\ HasRoom(Marshalled(Member, v)) /\ Put(Marshalled(Member, v))
     /\ pos' = pos + Len(Marshalled(Member, v)) /\ atEof' = (Member.kind = "bool" /\ atEof)
     /\ Did(Member, v) /\ NextMember /\ UNCHANGED <<call, begun, returned, written>>

LEMMA MarshalCases ==
  ASSUME CallInv, Marshal
  PROVE  /\ call = "marshal" /\ More /\ Member \in Members /\ IsMarshaller(Member)
         /\ \E v : IsValue(Member, v) /\ MarshalEnds(v)
<1>1. call = "marshal" /\ More /\ Member.kind # "type"
  BY DEF Marshal
<1>2. Member \in Members /\ BlockOK
  BY <1>1, TopIs
<1>3. IsMarshaller(Member) /\ \A v \in Sample(Member) : IsValue(Member, v)
  BY <1>1, <1>2, MembersAre
<1>4. PICK v \in Sample(Member) : MarshalMember(v)
  BY DEF Marshal
<1>5. IsValue(Member, v)
  BY <1>3, <1>4
<1>6. Legal(Member, v) => Marshalled(Member, v) # <<>>
  <2> SUFFICES ASSUME Legal(Member, v), Marshalled(Member, v) = <<>> PROVE FALSE
    OBVIOUS
  <2>1. Len(Marshalled(Member, v)) > 0
    BY <1>3, <1>5, MarshalledIs
  <2>2. Len(Marshalled(Member, v)) = 0
    OBVIOUS
  <2> QED
    BY <2>1, <2>2
<1>7. MarshalEnds(v)
  BY <1>4, <1>6 DEF MarshalMember, MarshalEnds
<1> QED
  BY <1>1, <1>2, <1>3, <1>5, <1>7

LEMMA MarshalKeeps ==
  ASSUME CallInv, Marshal
  PROVE  CallInv'
<1>1. call # "none" /\ More /\ IsMarshaller(Member)
  BY MarshalCases
<1>2. PICK v : IsValue(Member, v) /\ MarshalEnds(v)
  BY MarshalCases
<1>3. CASE Throws
  BY <1>3, ThrowsKeeps
<1>4. CASE Fails
  BY <1>1, <1>4, FailsKeeps
<1>5. CASE /\ Legal(Member, v) /\ HasRoom(Marshalled(Member, v)) /\ Put(Marshalled(Member, v))
           /\ pos' = pos + Len(Marshalled(Member, v))
           /\ atEof' = (Member.kind = "bool" /\ atEof)
           /\ Did(Member, v) /\ NextMember /\ UNCHANGED <<call, begun, returned, written>>
  <2> DEFINE out == Marshalled(Member, v)
  <2>1. out \in Seq(Byte) /\ Len(out) > 0
    BY <1>1, <1>2, <1>5, MarshalledIs
  <2>2. BlockOK
    BY <1>1, TopIs
  <2>3. Put(out) /\ Len(out) <= Left /\ Left \in Int
    BY <1>5, <2>2, SizesAre DEF HasRoom, BlockOK, Left
  <2>4. pos' = pos + Len(out)
    BY <1>5
  <2> HIDE DEF out
  <2>5. bytes' \in [1 .. Size -> Byte]
    BY <2>1, <2>2, <2>3, PutKeeps
  <2>6. Len(out) \in Nat
    BY <2>1, LenProperties
  <2>7. atEof' \in BOOLEAN
    BY <1>5
  <2> QED
    BY <1>1, <1>5, <2>1, <2>3, <2>4, <2>5, <2>6, <2>7, MemberKeeps
<1> QED
  BY <1>2, <1>3, <1>4, <1>5 DEF MarshalEnds

LEMMA UnreadIs ==
  ASSUME BlockOK
  PROVE  /\ Unread \in Seq(Byte) /\ Len(Unread) = Left /\ Left \in Nat
         /\ \A i \in 1 .. Left : Unread[i] = bytes[pos + i]
<1>1. pos \in Nat /\ pos <= Size /\ Size \in Nat /\ \A i \in 1 .. Size : bytes[i] \in Byte
  BY SizesAre DEF BlockOK
<1>2. pos + 1 \in Int /\ Size \in Int /\ \A i \in pos + 1 .. Size : bytes[i] \in Byte
  BY <1>1
<1>3. /\ Unread \in Seq(Byte)
      /\ Len(Unread) = IF pos + 1 <= Size THEN Size - (pos + 1) + 1 ELSE 0
      /\ \A i \in 1 .. Size - (pos + 1) + 1 : Unread[i] = bytes[(pos + 1) + i - 1]
  BY <1>2, SubSeqProperties DEF Unread
<1>4. Left = Size - pos /\ Left \in Nat /\ Left = Size - (pos + 1) + 1
  BY <1>1 DEF Left
<1>5. Len(Unread) = Left
  BY <1>1, <1>3, <1>4
<1>6. ASSUME NEW i \in 1 .. Left PROVE Unread[i] = bytes[pos + i]
  <2>1. i \in 1 .. Size - (pos + 1) + 1 /\ (pos + 1) + i - 1 = pos + i
    BY <1>1, <1>4
  <2> QED
    BY <1>3, <2>1
<1> QED
  BY <1>3, <1>4, <1>5, <1>6

\* The three ways demarshal() of a member ends.
Took == Complete(Member, Unread) /\ Accepts(Member, Unread) /\ Taken(Member, Unread) > 0

DemarshalEnds ==
  \/ Left >= Bytes(Member) /\ ~Accepts(Member, Unread) /\ Throws
  \/ ~(Complete(Member, Unread) /\ Taken(Member, Unread) > 0) /\ Fails
  \/ /\ Took /\ pos' = pos + Taken(Member, Unread)
     /\ atEof' = (Member.kind = "bool" /\ atEof)
     /\ Did(Member, Demarshalled(Member, Unread)) /\ NextMember
     /\ UNCHANGED <<bytes, call, begun, returned, written>>

LEMMA DemarshalCases ==
  ASSUME CallInv, DemarshalMember
  PROVE  /\ call = "demarshal" /\ More /\ Member \in Members /\ IsMarshaller(Member)
         /\ DemarshalEnds
<1>1. call = "demarshal" /\ More /\ Member.kind # "type"
  BY DEF DemarshalMember
<1>2. Member \in Members
  BY <1>1, TopIs
<1>3. IsMarshaller(Member)
  BY <1>1, <1>2, MembersAre
<1>4. DemarshalEnds
  BY DEF DemarshalMember, DemarshalEnds, Took
<1> QED
  BY <1>1, <1>2, <1>3, <1>4

LEMMA DemarshalKeeps ==
  ASSUME CallInv, DemarshalMember
  PROVE  CallInv'
<1>1. call # "none" /\ More /\ IsMarshaller(Member) /\ DemarshalEnds
  BY DemarshalCases
<1>2. CASE Throws
  BY <1>2, ThrowsKeeps
<1>3. CASE Fails
  BY <1>1, <1>3, FailsKeeps
<1>4. CASE /\ Took /\ pos' = pos + Taken(Member, Unread)
           /\ atEof' = (Member.kind = "bool" /\ atEof)
           /\ Did(Member, Demarshalled(Member, Unread)) /\ NextMember
           /\ UNCHANGED <<bytes, call, begun, returned, written>>
  <2>1. BlockOK
    BY <1>1, TopIs
  <2>2. Unread \in Seq(Byte) /\ Len(Unread) = Left
    BY <2>1, UnreadIs
  <2>3. Taken(Member, Unread) \in Nat /\ Taken(Member, Unread) <= Left
    BY <1>1, <1>4, <2>2, TakenIs DEF Took
  <2>4. bytes' \in [1 .. Size -> Byte] /\ atEof' \in BOOLEAN
    BY <1>4, <2>1 DEF BlockOK
  <2> QED
    BY <1>1, <1>4, <2>3, <2>4, MemberKeeps DEF Took
<1> QED
  BY <1>1, <1>2, <1>3, <1>4 DEF DemarshalEnds

\* The two ways a struct ends.  It never takes nothing.
LeaveEnds ==
  \/ /\ Len(stack) = 1 /\ Return(pos - Top.start)
     /\ written' = IF call = "marshal"
                     THEN [type |-> Top.type, start |-> Top.start,
                           size |-> pos - Top.start, members |-> members]
                     ELSE written
     /\ UNCHANGED <<block, members, begun>>
  \/ /\ Len(stack) > 1 /\ pos # Top.start
     /\ stack' = [Front(stack) EXCEPT ![Len(stack) - 1].next = @ + 1]
     /\ UNCHANGED <<block, call, members, begun, returned, written>>

LEMMA LeaveCases ==
  ASSUME CallInv, Leave
  PROVE  call # "none" /\ ~More /\ LeaveEnds
<1>1. call # "none" /\ ~More
  BY DEF Leave
<1>2. pos # Top.start
  <2>1. /\ Top.next \in Nat /\ Len(Types[Top.type]) \in Nat /\ Len(Types[Top.type]) > 0
        /\ Top.next > 1 => Top.start < pos
        /\ Top.start \in Nat /\ pos \in Nat
    BY <1>1, TopIs
  <2>2. Top.next > 1
    BY <1>1, <2>1 DEF More
  <2> QED
    BY <2>1, <2>2
<1>3. LeaveEnds
  BY <1>2 DEF Leave, LeaveEnds
<1> QED
  BY <1>1, <1>3

LEMMA LeaveKeeps ==
  ASSUME CallInv, Leave
  PROVE  CallInv'
<1>1. call # "none" /\ ~More /\ LeaveEnds
  BY LeaveCases
<1>2. /\ InCall /\ BlockOK /\ stack \in Seq(FrameSet) /\ Len(stack) \in Nat
      /\ Top = stack[Len(stack)] /\ Top.start \in Nat
      /\ begun.pos \in Nat /\ pos \in Nat /\ begun.pos <= pos /\ pos <= Size
      /\ stack[1].start = begun.pos
  BY <1>1, TopIs
<1>3. CASE /\ Len(stack) = 1 /\ Return(pos - Top.start)
           /\ UNCHANGED <<block, members, begun>>
  <2>1. Top.start = begun.pos
    BY <1>2, <1>3
  <2>2. pos - Top.start \in 0 .. Size /\ pos = begun.pos + (pos - Top.start)
    BY <1>2, <2>1, SizesAre
  <2>3. NoCall'
    BY <1>2, <1>3, <2>2 DEF NoCall, Return, block
  <2>4. BlockOK'
    BY <1>2, <1>3 DEF BlockOK, block
  <2> QED
    BY <2>3, <2>4 DEF CallInv
<1>4. CASE /\ Len(stack) > 1 /\ pos # Top.start
           /\ stack' = [Front(stack) EXCEPT ![Len(stack) - 1].next = @ + 1]
           /\ UNCHANGED <<block, call, members, begun, returned, written>>
  <2>1. Nested(stack, begun.type, begun.pos, pos)
    BY <1>2 DEF InCall
  <2>2. /\ Front(stack) \in Seq(FrameSet) /\ Len(Front(stack)) = Len(stack) - 1
    BY <1>2, <1>4, FrontIs
  <2>3. Len(Front(stack)) > 0
    BY <1>2, <1>4, <2>2
  <2>4. Onward(Front(stack), stack')
    BY <1>4, <2>2, <2>3, OnwardIs
  <2>5. Nested(stack', begun.type, begun.pos, pos)
    BY <1>2, <1>4, <2>1, <2>4, NestedLeave
  <2>6. InCall'
    BY <1>2, <1>4, <2>5 DEF InCall, block
  <2>7. BlockOK'
    BY <1>2, <1>4 DEF BlockOK, block
  <2> QED
    BY <2>6, <2>7 DEF CallInv
<1> QED
  BY <1>1, <1>3, <1>4 DEF LeaveEnds

LEMMA CallInvInit == Init => CallInv
<1> SUFFICES ASSUME Init PROVE CallInv
  OBVIOUS
<1>1. 0 \in 0 .. Size /\ \A b \in Noise : b \in [1 .. Size -> Byte]
  BY TypeMarshalAssumption
<1>2. BlockOK
  BY <1>1 DEF Init, BlockOK
<1>3. NoCall
  BY NullIs DEF Init, NoCall
<1> QED
  BY <1>2, <1>3 DEF CallInv

LEMMA CallInvNext == CallInv /\ [Next]_vars => CallInv'
<1> SUFFICES ASSUME CallInv, [Next]_vars PROVE CallInv'
  OBVIOUS
<1>1. ASSUME NEW which \in {"marshal", "demarshal"}, NEW t \in DOMAIN Types, Call(which, t)
      PROVE  CallInv'
  BY <1>1, CallKeeps
<1>2. CASE UNCHANGED vars
  BY <1>2 DEF CallInv, BlockOK, InCall, NoCall, vars, block
<1> QED
  BY <1>1, <1>2, CallerKeeps, MarshalKeeps, DemarshalKeeps, EnterKeeps, LeaveKeeps DEF Next

\* In every reachable state the cursor is in the block, whatever was in it and
\* whatever sizes the caller asks for, and the stack of a call describes it.
THEOREM TypeCorrect == Spec => []TypeOK
<1>1. CallInv => TypeOK
  BY CallInvMeans
<1> QED
  BY <1>1, CallInvInit, CallInvNext, PTL DEF Spec

\* A failing call leaves the cursor where it began, a successful one moves it by
\* what it returns: whatever the types, and however deep the member that fails.
THEOREM RewindsHolds == Spec => []Rewinds
<1>1. CallInv => Rewinds
  BY CallInvMeans
<1> QED
  BY <1>1, CallInvInit, CallInvNext, PTL DEF Spec

(***************************************************************************)
(* The sizes that resolve() adds up.                                       *)
(***************************************************************************)
SizeIn(f, m) == IF m.kind = "type" THEN f[m.type] ELSE MaxMarshalledSize(m)

\* mSize of type t after each of its members, if f has those of the others.
PartSums(f, t) ==
  CHOOSE r : r = [i \in 0 .. Len(Types[t]) |->
                    IF i = 0 THEN 0 ELSE r[i - 1] + SizeIn(f, Types[t][i])]

Total(f, t) == PartSums(f, t)[Len(Types[t])]

LEMMA MaxSizeOfIs == MaxSizeOf = CHOOSE f : f = [t \in DOMAIN Types |-> Total(f, t)]
  BY DEF MaxSizeOf, Total, PartSums, SizeIn

LEMMA PartSumsAre ==
  ASSUME NEW f, NEW t \in DOMAIN Types,
         \A i \in 1 .. Len(Types[t]) : SizeIn(f, Types[t][i]) \in Nat
  PROVE  /\ PartSums(f, t) \in [0 .. Len(Types[t]) -> Nat] /\ PartSums(f, t)[0] = 0
         /\ \A i \in 1 .. Len(Types[t]) :
              PartSums(f, t)[i] = PartSums(f, t)[i - 1] + SizeIn(f, Types[t][i])
<1> DEFINE n == Len(Types[t])
           in == [i \in 1 .. n |-> SizeIn(f, Types[t][i])]
           F == [p \in Nat \X Nat |-> p[2] + (IF p[1] \in 1 .. n THEN in[p[1]] ELSE 0)]
           G(r) == [i \in 0 .. n |-> IF i = 0 THEN 0 ELSE r[i - 1] + SizeIn(f, Types[t][i])]
           ret == CHOOSE r : r = G(r)
<1>1. n \in Nat
  BY TypesAre
<1>2. ret = PartSums(f, t)
  BY DEF PartSums
<1>3. \A i \in 1 .. n : in[i] = SizeIn(f, Types[t][i]) /\ in[i] \in Nat
  OBVIOUS
<1> HIDE DEF in
<1>4. /\ F \in [Nat \X Nat -> Nat]
      /\ \A k, x \in Nat : F[<<k, x>>] = x + (IF k \in 1 .. n THEN in[k] ELSE 0)
  <2>1. \A k \in Nat : (IF k \in 1 .. n THEN in[k] ELSE 0) \in Nat
    BY <1>3
  <2>2. \A x, y \in Nat : x + y \in Nat
    OBVIOUS
  <2> HIDE DEF n
  <2> QED
    BY <2>1, <2>2
<1> HIDE DEF F
<1>5. PICK h : Unrolls(h, Nat, 0, F, n)
  BY <1>1, <1>4, Recursion
<1>6. ASSUME NEW i \in 1 .. n
      PROVE  i \in Nat /\ i - 1 \in 0 .. n /\ i \in 0 .. n /\ i # 0
  BY <1>1
<1>7. /\ h \in [0 .. n -> Nat] /\ h[0] = 0
      /\ \A i \in 1 .. n : h[i] = h[i - 1] + SizeIn(f, Types[t][i])
  <2> HIDE DEF n
  <2>1. h \in [0 .. n -> Nat] /\ h[0] = 0 /\ \A i \in 1 .. n : h[i] = F[<<i, h[i - 1]>>]
    BY <1>5 DEF Unrolls
  <2>2. ASSUME NEW i \in 1 .. n PROVE h[i] = h[i - 1] + SizeIn(f, Types[t][i])
    <3>1. h[i - 1] \in Nat /\ i \in Nat
      BY <1>6, <2>1
    <3>2. F[<<i, h[i - 1]>>] = h[i - 1] + in[i]
      BY <1>4, <3>1
    <3> QED
      BY <1>3, <2>1, <3>2
  <2> QED
    BY <2>1, <2>2
<1>8. h = G(h)
  <2>1. \A i \in 0 .. n : h[i] = IF i = 0 THEN 0 ELSE h[i - 1] + SizeIn(f, Types[t][i])
    <3> HIDE DEF n
    <3>1. \A i \in 0 .. n : i = 0 \/ i \in 1 .. n
      BY <1>1
    <3> QED
      BY <1>6, <1>7, <3>1
  <2> HIDE DEF n
  <2> QED
    BY <1>7, <2>1
<1>9. ret = G(ret)
  <2> HIDE DEF G
  <2> QED
    BY <1>8
<1> HIDE DEF ret
<1>10. /\ ret[0] = 0 /\ \A i \in 1 .. n : ret[i] = ret[i - 1] + SizeIn(f, Types[t][i])
       /\ DOMAIN ret = 0 .. n /\ ret = [i \in 0 .. n |-> ret[i]]
  <2> HIDE DEF n
  <2>1. 0 \in 0 .. n
    BY <1>1
  <2> QED
    BY <1>6, <1>9, <2>1
<1>11. \A i \in 0 .. n : ret[i] \in Nat
  <2>1. \A i \in 1 .. n : ret[i - 1] \in Nat => ret[i] = F[<<i, ret[i - 1]>>]
    <3> HIDE DEF n
    <3> SUFFICES ASSUME NEW i \in 1 .. n, ret[i - 1] \in Nat PROVE ret[i] = F[<<i, ret[i - 1]>>]
      OBVIOUS
    <3>1. F[<<i, ret[i - 1]>>] = ret[i - 1] + in[i]
      BY <1>4, <1>6
    <3> QED
      BY <1>3, <1>10, <3>1
  <2> DEFINE S == Nat
             x == 0
  <2>2. x \in S /\ F \in [Nat \X S -> S]
    BY <1>4
  <2>3. Continues(ret, S, x, F, n)
    <3> HIDE DEF n
    <3> QED
      BY <1>10, <2>1 DEF Continues
  <2> HIDE DEF S, x, n
  <2>4. \A i \in 0 .. n : ret[i] \in S
    BY ONLY <1>1, <2>2, <2>3, RecursionStays
  <2> QED
    BY <2>4 DEF S
<1>12. ret \in [0 .. n -> Nat]
  <2> HIDE DEF n
  <2> QED
    BY <1>10, <1>11
<1> QED
  BY <1>2, <1>10, <1>12

\* The sum depends only on the sizes of the members.
LEMMA TotalSame ==
  ASSUME NEW f, NEW g, NEW t \in DOMAIN Types,
         \A i \in 1 .. Len(Types[t]) :
           SizeIn(f, Types[t][i]) \in Nat /\ SizeIn(g, Types[t][i]) = SizeIn(f, Types[t][i])
  PROVE  Total(f, t) = Total(g, t) /\ Total(f, t) \in Nat
<1> DEFINE n == Len(Types[t])
           u == PartSums(f, t)
           w == PartSums(g, t)
           T == {k \in Nat : k <= n => u[k] = w[k]}
<1>1. n \in Nat
  BY TypesAre
<1>2. /\ u \in [0 .. n -> Nat] /\ u[0] = 0
      /\ \A i \in 1 .. n : u[i] = u[i - 1] + SizeIn(f, Types[t][i])
  BY PartSumsAre
<1>3. /\ w \in [0 .. n -> Nat] /\ w[0] = 0
      /\ \A i \in 1 .. n : w[i] = w[i - 1] + SizeIn(g, Types[t][i])
  <2>1. \A i \in 1 .. Len(Types[t]) : SizeIn(g, Types[t][i]) \in Nat
    OBVIOUS
  <2> QED
    BY <2>1, PartSumsAre
<1>4. \A i \in 1 .. n : SizeIn(g, Types[t][i]) = SizeIn(f, Types[t][i])
  OBVIOUS
<1>5. Total(f, t) = u[n] /\ Total(g, t) = w[n]
  BY DEF Total
<1> HIDE DEF n, u, w
<1>6. 0 \in T
  BY <1>2, <1>3
<1>7. ASSUME NEW k \in Nat, k \in T PROVE k + 1 \in T
  <2> SUFFICES ASSUME k + 1 <= n PROVE u[k + 1] = w[k + 1]
    OBVIOUS
  <2>1. k + 1 \in 1 .. n /\ (k + 1) - 1 = k /\ k <= n
    BY <1>1
  <2>2. u[k] = w[k]
    BY <1>7, <2>1
  <2> QED
    BY <1>2, <1>3, <1>4, <2>1, <2>2
<1> HIDE DEF T
<1>8. \A k \in Nat : k \in T
  BY <1>6, <1>7, Induction
<1>9. u[n] = w[n]
  BY <1>1, <1>8 DEF T
<1>10. u[n] \in Nat
  BY <1>1, <1>2
<1> QED
  BY <1>5, <1>9, <1>10

LEMMA SizeInNat ==
  ASSUME NEW f, NEW m \in Members, m.kind = "type" => f[m.type] \in Nat
  PROVE  SizeIn(f, m) \in Nat
<1>1. CASE m.kind = "type"
  BY <1>1 DEF SizeIn
<1>2. CASE m.kind # "type"
  <2>1. IsMarshaller(m)
    BY <1>2, MembersAre
  <2>2. Bytes(m) \in Nat /\ (m.kind = "string" => m.maxSize \in Nat)
    BY <2>1, BytesIs, Kinds
  <2>3. MaxMarshalledSize(m) \in Nat
    BY <2>2 DEF MaxMarshalledSize
  <2> QED
    BY <1>2, <2>3 DEF SizeIn
<1> QED
  BY <1>1, <1>2

\* rank[t] is above the ranks of the types that t is made of.
Ranks(rank) ==
  /\ rank \in [DOMAIN Types -> 0 .. Cardinality(DOMAIN Types)]
  /\ \A t \in DOMAIN Types : \A i \in DOMAIN Types[t] :
       Types[t][i].kind = "type" => rank[Types[t][i].type] < rank[t]

\* What f and g have for the types of lower rank decides what they make of t.
LEMMA LowerRanks ==
  ASSUME NEW rank, Ranks(rank), NEW k \in Nat, NEW f, NEW g,
         \A u \in DOMAIN Types : rank[u] < k => f[u] \in Nat /\ g[u] = f[u],
         NEW t \in DOMAIN Types, rank[t] < k + 1
  PROVE  Total(f, t) = Total(g, t) /\ Total(f, t) \in Nat
<1>1. ASSUME NEW i \in 1 .. Len(Types[t])
      PROVE  SizeIn(f, Types[t][i]) \in Nat /\ SizeIn(g, Types[t][i]) = SizeIn(f, Types[t][i])
  <2> DEFINE m == Types[t][i]
  <2>1. m \in Members /\ i \in DOMAIN Types[t]
    BY TypesAre
  <2>2. ASSUME m.kind = "type" PROVE f[m.type] \in Nat /\ g[m.type] = f[m.type]
    <3>1. m.type \in DOMAIN Types
      BY <2>1, <2>2, MembersAre
    <3>2. rank[m.type] < rank[t] /\ rank[m.type] \in Nat /\ rank[t] \in Nat
      <4>1. rank[m.type] < rank[t]
        BY <2>1, <2>2 DEF Ranks
      <4>2. Cardinality(DOMAIN Types) \in Nat
        BY TypeMarshalAssumption, FS_CardinalityType
      <4> QED
        BY <3>1, <4>1, <4>2 DEF Ranks
    <3>3. rank[m.type] < k
      BY <3>2
    <3> QED
      BY <3>1, <3>3
  <2> HIDE DEF m
  <2>3. SizeIn(f, m) \in Nat
    BY <2>1, <2>2, SizeInNat
  <2>4. SizeIn(g, m) = SizeIn(f, m)
    BY <2>2 DEF SizeIn
  <2> QED
    BY <2>3, <2>4 DEF m
<1> QED
  BY <1>1, TotalSame

\* The sizes exist, since no type is a part of itself.
LEMMA MaxSizesAre ==
  /\ MaxSizeOf \in [DOMAIN Types -> Nat]
  /\ \A t \in DOMAIN Types : MaxSizeOf[t] = Total(MaxSizeOf, t)
<1> DEFINE D == DOMAIN Types
           S == [D -> Nat]
           c == Cardinality(D)
           x == [t \in D |-> 0]
           Step(f) == [t \in D |-> IF Total(f, t) \in Nat THEN Total(f, t) ELSE 0]
           F == [p \in Nat \X S |-> Step(p[2])]
           G(f) == [t \in D |-> Total(f, t)]
<1>1. PICK rank : Ranks(rank)
  BY TypeMarshalAssumption DEF Ranks
<1>2. c \in Nat /\ \A t \in D : rank[t] \in Nat /\ rank[t] <= c
  <2>1. c \in Nat
    BY TypeMarshalAssumption, FS_CardinalityType
  <2>2. \A t \in D : rank[t] \in 0 .. c
    BY <1>1 DEF Ranks
  <2> HIDE DEF D, c
  <2> QED
    BY <2>1, <2>2
<1>3. x \in S /\ F \in [Nat \X S -> S] /\ \A k \in Nat, f \in S : F[<<k, f>>] = Step(f)
  <2>1. \A f : Step(f) \in S
    OBVIOUS
  <2> HIDE DEF Step, S
  <2>2. F \in [Nat \X S -> S] /\ \A k \in Nat, f \in S : F[<<k, f>>] = Step(f)
    BY <2>1
  <2> QED
    BY <2>2 DEF S
<1>4. \A f : \A t \in D : Step(f)[t] = IF Total(f, t) \in Nat THEN Total(f, t) ELSE 0
  OBVIOUS
<1>5. \A f \in S : \A t \in D : f[t] \in Nat
  OBVIOUS
<1>6. \A f, g \in S : (\A t \in D : f[t] = g[t]) => f = g
  OBVIOUS
<1>7. D = DOMAIN Types
  OBVIOUS
<1> HIDE DEF F, Step, S, D, c, x
<1>8. PICK h : Unrolls(h, S, x, F, c + 2)
  <2>1. c + 2 \in Nat
    BY <1>2
  <2>2. x \in S /\ F \in [Nat \X S -> S]
    BY <1>3
  <2> QED
    BY <2>1, <2>2, Recursion
<1>9. \A k \in 0 .. c + 2 : h[k] \in S
  BY <1>8 DEF Unrolls
<1>10. ASSUME NEW k \in 1 .. c + 2 PROVE h[k] = Step(h[k - 1])
  <2>1. k \in Nat /\ k - 1 \in 0 .. c + 2
    BY <1>2
  <2>2. h[k] = F[<<k, h[k - 1]>>]
    BY <1>8 DEF Unrolls
  <2>3. h[k - 1] \in S
    BY <1>9, <2>1
  <2> QED
    BY <1>3, <2>1, <2>2, <2>3
<1> DEFINE T == {k \in Nat : k <= c + 1 => \A t \in D : rank[t] < k => h[k + 1][t] = h[k][t]}
<1>11. 0 \in T
  BY <1>2
<1>12. ASSUME NEW k \in Nat, k \in T PROVE k + 1 \in T
  <2> SUFFICES ASSUME k + 1 <= c + 1, NEW t \in D, rank[t] < k + 1
               PROVE  h[(k + 1) + 1][t] = h[k + 1][t]
    OBVIOUS
  <2>1. /\ k \in 0 .. c + 2 /\ k + 1 \in 1 .. c + 2 /\ (k + 1) + 1 \in 1 .. c + 2
        /\ (k + 1) - 1 = k /\ ((k + 1) + 1) - 1 = k + 1 /\ k + 1 \in 0 .. c + 2 /\ k <= c + 1
    BY <1>2
  <2>2. h[k + 1] = Step(h[k]) /\ h[(k + 1) + 1] = Step(h[k + 1])
    BY <1>10, <2>1
  <2>3. \A u \in DOMAIN Types : rank[u] < k => h[k][u] \in Nat /\ h[k + 1][u] = h[k][u]
    <3>1. \A u \in D : rank[u] < k => h[k + 1][u] = h[k][u]
      BY <1>12, <2>1
    <3>2. \A u \in D : h[k][u] \in Nat
      BY <1>5, <1>9, <2>1
    <3> QED
      BY <1>7, <3>1, <3>2
  <2>4. Total(h[k], t) = Total(h[k + 1], t) /\ Total(h[k], t) \in Nat
    <3> DEFINE a == h[k]
               b == h[k + 1]
    <3>1. \A u \in DOMAIN Types : rank[u] < k => a[u] \in Nat /\ b[u] = a[u]
      BY <2>3
    <3> HIDE DEF a, b
    <3>2. t \in DOMAIN Types /\ rank[t] < k + 1
      BY <1>7
    <3>3. Total(a, t) = Total(b, t) /\ Total(a, t) \in Nat
      BY ONLY <1>1, <3>1, <3>2, k \in Nat, LowerRanks
    <3> QED
      BY <3>3 DEF a, b
  <2> QED
    BY <1>4, <2>2, <2>4
<1> HIDE DEF T
<1>13. \A k \in Nat : k \in T
  BY <1>11, <1>12, Induction
<1> DEFINE f == h[c + 1]
<1>14. f = G(f)
  <2>1. /\ c + 1 \in T /\ c + 1 \in Nat /\ c + 1 \in 0 .. c + 2 /\ c + 2 \in 1 .. c + 2
        /\ (c + 1) + 1 = c + 2 /\ (c + 2) - 1 = c + 1
    BY <1>2, <1>13
  <2>2. \A t \in D : h[c + 2][t] = h[c + 1][t]
    BY <1>2, <2>1 DEF T
  <2>3. f \in S /\ h[c + 2] = Step(f)
    BY <1>9, <1>10, <2>1
  <2>4. ASSUME NEW t \in D PROVE f[t] = Total(f, t)
    <3>1. \A u \in DOMAIN Types : rank[u] < c + 1 => f[u] \in Nat /\ f[u] = f[u]
      BY <1>5, <1>7, <2>3
    <3>2. rank[t] < (c + 1) + 1
      BY <1>2
    <3> HIDE DEF f
    <3>3. Total(f, t) \in Nat
      BY <1>1, <1>7, <2>1, <3>1, <3>2, LowerRanks
    <3>4. h[c + 2][t] = f[t]
      BY <2>2 DEF f
    <3> QED
      BY <1>4, <2>3, <3>3, <3>4
  <2>5. f = [t \in D |-> f[t]]
    BY <2>3 DEF S
  <2> HIDE DEF f
  <2> QED
    BY <2>4, <2>5
<1> DEFINE g == MaxSizeOf
<1>15. g = G(g)
  <2>1. MaxSizeOf = CHOOSE e : e = G(e)
    BY MaxSizeOfIs DEF D
  <2> HIDE DEF G, f
  <2> QED
    BY <1>14, <2>1
<1>16. \A t \in D : g[t] = Total(g, t)
  BY <1>15
<1> DEFINE U == {k \in Nat : \A t \in D : rank[t] < k => g[t] \in Nat}
<1>17. 0 \in U
  BY <1>2
<1>18. ASSUME NEW k \in Nat, k \in U PROVE k + 1 \in U
  <2> SUFFICES ASSUME NEW t \in D, rank[t] < k + 1 PROVE g[t] \in Nat
    OBVIOUS
  <2>1. \A u \in DOMAIN Types : rank[u] < k => g[u] \in Nat /\ g[u] = g[u]
    BY <1>7, <1>18
  <2> HIDE DEF g
  <2>2. Total(g, t) \in Nat
    BY <1>1, <1>7, <2>1, LowerRanks
  <2> QED
    BY <1>16, <2>2
<1> HIDE DEF U
<1>19. \A k \in Nat : k \in U
  BY <1>17, <1>18, Induction
<1>20. \A t \in D : g[t] \in Nat
  <2>1. c + 1 \in U
    BY <1>2, <1>19
  <2> QED
    BY <1>2, <2>1 DEF U
<1>21. g \in [D -> Nat]
  <2> HIDE DEF g
  <2> QED
    BY <1>15, <1>20
<1> QED
  BY <1>7, <1>16, <1>21

\* What the members before the next one take at most.
Upto(t, k) == PartSums(MaxSizeOf, t)[k]

MaxOf(m) == SizeIn(MaxSizeOf, m)

LEMMA UptoIs ==
  ASSUME NEW t \in DOMAIN Types
  PROVE  /\ \A k \in 0 .. Len(Types[t]) : Upto(t, k) \in Nat /\ Upto(t, k) <= MaxSizeOf[t]
         /\ Upto(t, 0) = 0 /\ Upto(t, Len(Types[t])) = MaxSizeOf[t] /\ MaxSizeOf[t] \in Nat
         /\ \A k \in 1 .. Len(Types[t]) :
              Upto(t, k) = Upto(t, k - 1) + MaxOf(Types[t][k]) /\ MaxOf(Types[t][k]) \in Nat
<1> DEFINE n == Len(Types[t])
           u == PartSums(MaxSizeOf, t)
<1>1. n \in Nat
  BY TypesAre
<1>2. \A i \in 1 .. Len(Types[t]) : SizeIn(MaxSizeOf, Types[t][i]) \in Nat
  <2> SUFFICES ASSUME NEW i \in 1 .. Len(Types[t]) PROVE SizeIn(MaxSizeOf, Types[t][i]) \in Nat
    OBVIOUS
  <2> DEFINE m == Types[t][i]
  <2>1. m \in Members
    BY TypesAre
  <2> HIDE DEF m
  <2>2. m.kind = "type" => MaxSizeOf[m.type] \in Nat
    BY <2>1, MembersAre, MaxSizesAre
  <2>3. SizeIn(MaxSizeOf, m) \in Nat
    BY <2>1, <2>2, SizeInNat
  <2> QED
    BY <2>3 DEF m
<1>3. /\ u \in [0 .. n -> Nat] /\ u[0] = 0
      /\ \A i \in 1 .. n : u[i] = u[i - 1] + SizeIn(MaxSizeOf, Types[t][i])
  BY <1>2, PartSumsAre
<1>4. u[n] = MaxSizeOf[t]
  BY MaxSizesAre DEF Total
<1>5. /\ \A k \in 0 .. n : Upto(t, k) = u[k]
      /\ \A k \in 1 .. n : MaxOf(Types[t][k]) = SizeIn(MaxSizeOf, Types[t][k])
                           /\ SizeIn(MaxSizeOf, Types[t][k]) \in Nat
  BY <1>2 DEF Upto, MaxOf
<1>6. Upto(t, 0) = u[0] /\ Upto(t, n) = u[n] /\ \A k \in 1 .. n : Upto(t, k - 1) = u[k - 1]
  BY DEF Upto
<1> HIDE DEF u, n
<1> DEFINE T == {k \in Nat : k <= n => u[n - k] <= u[n]}
<1>7. 0 \in T
  BY <1>1, <1>3
<1>8. ASSUME NEW k \in Nat, k \in T PROVE k + 1 \in T
  <2> SUFFICES ASSUME k + 1 <= n PROVE u[n - (k + 1)] <= u[n]
    OBVIOUS
  <2>1. /\ n - k \in 1 .. n /\ (n - k) - 1 = n - (k + 1) /\ n - (k + 1) \in 0 .. n
        /\ n - k \in 0 .. n /\ n \in 0 .. n /\ k <= n
    BY <1>1
  <2>2. u[n - k] = u[n - (k + 1)] + SizeIn(MaxSizeOf, Types[t][n - k])
        /\ SizeIn(MaxSizeOf, Types[t][n - k]) \in Nat
    BY <1>3, <1>5, <2>1
  <2>3. u[n - k] <= u[n]
    BY <1>8, <2>1
  <2>4. u[n - k] \in Nat /\ u[n - (k + 1)] \in Nat /\ u[n] \in Nat
    BY <1>3, <2>1
  <2> QED
    BY <2>2, <2>3, <2>4
<1> HIDE DEF T
<1>9. \A k \in Nat : k \in T
  BY <1>7, <1>8, Induction
<1>10. ASSUME NEW k \in 0 .. n PROVE u[k] \in Nat /\ u[k] <= u[n] /\ u[n] \in Nat
  <2>1. n - k \in Nat /\ n - k <= n /\ n - (n - k) = k /\ n \in 0 .. n
    BY <1>1
  <2>2. u[n - (n - k)] <= u[n]
    BY <1>9, <2>1 DEF T
  <2> QED
    BY <1>3, <2>1, <2>2
<1>11. 0 \in 0 .. n
  BY <1>1
<1>12. \A k \in 0 .. n : Upto(t, k) \in Nat /\ Upto(t, k) <= MaxSizeOf[t]
  BY <1>4, <1>5, <1>10
<1>13. Upto(t, 0) = 0 /\ Upto(t, n) = MaxSizeOf[t] /\ MaxSizeOf[t] \in Nat
  BY <1>3, <1>4, <1>6, <1>10, <1>11
<1>14. \A k \in 1 .. n : Upto(t, k) = Upto(t, k - 1) + MaxOf(Types[t][k])
                          /\ MaxOf(Types[t][k]) \in Nat
  <2> SUFFICES ASSUME NEW k \in 1 .. n
               PROVE  Upto(t, k) = Upto(t, k - 1) + MaxOf(Types[t][k])
                      /\ MaxOf(Types[t][k]) \in Nat
    OBVIOUS
  <2>1. k \in 0 .. n
    BY <1>1
  <2> QED
    BY <1>3, <1>5, <1>6, <2>1
<1> QED
  BY <1>12, <1>13, <1>14 DEF n

(***************************************************************************)
(* The room that is left: the cursor q and what is still to come of every  *)
(* struct around it end at e at the latest.                                *)
(***************************************************************************)
Roomy(s, q, e) ==
  \A i \in 1 .. Len(s) :
    /\ s[i].start + MaxSizeOf[s[i].type] <= e
    /\ Reached(s, q, i) <= s[i].start + Upto(s[i].type, s[i].next - 1)

\* The next member fits, whatever its value.
LEMMA RoomForMember ==
  ASSUME NEW s \in Seq(FrameSet), NEW q \in Nat, NEW e \in Nat, Roomy(s, q, e), Len(s) > 0,
         NEW f, f = s[Len(s)], f.next <= Len(Types[f.type])
  PROVE  LET m == Types[f.type][f.next]
         IN  /\ MaxOf(m) \in Nat /\ q + MaxOf(m) <= e
             /\ q + MaxOf(m) <= f.start + Upto(f.type, f.next)
<1> DEFINE n == Len(s)
           k == f.next
           m == Types[f.type][k]
<1>1. n \in Nat /\ n \in 1 .. n
  BY FramesAre
<1>2. /\ f.type \in DOMAIN Types /\ k \in Nat /\ k > 0 /\ f.start \in Nat
      /\ Len(Types[f.type]) \in Nat
  BY <1>1, FramesAre
<1>3. f.start + MaxSizeOf[f.type] <= e /\ q <= f.start + Upto(f.type, k - 1)
  BY <1>1 DEF Roomy, Reached
<1>4. k \in 1 .. Len(Types[f.type]) /\ k \in 0 .. Len(Types[f.type])
      /\ k - 1 \in 0 .. Len(Types[f.type])
  BY <1>2
<1> HIDE DEF k, n
<1>5. /\ Upto(f.type, k) = Upto(f.type, k - 1) + MaxOf(m) /\ MaxOf(m) \in Nat
      /\ Upto(f.type, k - 1) \in Nat /\ Upto(f.type, k) \in Nat
      /\ Upto(f.type, k) <= MaxSizeOf[f.type] /\ MaxSizeOf[f.type] \in Nat
  BY <1>2, <1>4, UptoIs
<1>6. /\ MaxOf(m) \in Nat /\ q + MaxOf(m) <= e
      /\ q + MaxOf(m) <= f.start + Upto(f.type, k)
  <2> DEFINE a == Upto(f.type, k - 1)
             c == Upto(f.type, k)
             x == MaxOf(m)
             y == MaxSizeOf[f.type]
             d == f.start
  <2>1. /\ c = a + x /\ x \in Nat /\ a \in Nat /\ c \in Nat /\ c <= y /\ y \in Nat /\ d \in Nat
        /\ d + y <= e /\ q <= d + a
    BY <1>2, <1>3, <1>5
  <2> HIDE DEF a, c, x, y, d
  <2>2. x \in Nat /\ q + x <= e /\ q + x <= d + c
    BY ONLY <2>1, q \in Nat, e \in Nat
  <2> QED
    BY <2>2 DEF a, c, x, y, d
<1> QED
  BY <1>6 DEF m, k

LEMMA RoomyStart ==
  ASSUME NEW t \in DOMAIN Types, NEW p \in Nat
  PROVE  Roomy(<<[type |-> t, next |-> 1, start |-> p]>>, p, p + MaxSizeOf[t])
<1> DEFINE f == [type |-> t, next |-> 1, start |-> p]
           s == <<f>>
<1>1. f.type = t /\ f.next = 1 /\ f.start = p
  OBVIOUS
<1>2. Len(s) = 1 /\ s[1] = f
  OBVIOUS
<1>3. MaxSizeOf[t] \in Nat /\ Upto(t, 0) = 0
  BY UptoIs
<1> HIDE DEF f, s
<1>4. Roomy(s, p, p + MaxSizeOf[t])
  BY <1>1, <1>2, <1>3 DEF Roomy, Reached
<1> QED
  BY <1>4 DEF s, f

LEMMA RoomyOnward ==
  ASSUME NEW s \in Seq(FrameSet), NEW q \in Nat, NEW e \in Nat, Roomy(s, q, e),
         NEW s2, Onward(s, s2), Len(s) > 0, NEW q2 \in Nat, NEW f, f = s[Len(s)],
         q2 <= f.start + Upto(f.type, f.next)
  PROVE  Roomy(s2, q2, e)
<1> DEFINE n == Len(s)
<1>1. n \in Nat /\ f.next \in Nat
  <2>1. n \in Nat /\ n \in 1 .. n
    BY FramesAre
  <2> QED
    BY <2>1, FramesAre
<1>2. /\ Len(s2) = n
      /\ \A i \in 1 .. n :
           /\ s2[i].type = s[i].type /\ s2[i].start = s[i].start
           /\ s2[i].next = IF i = n THEN s[i].next + 1 ELSE s[i].next
  BY DEF Onward
<1>3. n = Len(s)
  OBVIOUS
<1> HIDE DEF n
<1>4. ASSUME NEW i \in 1 .. n
      PROVE  /\ s2[i].start + MaxSizeOf[s2[i].type] <= e
             /\ Reached(s2, q2, i) <= s2[i].start + Upto(s2[i].type, s2[i].next - 1)
  <2>1. /\ s[i].start + MaxSizeOf[s[i].type] <= e
        /\ Reached(s, q, i) <= s[i].start + Upto(s[i].type, s[i].next - 1)
    BY <1>3 DEF Roomy
  <2>2. CASE i = n
    <3>1. s2[i].next - 1 = f.next /\ Reached(s2, q2, i) = q2
      BY <1>1, <1>2, <1>3, <2>2 DEF Reached
    <3> QED
      BY <1>2, <1>3, <2>1, <2>2, <3>1
  <2>3. CASE i # n
    <3>1. i + 1 \in 1 .. n
      BY <1>1, <2>3
    <3>2. Reached(s2, q2, i) = Reached(s, q, i)
      BY <1>2, <1>3, <2>3, <3>1 DEF Reached
    <3> QED
      BY <1>2, <2>1, <2>3, <3>2
  <2> QED
    BY <2>2, <2>3
<1> QED
  BY <1>2, <1>4 DEF Roomy

LEMMA RoomyEnter ==
  ASSUME NEW s \in Seq(FrameSet), NEW q \in Nat, NEW e \in Nat, Roomy(s, q, e), Len(s) > 0,
         NEW u \in DOMAIN Types, NEW g, g = s[Len(s)], g.next <= Len(Types[g.type]),
         Types[g.type][g.next].kind = "type", Types[g.type][g.next].type = u
  PROVE  Roomy(Append(s, [type |-> u, next |-> 1, start |-> q]), q, e)
<1> DEFINE n == Len(s)
           f == [type |-> u, next |-> 1, start |-> q]
           s2 == Append(s, f)
<1>1. n \in Nat /\ n = Len(s)
  BY FramesAre
<1>2. f \in FrameSet /\ f.type = u /\ f.next = 1 /\ f.start = q
  BY DEF FrameSet
<1> HIDE DEF f
<1>3. /\ Len(s2) = n + 1 /\ s2[n + 1] = f
      /\ \A i \in 1 .. n : s2[i] = s[i]
  BY <1>2, EnteredIs
<1>4. q + MaxSizeOf[u] <= e
  <2>1. q + MaxOf(Types[g.type][g.next]) <= e
    BY RoomForMember
  <2>2. MaxOf(Types[g.type][g.next]) = MaxSizeOf[u]
    BY DEF MaxOf, SizeIn
  <2> QED
    BY <2>1, <2>2
<1>5. Upto(u, 0) = 0
  BY UptoIs
<1> HIDE DEF n, s2
<1>6. ASSUME NEW i \in 1 .. n + 1
      PROVE  /\ s2[i].start + MaxSizeOf[s2[i].type] <= e
             /\ Reached(s2, q, i) <= s2[i].start + Upto(s2[i].type, s2[i].next - 1)
  <2>1. CASE i = n + 1
    <3>1. Reached(s2, q, i) = q /\ s2[i] = f
      BY <1>3, <2>1 DEF Reached
    <3>2. s2[i].start = q /\ s2[i].type = u /\ s2[i].next - 1 = 0
      BY <1>2, <3>1
    <3>3. q <= q + 0
      OBVIOUS
    <3> QED
      BY <1>4, <1>5, <3>1, <3>2, <3>3
  <2>2. CASE i # n + 1
    <3>1. i \in 1 .. n /\ s2[i] = s[i]
      BY <1>1, <1>3, <2>2
    <3>2. /\ s[i].start + MaxSizeOf[s[i].type] <= e
          /\ Reached(s, q, i) <= s[i].start + Upto(s[i].type, s[i].next - 1)
      BY <1>1, <3>1 DEF Roomy
    <3>3. Reached(s2, q, i) = Reached(s, q, i)
      <4>1. CASE i = n
        BY <1>1, <1>2, <1>3, <2>2, <4>1 DEF Reached
      <4>2. CASE i # n
        <5>1. i + 1 \in 1 .. n
          BY <1>1, <3>1, <4>2
        <5> QED
          BY <1>1, <1>3, <2>2, <4>2, <5>1 DEF Reached
      <4> QED
        BY <4>1, <4>2
    <3> QED
      BY <3>1, <3>2, <3>3
  <2> QED
    BY <2>1, <2>2
<1>7. Roomy(s2, q, e)
  BY <1>3, <1>6 DEF Roomy
<1> QED
  BY <1>7 DEF s2, f

LEMMA RoomyLeave ==
  ASSUME NEW s, NEW t, NEW p, NEW q, Nested(s, t, p, q), NEW e \in Nat, Roomy(s, q, e),
         Len(s) > 1, NEW s2, Onward(Front(s), s2),
         ~(s[Len(s)].next <= Len(Types[s[Len(s)].type]))
  PROVE  Roomy(s2, q, e)
<1> DEFINE n == Len(s) - 1
           b == Front(s)
           top == s[Len(s)]
           f == s[n]
<1>1. /\ s \in Seq(FrameSet) /\ q \in Nat /\ Len(s) \in Nat /\ n \in Nat /\ n > 0
      /\ Len(s) = n + 1 /\ n \in 1 .. Len(s) /\ Len(s) \in 1 .. Len(s) /\ n # Len(s)
  <2>1. s \in Seq(FrameSet) /\ q \in Nat
    BY DEF Nested
  <2>2. Len(s) \in Nat
    BY <2>1, FramesAre
  <2> QED
    BY <2>1, <2>2
<1>a. n = Len(s) - 1 /\ ~(top.next <= Len(Types[top.type]))
  OBVIOUS
<1> HIDE DEF n
<1>2. /\ f.type \in DOMAIN Types /\ f.next \in Nat /\ f.next > 0 /\ f.start \in Nat
      /\ top.type \in DOMAIN Types /\ top.next \in Nat /\ top.start \in Nat
      /\ Len(Types[top.type]) \in Nat /\ Len(Types[f.type]) \in Nat
  BY <1>1, FramesAre
<1>3. /\ top.next <= Len(Types[top.type]) + 1
      /\ f.next <= Len(Types[f.type])
      /\ Types[f.type][f.next].kind = "type" /\ Types[f.type][f.next].type = s[n + 1].type
  BY <1>1 DEF Nested
<1>4. /\ q <= top.start + Upto(top.type, top.next - 1)
      /\ s[n + 1].start <= f.start + Upto(f.type, f.next - 1)
  BY <1>1 DEF Roomy, Reached
<1>5. s[n + 1] = top /\ top.next - 1 = Len(Types[top.type])
  <2>1. s[n + 1] = top
    BY <1>1
  <2> DEFINE x == top.next
             l == Len(Types[top.type])
  <2>2. x \in Nat /\ l \in Nat /\ x <= l + 1 /\ ~(x <= l)
    BY <1>2, <1>3, <1>a
  <2>3. x - 1 = l
    <3> HIDE DEF x, l
    <3> QED
      BY ONLY <2>2
  <2> QED
    BY <2>1, <2>3
<1>6. Upto(top.type, top.next - 1) = MaxSizeOf[top.type] /\ MaxSizeOf[top.type] \in Nat
  BY <1>2, <1>5, UptoIs
<1>7. /\ Upto(f.type, f.next) = Upto(f.type, f.next - 1) + MaxSizeOf[top.type]
      /\ Upto(f.type, f.next - 1) \in Nat
  <2>1. f.next \in 1 .. Len(Types[f.type])
    <3> HIDE DEF f, top
    <3> QED
      BY ONLY <1>2, <1>3
  <2>2. /\ Upto(f.type, f.next) = Upto(f.type, f.next - 1) + MaxOf(Types[f.type][f.next])
        /\ Upto(f.type, f.next - 1) \in Nat
    <3> HIDE DEF f, top
    <3>1. f.type \in DOMAIN Types
      BY <1>2
    <3>2. f.next - 1 \in 0 .. Len(Types[f.type])
      BY ONLY <2>1, <1>2
    <3> QED
      BY ONLY <2>1, <3>1, <3>2, UptoIs
  <2>3. MaxOf(Types[f.type][f.next]) = MaxSizeOf[top.type]
    BY <1>3, <1>5 DEF MaxOf, SizeIn
  <2> QED
    BY <2>2, <2>3
<1>8. q <= f.start + Upto(f.type, f.next)
  <2> DEFINE a == Upto(f.type, f.next - 1)
             c == Upto(f.type, f.next)
             y == MaxSizeOf[top.type]
  <2>1. /\ q <= top.start + y /\ top.start <= f.start + a /\ c = a + y
        /\ q \in Nat /\ y \in Nat /\ a \in Nat /\ top.start \in Nat /\ f.start \in Nat
    BY <1>1, <1>2, <1>4, <1>5, <1>6, <1>7
  <2> HIDE DEF a, c, y, f, top
  <2>2. q <= f.start + c
    BY ONLY <2>1
  <2> QED
    BY <2>2 DEF c
<1>9. /\ b \in Seq(FrameSet) /\ Len(b) = n /\ \A i \in 1 .. n : b[i] = s[i]
  BY <1>1, <1>a, FrontIs
<1>b. Onward(b, s2)
  OBVIOUS
<1> HIDE DEF b
<1>10. f = b[Len(b)] /\ Len(b) > 0
  <2>1. n \in 1 .. n
    BY <1>1
  <2> QED
    BY <1>1, <1>9, <2>1
<1>11. Roomy(b, s[n + 1].start, e)
  <2> SUFFICES ASSUME NEW i \in 1 .. Len(b)
               PROVE  /\ b[i].start + MaxSizeOf[b[i].type] <= e
                      /\ Reached(b, s[n + 1].start, i)
                           <= b[i].start + Upto(b[i].type, b[i].next - 1)
    BY DEF Roomy
  <2>1. i \in 1 .. n /\ i \in 1 .. Len(s) /\ i # Len(s) /\ b[i] = s[i] /\ i + 1 \in 1 .. Len(s)
    BY <1>1, <1>9
  <2>2. /\ s[i].start + MaxSizeOf[s[i].type] <= e
        /\ s[i + 1].start <= s[i].start + Upto(s[i].type, s[i].next - 1)
    BY <2>1 DEF Roomy, Reached
  <2>3. Reached(b, s[n + 1].start, i) = s[i + 1].start
    <3>1. CASE i = n
      BY <1>9, <3>1 DEF Reached
    <3>2. CASE i # n
      <4>1. i + 1 \in 1 .. n
        BY <1>1, <2>1, <3>2
      <4> QED
        BY <1>9, <3>2, <4>1 DEF Reached
    <3> QED
      BY <3>1, <3>2
  <2> QED
    BY <2>1, <2>2, <2>3
<1>12. s[n + 1].start \in Nat
  BY <1>2, <1>5
<1> HIDE DEF f
<1> QED
  BY <1>1, <1>8, <1>9, <1>10, <1>11, <1>12, <1>b, RoomyOnward

End == begun.pos + MaxSizeOf[begun.type]

RoomInv == (call = "marshal" => Roomy(stack, pos, End)) /\ EnoughRoom

LEMMA EndIs ==
  ASSUME CallInv, call # "none"
  PROVE  /\ begun.call = call /\ returned = NULL /\ begun.pos \in Nat /\ End \in Nat
         /\ begun.type \in DOMAIN Types /\ MaxSizeOf[begun.type] \in Nat
         /\ call \in {"marshal", "demarshal"}
<1>1. InCall /\ begun.pos \in Nat
  BY TopIs
<1>2. begun.type \in DOMAIN Types
  BY <1>1 DEF InCall
<1>3. MaxSizeOf[begun.type] \in Nat
  BY <1>2, UptoIs
<1> QED
  BY <1>1, <1>2, <1>3 DEF End, InCall

LEMMA RoomMarshal ==
  ASSUME CallInv, RoomInv, Marshal
  PROVE  RoomInv'
<1>1. call = "marshal" /\ More /\ Member \in Members /\ IsMarshaller(Member)
  BY MarshalCases
<1>2. PICK v : IsValue(Member, v) /\ MarshalEnds(v)
  BY MarshalCases
<1>3. /\ stack \in Seq(FrameSet) /\ Len(stack) > 0 /\ Top = stack[Len(stack)]
      /\ pos \in Nat /\ Top.type \in DOMAIN Types /\ BlockOK
  BY <1>1, TopIs
<1>4. begun.call = "marshal" /\ returned = NULL /\ End \in Nat /\ begun.pos \in Nat
      /\ MaxSizeOf[begun.type] \in Nat
  BY <1>1, EndIs
<1>5. Roomy(stack, pos, End)
  BY <1>1 DEF RoomInv
<1>6. /\ MaxOf(Member) \in Nat /\ pos + MaxOf(Member) <= End
      /\ pos + MaxOf(Member) <= Top.start + Upto(Top.type, Top.next)
  BY <1>1, <1>3, <1>4, <1>5, RoomForMember DEF More, Member
<1>7. MaxOf(Member) = MaxMarshalledSize(Member)
  <2>1. Member.kind # "type"
    BY DEF Marshal
  <2> QED
    BY <2>1 DEF MaxOf, SizeIn
<1>8. CASE Throws
  <2>1. call' = "none" /\ returned' = Thrown
    BY <1>8 DEF Throws, Return
  <2>2. Thrown \notin Nat /\ Thrown # 0
    BY SizesAre
  <2> QED
    BY <2>1, <2>2 DEF RoomInv, EnoughRoom
<1>9. CASE Legal(Member, v) /\ ~HasRoom(Marshalled(Member, v)) /\ Fails
  <2> DEFINE l == Len(Marshalled(Member, v))
  <2>1. /\ l <= MaxMarshalledSize(Member)
        /\ Marshalled(Member, v) \in Seq(Byte)
    BY <1>1, <1>2, <1>9, MarshalledIs
  <2>2. l \in Nat
    BY <2>1, LenProperties
  <2>3. ~(Left >= l)
    BY <1>9 DEF HasRoom
  <2>4. Left = Size - pos /\ Size \in Nat
    BY SizesAre DEF Left
  <2> HIDE DEF l
  <2>5. Size < pos + MaxOf(Member)
    BY <1>3, <1>6, <1>7, <2>1, <2>2, <2>3, <2>4
  <2>6. Size - begun.pos < MaxSizeOf[begun.type]
    BY <1>3, <1>4, <1>6, <2>4, <2>5 DEF End
  <2>7. call' = "none" /\ returned' = 0 /\ begun' = begun
    BY <1>9 DEF Fails, Return
  <2>8. EnoughRoom'
    BY <1>4, <2>6, <2>7 DEF EnoughRoom
  <2> QED
    BY <2>7, <2>8 DEF RoomInv
<1>10. CASE /\ Legal(Member, v) /\ HasRoom(Marshalled(Member, v)) /\ Put(Marshalled(Member, v))
            /\ pos' = pos + Len(Marshalled(Member, v))
            /\ atEof' = (Member.kind = "bool" /\ atEof)
            /\ Did(Member, v) /\ NextMember /\ UNCHANGED <<call, begun, returned, written>>
  <2> DEFINE l == Len(Marshalled(Member, v))
  <2>1. /\ l <= MaxMarshalledSize(Member)
        /\ Marshalled(Member, v) \in Seq(Byte)
    BY <1>1, <1>2, <1>10, MarshalledIs
  <2>2. l \in Nat
    BY <2>1, LenProperties
  <2>3. pos' = pos + l
    BY <1>10
  <2> HIDE DEF l
  <2>4. pos' \in Nat /\ pos' <= pos + MaxOf(Member)
    BY <1>3, <1>6, <1>7, <2>1, <2>2, <2>3
  <2>5. Onward(stack, stack')
    BY <1>3, <1>10, OnwardIs DEF NextMember
  <2>6. pos' <= Top.start + Upto(Top.type, Top.next)
    <3>1. Top.start \in Nat /\ Top.next \in 0 .. Len(Types[Top.type])
      BY <1>1, TopIs DEF More
    <3>2. Upto(Top.type, Top.next) \in Nat
      BY <1>3, <3>1, UptoIs
    <3> QED
      BY <1>3, <1>6, <2>4, <3>1, <3>2
  <2>7. Roomy(stack', pos', End)
    BY <1>3, <1>4, <1>5, <2>4, <2>5, <2>6, RoomyOnward
  <2>8. begun' = begun /\ returned' = NULL
    BY <1>4, <1>10
  <2>9. End' = End
    BY <2>8 DEF End
  <2> QED
    BY <2>7, <2>8, <2>9 DEF RoomInv, EnoughRoom
<1> QED
  BY <1>2, <1>8, <1>9, <1>10 DEF MarshalEnds

LEMMA RoomEnter ==
  ASSUME CallInv, RoomInv, Enter
  PROVE  RoomInv'
<1>1. call # "none" /\ More /\ Member.kind = "type"
  BY DEF Enter
<1>2. Member.type \in DOMAIN Types
  BY EnterKeeps
<1>3. /\ stack \in Seq(FrameSet) /\ Len(stack) > 0 /\ Top = stack[Len(stack)] /\ pos \in Nat
  BY <1>1, TopIs
<1>4. returned = NULL /\ End \in Nat
  BY <1>1, EndIs
<1>5. /\ stack' = Append(stack, [type |-> Member.type, next |-> 1, start |-> pos])
      /\ UNCHANGED <<pos, call, begun, returned>>
  BY DEF Enter, Frame, block
<1>6. ASSUME call = "marshal" PROVE Roomy(stack', pos, End)
  <2>1. Roomy(stack, pos, End)
    BY <1>6 DEF RoomInv
  <2> QED
    BY <1>1, <1>2, <1>3, <1>4, <1>5, <2>1, RoomyEnter DEF More, Member
<1>7. End' = End
  BY <1>5 DEF End
<1> QED
  BY <1>4, <1>5, <1>6, <1>7 DEF RoomInv, EnoughRoom

LEMMA RoomLeave ==
  ASSUME CallInv, RoomInv, Leave
  PROVE  RoomInv'
<1>1. call # "none" /\ ~More /\ LeaveEnds
  BY LeaveCases
<1>2. /\ InCall /\ stack \in Seq(FrameSet) /\ Len(stack) \in Nat /\ Len(stack) > 0
      /\ Top = stack[Len(stack)] /\ Top.start \in Nat /\ Top.type \in DOMAIN Types
      /\ Top.next \in Nat /\ Len(Types[Top.type]) \in Nat
      /\ begun.pos \in Nat /\ pos \in Nat /\ Top.start <= pos
      /\ Top.next > 1 => Top.start < pos
      /\ stack[1].start = begun.pos /\ stack[1].type = begun.type
      /\ Len(Types[Top.type]) > 0
  BY <1>1, TopIs
<1>3. /\ begun.call = call /\ returned = NULL /\ End \in Nat
      /\ begun.type \in DOMAIN Types /\ MaxSizeOf[begun.type] \in Nat
  BY <1>1, EndIs
<1>4. Nested(stack, begun.type, begun.pos, pos)
  BY <1>2 DEF InCall
<1>5. CASE /\ Len(stack) = 1 /\ Return(pos - Top.start)
           /\ UNCHANGED <<block, members, begun>>
  <2>1. call' = "none" /\ returned' = pos - Top.start /\ begun' = begun
    BY <1>5 DEF Return
  <2>2. Top.next > 1
    BY <1>1, <1>2 DEF More
  <2>3. pos - Top.start # 0
    BY <1>2, <2>2
  <2>4. ASSUME call = "marshal" PROVE pos - Top.start <= MaxSizeOf[begun.type]
    <3>1. Roomy(stack, pos, End)
      BY <2>4 DEF RoomInv
    <3>2. 1 \in 1 .. Len(stack)
      BY <1>5
    <3>3. pos <= Top.start + Upto(Top.type, Top.next - 1)
      BY <1>2, <1>5, <3>1, <3>2 DEF Roomy, Reached
    <3>4. Top.next - 1 \in 0 .. Len(Types[Top.type]) /\ Top.type = begun.type
      <4>1. Top.next <= Len(Types[Top.type]) + 1
        BY <1>2, <1>4, <1>5, <3>2 DEF Nested
      <4>2. Top.type = begun.type
        BY <1>2, <1>5
      <4> QED
        BY <1>2, <2>2, <4>1, <4>2
    <3>5. Upto(Top.type, Top.next - 1) <= MaxSizeOf[begun.type]
          /\ Upto(Top.type, Top.next - 1) \in Nat
      BY <1>2, <3>4, UptoIs
    <3> QED
      BY <1>2, <1>3, <3>3, <3>5
  <2> QED
    BY <1>3, <2>1, <2>3, <2>4 DEF RoomInv, EnoughRoom
<1>6. CASE /\ Len(stack) > 1
           /\ stack' = [Front(stack) EXCEPT ![Len(stack) - 1].next = @ + 1]
           /\ UNCHANGED <<block, call, members, begun, returned, written>>
  <2>1. Front(stack) \in Seq(FrameSet) /\ Len(Front(stack)) = Len(stack) - 1
    BY <1>2, <1>6, FrontIs
  <2>2. Len(Front(stack)) > 0
    BY <1>2, <1>6, <2>1
  <2>3. Onward(Front(stack), stack')
    BY <1>6, <2>1, <2>2, OnwardIs
  <2>4. ~(stack[Len(stack)].next <= Len(Types[stack[Len(stack)].type]))
    BY <1>1 DEF More, Top
  <2>5. ASSUME call = "marshal" PROVE Roomy(stack', pos, End)
    <3>1. Roomy(stack, pos, End)
      BY <2>5 DEF RoomInv
    <3>2. Len(stack) > 1
      BY <1>6
    <3> QED
      BY <1>3, <1>4, <2>3, <2>4, <3>1, <3>2, RoomyLeave
  <2>6. End' = End /\ pos' = pos /\ call' = call /\ returned' = NULL
    BY <1>3, <1>6 DEF End, block
  <2> QED
    BY <2>5, <2>6 DEF RoomInv, EnoughRoom
<1> QED
  BY <1>1, <1>5, <1>6 DEF LeaveEnds

LEMMA RoomInvNext == CallInv /\ RoomInv /\ [Next]_vars => RoomInv'
<1> SUFFICES ASSUME CallInv, RoomInv, [Next]_vars PROVE RoomInv'
  OBVIOUS
<1>1. ASSUME \/ \E p \in Places : Seek(p)
             \/ \E b \in Noise : Fill(b)
             \/ \E n \in {1, Size} : Read(n) \/ Write(n, 0) \/ Extract(n)
      PROVE  RoomInv'
  <2>1. Direct
    BY <1>1, CallerKeeps
  <2>2. call' = "none" /\ returned' = NULL
    BY <2>1 DEF Direct
  <2> QED
    BY <2>2 DEF RoomInv, EnoughRoom
<1>2. ASSUME NEW which \in {"marshal", "demarshal"}, NEW t \in DOMAIN Types, Call(which, t)
      PROVE  RoomInv'
  <2>1. /\ stack' = <<[type |-> t, next |-> 1, start |-> pos]>> /\ returned' = NULL
        /\ pos' = pos /\ begun' = [call |-> which, type |-> t, pos |-> pos]
    BY <1>2 DEF Call, Frame, block
  <2>2. pos \in Nat
    BY SizesAre DEF CallInv, BlockOK
  <2>3. Roomy(stack', pos', pos + MaxSizeOf[t])
    BY <2>1, <2>2, RoomyStart
  <2>4. End' = pos + MaxSizeOf[t]
    <3>1. begun'.pos = pos /\ begun'.type = t
      BY <2>1
    <3> QED
      BY <3>1 DEF End
  <2> QED
    BY <2>1, <2>3, <2>4 DEF RoomInv, EnoughRoom
<1>3. ASSUME DemarshalMember PROVE RoomInv'
  <2>1. call = "demarshal" /\ DemarshalEnds
    BY <1>3, DemarshalCases
  <2>2. begun.call = "demarshal" /\ returned = NULL
    BY <2>1, EndIs
  <2>3. begun' = begun /\ call' # "marshal"
    BY <2>1 DEF DemarshalEnds, Throws, Fails, Return
  <2> QED
    BY <2>2, <2>3 DEF RoomInv, EnoughRoom
<1>4. CASE UNCHANGED vars
  BY <1>4 DEF RoomInv, EnoughRoom, End, vars, block
<1> QED
  BY <1>1, <1>2, <1>3, <1>4, RoomMarshal, RoomEnter, RoomLeave DEF Next

\* A block with room for what resolve() added up is never too small, and no
\* record takes more: for all types, however deep, and for all values.
THEOREM EnoughRoomHolds == Spec => []EnoughRoom
<1>1. Init => RoomInv
  BY DEF Init, RoomInv, EnoughRoom
<1>2. RoomInv => EnoughRoom
  BY DEF RoomInv
<1> QED
  BY <1>1, <1>2, CallInvInit, CallInvNext, RoomInvNext, PTL DEF Spec

(***************************************************************************)
(* The way through a type: marshal() and demarshal() of it take the same   *)
(* steps, as long as no member fails.  A place on the way is the stack     *)
(* without its cursors, with the members done.                             *)
(***************************************************************************)
ShapeOf(s) == [i \in 1 .. Len(s) |-> <<s[i].type, s[i].next>>]

Place(s, ms) ==
  [depth |-> Len(s), shape |-> ShapeOf(s),
   done |-> Len(ms), names |-> [i \in 1 .. Len(ms) |-> ms[i].member]]

MoreAt(c) == c.shape[c.depth][2] <= Len(Types[c.shape[c.depth][1]])

MemberAt(c) == Types[c.shape[c.depth][1]][c.shape[c.depth][2]]

AtEnd(c) == c.depth = 1 /\ ~MoreAt(c)

\* The first n elements of f, the last of them x.
With(f, n, x) == [i \in 1 .. n |-> IF i = n THEN x ELSE f[i]]

Went(f, n) == With(f, n, <<f[n][1], f[n][2] + 1>>)

After(c) ==
  IF MoreAt(c)
    THEN IF MemberAt(c).kind = "type"
           THEN [depth |-> c.depth + 1,
                 shape |-> With(c.shape, c.depth + 1, <<MemberAt(c).type, 1>>),
                 done |-> c.done, names |-> c.names]
           ELSE [depth |-> c.depth, shape |-> Went(c.shape, c.depth),
                 done |-> c.done + 1, names |-> With(c.names, c.done + 1, MemberAt(c))]
    ELSE [depth |-> c.depth - 1, shape |-> Went(c.shape, c.depth - 1),
          done |-> c.done, names |-> c.names]

FirstPlace(t) ==
  [depth |-> 1, shape |-> [i \in 1 .. 1 |-> <<t, 1>>], done |-> 0,
   names |-> [i \in 1 .. 0 |-> t]]

Way(f, n, t) ==
  /\ f[0] = FirstPlace(t) /\ \A k \in 0 .. n : f[k].done \in Nat
  /\ \A k \in 1 .. n : ~AtEnd(f[k - 1]) /\ f[k] = After(f[k - 1])

Reaches(t, c) == \E n \in Nat : \E f : Way(f, n, t) /\ f[n] = c

LEMMA FirstReached == ASSUME NEW t PROVE Reaches(t, FirstPlace(t))
<1> DEFINE f == [k \in 0 .. 0 |-> FirstPlace(t)]
<1>1. f[0] = FirstPlace(t)
  OBVIOUS
<1>2. FirstPlace(t).done \in Nat
  BY DEF FirstPlace
<1> HIDE DEF f
<1>3. \A k \in 0 .. 0 : k = 0
  OBVIOUS
<1>4. \A k \in 1 .. 0 : FALSE
  OBVIOUS
<1>5. Way(f, 0, t)
  BY <1>1, <1>2, <1>3, <1>4 DEF Way
<1> QED
  BY <1>1, <1>5 DEF Reaches

LEMMA AfterReached ==
  ASSUME NEW t, NEW c, Reaches(t, c), ~AtEnd(c), After(c).done \in Nat
  PROVE  Reaches(t, After(c))
<1>1. PICK n \in Nat : \E f : Way(f, n, t) /\ f[n] = c
  BY DEF Reaches
<1>2. PICK f : Way(f, n, t) /\ f[n] = c
  BY <1>1
<1> DEFINE x == After(c)
           g == [k \in 0 .. n + 1 |-> IF k = n + 1 THEN x ELSE f[k]]
<1>3. n + 1 \in Nat /\ n + 1 \in 0 .. n + 1 /\ \A k \in 0 .. n : k \in 0 .. n + 1 /\ k # n + 1
  OBVIOUS
<1> HIDE DEF x
<1>4. g[n + 1] = x /\ \A k \in 0 .. n : g[k] = f[k]
  BY <1>3
<1> HIDE DEF g
<1>5. g[0] = FirstPlace(t)
  BY <1>2, <1>4 DEF Way
<1>6. ASSUME NEW k \in 0 .. n + 1 PROVE g[k].done \in Nat
  <2>1. k = n + 1 \/ k \in 0 .. n
    OBVIOUS
  <2>2. x.done \in Nat
    BY DEF x
  <2> QED
    BY <1>2, <1>4, <2>1, <2>2 DEF Way
<1>7. ASSUME NEW k \in 1 .. n + 1 PROVE ~AtEnd(g[k - 1]) /\ g[k] = After(g[k - 1])
  <2>1. CASE k = n + 1
    <3>1. k - 1 = n /\ n \in 0 .. n
      BY <2>1
    <3>2. g[k - 1] = c
      BY <1>2, <1>4, <3>1
    <3> QED
      BY <1>4, <2>1, <3>2 DEF x
  <2>2. CASE k # n + 1
    <3>1. k \in 1 .. n /\ k \in 0 .. n /\ k - 1 \in 0 .. n
      BY <2>2
    <3> QED
      BY <1>2, <1>4, <3>1 DEF Way
  <2> QED
    BY <2>1, <2>2
<1>8. Way(g, n + 1, t)
  BY <1>5, <1>6, <1>7 DEF Way
<1> QED
  BY <1>3, <1>4, <1>8 DEF Reaches, x

Prefix(c, d) == c.done <= d.done /\ \A i \in 1 .. c.done : d.names[i] = c.names[i]

LEMMA WayPrefix ==
  ASSUME NEW t, NEW n \in Nat, NEW f, Way(f, n, t), NEW i \in 0 .. n
  PROVE  Prefix(f[i], f[n])
<1> DEFINE T == {k \in Nat : i + k <= n => Prefix(f[i], f[i + k])}
<1>1. \A k \in 0 .. n : f[k].done \in Nat
  BY DEF Way
<1>2. 0 \in T
  <2>1. i + 0 = i
    OBVIOUS
  <2>2. Prefix(f[i], f[i])
    BY <1>1 DEF Prefix
  <2> QED
    BY <2>1, <2>2
<1>3. ASSUME NEW k \in Nat, k \in T PROVE k + 1 \in T
  <2> SUFFICES ASSUME i + (k + 1) <= n PROVE Prefix(f[i], f[i + (k + 1)])
    OBVIOUS
  <2> DEFINE c == f[i + k]
             d == f[i + (k + 1)]
             b == f[i]
  <2>1. /\ i + (k + 1) \in 1 .. n /\ (i + (k + 1)) - 1 = i + k /\ i + k <= n
        /\ i + k \in 0 .. n /\ i + (k + 1) \in 0 .. n
    OBVIOUS
  <2>2. d = After(c)
    BY <2>1 DEF Way
  <2>3. Prefix(b, c)
    BY <1>3, <2>1
  <2>4. b.done \in Nat /\ c.done \in Nat
    BY <1>1, <2>1
  <2> HIDE DEF b, c, d
  <2>5. ASSUME d.done = c.done /\ d.names = c.names PROVE Prefix(b, d)
    BY <2>3, <2>5 DEF Prefix
  <2>6. ASSUME d.done = c.done + 1, d.names = With(c.names, c.done + 1, MemberAt(c))
        PROVE  Prefix(b, d)
    <3>1. \A j \in 1 .. c.done : j \in 1 .. c.done + 1 /\ j # c.done + 1
      BY <2>4
    <3>2. \A j \in 1 .. c.done : d.names[j] = c.names[j]
      BY <2>6, <3>1 DEF With
    <3>3. \A j \in 1 .. b.done : j \in 1 .. c.done
      BY <2>3, <2>4 DEF Prefix
    <3>4. b.done <= c.done /\ \A j \in 1 .. b.done : c.names[j] = b.names[j]
      BY <2>3 DEF Prefix
    <3>5. b.done <= d.done
      BY <2>4, <2>6, <3>4
    <3> QED
      BY <3>2, <3>3, <3>4, <3>5 DEF Prefix
  <2>7. (d.done = c.done /\ d.names = c.names)
        \/ (d.done = c.done + 1 /\ d.names = With(c.names, c.done + 1, MemberAt(c)))
    <3>1. CASE MoreAt(c) /\ MemberAt(c).kind # "type"
      <4>1. d.done = c.done + 1 /\ d.names = With(c.names, c.done + 1, MemberAt(c))
        BY <2>2, <3>1 DEF After
      <4> QED
        BY <4>1
    <3>2. CASE MoreAt(c) /\ MemberAt(c).kind = "type"
      <4>1. d.done = c.done /\ d.names = c.names
        BY <2>2, <3>2 DEF After
      <4> QED
        BY <4>1
    <3>3. CASE ~MoreAt(c)
      <4>1. d.done = c.done /\ d.names = c.names
        BY <2>2, <3>3 DEF After
      <4> QED
        BY <4>1
    <3> QED
      BY <3>1, <3>2, <3>3
  <2>8. Prefix(b, d)
    BY <2>5, <2>6, <2>7
  <2> QED
    BY <2>8 DEF b, d
<1> HIDE DEF T
<1>4. \A k \in Nat : k \in T
  BY <1>2, <1>3, Induction
<1>5. n - i \in Nat /\ i + (n - i) = n /\ i + (n - i) <= n
  OBVIOUS
<1>6. Prefix(f[i], f[i + (n - i)])
  BY <1>4, <1>5 DEF T
<1> QED
  BY <1>5, <1>6

\* Two ways through a type are the same, as far as both go.
LEMMA WaysAgree ==
  ASSUME NEW t, NEW n \in Nat, NEW f, Way(f, n, t), NEW m \in Nat, NEW g, Way(g, m, t),
         AtEnd(g[m])
  PROVE  n <= m /\ f[n] = g[n]
<1> DEFINE T == {k \in Nat : k <= n /\ k <= m => f[k] = g[k]}
<1>1. 0 \in T
  BY DEF Way
<1>2. ASSUME NEW k \in Nat, k \in T PROVE k + 1 \in T
  <2> SUFFICES ASSUME k + 1 <= n, k + 1 <= m PROVE f[k + 1] = g[k + 1]
    OBVIOUS
  <2>1. k + 1 \in 1 .. n /\ k + 1 \in 1 .. m /\ (k + 1) - 1 = k /\ k <= n /\ k <= m
    OBVIOUS
  <2>2. f[k + 1] = After(f[k]) /\ g[k + 1] = After(g[k])
    BY <2>1 DEF Way
  <2>3. f[k] = g[k]
    BY <1>2, <2>1
  <2> QED
    BY <2>2, <2>3
<1> HIDE DEF T
<1>3. \A k \in Nat : k \in T
  BY <1>1, <1>2, Induction
<1>4. n <= m
  <2> SUFFICES ASSUME ~(n <= m) PROVE FALSE
    OBVIOUS
  <2>1. m <= n /\ m <= m /\ m + 1 \in 1 .. n /\ (m + 1) - 1 = m
    OBVIOUS
  <2>2. f[m] = g[m]
    BY <1>3, <2>1 DEF T
  <2>3. ~AtEnd(f[m])
    BY <2>1 DEF Way
  <2> QED
    BY <2>2, <2>3
<1>5. n <= n
  OBVIOUS
<1>6. f[n] = g[n]
  BY <1>3, <1>4, <1>5 DEF T
<1> QED
  BY <1>4, <1>6

\* How a place on the way compares with the end of it.
LEMMA ToTheEnd ==
  ASSUME NEW t, NEW c, Reaches(t, c), NEW d, Reaches(t, d), AtEnd(d)
  PROVE  /\ Prefix(c, d) /\ (AtEnd(c) => c = d)
         /\ MoreAt(c) /\ MemberAt(c).kind # "type" =>
              c.done + 1 <= d.done /\ d.names[c.done + 1] = MemberAt(c)
<1>1. PICK n \in Nat : \E f : Way(f, n, t) /\ f[n] = c
  BY DEF Reaches
<1>2. PICK f : Way(f, n, t) /\ f[n] = c
  BY <1>1
<1>3. PICK m \in Nat : \E g : Way(g, m, t) /\ g[m] = d
  BY DEF Reaches
<1>4. PICK g : Way(g, m, t) /\ g[m] = d
  BY <1>3
<1>5. n <= m /\ c = g[n]
  BY <1>2, <1>4, WaysAgree
<1>6. Prefix(c, d)
  <2>1. n \in 0 .. m
    BY <1>5
  <2> QED
    BY <1>4, <1>5, <2>1, WayPrefix
<1>7. ASSUME n # m PROVE n + 1 \in 0 .. m /\ ~AtEnd(c) /\ g[n + 1] = After(c)
  <2>1. n + 1 \in 0 .. m /\ n + 1 \in 1 .. m /\ (n + 1) - 1 = n
    BY <1>5, <1>7
  <2> QED
    BY <1>4, <1>5, <2>1 DEF Way
<1>8. AtEnd(c) => c = d
  BY <1>4, <1>5, <1>7
<1>9. ASSUME MoreAt(c), MemberAt(c).kind # "type"
      PROVE  c.done + 1 <= d.done /\ d.names[c.done + 1] = MemberAt(c)
  <2>1. n # m
    <3>1. ~AtEnd(c)
      BY <1>9 DEF AtEnd
    <3> QED
      BY <1>4, <1>5, <3>1
  <2> DEFINE e == After(c)
  <2>2. Prefix(e, d)
    BY <1>4, <1>7, <2>1, WayPrefix
  <2>3. e.done = c.done + 1 /\ e.names = With(c.names, c.done + 1, MemberAt(c))
    BY <1>9 DEF After
  <2>4. c.done \in Nat
    <3>1. n \in 0 .. m
      BY <1>5
    <3> QED
      BY <1>4, <1>5, <3>1 DEF Way
  <2> HIDE DEF e
  <2>5. c.done + 1 \in 1 .. c.done + 1
    BY <2>4
  <2>6. e.names[c.done + 1] = MemberAt(c)
    BY <2>3, <2>5 DEF With
  <2> QED
    BY <2>2, <2>3, <2>5, <2>6 DEF Prefix
<1> QED
  BY <1>6, <1>8, <1>9

Lined(x) == \E S : x \in Seq(S)

LEMMA LinedAppend ==
  ASSUME NEW x, Lined(x), NEW e
  PROVE  /\ Lined(Append(x, e)) /\ Len(x) \in Nat /\ Len(Append(x, e)) = Len(x) + 1
         /\ Append(x, e)[Len(x) + 1] = e
         /\ \A i \in 1 .. Len(x) : Append(x, e)[i] = x[i]
<1>1. PICK S : x \in Seq(S)
  BY DEF Lined
<1> DEFINE T == S \cup {e}
<1>2. x \in Seq(T) /\ e \in T
  <2>1. S \subseteq T /\ e \in T
    OBVIOUS
  <2> HIDE DEF T
  <2> QED
    BY <1>1, <2>1, SeqMonotonic
<1> HIDE DEF T
<1>3. Len(x) \in Nat
  BY <1>1, LenProperties
<1>4. /\ Append(x, e) \in Seq(T) /\ Len(Append(x, e)) = Len(x) + 1
      /\ \A i \in 1 .. Len(x) : Append(x, e)[i] = x[i]
      /\ Append(x, e)[Len(x) + 1] = e
  BY <1>2, AppendProperties
<1> QED
  BY <1>3, <1>4 DEF Lined

LEMMA LinedEmpty == Lined(<<>>) /\ Len(<<>>) = 0
<1>1. <<>> \in Seq({})
  BY EmptySeq
<1> QED
  BY <1>1, EmptySeq DEF Lined

LEMMA LinedIs == ASSUME NEW x, Lined(x) PROVE Len(x) \in Nat /\ DOMAIN x = 1 .. Len(x)
<1>1. PICK S : x \in Seq(S)
  BY DEF Lined
<1> QED
  BY <1>1, LenProperties

\* What a place tells of the stack.
Tells(c, s, ms, f) ==
         /\ MoreAt(c) = (f.next <= Len(Types[f.type])) /\ MemberAt(c) = Types[f.type][f.next]
         /\ c.depth = Len(s) /\ c.done = Len(ms)
         /\ c.shape = [i \in 1 .. Len(s) |-> <<s[i].type, s[i].next>>]
         /\ c.names = [i \in 1 .. Len(ms) |-> ms[i].member]
         /\ AtEnd(c) = (Len(s) = 1 /\ ~(f.next <= Len(Types[f.type])))

LEMMA PlaceIs ==
  ASSUME NEW s \in Seq(FrameSet), Len(s) > 0, NEW ms
  PROVE  Tells(Place(s, ms), s, ms, s[Len(s)])
<1> DEFINE f == s[Len(s)]
           c == Place(s, ms)
<1>1. Len(s) \in Nat /\ Len(s) \in 1 .. Len(s)
  BY LenProperties
<1>2. /\ c.depth = Len(s) /\ c.done = Len(ms)
      /\ c.shape = [i \in 1 .. Len(s) |-> <<s[i].type, s[i].next>>]
      /\ c.names = [i \in 1 .. Len(ms) |-> ms[i].member]
  BY DEF Place, ShapeOf
<1>a. f = s[Len(s)]
  OBVIOUS
<1> HIDE DEF c, f
<1>3. c.shape[c.depth] = <<f.type, f.next>>
  BY <1>1, <1>2, <1>a
<1>4. c.shape[c.depth][1] = f.type /\ c.shape[c.depth][2] = f.next
  BY <1>3
<1>5. MoreAt(c) = (f.next <= Len(Types[f.type])) /\ MemberAt(c) = Types[f.type][f.next]
  BY <1>4 DEF MoreAt, MemberAt
<1>6. Tells(c, s, ms, f)
  BY <1>2, <1>5 DEF AtEnd, Tells
<1> QED
  BY <1>6 DEF c, f

\* f has the shape of s, and s2 is s gone on.
GoesOn(f, s, s2, n) ==
  /\ Len(s2) = n
  /\ \A i \in 1 .. n :
       /\ f[i] = <<s[i].type, s[i].next>> /\ s2[i].type = s[i].type
       /\ s2[i].next = IF i = n THEN s[i].next + 1 ELSE s[i].next

LEMMA WentIs ==
  ASSUME NEW s, NEW s2, NEW n \in Nat, n > 0, NEW f, GoesOn(f, s, s2, n)
  PROVE  ShapeOf(s2) = Went(f, n)
<1> DEFINE a == [i \in 1 .. n |-> <<s2[i].type, s2[i].next>>]
           x == <<f[n][1], f[n][2] + 1>>
           b == [i \in 1 .. n |-> IF i = n THEN x ELSE f[i]]
<1>1. n \in 1 .. n
  OBVIOUS
<1>2. x = <<s[n].type, s[n].next + 1>>
  <2>1. f[n] = <<s[n].type, s[n].next>>
    BY <1>1 DEF GoesOn
  <2> QED
    BY <2>1
<1> HIDE DEF x
<1>3. ASSUME NEW i \in 1 .. n
      PROVE  <<s2[i].type, s2[i].next>> = IF i = n THEN x ELSE f[i]
  BY <1>2 DEF GoesOn
<1>4. a = b
  BY <1>3
<1>5. Len(s2) = n
  BY DEF GoesOn
<1> QED
  BY <1>4, <1>5 DEF Went, With, x, ShapeOf

LEMMA PlaceMember ==
  ASSUME NEW s \in Seq(FrameSet), Len(s) > 0, NEW s2, Onward(s, s2),
         NEW ms, Lined(ms), NEW r, NEW f, f = s[Len(s)],
         f.next <= Len(Types[f.type]), r.member = Types[f.type][f.next],
         r.member.kind # "type"
  PROVE  Place(s2, Append(ms, r)) = After(Place(s, ms))
<1> DEFINE c == Place(s, ms)
           d == Place(s2, Append(ms, r))
           n == Len(s)
           k == Len(ms)
<1>1. /\ MoreAt(c) /\ MemberAt(c) = r.member /\ c.depth = n /\ c.done = k
      /\ c.shape = [i \in 1 .. n |-> <<s[i].type, s[i].next>>]
      /\ c.names = [i \in 1 .. k |-> ms[i].member]
  <2>1. Tells(c, s, ms, f)
    BY PlaceIs
  <2> HIDE DEF c
  <2> QED
    BY <2>1 DEF Tells
<1>2. n \in Nat /\ n > 0
  BY LenProperties
<1>3. /\ k \in Nat /\ Len(Append(ms, r)) = k + 1 /\ Append(ms, r)[k + 1] = r
      /\ \A i \in 1 .. k : Append(ms, r)[i] = ms[i]
  BY LinedAppend
<1>4. /\ Len(s2) = n
      /\ \A i \in 1 .. n : /\ s2[i].type = s[i].type
                           /\ s2[i].next = IF i = n THEN s[i].next + 1 ELSE s[i].next
  BY DEF Onward
<1> DEFINE ms2 == Append(ms, r)
           sh == ShapeOf(s2)
           nm == [i \in 1 .. Len(ms2) |-> ms2[i].member]
<1>5. d = [depth |-> Len(s2), shape |-> sh, done |-> Len(ms2), names |-> nm]
  BY DEF Place
<1>6. After(c) = [depth |-> n, shape |-> Went(c.shape, n), done |-> k + 1,
                  names |-> With(c.names, k + 1, r.member)]
  BY <1>1 DEF After
<1>7. n = Len(s)
  OBVIOUS
<1> HIDE DEF c, d, n, k, ms2
<1>8. sh = Went(c.shape, n)
  <2>1. \A i \in 1 .. n : c.shape[i] = <<s[i].type, s[i].next>>
    BY <1>1
  <2> QED
    <3>1. GoesOn(c.shape, s, s2, n)
      BY <1>4, <2>1 DEF GoesOn
    <3> QED
      BY <1>2, <3>1, WentIs
<1>9. nm = With(c.names, k + 1, r.member)
  <2>1. ASSUME NEW i \in 1 .. k + 1
        PROVE  ms2[i].member = IF i = k + 1 THEN r.member ELSE c.names[i]
    <3>1. i = k + 1 \/ i \in 1 .. k
      BY <1>3
    <3> QED
      BY <1>1, <1>3, <3>1 DEF ms2
  <2>2. Len(ms2) = k + 1
    BY <1>3 DEF ms2
  <2> QED
    BY <2>1, <2>2 DEF With
<1>10. d = After(c)
  BY <1>3, <1>4, <1>5, <1>6, <1>8, <1>9 DEF ms2
<1> QED
  BY <1>10 DEF c, d, ms2

LEMMA PlaceEnter ==
  ASSUME NEW s \in Seq(FrameSet), Len(s) > 0, NEW ms, NEW f, f = s[Len(s)],
         NEW u \in DOMAIN Types, NEW q \in Nat, f.next <= Len(Types[f.type]),
         Types[f.type][f.next].kind = "type", Types[f.type][f.next].type = u
  PROVE  Place(Append(s, [type |-> u, next |-> 1, start |-> q]), ms) = After(Place(s, ms))
<1> DEFINE c == Place(s, ms)
           g == [type |-> u, next |-> 1, start |-> q]
           s2 == Append(s, g)
           d == Place(s2, ms)
           n == Len(s)
           sh == ShapeOf(s2)
<1>1. /\ MoreAt(c) /\ MemberAt(c) = Types[f.type][f.next]
      /\ c.depth = n /\ c.done = Len(ms)
      /\ c.shape = [i \in 1 .. n |-> <<s[i].type, s[i].next>>]
      /\ c.names = [i \in 1 .. Len(ms) |-> ms[i].member]
  <2>1. Tells(c, s, ms, f)
    BY PlaceIs
  <2> HIDE DEF c
  <2> QED
    BY <2>1 DEF Tells
<1>2. g \in FrameSet /\ g.type = u /\ g.next = 1
  BY DEF FrameSet
<1> HIDE DEF g
<1>3. /\ n \in Nat /\ Len(s2) = n + 1 /\ s2[n + 1] = g /\ \A i \in 1 .. n : s2[i] = s[i]
  BY <1>2, EnteredIs
<1>4. d = [depth |-> Len(s2), shape |-> sh, done |-> Len(ms),
           names |-> [i \in 1 .. Len(ms) |-> ms[i].member]]
  BY DEF Place
<1>5. After(c) = [depth |-> n + 1, shape |-> With(c.shape, n + 1, <<u, 1>>),
                  done |-> Len(ms), names |-> c.names]
  BY <1>1 DEF After
<1> HIDE DEF c, d, n, s2
<1>6. sh = With(c.shape, n + 1, <<u, 1>>)
  <2>1. ASSUME NEW i \in 1 .. n + 1
        PROVE  <<s2[i].type, s2[i].next>> = IF i = n + 1 THEN <<u, 1>> ELSE c.shape[i]
    <3>1. i = n + 1 \/ i \in 1 .. n
      BY <1>3
    <3> QED
      BY <1>1, <1>2, <1>3, <3>1
  <2> QED
    BY <1>3, <2>1 DEF With, ShapeOf
<1>7. d = After(c)
  BY <1>1, <1>3, <1>4, <1>5, <1>6
<1> QED
  BY <1>7 DEF c, d, s2, g

LEMMA PlaceLeave ==
  ASSUME NEW s \in Seq(FrameSet), Len(s) > 1, NEW ms, NEW s2, Onward(Front(s), s2),
         ~(s[Len(s)].next <= Len(Types[s[Len(s)].type]))
  PROVE  Place(s2, ms) = After(Place(s, ms))
<1> DEFINE c == Place(s, ms)
           d == Place(s2, ms)
           n == Len(s) - 1
           b == Front(s)
           sh == ShapeOf(s2)
<1>1. Len(s) \in Nat /\ n \in Nat /\ n > 0
  BY LenProperties
<1>2. /\ ~MoreAt(c) /\ c.depth = Len(s) /\ c.done = Len(ms)
      /\ c.shape = [i \in 1 .. Len(s) |-> <<s[i].type, s[i].next>>]
      /\ c.names = [i \in 1 .. Len(ms) |-> ms[i].member]
  <2>1. Len(s) > 0
    BY <1>1
  <2>2. Tells(c, s, ms, s[Len(s)])
    BY <2>1, PlaceIs
  <2> HIDE DEF c
  <2> QED
    BY <2>2 DEF Tells
<1>3. Len(b) = n /\ \A i \in 1 .. n : b[i] = s[i]
  BY FrontIs
<1>4. /\ Len(s2) = Len(b)
      /\ \A i \in 1 .. Len(b) : /\ s2[i].type = b[i].type
                                /\ s2[i].next = IF i = Len(b) THEN b[i].next + 1 ELSE b[i].next
  BY DEF Onward
<1>5. d = [depth |-> Len(s2), shape |-> sh, done |-> Len(ms),
           names |-> [i \in 1 .. Len(ms) |-> ms[i].member]]
  BY DEF Place
<1>6. After(c) = [depth |-> n, shape |-> Went(c.shape, n), done |-> Len(ms), names |-> c.names]
  BY <1>2 DEF After
<1>7. \A i \in 1 .. n : i \in 1 .. Len(s)
  BY <1>1
<1> HIDE DEF c, d, n, b
<1>8. sh = Went(c.shape, n)
  <2>1. \A i \in 1 .. n : c.shape[i] = <<b[i].type, b[i].next>>
    BY <1>2, <1>3, <1>7
  <2> QED
    <3>1. GoesOn(c.shape, b, s2, n)
      BY <1>3, <1>4, <2>1 DEF GoesOn
    <3> QED
      BY <1>1, <3>1, WentIs
<1>9. d = After(c)
  BY <1>2, <1>3, <1>4, <1>5, <1>6, <1>8
<1> QED
  BY <1>9 DEF c, d

(***************************************************************************)
(* The record in the block: where its members lie.                         *)
(***************************************************************************)
Lies(b, p, m, v, q) ==
  /\ IsMarshaller(m) /\ IsValue(m, v) /\ Legal(m, v)
  /\ q = p + Len(Marshalled(m, v))
  /\ \A j \in 1 .. Len(Marshalled(m, v)) : b[p + j] = Marshalled(m, v)[j]

Laid(b, from, to, ms, at) ==
  /\ from \in Nat /\ to \in Nat /\ Lined(ms)
  /\ at[1] = from /\ at[Len(ms) + 1] = to
  /\ \A i \in 1 .. Len(ms) + 1 : at[i] \in Nat /\ at[i] <= to
  /\ \A i \in 1 .. Len(ms) : Lies(b, at[i], ms[i].member, ms[i].value, at[i + 1])

LEMMA LaidStart ==
  ASSUME NEW b, NEW p \in Nat
  PROVE  \E at : Laid(b, p, p, <<>>, at)
<1> DEFINE at == [i \in 1 .. 1 |-> p]
<1>1. at[1] = p /\ \A i \in 1 .. 0 + 1 : at[i] = p
  OBVIOUS
<1>2. \A i \in 1 .. 0 : FALSE
  OBVIOUS
<1> HIDE DEF at
<1>3. p <= p /\ 0 + 1 = 1
  OBVIOUS
<1>4. Laid(b, p, p, <<>>, at)
  BY <1>1, <1>2, <1>3, LinedEmpty DEF Laid
<1> QED
  BY <1>4

LEMMA LiesStill ==
  ASSUME NEW b, NEW b2, NEW p \in Nat, NEW m, NEW v, NEW q \in Nat, NEW to \in Nat,
         Lies(b, p, m, v, q), q <= to, \A x \in 1 .. to : b2[x] = b[x]
  PROVE  Lies(b2, p, m, v, q)
<1> DEFINE out == Marshalled(m, v)
<1>1. out \in Seq(Byte)
  BY MarshalledIs DEF Lies
<1>2. Len(out) \in Nat
  BY <1>1, LenProperties
<1>3. q = p + Len(out) /\ \A j \in 1 .. Len(out) : b[p + j] = out[j]
  BY DEF Lies
<1> HIDE DEF out
<1>4. ASSUME NEW j \in 1 .. Len(out) PROVE b2[p + j] = out[j]
  <2>1. p + j \in 1 .. to
    BY <1>2, <1>3
  <2> QED
    BY <1>3, <2>1
<1> QED
  BY <1>3, <1>4 DEF Lies, out

LEMMA LaidNext ==
  ASSUME NEW b, NEW from, NEW to, NEW ms, NEW at, Laid(b, from, to, ms, at),
         NEW b2, \A x \in 1 .. to : b2[x] = b[x],
         NEW r, NEW to2 \in Nat, to <= to2, Lies(b2, to, r.member, r.value, to2)
  PROVE  \E at2 : Laid(b2, from, to2, Append(ms, r), at2)
<1> DEFINE k == Len(ms)
           ms2 == Append(ms, r)
           at2 == [i \in 1 .. k + 2 |-> IF i = k + 2 THEN to2 ELSE at[i]]
<1>1. /\ from \in Nat /\ to \in Nat /\ Lined(ms)
      /\ at[1] = from /\ at[k + 1] = to
      /\ \A i \in 1 .. k + 1 : at[i] \in Nat /\ at[i] <= to
      /\ \A i \in 1 .. k : Lies(b, at[i], ms[i].member, ms[i].value, at[i + 1])
  BY DEF Laid
<1>2. /\ Lined(ms2) /\ k \in Nat /\ Len(ms2) = k + 1 /\ ms2[k + 1] = r
      /\ \A i \in 1 .. k : ms2[i] = ms[i]
  BY <1>1, LinedAppend
<1> HIDE DEF k, ms2
<1>3. k + 2 \in 1 .. k + 2 /\ \A i \in 1 .. k + 1 : i \in 1 .. k + 2 /\ i # k + 2
  BY <1>2
<1>4. at2[k + 2] = to2 /\ \A i \in 1 .. k + 1 : at2[i] = at[i]
  BY <1>3
<1> HIDE DEF at2
<1>5. 1 \in 1 .. k + 1 /\ (k + 1) + 1 = k + 2 /\ k + 1 \in 1 .. k + 1
  BY <1>2
<1>6. at2[1] = from /\ at2[Len(ms2) + 1] = to2
  BY <1>1, <1>2, <1>4, <1>5
<1>7. ASSUME NEW i \in 1 .. Len(ms2) + 1 PROVE at2[i] \in Nat /\ at2[i] <= to2
  <2>1. i = k + 2 \/ i \in 1 .. k + 1
    BY <1>2
  <2>2. CASE i = k + 2
    BY <1>4, <2>2
  <2>3. CASE i \in 1 .. k + 1
    BY <1>1, <1>4, <2>3
  <2> QED
    BY <2>1, <2>2, <2>3
<1>8. ASSUME NEW i \in 1 .. Len(ms2)
      PROVE  Lies(b2, at2[i], ms2[i].member, ms2[i].value, at2[i + 1])
  <2>1. i = k + 1 \/ i \in 1 .. k
    BY <1>2
  <2>2. CASE i = k + 1
    <3>1. at2[i] = to /\ at2[i + 1] = to2 /\ ms2[i] = r
      BY <1>1, <1>2, <1>4, <1>5, <2>2
    <3> QED
      BY <3>1
  <2>3. CASE i \in 1 .. k
    <3>1. i \in 1 .. k + 1 /\ i + 1 \in 1 .. k + 1
      BY <1>2, <2>3
    <3>2. at2[i] = at[i] /\ at2[i + 1] = at[i + 1] /\ ms2[i] = ms[i]
      BY <1>2, <1>4, <2>3, <3>1
    <3>3. Lies(b, at[i], ms[i].member, ms[i].value, at[i + 1])
      BY <1>1, <2>3
    <3>4. at[i] \in Nat /\ at[i + 1] \in Nat /\ at[i + 1] <= to
      BY <1>1, <3>1
    <3>5. Lies(b2, at[i], ms[i].member, ms[i].value, at[i + 1])
      BY <1>1, <3>3, <3>4, LiesStill
    <3> QED
      BY <3>2, <3>5
  <2> QED
    BY <2>1, <2>2, <2>3
<1>9. Laid(b2, from, to2, ms2, at2)
  BY <1>1, <1>2, <1>6, <1>7, <1>8 DEF Laid
<1> QED
  BY <1>9 DEF ms2

\* Read as far as q: the members done are the first of the record.
Resumed(ms, q, ws, at) ==
  /\ Len(ms) <= Len(ws) /\ q = at[Len(ms) + 1]
  /\ \A i \in 1 .. Len(ms) :
       /\ ms[i].member = ws[i].member
       /\ FromZero(ws[i].member) => Alike(ws[i].member, ws[i].value, ms[i].value)

\* The record that is in the block, whatever call is in progress.
Same == call = "demarshal" /\ begun.type = written.type /\ begun.pos = written.start

Whole(w) ==
  \E d : /\ Reaches(w.type, d) /\ AtEnd(d) /\ d.done = Len(w.members)
         /\ \A i \in 1 .. Len(w.members) : d.names[i] = w.members[i].member

InBlock(b, w, ms, q, same) ==
  /\ w.size \in Nat /\ w.start \in Nat /\ w.start + w.size <= Size
  /\ \E at : /\ Laid(b, w.start, w.start + w.size, w.members, at)
             /\ same => Resumed(ms, q, w.members, at)

Along == call # "none" => Reaches(begun.type, Place(stack, members))

Kept == written # NULL => Whole(written) /\ InBlock(bytes, written, members, pos, Same)

Writing ==
  call = "marshal" => written = NULL /\ \E at : Laid(bytes, begun.pos, pos, members, at)

BackInv == Lined(members) /\ Along /\ Kept /\ Writing /\ ComesBack

\* When no call is in progress, only the record counts.
LEMMA KeptBetween ==
  ASSUME Kept, call' = "none", members' = <<>> \/ Lined(members'), ComesBack',
         written' = NULL \/ (written' = written /\ bytes' = bytes)
  PROVE  BackInv'
<1>1. Lined(members')
  BY LinedEmpty
<1>2. ~Same'
  BY DEF Same
<1>3. Kept'
  <2>1. CASE written' = NULL
    BY <2>1 DEF Kept
  <2>2. CASE written' = written /\ bytes' = bytes
    <3> SUFFICES ASSUME written # NULL
                 PROVE  Whole(written) /\ InBlock(bytes, written, members', pos', Same')
      BY <2>2 DEF Kept
    <3>1. Whole(written) /\ InBlock(bytes, written, members, pos, Same)
      BY DEF Kept
    <3>2. PICK at : Laid(bytes, written.start, written.start + written.size,
                         written.members, at)
      BY <3>1 DEF InBlock
    <3> QED
      BY <1>2, <3>1, <3>2 DEF InBlock
  <2> QED
    BY <2>1, <2>2
<1>4. Along' /\ Writing'
  BY DEF Along, Writing
<1> QED
  BY <1>1, <1>3, <1>4 DEF BackInv

LEMMA BackCaller ==
  ASSUME CallInv, BackInv,
         \/ \E p \in Places : Seek(p)
         \/ \E b \in Noise : Fill(b)
         \/ \E n \in {1, Size} : Read(n) \/ Write(n, 0) \/ Extract(n)
  PROVE  BackInv'
<1>1. Direct
  BY CallerKeeps
<1>2. call' = "none" /\ members' = <<>> /\ returned' = NULL
  BY <1>1 DEF Direct
<1>3. written' = NULL \/ (written' = written /\ bytes' = bytes)
  BY DEF Seek, Fill, Read, Write, Extract
<1>4. ComesBack'
  BY <1>2 DEF ComesBack, Again
<1>5. Kept
  BY DEF BackInv
<1> QED
  BY <1>2, <1>3, <1>4, <1>5, KeptBetween

LEMMA FirstPlaceIs ==
  ASSUME NEW t, NEW p
  PROVE  Place(<<[type |-> t, next |-> 1, start |-> p]>>, <<>>) = FirstPlace(t)
<1> DEFINE f == [type |-> t, next |-> 1, start |-> p]
           s == <<f>>
<1>1. f.type = t /\ f.next = 1
  OBVIOUS
<1>2. Len(s) = 1 /\ s[1] = f
  OBVIOUS
<1> HIDE DEF f, s
<1>3. ShapeOf(s) = [i \in 1 .. 1 |-> <<t, 1>>]
  <2>1. ASSUME NEW i \in 1 .. 1 PROVE <<s[i].type, s[i].next>> = <<t, 1>>
    BY <1>1, <1>2
  <2> QED
    BY <1>2, <2>1 DEF ShapeOf
<1>4. Len(<<>>) = 0
  BY LinedEmpty
<1>5. [i \in 1 .. Len(<<>>) |-> <<>>[i].member] = [i \in 1 .. 0 |-> t]
  BY <1>4
<1>6. Place(s, <<>>) = FirstPlace(t)
  BY <1>2, <1>3, <1>4, <1>5 DEF Place, FirstPlace
<1> QED
  BY <1>6 DEF s, f

LEMMA BackCall ==
  ASSUME CallInv, BackInv, NEW which \in {"marshal", "demarshal"}, NEW t \in DOMAIN Types,
         Call(which, t)
  PROVE  BackInv'
<1>1. /\ call' = which /\ stack' = <<[type |-> t, next |-> 1, start |-> pos]>>
      /\ begun' = [call |-> which, type |-> t, pos |-> pos] /\ returned' = NULL
      /\ pos' = pos /\ bytes' = bytes /\ members' = <<>>
      /\ written' = IF which = "marshal" THEN NULL ELSE written
  BY DEF Call, Frame, block
<1>2. pos \in Nat
  BY SizesAre DEF CallInv, BlockOK
<1>3. begun'.type = t /\ begun'.pos = pos
  BY <1>1
<1>4. Along'
  <2>1. Place(stack', members') = FirstPlace(t)
    BY <1>1, FirstPlaceIs
  <2> QED
    BY <1>3, <2>1, FirstReached DEF Along
<1>5. Writing'
  <2>1. \E at : Laid(bytes', pos, pos, <<>>, at)
    BY <1>2, LaidStart
  <2> QED
    BY <1>1, <1>3, <2>1 DEF Writing
<1>6. Kept'
  <2>1. CASE written' = NULL
    BY <2>1 DEF Kept
  <2>2. CASE written' # NULL
    <3>1. written' = written /\ written # NULL
      BY <1>1, <2>2
    <3>2. Whole(written) /\ InBlock(bytes, written, members, pos, Same)
      BY <3>1 DEF BackInv, Kept
    <3>3. PICK at : Laid(bytes, written.start, written.start + written.size,
                         written.members, at)
      BY <3>2 DEF InBlock
    <3>4. ASSUME Same' PROVE Resumed(<<>>, pos, written.members, at)
      <4>1. pos = written.start
        BY <1>3, <3>1, <3>4 DEF Same
      <4>2. Len(written.members) \in Nat /\ at[1] = written.start
        BY <3>3, LinedIs DEF Laid
      <4>3. Len(<<>>) = 0 /\ 0 + 1 = 1 /\ \A i \in 1 .. 0 : FALSE
        BY LinedEmpty
      <4> QED
        BY <4>1, <4>2, <4>3 DEF Resumed
    <3>5. InBlock(bytes, written, <<>>, pos, Same')
      BY <3>2, <3>3, <3>4 DEF InBlock
    <3> QED
      BY <1>1, <3>1, <3>2, <3>5 DEF Kept
  <2> QED
    BY <2>1, <2>2
<1>7. ComesBack'
  BY <1>1 DEF ComesBack, Again
<1> QED
  BY <1>1, <1>4, <1>5, <1>6, <1>7, LinedEmpty DEF BackInv

\* The place of a call in progress.
LEMMA PlaceNow ==
  ASSUME CallInv, BackInv, call # "none", NEW c, c = Place(stack, members)
  PROVE  /\ Reaches(begun.type, c) /\ c.done = Len(members) /\ Len(members) \in Nat
         /\ MoreAt(c) = More /\ MemberAt(c) = Member
         /\ AtEnd(c) = (Len(stack) = 1 /\ ~More)
         /\ \A i \in 1 .. Len(members) : c.names[i] = members[i].member
<1>1. stack \in Seq(FrameSet) /\ Len(stack) > 0 /\ Top = stack[Len(stack)]
  BY TopIs
<1>2. Tells(c, stack, members, Top)
  BY <1>1, PlaceIs
<1>3. Len(members) \in Nat
  BY LinedIs DEF BackInv
<1>4. Reaches(begun.type, c)
  BY DEF BackInv, Along
<1>5. /\ c.done = Len(members) /\ MoreAt(c) = More /\ MemberAt(c) = Member
      /\ AtEnd(c) = (Len(stack) = 1 /\ ~More)
      /\ c.names = [i \in 1 .. Len(members) |-> members[i].member]
  BY <1>2 DEF Tells, More, Member
<1>6. \A i \in 1 .. Len(members) : c.names[i] = members[i].member
  BY <1>5
<1> QED
  BY <1>3, <1>4, <1>5, <1>6

\* A member done is a step on the way.
LEMMA AlongMember ==
  ASSUME CallInv, BackInv, call # "none", More, Member.kind # "type", NEW v,
         Did(Member, v), Onward(stack, stack'), UNCHANGED <<call, begun>>
  PROVE  Along' /\ Lined(members')
<1> DEFINE c == Place(stack, members)
           r == [member |-> Member, value |-> v]
<1>1. stack \in Seq(FrameSet) /\ Len(stack) > 0 /\ Top = stack[Len(stack)]
  BY TopIs
<1>2. Lined(members) /\ members' = Append(members, r)
  BY DEF BackInv, Did
<1>3. r.member = Types[Top.type][Top.next] /\ r.member.kind # "type"
      /\ Top.next <= Len(Types[Top.type])
  BY DEF Member, More
<1> HIDE DEF r
<1>4. Place(stack', members') = After(c)
  BY <1>1, <1>2, <1>3, PlaceMember
<1>5. c = Place(stack, members)
  OBVIOUS
<1> HIDE DEF c
<1>6. /\ Reaches(begun.type, c) /\ c.done \in Nat /\ MoreAt(c) /\ MemberAt(c).kind # "type"
  BY <1>5, PlaceNow
<1>7. ~AtEnd(c) /\ After(c).done \in Nat
  <2>1. After(c).done = c.done + 1
    BY <1>6 DEF After
  <2> QED
    BY <1>6, <2>1 DEF AtEnd
<1>8. Reaches(begun.type, After(c))
  BY <1>6, <1>7, AfterReached
<1>9. Lined(members')
  BY <1>2, LinedAppend
<1> QED
  BY <1>4, <1>8, <1>9 DEF Along

LEMMA BackMarshal ==
  ASSUME CallInv, BackInv, Marshal
  PROVE  BackInv'
<1>1. call = "marshal" /\ More /\ Member \in Members /\ IsMarshaller(Member)
      /\ Member.kind # "type"
  BY MarshalCases DEF Marshal
<1>2. PICK v : IsValue(Member, v) /\ MarshalEnds(v)
  BY MarshalCases
<1>3. /\ BlockOK /\ begun.call = "marshal" /\ written = NULL /\ Lined(members) /\ Kept
      /\ returned = NULL /\ pos \in Nat
  BY <1>1, TopIs, EndIs DEF BackInv, Writing
<1>4. CASE Throws \/ Fails
  <2>1. call' = "none" /\ written' = NULL /\ members' = members /\ begun' = begun
    BY <1>3, <1>4 DEF Throws, Fails, Return
  <2>2. ComesBack'
    BY <1>3, <2>1 DEF ComesBack, Again
  <2> QED
    BY <1>3, <2>1, <2>2, KeptBetween
<1>5. CASE /\ Legal(Member, v) /\ HasRoom(Marshalled(Member, v)) /\ Put(Marshalled(Member, v))
           /\ pos' = pos + Len(Marshalled(Member, v))
           /\ atEof' = (Member.kind = "bool" /\ atEof)
           /\ Did(Member, v) /\ NextMember /\ UNCHANGED <<call, begun, returned, written>>
  <2> DEFINE out == Marshalled(Member, v)
             r == [member |-> Member, value |-> v]
  <2>1. out \in Seq(Byte)
    BY <1>1, <1>2, <1>5, MarshalledIs
  <2>2. Len(out) \in Nat
    BY <2>1, LenProperties
  <2>3. /\ bytes' = [i \in 1 .. Size |->
                      IF i \in pos + 1 .. pos + Len(out) THEN out[i - pos] ELSE bytes[i]]
        /\ pos' = pos + Len(out) /\ Left >= Len(out) /\ Left = Size - pos /\ Size \in Nat
        /\ members' = Append(members, r)
    BY <1>5, SizesAre DEF Put, HasRoom, Left, Did
  <2>4. out = Marshalled(Member, v) /\ r.member = Member /\ r.value = v
    OBVIOUS
  <2> HIDE DEF out, r
  <2>5. \A x \in 1 .. pos : bytes'[x] = bytes[x]
    <3> SUFFICES ASSUME NEW x \in 1 .. pos PROVE bytes'[x] = bytes[x]
      OBVIOUS
    <3>1. x \in 1 .. Size /\ x \notin pos + 1 .. pos + Len(out)
      BY <1>3, <2>2, <2>3
    <3> QED
      BY <2>3, <3>1
  <2>6. Lies(bytes', pos, r.member, r.value, pos')
    <3>1. ASSUME NEW j \in 1 .. Len(out) PROVE bytes'[pos + j] = out[j]
      <4>1. pos + j \in 1 .. Size /\ pos + j \in pos + 1 .. pos + Len(out) /\ (pos + j) - pos = j
        BY <1>3, <2>2, <2>3
      <4> QED
        BY <2>3, <4>1
    <3> QED
      BY <1>1, <1>2, <1>5, <2>3, <2>4, <3>1 DEF Lies
  <2>7. PICK at : Laid(bytes, begun.pos, pos, members, at)
    BY <1>1 DEF BackInv, Writing
  <2>8. pos' \in Nat /\ pos <= pos'
    BY <1>3, <2>2, <2>3
  <2>9. \E at2 : Laid(bytes', begun.pos, pos', members', at2)
    BY <2>3, <2>5, <2>6, <2>7, <2>8, LaidNext
  <2>10. Onward(stack, stack')
    BY <1>1, <1>5, TopIs, OnwardIs DEF NextMember
  <2>11. Along' /\ Lined(members')
    BY <1>1, <1>5, <2>10, AlongMember
  <2>12. written' = NULL /\ begun' = begun /\ returned' = NULL
    BY <1>3, <1>5
  <2> QED
    BY <2>9, <2>11, <2>12 DEF BackInv, Kept, Writing, ComesBack, Again, FromZeros, Back
<1> QED
  BY <1>2, <1>4, <1>5 DEF MarshalEnds

LEMMA BackEnter ==
  ASSUME CallInv, BackInv, Enter
  PROVE  BackInv'
<1> DEFINE c == Place(stack, members)
<1>1. call # "none" /\ More /\ Member.kind = "type"
  BY DEF Enter
<1>2. Member.type \in DOMAIN Types
  BY EnterKeeps
<1>3. /\ stack \in Seq(FrameSet) /\ Len(stack) > 0 /\ Top = stack[Len(stack)] /\ pos \in Nat
  BY <1>1, TopIs
<1>4. /\ stack' = Append(stack, [type |-> Member.type, next |-> 1, start |-> pos])
      /\ UNCHANGED <<bytes, pos, call, begun, returned, members, written>>
  BY DEF Enter, Frame, block
<1>5. Place(stack', members) = After(c)
  BY <1>1, <1>2, <1>3, <1>4, PlaceEnter DEF More, Member
<1>6. c = Place(stack, members)
  OBVIOUS
<1> HIDE DEF c
<1>7. /\ Reaches(begun.type, c) /\ c.done \in Nat /\ MoreAt(c) /\ MemberAt(c).kind = "type"
  BY <1>1, <1>6, PlaceNow
<1>8. ~AtEnd(c) /\ After(c).done \in Nat
  <2>1. After(c).done = c.done
    BY <1>7 DEF After
  <2> QED
    BY <1>7, <2>1 DEF AtEnd
<1>9. Along'
  BY <1>4, <1>5, <1>7, <1>8, AfterReached DEF Along
<1> QED
  BY <1>4, <1>9 DEF BackInv, Kept, Writing, Same, ComesBack, Again, FromZeros, Back

\* What demarshal() finds for the next member w of the record, when it has read
\* those before it.
Finds(m, in, w) ==
  /\ w.member = m /\ Complete(m, in) /\ Taken(m, in) \in Nat /\ Taken(m, in) > 0
  /\ FromZero(m) => Accepts(m, in) /\ Alike(m, w.value, Demarshalled(m, in))

LEMMA NextOfRecord ==
  ASSUME CallInv, BackInv, call = "demarshal", More, Member.kind # "type",
         written # NULL, Same, NEW at,
         Laid(bytes, written.start, written.start + written.size, written.members, at),
         Resumed(members, pos, written.members, at)
  PROVE  /\ Len(members) \in Nat /\ Len(members) + 1 \in 1 .. Len(written.members)
         /\ Finds(Member, Unread, written.members[Len(members) + 1])
         /\ at[(Len(members) + 1) + 1] = pos + Taken(Member, Unread)
<1> DEFINE c == Place(stack, members)
           i == Len(members) + 1
           w == written.members[i]
           ws == written.members
           to == written.start + written.size
           out == Marshalled(Member, w.value)
<1>1. call # "none" /\ begun.type = written.type
  BY DEF Same
<1>2. Whole(written) /\ InBlock(bytes, written, members, pos, Same)
  BY DEF BackInv, Kept
<1>3. PICK d : /\ Reaches(written.type, d) /\ AtEnd(d) /\ d.done = Len(ws)
               /\ \A j \in 1 .. Len(ws) : d.names[j] = ws[j].member
  BY <1>2 DEF Whole
<1>4. c = Place(stack, members)
  OBVIOUS
<1> HIDE DEF c
<1>5. /\ Reaches(begun.type, c) /\ c.done = Len(members) /\ Len(members) \in Nat
      /\ MoreAt(c) /\ MemberAt(c) = Member
  BY <1>1, <1>4, PlaceNow
<1>6. c.done + 1 <= d.done /\ d.names[c.done + 1] = Member
  <2>1. Reaches(begun.type, d)
    BY <1>1, <1>3
  <2>2. MemberAt(c).kind # "type"
    BY <1>5
  <2>3. c.done + 1 <= d.done /\ d.names[c.done + 1] = MemberAt(c)
    BY <1>3, <1>5, <2>1, <2>2, ToTheEnd
  <2> QED
    BY <1>5, <2>3
<1>7. Len(ws) \in Nat
  BY LinedIs DEF Laid
<1>8. i \in 1 .. Len(ws) /\ i + 1 \in 1 .. Len(ws) + 1
  BY <1>3, <1>5, <1>6, <1>7
<1>9. w.member = Member
  BY <1>3, <1>5, <1>6, <1>8
<1>10. /\ Lies(bytes, at[i], w.member, w.value, at[i + 1]) /\ at[i] = pos
       /\ at[i + 1] \in Nat /\ at[i + 1] <= to /\ to <= Size
  <2>1. Lies(bytes, at[i], w.member, w.value, at[i + 1])
    BY <1>8 DEF Laid
  <2>2. at[i] = pos
    BY DEF Resumed
  <2>3. at[i + 1] \in Nat /\ at[i + 1] <= to
    BY <1>8 DEF Laid
  <2>4. to <= Size
    BY <1>2 DEF InBlock
  <2> QED
    BY <2>1, <2>2, <2>3, <2>4
<1>11. to \in Nat /\ Size \in Nat /\ pos \in Nat /\ BlockOK
  BY <1>1, SizesAre, TopIs DEF Laid
<1> DEFINE v == w.value
           e == at[i + 1]
<1>12. Lies(bytes, pos, Member, v, e) /\ e \in Nat /\ e <= Size
  <2>1. Lies(bytes, pos, Member, v, e)
    BY <1>9, <1>10
  <2>2. e \in Nat /\ e <= to /\ to <= Size
    BY <1>10
  <2> HIDE DEF e, to
  <2> QED
    BY <1>11, <2>1, <2>2
<1>13. e = at[i + 1] /\ v = w.value
  OBVIOUS
<1> HIDE DEF e, v
<1>14. /\ IsMarshaller(Member) /\ IsValue(Member, v) /\ Legal(Member, v)
       /\ e = pos + Len(Marshalled(Member, v))
       /\ \A j \in 1 .. Len(Marshalled(Member, v)) : bytes[pos + j] = Marshalled(Member, v)[j]
  BY <1>12 DEF Lies
<1>15. Len(Marshalled(Member, v)) \in Nat
  <2>1. Marshalled(Member, v) \in Seq(Byte)
    BY <1>14, MarshalledIs
  <2> QED
    BY <2>1, LenProperties
<1>16. /\ Unread \in Seq(Byte) /\ Len(Unread) = Left /\ Left = Size - pos
       /\ \A j \in 1 .. Left : Unread[j] = bytes[pos + j]
  BY <1>11, UnreadIs DEF Left
<1>17. Begins(Unread, Marshalled(Member, v))
  <2>1. Len(Marshalled(Member, v)) <= Left
    BY <1>11, <1>12, <1>14, <1>15, <1>16
  <2>2. \A j \in 1 .. Len(Marshalled(Member, v)) : j \in 1 .. Left
    BY <1>11, <1>15, <1>16, <2>1
  <2> QED
    BY <1>14, <1>16, <2>1, <2>2 DEF Begins
<1>18. /\ Complete(Member, Unread) /\ Taken(Member, Unread) = Len(Marshalled(Member, v))
       /\ Taken(Member, Unread) > 0
       /\ FromZero(Member) =>
            Accepts(Member, Unread) /\ Alike(Member, v, Demarshalled(Member, Unread))
  BY <1>14, <1>16, <1>17, RoundTrip
<1>19. Finds(Member, Unread, w)
  BY <1>9, <1>13, <1>15, <1>18 DEF Finds
<1>20. at[i + 1] = pos + Taken(Member, Unread)
  BY <1>13, <1>14, <1>18
<1> QED
  BY <1>5, <1>8, <1>19, <1>20

LEMMA ResumedNext ==
  ASSUME NEW ms, Lined(ms), NEW q, NEW ws, NEW at, Resumed(ms, q, ws, at),
         Len(ms) + 1 \in 1 .. Len(ws), Len(ws) \in Nat, NEW r, NEW q2,
         q2 = at[(Len(ms) + 1) + 1],
         r.member = ws[Len(ms) + 1].member,
         FromZero(r.member) => Alike(r.member, ws[Len(ms) + 1].value, r.value)
  PROVE  Resumed(Append(ms, r), q2, ws, at)
<1> DEFINE k == Len(ms)
           ms2 == Append(ms, r)
<1>1. /\ k \in Nat /\ Len(ms2) = k + 1 /\ ms2[k + 1] = r
      /\ \A i \in 1 .. k : ms2[i] = ms[i]
  BY LinedAppend
<1>2. k = Len(ms)
  OBVIOUS
<1> HIDE DEF k, ms2
<1>3. ASSUME NEW i \in 1 .. k + 1
      PROVE  /\ ms2[i].member = ws[i].member
             /\ FromZero(ws[i].member) => Alike(ws[i].member, ws[i].value, ms2[i].value)
  <2>1. i = k + 1 \/ i \in 1 .. k
    BY <1>1
  <2>2. CASE i = k + 1
    BY <1>1, <1>2, <2>2
  <2>3. CASE i \in 1 .. k
    BY <1>1, <1>2, <2>3 DEF Resumed
  <2> QED
    BY <2>1, <2>2, <2>3
<1>4. k + 1 <= Len(ws)
  BY <1>2
<1>5. Resumed(ms2, q2, ws, at)
  BY <1>1, <1>2, <1>3, <1>4 DEF Resumed
<1> QED
  BY <1>5 DEF ms2

LEMMA BackDemarshal ==
  ASSUME CallInv, BackInv, DemarshalMember
  PROVE  BackInv'
<1>1. call = "demarshal" /\ More /\ IsMarshaller(Member) /\ DemarshalEnds
      /\ Member.kind # "type"
  BY DemarshalCases DEF DemarshalMember
<1>2. /\ Lined(members) /\ Kept /\ begun.call = "demarshal" /\ returned = NULL
  BY <1>1, EndIs DEF BackInv
<1>3. ASSUME written # NULL, Same
      PROVE  \E at :
               /\ Laid(bytes, written.start, written.start + written.size, written.members, at)
               /\ Resumed(members, pos, written.members, at)
               /\ Len(members) \in Nat /\ Len(members) + 1 \in 1 .. Len(written.members)
               /\ Finds(Member, Unread, written.members[Len(members) + 1])
               /\ at[(Len(members) + 1) + 1] = pos + Taken(Member, Unread)
  <2>1. InBlock(bytes, written, members, pos, Same)
    BY <1>2, <1>3 DEF Kept
  <2>2. PICK at :
          /\ Laid(bytes, written.start, written.start + written.size, written.members, at)
          /\ Resumed(members, pos, written.members, at)
    BY <1>3, <2>1 DEF InBlock
  <2>3. /\ Len(members) \in Nat /\ Len(members) + 1 \in 1 .. Len(written.members)
        /\ Finds(Member, Unread, written.members[Len(members) + 1])
        /\ at[(Len(members) + 1) + 1] = pos + Taken(Member, Unread)
    BY <1>1, <1>3, <2>2, NextOfRecord
  <2> QED
    BY <2>2, <2>3
<1>4. CASE Left >= Bytes(Member) /\ ~Accepts(Member, Unread) /\ Throws
  <2>1. call' = "none" /\ returned' = Thrown
        /\ UNCHANGED <<bytes, members, begun, written>>
    BY <1>4 DEF Throws, Return, block
  <2>2. ComesBack'
    <3> SUFFICES ASSUME Again', FromZeros' PROVE FALSE
      BY DEF ComesBack
    <3>1. written # NULL /\ Same
      BY <1>1, <2>1 DEF Again, Same
    <3>2. /\ Len(members) + 1 \in 1 .. Len(written.members) /\ Lined(written.members)
          /\ Finds(Member, Unread, written.members[Len(members) + 1])
      BY <1>3, <3>1 DEF Laid
    <3> DEFINE w == written.members[Len(members) + 1]
    <3>3. ~FromZero(w.member)
      BY <1>4, <3>2 DEF Finds
    <3>4. Len(members) + 1 \in DOMAIN written.members
      BY <3>2, LinedIs
    <3> QED
      BY <2>1, <3>3, <3>4 DEF FromZeros
  <2> QED
    BY <1>2, <2>1, <2>2, KeptBetween
<1>5. CASE ~(Complete(Member, Unread) /\ Taken(Member, Unread) > 0) /\ Fails
  <2>1. call' = "none" /\ UNCHANGED <<bytes, members, begun, written>>
    BY <1>5 DEF Fails, Return
  <2>2. ComesBack'
    <3> SUFFICES ASSUME Again' PROVE FALSE
      BY DEF ComesBack
    <3>1. written # NULL /\ Same
      BY <1>1, <2>1 DEF Again, Same
    <3> QED
      BY <1>3, <1>5, <3>1 DEF Finds
  <2> QED
    BY <1>2, <2>1, <2>2, KeptBetween
<1>6. CASE /\ Took /\ pos' = pos + Taken(Member, Unread)
           /\ atEof' = (Member.kind = "bool" /\ atEof)
           /\ Did(Member, Demarshalled(Member, Unread)) /\ NextMember
           /\ UNCHANGED <<bytes, call, begun, returned, written>>
  <2> DEFINE v == Demarshalled(Member, Unread)
             r == [member |-> Member, value |-> v]
  <2>1. Onward(stack, stack')
    BY <1>1, <1>6, TopIs, OnwardIs DEF NextMember
  <2>2. Along' /\ Lined(members')
    BY <1>1, <1>6, <2>1, AlongMember
  <2>3. /\ UNCHANGED <<bytes, call, begun, returned, written>>
        /\ pos' = pos + Taken(Member, Unread) /\ members' = Append(members, r)
        /\ Accepts(Member, Unread)
    BY <1>6 DEF Did, Took
  <2>4. r.member = Member /\ r.value = Demarshalled(Member, Unread)
    OBVIOUS
  <2> HIDE DEF r, v
  <2>5. Kept'
    <3> SUFFICES ASSUME written # NULL
                 PROVE  Whole(written) /\ InBlock(bytes, written, members', pos', Same)
      BY <2>3 DEF Kept, Same
    <3>1. Whole(written) /\ InBlock(bytes, written, members, pos, Same)
      BY <1>2 DEF Kept
    <3>2. CASE ~Same
      BY <3>1, <3>2 DEF InBlock
    <3>3. CASE Same
      <4>1. PICK at :
              /\ Laid(bytes, written.start, written.start + written.size, written.members, at)
              /\ Resumed(members, pos, written.members, at)
              /\ Len(members) \in Nat /\ Len(members) + 1 \in 1 .. Len(written.members)
              /\ Finds(Member, Unread, written.members[Len(members) + 1])
              /\ at[(Len(members) + 1) + 1] = pos + Taken(Member, Unread)
        BY <1>3, <3>3
      <4>2. Len(written.members) \in Nat
        BY <4>1, LinedIs DEF Laid
      <4>3. /\ r.member = written.members[Len(members) + 1].member
            /\ FromZero(r.member) =>
                 Alike(r.member, written.members[Len(members) + 1].value, r.value)
        BY <2>3, <2>4, <4>1 DEF Finds
      <4>4. Resumed(members', pos', written.members, at)
        BY <1>2, <2>3, <4>1, <4>2, <4>3, ResumedNext
      <4> QED
        BY <3>1, <4>1, <4>4 DEF InBlock
    <3> QED
      BY <3>2, <3>3
  <2>6. Writing' /\ ComesBack'
    BY <1>1, <1>2, <2>3 DEF Writing, ComesBack, Again
  <2> QED
    BY <2>2, <2>5, <2>6 DEF BackInv
<1> QED
  BY <1>1, <1>4, <1>5, <1>6 DEF DemarshalEnds

LEMMA BackLeave ==
  ASSUME CallInv, BackInv, Leave
  PROVE  BackInv'
<1> DEFINE c == Place(stack, members)
<1>1. call # "none" /\ ~More /\ LeaveEnds
  BY LeaveCases
<1>2. /\ InCall /\ stack \in Seq(FrameSet) /\ Len(stack) \in Nat /\ Len(stack) > 0
      /\ Top = stack[Len(stack)] /\ Top.start \in Nat /\ Top.start <= pos
      /\ begun.pos \in Nat /\ pos \in Nat /\ pos <= Size
      /\ stack[1].start = begun.pos /\ stack[1].type = begun.type
  BY <1>1, TopIs
<1>3. /\ begun.call = call /\ returned = NULL /\ call \in {"marshal", "demarshal"}
      /\ Lined(members) /\ Kept /\ Along /\ Writing
  BY <1>1, EndIs DEF BackInv
<1>4. c = Place(stack, members)
  OBVIOUS
<1> HIDE DEF c
<1>5. /\ Reaches(begun.type, c) /\ c.done = Len(members) /\ Len(members) \in Nat
      /\ ~MoreAt(c) /\ AtEnd(c) = (Len(stack) = 1)
      /\ \A i \in 1 .. Len(members) : c.names[i] = members[i].member
  BY <1>1, <1>4, PlaceNow
<1>6. CASE /\ Len(stack) = 1 /\ Return(pos - Top.start)
           /\ written' = IF call = "marshal"
                           THEN [type |-> Top.type, start |-> Top.start,
                                 size |-> pos - Top.start, members |-> members]
                           ELSE written
           /\ UNCHANGED <<block, members, begun>>
  <2>1. /\ call' = "none" /\ returned' = pos - Top.start /\ bytes' = bytes /\ pos' = pos
        /\ members' = members /\ begun' = begun
    BY <1>6 DEF Return, block
  <2>2. Top.start = begun.pos /\ Top.type = begun.type /\ AtEnd(c)
    BY <1>2, <1>5, <1>6
  <2>3. CASE call = "marshal"
    <3> DEFINE w == [type |-> Top.type, start |-> Top.start, size |-> pos - Top.start,
                     members |-> members]
    <3>1. written' = w
      BY <1>6, <2>3
    <3>2. /\ w.type = begun.type /\ w.start = begun.pos /\ w.size = pos - begun.pos
          /\ w.members = members
      BY <2>2
    <3> HIDE DEF w
    <3>3. w.size \in Nat /\ w.start \in Nat /\ w.start + w.size = pos
      BY <1>2, <2>2, <3>2
    <3>4. Whole(w)
      BY <1>5, <2>2, <3>2 DEF Whole
    <3>5. PICK at : Laid(bytes, begun.pos, pos, members, at)
      BY <1>3, <2>3 DEF Writing
    <3>6. ~Same'
      BY <2>1 DEF Same
    <3>7. InBlock(bytes, w, members, pos, Same')
      BY <1>2, <3>2, <3>3, <3>5, <3>6 DEF InBlock
    <3>8. Kept'
      BY <2>1, <3>1, <3>4, <3>7 DEF Kept
    <3>9. Along' /\ Writing' /\ ComesBack'
      BY <1>3, <2>1, <2>3 DEF Along, Writing, ComesBack, Again
    <3> QED
      BY <1>3, <2>1, <3>8, <3>9 DEF BackInv
  <2>4. CASE call = "demarshal"
    <3>1. written' = written
      BY <1>6, <2>4
    <3>2. ComesBack'
      <4> SUFFICES ASSUME Again', FromZeros' PROVE Back'
        BY DEF ComesBack
      <4>1. written # NULL /\ Same
        BY <2>1, <2>4, <3>1 DEF Again, Same
      <4> DEFINE ws == written.members
                 to == written.start + written.size
      <4>2. Whole(written) /\ InBlock(bytes, written, members, pos, Same)
        BY <1>3, <4>1 DEF Kept
      <4>3. PICK at : /\ Laid(bytes, written.start, to, ws, at)
                      /\ Resumed(members, pos, ws, at)
        BY <4>1, <4>2 DEF InBlock
      <4>4. PICK d : /\ Reaches(written.type, d) /\ AtEnd(d) /\ d.done = Len(ws)
        BY <4>2 DEF Whole
      <4>5. c = d
        <5>1. Reaches(begun.type, d)
          BY <4>1, <4>4 DEF Same
        <5> QED
          BY <1>5, <2>2, <4>4, <5>1, ToTheEnd
      <4>6. Len(members) = Len(ws)
        BY <1>5, <4>4, <4>5
      <4>7. pos = to
        BY <4>3, <4>6 DEF Laid, Resumed
      <4>8. returned' = written.size
        <5>1. Top.start = written.start /\ written.start \in Nat /\ written.size \in Nat
          BY <2>2, <4>1, <4>2 DEF Same, InBlock
        <5> QED
          BY <2>1, <4>7, <5>1
      <4>9. ASSUME NEW i \in DOMAIN members
            PROVE  Alike(members[i].member, ws[i].value, members[i].value)
        <5>1. i \in 1 .. Len(members)
          BY <1>3, LinedIs
        <5>2. i \in DOMAIN ws
          BY <4>3, <4>6, <5>1, LinedIs DEF Laid
        <5>3. FromZero(ws[i].member)
          BY <3>1, <5>2 DEF FromZeros
        <5> QED
          BY <4>3, <5>1, <5>3 DEF Resumed
      <4> QED
        BY <2>1, <3>1, <4>6, <4>8, <4>9 DEF Back
    <3> QED
      BY <1>3, <2>1, <3>1, <3>2, KeptBetween
  <2> QED
    BY <1>3, <2>3, <2>4
<1>7. CASE /\ Len(stack) > 1
           /\ stack' = [Front(stack) EXCEPT ![Len(stack) - 1].next = @ + 1]
           /\ UNCHANGED <<block, call, members, begun, returned, written>>
  <2>1. Front(stack) \in Seq(FrameSet) /\ Len(Front(stack)) = Len(stack) - 1
    BY <1>2, <1>7, FrontIs
  <2>2. Len(Front(stack)) > 0
    BY <1>2, <1>7, <2>1
  <2>3. Onward(Front(stack), stack')
    BY <1>7, <2>1, <2>2, OnwardIs
  <2>4. ~(stack[Len(stack)].next <= Len(Types[stack[Len(stack)].type]))
    BY <1>1 DEF More, Top
  <2>5. Place(stack', members) = After(c)
    <3>1. Len(stack) > 1
      BY <1>7
    <3> QED
      BY <1>2, <1>4, <2>3, <2>4, <3>1, PlaceLeave
  <2>6. ~AtEnd(c) /\ After(c).done \in Nat
    <3>1. After(c).done = c.done
      BY <1>5 DEF After
    <3>2. Len(stack) # 1
      BY <1>2, <1>7
    <3> QED
      BY <1>5, <3>1, <3>2
  <2>7. UNCHANGED <<bytes, pos, call, members, begun, returned, written>>
    BY <1>7 DEF block
  <2>8. Along'
    BY <1>5, <2>5, <2>6, <2>7, AfterReached DEF Along
  <2> QED
    BY <2>7, <2>8 DEF BackInv, Kept, Writing, Same, ComesBack, Again, FromZeros, Back
<1> QED
  BY <1>1, <1>6, <1>7 DEF LeaveEnds

LEMMA BackInvNext == CallInv /\ BackInv /\ [Next]_vars => BackInv'
<1> SUFFICES ASSUME CallInv, BackInv, [Next]_vars PROVE BackInv'
  OBVIOUS
<1>1. ASSUME NEW which \in {"marshal", "demarshal"}, NEW t \in DOMAIN Types, Call(which, t)
      PROVE  BackInv'
  BY <1>1, BackCall
<1>2. CASE UNCHANGED vars
  BY <1>2
  DEF BackInv, Along, Kept, Writing, Same, ComesBack, Again, FromZeros, Back, vars, block
<1> QED
  BY <1>1, <1>2, BackCaller, BackMarshal, BackDemarshal, BackEnter, BackLeave DEF Next

LEMMA BackInvInit == Init => BackInv
  BY LinedEmpty DEF Init, BackInv, Along, Kept, Writing, ComesBack, Again

\* Whatever was marshalled comes back from the place where it was put, for all
\* types and all values, and whatever the caller has done with the block since
\* without writing to it, if the ranges of its ints begin at zero.
THEOREM ComesBackHolds == Spec => []ComesBack
<1>1. BackInv => ComesBack
  BY DEF BackInv
<1> QED
  BY <1>1, CallInvInit, CallInvNext, BackInvInit, BackInvNext, PTL DEF Spec

=============================================================================
