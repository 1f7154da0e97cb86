------------------------- MODULE RequestParserProofs -------------------------
(***************************************************************************)
(* What serveHTTP decides about a request does not depend on how its bytes *)
(* are cut into reads.  The argument is about CheckRequest alone, for      *)
(* input of any length: a verdict on the first bytes of an input is the    *)
(* verdict on all of it.                                                   *)
(***************************************************************************)
EXTENDS RequestParser, SequenceTheorems, WellFoundedInduction, TLAPS

(***************************************************************************)
(* Least elements and induction, in the form of sets.                      *)
(***************************************************************************)
LEMMA Least ==
    ASSUME NEW S, S \subseteq Nat, S # {}
    PROVE  Min(S) \in S /\ \A y \in S : Min(S) <= y
<1> DEFINE R == {ss \in Nat \X Nat : ss[1] < ss[2]}
<1>1. IsWellFoundedOn(R, Nat)
    BY NatLessThanWellFounded, Zenon DEF OpToRel
<1>2. PICK x \in S : \A y \in S : ~(<<y, x>> \in R)
    <2> HIDE DEF R
    <2> QED
        BY <1>1, WFMin
<1>3. \A y \in S : x <= y
    <2> SUFFICES ASSUME NEW y \in S, ~(x <= y) PROVE FALSE
        OBVIOUS
    <2>1. x \in Nat /\ y \in Nat /\ y < x
        OBVIOUS
    <2> QED
        BY <1>2, <2>1
<1> QED
    BY <1>3 DEF Min

LEMMA Greatest ==
    ASSUME NEW N \in Nat, NEW S, \A i \in S : i \in 0..N, S # {}
    PROVE  Max(S) \in S
<1> DEFINE far == {N - i : i \in S}
<1>1. far \subseteq Nat /\ far # {}
    OBVIOUS
<1>2. Min(far) \in far /\ \A y \in far : Min(far) <= y
    <2> HIDE DEF far
    <2> QED
        BY <1>1, Least
<1>3. PICK i \in S : Min(far) = N - i
    BY <1>2
<1>4. \A j \in S : j <= i
    <2> SUFFICES ASSUME NEW j \in S PROVE j <= i
        OBVIOUS
    <2>1. N - j \in far
        OBVIOUS
    <2>2. N - i <= N - j
        BY <1>2, <1>3, <2>1
    <2> QED
        BY <2>2
<1> QED
    BY <1>4 DEF Max

LEMMA Induct ==
    ASSUME NEW S, 0 \in S, \A n \in Nat : n \in S => n + 1 \in S
    PROVE  \A n \in Nat : n \in S
<1> SUFFICES ASSUME Nat \ S # {} PROVE FALSE
    OBVIOUS
<1>1. PICK x \in Nat \ S : \A y \in Nat \ S : x <= y
    BY Least
<1>2. x # 0 /\ x - 1 \in Nat /\ ~(x <= x - 1)
    OBVIOUS
<1>3. x - 1 \in S
    BY <1>1, <1>2
<1> QED
    BY <1>2, <1>3

-----------------------------------------------------------------------------
(***************************************************************************)
(* Slices: the first n symbols of s, and searching in them.                *)
(***************************************************************************)
LEMMA MinOfTwo ==
    ASSUME NEW a \in Int, NEW b \in Int
    PROVE  Min({a, b}) = IF a <= b THEN a ELSE b
<1>1. PICK m : m = (IF a <= b THEN a ELSE b) /\ m \in {a, b} /\ \A y \in {a, b} : m <= y
    OBVIOUS
<1>2. \A x \in {a, b} : (\A y \in {a, b} : x <= y) => x = m
    BY <1>1
<1> QED
    BY <1>1, <1>2 DEF Min

LEMMA SliceOK ==
    ASSUME NEW X, NEW s \in Seq(X), NEW a \in Nat \ {0}, NEW b \in 0..Len(s)
    PROVE  /\ SubSeq(s, a, b) \in Seq(X)
           /\ Len(SubSeq(s, a, b)) = IF a <= b THEN b - a + 1 ELSE 0
           /\ \A i \in 1..b - a + 1 : SubSeq(s, a, b)[i] = s[a + i - 1]
    OBVIOUS

LEMMA UptoOK ==
    ASSUME NEW X, NEW s \in Seq(X), NEW i \in Nat
    PROVE  /\ Upto(s, i) = SubSeq(s, 1, IF i <= Len(s) THEN i ELSE Len(s))
           /\ Upto(s, i) \in Seq(X)
           /\ Len(Upto(s, i)) = IF i <= Len(s) THEN i ELSE Len(s)
<1>1. Upto(s, i) = SubSeq(s, 1, IF i <= Len(s) THEN i ELSE Len(s))
    BY MinOfTwo DEF Upto
<1> QED
    BY <1>1, SliceOK

LEMMA AfterOK ==
    ASSUME NEW X, NEW s \in Seq(X), NEW i \in Nat
    PROVE  /\ After(s, i) \in Seq(X)
           /\ Len(After(s, i)) = IF i <= Len(s) THEN Len(s) - i ELSE 0
           /\ \A j \in 1..Len(s) - i : After(s, i)[j] = s[i + j]
    BY SliceOK DEF After

(* A slice of the first n symbols is a slice of all *)
LEMMA SliceOfFirst ==
    ASSUME NEW X, NEW s \in Seq(X), NEW n \in 0..Len(s),
           NEW a \in Nat \ {0}, NEW b \in 0..n
    PROVE  SubSeq(SubSeq(s, 1, n), a, b) = SubSeq(s, a, b)
<1> DEFINE p == SubSeq(s, 1, n)
           u == SubSeq(p, a, b)
           v == SubSeq(s, a, b)
<1>1. p \in Seq(X) /\ Len(p) = n /\ \A i \in 1..n : p[i] = s[i]
    BY SliceOK
<1>2. u \in Seq(X) /\ Len(u) = (IF a <= b THEN b - a + 1 ELSE 0)
      /\ \A i \in 1..b - a + 1 : u[i] = p[a + i - 1]
    <2> HIDE DEF p
    <2> QED
        BY <1>1, SliceOK
<1>3. v \in Seq(X) /\ Len(v) = (IF a <= b THEN b - a + 1 ELSE 0)
      /\ \A i \in 1..b - a + 1 : v[i] = s[a + i - 1]
    BY SliceOK
<1>4. \A i \in 1..Len(u) : u[i] = v[i]
    <2> HIDE DEF p, u, v
    <2> QED
        BY <1>1, <1>2, <1>3, SMTT(30)
<1> HIDE DEF p, u, v
<1>5. u = v
    BY <1>2, <1>3, <1>4, SeqEqual
<1> QED
    BY <1>5 DEF p, u, v

LEMMA UptoOfFirst ==
    ASSUME NEW X, NEW s \in Seq(X), NEW n \in 0..Len(s), NEW i \in 0..n
    PROVE  Upto(SubSeq(s, 1, n), i) = Upto(s, i)
<1>1. SubSeq(s, 1, n) \in Seq(X) /\ Len(SubSeq(s, 1, n)) = n
    BY SliceOK
<1>2. Upto(SubSeq(s, 1, n), i) = SubSeq(SubSeq(s, 1, n), 1, i)
    <2> DEFINE p == SubSeq(s, 1, n)
    <2>1. i \in Nat /\ i <= Len(p) /\ p \in Seq(X)
        BY <1>1
    <2> HIDE DEF p
    <2>2. Upto(p, i) = SubSeq(p, 1, i)
        BY <2>1, UptoOK
    <2> QED
        BY <2>2 DEF p
<1>3. Upto(s, i) = SubSeq(s, 1, i)
    BY UptoOK
<1> QED
    BY <1>2, <1>3, SliceOfFirst

(* What follows position i in the first n symbols is the beginning of what  *)
(* follows it in all of them.                                               *)
LEMMA AfterOfFirst ==
    ASSUME NEW X, NEW s \in Seq(X), NEW n \in 0..Len(s), NEW i \in 0..n
    PROVE  After(SubSeq(s, 1, n), i) = SubSeq(After(s, i), 1, n - i)
<1> DEFINE p == SubSeq(s, 1, n)
           u == After(p, i)
           r == After(s, i)
           v == SubSeq(r, 1, n - i)
<1>1. p \in Seq(X) /\ Len(p) = n /\ \A j \in 1..n : p[j] = s[j]
    BY SliceOK
<1>2. i \in Nat /\ i <= n /\ i <= Len(s) /\ n - i \in Nat
    OBVIOUS
<1>3. u \in Seq(X) /\ Len(u) = n - i /\ \A j \in 1..n - i : u[j] = p[i + j]
    <2> HIDE DEF p
    <2>1. /\ u \in Seq(X)
          /\ Len(u) = IF i <= Len(p) THEN Len(p) - i ELSE 0
          /\ \A j \in 1..Len(p) - i : u[j] = p[i + j]
        BY <1>2, <1>1, AfterOK
    <2> HIDE DEF u
    <2> QED
        BY <1>2, <1>1, <2>1
<1>4. r \in Seq(X) /\ Len(r) = Len(s) - i /\ \A j \in 1..Len(s) - i : r[j] = s[i + j]
    <2>1. /\ r \in Seq(X)
          /\ Len(r) = IF i <= Len(s) THEN Len(s) - i ELSE 0
          /\ \A j \in 1..Len(s) - i : r[j] = s[i + j]
        BY <1>2, AfterOK
    <2> HIDE DEF r
    <2> QED
        BY <1>2, <2>1
<1>5. v \in Seq(X) /\ Len(v) = n - i /\ \A j \in 1..n - i : v[j] = r[j]
    <2> HIDE DEF r
    <2> QED
        BY <1>4, SliceOK
<1>6. \A j \in 1..Len(u) : u[j] = v[j]
    <2> HIDE DEF p, u, r, v
    <2> SUFFICES ASSUME NEW j \in 1..n - i PROVE u[j] = v[j]
        BY <1>3
    <2>1. i + j \in 1..n /\ j \in 1..Len(s) - i
        BY <1>2
    <2>2. u[j] = s[i + j]
        BY <1>1, <1>3, <2>1
    <2>3. v[j] = s[i + j]
        BY <1>4, <1>5, <2>1
    <2> QED
        BY <2>2, <2>3
<1> HIDE DEF p, u, r, v
<1>7. u = v
    BY <1>3, <1>5, <1>6, SeqEqual
<1> QED
    BY <1>7 DEF p, u, r, v

Occurs(s, pat, i) == SubSeq(s, i + 1, i + Len(pat)) = pat

LEMMA IndexOK ==
    ASSUME NEW X, NEW s \in Seq(X), NEW pat, Len(pat) \in Nat
    PROVE  \/ /\ Index(s, pat) = -1
              /\ \A i \in 0..Len(s) - Len(pat) : ~Occurs(s, pat, i)
           \/ /\ Index(s, pat) \in 0..Len(s) - Len(pat)
              /\ Occurs(s, pat, Index(s, pat))
              /\ \A i \in 0..Len(s) - Len(pat) : Occurs(s, pat, i) => Index(s, pat) <= i
<1> DEFINE at == {i \in 0..Len(s) - Len(pat) : SubSeq(s, i + 1, i + Len(pat)) = pat}
<1>1. at \subseteq Nat
    OBVIOUS
<1>2. at # {} => Min(at) \in at /\ \A y \in at : Min(at) <= y
    <2> HIDE DEF at
    <2> QED
        BY <1>1, Least
<1>3. Index(s, pat) = IF at = {} THEN -1 ELSE Min(at)
    BY DEF Index
<1>4. \A i \in 0..Len(s) - Len(pat) : Occurs(s, pat, i) <=> i \in at
    BY DEF Occurs
<1>5. at \subseteq 0..Len(s) - Len(pat)
    OBVIOUS
<1> HIDE DEF at
<1> QED
    BY <1>2, <1>3, <1>4, <1>5

LEMMA IndexRange ==
    ASSUME NEW X, NEW s \in Seq(X), NEW pat, NEW l \in Nat, Len(pat) = l
    PROVE  Index(s, pat) = -1 \/ Index(s, pat) \in 0..Len(s) - l
<1>1. Len(pat) \in Nat
    OBVIOUS
<1>2. Index(s, pat) = -1 \/ Index(s, pat) \in 0..Len(s) - Len(pat)
    BY <1>1, IndexOK
<1> QED
    BY <1>2

(* A text that is found in the first n symbols is found there in all; one   *)
(* that is not ends after them, if it is found at all.                      *)
LEMMA IndexOfFirst ==
    ASSUME NEW X, NEW s \in Seq(X), NEW n \in 0..Len(s), NEW pat, Len(pat) \in Nat
    PROVE  /\ Index(SubSeq(s, 1, n), pat) # -1 => Index(s, pat) = Index(SubSeq(s, 1, n), pat)
           /\ Index(SubSeq(s, 1, n), pat) = -1 /\ Index(s, pat) # -1 =>
                  Index(s, pat) + Len(pat) > n
<1> DEFINE p == SubSeq(s, 1, n)
           l == Len(pat)
<1>1. p \in Seq(X) /\ Len(p) = n
    BY SliceOK
<1>2. \A i \in 0..n - l : Occurs(p, pat, i) <=> Occurs(s, pat, i)
    <2> SUFFICES ASSUME NEW i \in 0..n - l
                 PROVE  SubSeq(p, i + 1, i + l) = SubSeq(s, i + 1, i + l)
        BY DEF Occurs
    <2>1. i + 1 \in Nat \ {0} /\ i + l \in 0..n
        OBVIOUS
    <2> QED
        BY <2>1, SliceOfFirst
<1> HIDE DEF p
<1>3. \/ /\ Index(p, pat) = -1
         /\ \A i \in 0..n - l : ~Occurs(p, pat, i)
      \/ /\ Index(p, pat) \in 0..n - l
         /\ Occurs(p, pat, Index(p, pat))
         /\ \A i \in 0..n - l : Occurs(p, pat, i) => Index(p, pat) <= i
    BY <1>1, IndexOK
<1>4. \/ /\ Index(s, pat) = -1
         /\ \A i \in 0..Len(s) - l : ~Occurs(s, pat, i)
      \/ /\ Index(s, pat) \in 0..Len(s) - l
         /\ Occurs(s, pat, Index(s, pat))
         /\ \A i \in 0..Len(s) - l : Occurs(s, pat, i) => Index(s, pat) <= i
    BY IndexOK
<1>5. \A i \in 0..n - l : i \in 0..Len(s) - l
    OBVIOUS
<1>6. Index(p, pat) # -1 => Index(s, pat) = Index(p, pat)
    <2> SUFFICES ASSUME Index(p, pat) # -1 PROVE Index(s, pat) = Index(p, pat)
        OBVIOUS
    <2>1. PICK j \in 0..n - l : j = Index(p, pat)
        BY <1>3
    <2>2. Occurs(s, pat, j) /\ \A i \in 0..n - l : Occurs(s, pat, i) => j <= i
        BY <1>2, <1>3, <2>1
    <2>3. PICK k \in 0..Len(s) - l : k = Index(s, pat)
        BY <1>4, <1>5, <2>2
    <2>4. k <= j /\ Occurs(s, pat, k)
        BY <1>4, <1>5, <2>2, <2>3
    <2>5. k \in 0..n - l
        BY <2>4
    <2>6. j <= k
        BY <2>2, <2>4, <2>5
    <2> QED
        BY <2>1, <2>3, <2>4, <2>6
<1>7. ASSUME Index(p, pat) = -1, Index(s, pat) # -1 PROVE Index(s, pat) + l > n
    <2>1. PICK k \in 0..Len(s) - l : k = Index(s, pat) /\ Occurs(s, pat, k)
        BY <1>4, <1>7
    <2>2. k \notin 0..n - l
        BY <1>2, <1>3, <1>7, <2>1
    <2> QED
        BY <2>1, <2>2
<1> QED
    BY <1>6, <1>7 DEF p

-----------------------------------------------------------------------------
(***************************************************************************)
(* Numbers.  A text denotes an int or none, and the range check keeps the  *)
(* sum from wrapping around.                                               *)
(***************************************************************************)
LEMMA WrapOK ==
    ASSUME NEW m \in Int
    PROVE  /\ Wrap(m) \in Int
           /\ m \in 0..MaxInt => Wrap(m) = m
<1>1. MaxInt + 1 \in Nat \ {0} /\ 2 * (MaxInt + 1) \in Nat \ {0}
    BY ParserAssumption
<1>2. \A k \in Nat \ {0}, a \in Int : a % k \in Int
    OBVIOUS
<1>3. \A k \in Nat \ {0}, a \in Int : a \in 0..k - 1 => a % k = a
    OBVIOUS
<1>4. (m + MaxInt + 1) % (2 * (MaxInt + 1)) \in Int
    <2>1. m + MaxInt + 1 \in Int
        BY ParserAssumption
    <2> QED
        BY <1>1, <1>2, <2>1
<1>5. ASSUME m \in 0..MaxInt
      PROVE  (m + MaxInt + 1) % (2 * (MaxInt + 1)) = m + MaxInt + 1
    <2>1. m + MaxInt + 1 \in 0..2 * (MaxInt + 1) - 1
        BY <1>5, ParserAssumption
    <2> QED
        BY <1>1, <1>3, <2>1
<1> QED
    BY <1>1, <1>4, <1>5, ParserAssumption DEF Wrap

LEMMA DigitOK ==
    ASSUME NEW base \in {10, 16}, NEW ch, ch \in Range(Upto(HexDigits, base))
    PROVE  Digit(ch) \in 0..15
<1> DEFINE X == {HexDigits[i] : i \in 1..16}
<1>1. HexDigits \in Seq(X) /\ Len(HexDigits) = 16
    <2>1. HexDigits = [i \in 1..16 |-> HexDigits[i]] /\ Len(HexDigits) = 16
        BY SMTT(60) DEF HexDigits
    <2> HIDE DEF HexDigits
    <2>2. HexDigits \in [1..16 -> X]
        BY <2>1
    <2> HIDE DEF X
    <2>3. 16 \in Nat
        OBVIOUS
    <2> QED
        BY <2>1, <2>2, <2>3, SeqDef
<1>2. PICK i \in 1..16 : HexDigits[i] = ch
    <2>1. base \in Nat /\ base <= 16
        OBVIOUS
    <2> HIDE DEF HexDigits, X
    <2>2. Upto(HexDigits, base) = SubSeq(HexDigits, 1, base)
        BY <1>1, <2>1, UptoOK
    <2>3. /\ DOMAIN SubSeq(HexDigits, 1, base) = 1..base
          /\ \A i \in 1..base : SubSeq(HexDigits, 1, base)[i] = HexDigits[i]
        BY <1>1, <2>1, SliceOK
    <2>4. PICK i \in 1..base : SubSeq(HexDigits, 1, base)[i] = ch
        BY <2>2, <2>3 DEF Range
    <2> QED
        BY <2>1, <2>3, <2>4
<1>3. \E j \in 1..16 : HexDigits[j] = ch
    BY <1>2
<1> DEFINE k == CHOOSE j \in 1..16 : HexDigits[j] = ch
<1>4. k \in 1..16
    BY <1>3, Zenon
<1>5. Digit(ch) = k - 1
    BY Zenon DEF Digit
<1> QED
    BY <1>4, <1>5

LEMMA NextNumber ==
    ASSUME NEW n \in 0..MaxInt, NEW base \in {10, 16}, NEW d \in 0..15, InRange(n, base, d)
    PROVE  Wrap(n * base + d) \in 0..MaxInt
<1>1. MaxInt \in Nat
    BY ParserAssumption
<1>2. n * base + d \in 0..MaxInt
    <2>1. CASE base = 10
        BY <1>1, <2>1 DEF InRange
    <2>2. CASE base = 16
        BY <1>1, <2>2 DEF InRange
    <2> QED
        BY <2>1, <2>2
<1>3. n * base + d \in Int
    BY <1>2
<1> QED
    BY <1>2, <1>3, WrapOK

(* The recursion of parseDigits *)
Sums(f, b, base) ==
    f = [i \in 0..Len(b) |->
            IF i = 0 THEN 0
            ELSE LET n == f[i - 1]
                 IN  IF /\ n # -1
                        /\ b[i] \in Range(Upto(HexDigits, base))
                        /\ InRange(n, base, Digit(b[i]))
                     THEN Wrap(n * base + Digit(b[i])) ELSE -1]

LEMMA SumsExist ==
    ASSUME NEW X, NEW b \in Seq(X), NEW base
    PROVE  \E f : Sums(f, b, base)
<1> DEFINE Step(i, n) == IF /\ n # -1
                            /\ b[i] \in Range(Upto(HexDigits, base))
                            /\ InRange(n, base, Digit(b[i]))
                         THEN Wrap(n * base + Digit(b[i])) ELSE -1
           Def(f, k) == f = [i \in 0..k |-> IF i = 0 THEN 0 ELSE Step(i, f[i - 1])]
           S == {k \in Nat : \E f : Def(f, k)}
<1>1. 0 \in S
    <2> DEFINE f == [i \in 0..0 |-> 0]
    <2>1. Def(f, 0)
        <3> HIDE DEF Step
        <3> QED
            OBVIOUS
    <2> HIDE DEF Def, f
    <2> QED
        BY <2>1
<1>2. ASSUME NEW k \in Nat, k \in S PROVE k + 1 \in S
    <2>1. PICK f : Def(f, k)
        BY <1>2
    <2> HIDE DEF Step
    <2> DEFINE g == [i \in 0..k + 1 |-> IF i = 0 THEN 0 ELSE Step(i, f[i - 1])]
    <2>2. \A i \in 0..k : i \in 0..k + 1 /\ f[i] = g[i]
        BY <2>1
    <2>3. \A i \in 0..k + 1 : i # 0 => f[i - 1] = g[i - 1]
        <3> HIDE DEF g
        <3> QED
            BY <2>2
    <2>4. \A i \in 0..k + 1 : g[i] = IF i = 0 THEN 0 ELSE Step(i, g[i - 1])
        <3>1. \A i \in 0..k + 1 : g[i] = IF i = 0 THEN 0 ELSE Step(i, f[i - 1])
            OBVIOUS
        <3> HIDE DEF g
        <3> QED
            BY <2>3, <3>1
    <2>5. Def(g, k + 1)
        <3>1. g = [i \in 0..k + 1 |-> g[i]]
            OBVIOUS
        <3> HIDE DEF g
        <3> QED
            BY <2>4, <3>1
    <2> HIDE DEF Def, g
    <2> QED
        BY <2>5
<1>3. Len(b) \in S
    <2>1. \A k \in Nat : k \in S
        <3> HIDE DEF S
        <3> QED
            BY <1>1, <1>2, Induct
    <2> QED
        BY <2>1
<1>4. PICK f : Def(f, Len(b))
    BY <1>3
<1>5. Sums(f, b, base)
    BY <1>4 DEF Sums
<1> QED
    BY <1>5

LEMMA DigitsOK ==
    ASSUME NEW X, NEW b \in Seq(X), NEW base \in {10, 16}
    PROVE  parseDigits(b, base) \in -1..MaxInt
<1>1. PICK f : f = CHOOSE g : Sums(g, b, base)
    BY Zenon
<1>2. Sums(f, b, base)
    BY <1>1, SumsExist
<1>3. parseDigits(b, base) = IF b = << >> THEN -1 ELSE f[Len(b)]
    BY <1>1 DEF parseDigits, Sums
<1> DEFINE S == {i \in Nat : i <= Len(b) => f[i] \in -1..MaxInt}
<1>4. 0 \in S
    BY <1>2, ParserAssumption DEF Sums
<1>5. ASSUME NEW i \in Nat, i \in S PROVE i + 1 \in S
    <2> SUFFICES ASSUME i + 1 <= Len(b) PROVE f[i + 1] \in -1..MaxInt
        OBVIOUS
    <2>1. f[i] \in -1..MaxInt
        BY <1>5
    <2>2. f[i + 1] = IF /\ f[i] # -1
                        /\ b[i + 1] \in Range(Upto(HexDigits, base))
                        /\ InRange(f[i], base, Digit(b[i + 1]))
                     THEN Wrap(f[i] * base + Digit(b[i + 1])) ELSE -1
        <3>1. i + 1 \in 0..Len(b) /\ i + 1 # 0 /\ (i + 1) - 1 = i
            OBVIOUS
        <3> QED
            BY <1>2, <3>1 DEF Sums
    <2>3. CASE f[i] # -1 /\ b[i + 1] \in Range(Upto(HexDigits, base))
               /\ InRange(f[i], base, Digit(b[i + 1]))
        <3>1. f[i] \in 0..MaxInt
            BY <2>1, <2>3
        <3>2. Digit(b[i + 1]) \in 0..15
            BY <2>3, DigitOK
        <3>3. Wrap(f[i] * base + Digit(b[i + 1])) \in 0..MaxInt
            BY <2>3, <3>1, <3>2, NextNumber
        <3> QED
            BY <2>2, <2>3, <3>3
    <2>4. CASE ~(f[i] # -1 /\ b[i + 1] \in Range(Upto(HexDigits, base))
                 /\ InRange(f[i], base, Digit(b[i + 1])))
        <3>1. f[i + 1] = -1
            BY <2>2, <2>4
        <3> QED
            BY <3>1, ParserAssumption
    <2> QED
        BY <2>3, <2>4
<1>6. \A i \in Nat : i \in S
    <2> HIDE DEF S
    <2> QED
        BY <1>4, <1>5, Induct
<1>7. f[Len(b)] \in -1..MaxInt
    BY <1>6
<1> QED
    BY <1>3, <1>7, ParserAssumption

LEMMA ParseIntOK ==
    ASSUME NEW X, NEW b \in Seq(X)
    PROVE  parseInt(b) \in Int
<1>1. parseDigits(b, 10) \in Int
    BY DigitsOK
<1>2. b # << >> => parseDigits(Tail(b), 10) \in Int
    <2>1. b # << >> => Tail(b) \in Seq(X)
        OBVIOUS
    <2>2. \A c \in Seq(X) : parseDigits(c, 10) \in -1..MaxInt
        BY DigitsOK
    <2>3. \A k \in -1..MaxInt : k \in Int
        BY ParserAssumption
    <2> QED
        BY <2>1, <2>2, <2>3
<1> QED
    BY <1>1, <1>2 DEF parseInt

LEMMA TrimOK ==
    ASSUME NEW X, NEW s \in Seq(X)
    PROVE  TrimSpace(s) \in Seq(X)
<1> DEFINE text == {i \in DOMAIN s : s[i] # " "}
<1>1. CASE text = {}
    <2>1. TrimSpace(s) = << >>
        BY <1>1, Zenon DEF TrimSpace
    <2> QED
        BY <2>1
<1>3. Len(s) \in Nat /\ \A i \in text : i \in 1..Len(s)
    <2>1. DOMAIN s = 1..Len(s) /\ Len(s) \in Nat
        BY LenProperties
    <2> QED
        BY <2>1, Zenon
<1>2. CASE text # {}
    <2> HIDE DEF text
    <2>1. text \subseteq Nat
        BY <1>3
    <2>2. Min(text) \in text
        <3> HIDE DEF text
        <3> QED
            BY <1>2, <2>1, Least
    <2>3. Max(text) \in text
        BY <1>2, <1>3, Greatest
    <2>4. TrimSpace(s) = SubSeq(s, Min(text), Max(text))
        BY <1>2, Zenon DEF TrimSpace, text
    <2>5. Min(text) \in Nat \ {0} /\ Max(text) \in 0..Len(s)
        BY <1>3, <2>2, <2>3
    <2> QED
        BY <2>4, <2>5, SliceOK
<1> QED
    BY <1>1, <1>2

LEMMA ChunkSizeOK ==
    ASSUME NEW X, NEW line \in Seq(X)
    PROVE  ChunkSize(line) \in -1..MaxInt
<1> DEFINE semi == Index(line, <<";">>)
<1>1. semi = -1 \/ semi \in Nat
    <2>1. PICK pat : pat = <<";">>
        BY Zenon
    <2>2. Len(pat) = 1
        BY <2>1
    <2>3. Index(line, pat) = -1 \/ Index(line, pat) \in 0..Len(line) - 1
        BY <2>2, IndexRange
    <2>4. semi = Index(line, pat)
        BY <2>1, Zenon
    <2> HIDE DEF semi
    <2> QED
        BY <2>2, <2>3, <2>4
<1> HIDE DEF semi
<1>2. (IF semi = -1 THEN line ELSE Upto(line, semi)) \in Seq(X)
    BY <1>1, UptoOK
<1>3. TrimSpace(IF semi = -1 THEN line ELSE Upto(line, semi)) \in Seq(X)
    BY <1>2, TrimOK
<1>4. parseHexInt(TrimSpace(IF semi = -1 THEN line ELSE Upto(line, semi))) \in -1..MaxInt
    BY <1>3, DigitsOK DEF parseHexInt
<1> QED
    BY <1>4 DEF ChunkSize, semi

-----------------------------------------------------------------------------
(***************************************************************************)
(* A chunked body.  At a chunk's size line the scan goes on to the next    *)
(* one, or ends with a verdict.                                            *)
(***************************************************************************)
LEMMA Marks == Len(CRLF) = 2 /\ Len(headerEnd) = 4
    BY DEF CRLF, headerEnd

(* The verdict v on a part of the input may become w when more has arrived *)
Settled(v, w) == (v.Complete => w = v) /\ (v.Error => w.Error)

ChunkIdx(body, offset) == Index(After(body, offset), CRLF)
ChunkLen(body, offset) == ChunkSize(Upto(After(body, offset), ChunkIdx(body, offset)))
ChunkData(body, offset) == After(After(body, offset), ChunkIdx(body, offset) + 2)

ChunkVerdict(body, sep, offset, later) ==
    IF ChunkIdx(body, offset) = -1 THEN Incomplete
    ELSE IF ChunkLen(body, offset) = -1 THEN Malformed
    ELSE IF ChunkLen(body, offset) = 0
    THEN AfterLastChunk(ChunkData(body, offset), sep + offset + ChunkIdx(body, offset) + 2)
    ELSE IF ChunkLen(body, offset) > MaxInt - 2 THEN Malformed
    ELSE IF Len(ChunkData(body, offset)) < ChunkLen(body, offset) + 2 THEN Incomplete
    ELSE later
NextChunk(body, offset) == offset + ChunkIdx(body, offset) + 2 + ChunkLen(body, offset) + 2
Goes(body, offset) ==
    /\ ChunkIdx(body, offset) # -1
    /\ ChunkLen(body, offset) # -1 /\ ChunkLen(body, offset) # 0
    /\ ~(ChunkLen(body, offset) > MaxInt - 2)
    /\ ~(Len(ChunkData(body, offset)) < ChunkLen(body, offset) + 2)
Scans(f, body, sep) ==
    f = [offset \in 0..MaxStream |->
            ChunkVerdict(body, sep, offset, f[NextChunk(body, offset)])]

(* The scan moves forward, and stays inside the body *)
LEMMA Forward ==
    ASSUME NEW X, NEW body \in Seq(X), NEW offset \in Nat, Goes(body, offset)
    PROVE  NextChunk(body, offset) \in Nat
           /\ offset < NextChunk(body, offset) /\ NextChunk(body, offset) <= Len(body)
<1> DEFINE rest == After(body, offset)
           idx == ChunkIdx(body, offset)
           size == ChunkLen(body, offset)
           data == ChunkData(body, offset)
<1>1. rest \in Seq(X) /\ Len(rest) = IF offset <= Len(body) THEN Len(body) - offset ELSE 0
    BY AfterOK
<1>2. idx \in Nat /\ idx <= Len(rest) - 2
    <2>1. idx # -1
        BY DEF Goes
    <2>2. idx = Index(rest, CRLF)
        BY DEF ChunkIdx
    <2> HIDE DEF rest, idx
    <2>3. idx = -1 \/ idx \in 0..Len(rest) - 2
        BY <1>1, <2>2, Marks, IndexRange
    <2> QED
        BY <1>1, <2>1, <2>3
<1>3. size \in -1..MaxInt
    <2>1. Upto(rest, idx) \in Seq(X)
        <3> HIDE DEF rest, idx
        <3> QED
            BY <1>1, <1>2, UptoOK
    <2> QED
        BY <2>1, ChunkSizeOK DEF ChunkLen
<1>4. Len(data) = Len(rest) - (idx + 2)
    <2>1. idx + 2 \in Nat /\ idx + 2 <= Len(rest)
        <3> HIDE DEF rest, idx
        <3> QED
            BY <1>1, <1>2
    <2>2. Len(data) = IF idx + 2 <= Len(rest) THEN Len(rest) - (idx + 2) ELSE 0
        <3>1. data = After(rest, idx + 2)
            BY DEF ChunkData
        <3> HIDE DEF rest, idx, data
        <3> QED
            BY <1>1, <2>1, <3>1, AfterOK
    <2> HIDE DEF rest, idx, data
    <2> QED
        BY <2>1, <2>2
<1>5. size # -1 /\ size # 0 /\ Len(data) >= size + 2
    <2>1. Len(data) \in Nat
        <3> HIDE DEF rest, idx, data
        <3> QED
            BY <1>1, <1>2, <1>4
    <2>2. size # -1 /\ size # 0 /\ ~(Len(data) < size + 2)
        BY DEF Goes
    <2> HIDE DEF size, data
    <2> QED
        BY <1>3, <2>1, <2>2, ParserAssumption
<1>6. NextChunk(body, offset) = offset + idx + 2 + size + 2
    BY DEF NextChunk
<1> HIDE DEF rest, idx, size, data
<1> QED
    BY <1>1, <1>2, <1>3, <1>4, <1>5, <1>6, ParserAssumption

LEMMA LastVerdict ==
    ASSUME NEW body, NEW sep, NEW offset, NEW x, NEW y, ~Goes(body, offset)
    PROVE  ChunkVerdict(body, sep, offset, x) = ChunkVerdict(body, sep, offset, y)
    BY DEF Goes, ChunkVerdict

LEMMA ScansExist ==
    ASSUME NEW X, NEW body \in Seq(X), Len(body) <= MaxStream, NEW sep
    PROVE  \E f : Scans(f, body, sep)
<1> DEFINE From(d) == {offset \in 0..MaxStream : offset + d >= MaxStream + 1}
           Next1(offset) == NextChunk(body, offset)
           Step(offset, x) == ChunkVerdict(body, sep, offset, x)
           Def(f, d) == f = [offset \in From(d) |-> Step(offset, f[Next1(offset)])]
           S == {d \in Nat : \E f : Def(f, d)}
<1>1. 0 \in S
    <2> DEFINE f == [offset \in From(0) |-> 0]
    <2>1. From(0) = {}
        BY ParserAssumption
    <2>2. Def(f, 0)
        <3> HIDE DEF From, Step, Next1
        <3> QED
            BY <2>1
    <2> HIDE DEF Def, f
    <2> QED
        BY <2>2
<1>2. ASSUME NEW d \in Nat, d \in S PROVE d + 1 \in S
    <2>1. PICK f : Def(f, d)
        BY <1>2
    <2> DEFINE g == [offset \in From(d + 1) |-> Step(offset, f[Next1(offset)])]
    <2>2. \A offset \in From(d) : offset \in From(d + 1)
        BY ParserAssumption
    <2>3. \A offset \in From(d) : f[offset] = g[offset]
        <3> HIDE DEF From, Step, Next1
        <3> QED
            BY <2>1, <2>2
    <2>4. ASSUME NEW offset \in From(d + 1), Goes(body, offset)
          PROVE  Next1(offset) \in From(d)
        <3>1. offset \in Nat /\ offset + d + 1 >= MaxStream + 1
            OBVIOUS
        <3>2. Next1(offset) \in Nat /\ offset < Next1(offset) /\ Next1(offset) <= Len(body)
            BY <2>4, <3>1, Forward
        <3>3. Len(body) \in Nat
            OBVIOUS
        <3> HIDE DEF Next1
        <3> QED
            BY <3>1, <3>2, <3>3, ParserAssumption
    <2>5. ASSUME NEW offset \in From(d + 1)
          PROVE  Step(offset, f[Next1(offset)]) = Step(offset, g[Next1(offset)])
        <3>1. CASE Goes(body, offset)
            <4>1. f[Next1(offset)] = g[Next1(offset)]
                <5> HIDE DEF From, Next1, g
                <5> QED
                    BY <2>3, <2>4, <3>1
            <4> HIDE DEF From, Next1, Step, g
            <4> QED
                BY <4>1
        <3>2. CASE ~Goes(body, offset)
            <4> HIDE DEF From, Next1, g
            <4> QED
                BY <3>2, LastVerdict
        <3> QED
            BY <3>1, <3>2
    <2>6. Def(g, d + 1)
        <3>1. /\ g = [offset \in From(d + 1) |-> g[offset]]
              /\ \A offset \in From(d + 1) : g[offset] = Step(offset, f[Next1(offset)])
            <4> HIDE DEF From, Next1, Step
            <4> QED
                OBVIOUS
        <3> HIDE DEF From, Next1, Step, g
        <3> QED
            BY <2>5, <3>1
    <2> HIDE DEF Def, g
    <2> QED
        BY <2>6
<1>3. MaxStream + 1 \in S
    <2>1. \A d \in Nat : d \in S
        <3> HIDE DEF S
        <3> QED
            BY <1>1, <1>2, Induct
    <2> HIDE DEF S
    <2> QED
        BY <2>1, ParserAssumption
<1>4. PICK f : Def(f, MaxStream + 1)
    BY <1>3
<1>5. From(MaxStream + 1) = 0..MaxStream
    BY ParserAssumption
<1>6. Scans(f, body, sep)
    <2> HIDE DEF From
    <2> QED
        BY <1>4, <1>5 DEF Scans
<1> QED
    BY <1>6

LEMMA ChunksScan ==
    ASSUME NEW X, NEW body \in Seq(X), Len(body) <= MaxStream, NEW sep
    PROVE  \E f : Scans(f, body, sep) /\ CheckChunks(body, sep) = f[0]
<1>1. PICK f : f = CHOOSE g : Scans(g, body, sep)
    BY Zenon
<1>2. Scans(f, body, sep)
    BY <1>1, ScansExist
<1>3. CheckChunks(body, sep) = f[0]
    BY <1>1 DEF CheckChunks, Scans, ChunkVerdict, NextChunk, ChunkIdx, ChunkLen, ChunkData
<1> QED
    BY <1>2, <1>3

(* A size line that has arrived as a whole is the same when more arrives *)
LEMMA ChunkOfFirst ==
    ASSUME NEW X, NEW body \in Seq(X), NEW n \in 0..Len(body), NEW offset \in Nat,
           ChunkIdx(SubSeq(body, 1, n), offset) # -1
    PROVE  /\ ChunkIdx(body, offset) = ChunkIdx(SubSeq(body, 1, n), offset)
           /\ ChunkLen(body, offset) = ChunkLen(SubSeq(body, 1, n), offset)
           /\ ChunkData(body, offset) \in Seq(X)
           /\ \E k \in 0..Len(ChunkData(body, offset)) :
                 ChunkData(SubSeq(body, 1, n), offset) = SubSeq(ChunkData(body, offset), 1, k)
<1> DEFINE p == SubSeq(body, 1, n)
           r == After(body, offset)
           q == After(p, offset)
           idx == ChunkIdx(p, offset)
<1>1. p \in Seq(X) /\ Len(p) = n /\ Len(body) \in Nat
    BY SliceOK
<1>2. q \in Seq(X) /\ Len(q) = (IF offset <= n THEN n - offset ELSE 0)
    <2> HIDE DEF p
    <2> QED
        BY <1>1, AfterOK
<1>3. idx \in 0..Len(q) - 2
    <2>1. idx = Index(q, CRLF) /\ idx # -1
        BY DEF ChunkIdx
    <2> HIDE DEF q, idx
    <2> QED
        BY <1>2, <2>1, Marks, IndexRange
<1>4. offset \in 0..n
    <2> HIDE DEF q, idx
    <2> QED
        BY <1>2, <1>3
<1>5. r \in Seq(X) /\ Len(r) = Len(body) - offset
    <2>1. r \in Seq(X) /\ Len(r) = IF offset <= Len(body) THEN Len(body) - offset ELSE 0
        BY AfterOK
    <2> HIDE DEF r
    <2> QED
        BY <1>1, <1>4, <2>1
<1> DEFINE m == n - offset
<1>6. m \in 0..Len(r) /\ Len(q) = m
    <2> HIDE DEF q, r
    <2> QED
        BY <1>1, <1>2, <1>4, <1>5
<1>7. q = SubSeq(r, 1, m)
    BY <1>4, AfterOfFirst
<1>8. ChunkIdx(body, offset) = idx
    <2>1. idx = Index(q, CRLF) /\ idx # -1 /\ ChunkIdx(body, offset) = Index(r, CRLF)
        BY DEF ChunkIdx
    <2>2. Len(CRLF) \in Nat
        BY Marks
    <2> HIDE DEF q, r, idx, m
    <2> QED
        BY <1>5, <1>6, <1>7, <2>1, <2>2, IndexOfFirst
<1>9. ChunkLen(body, offset) = ChunkLen(p, offset)
    <2>1. Upto(q, idx) = Upto(r, idx)
        <3> HIDE DEF q, r, idx, m
        <3> QED
            BY <1>3, <1>5, <1>6, <1>7, UptoOfFirst
    <2>2. ChunkLen(p, offset) = ChunkSize(Upto(q, idx))
        BY DEF ChunkLen
    <2>3. ChunkLen(body, offset) = ChunkSize(Upto(r, ChunkIdx(body, offset)))
        BY DEF ChunkLen
    <2> HIDE DEF p, q, r, idx
    <2> QED
        BY <1>8, <2>1, <2>2, <2>3
<1> DEFINE data == ChunkData(body, offset)
<1>10. data = After(r, idx + 2)
    <2>1. data = After(r, ChunkIdx(body, offset) + 2)
        BY DEF ChunkData
    <2> HIDE DEF r, idx, data
    <2> QED
        BY <1>8, <2>1
<1>11. idx + 2 \in 0..m
    <2> HIDE DEF q, idx, m
    <2> QED
        BY <1>3, <1>6
<1>12. data \in Seq(X) /\ Len(data) = Len(r) - (idx + 2)
    <2>1. idx + 2 \in Nat /\ idx + 2 <= Len(r)
        <3> HIDE DEF r, idx, m
        <3> QED
            BY <1>5, <1>6, <1>11
    <2>2. data \in Seq(X) /\ Len(data) = IF idx + 2 <= Len(r) THEN Len(r) - (idx + 2) ELSE 0
        <3> HIDE DEF r, idx, data
        <3> QED
            BY <1>5, <1>10, <2>1, AfterOK
    <2> HIDE DEF r, idx, data
    <2> QED
        BY <2>1, <2>2
<1>13. ChunkData(p, offset) = SubSeq(data, 1, m - (idx + 2))
    <2>1. ChunkData(p, offset) = After(q, idx + 2)
        BY DEF ChunkData
    <2> HIDE DEF p, q, r, idx, m, data
    <2> QED
        BY <1>5, <1>6, <1>7, <1>10, <1>11, <2>1, AfterOfFirst
<1>14. m - (idx + 2) \in 0..Len(data)
    <2> HIDE DEF q, r, idx, m, data
    <2> QED
        BY <1>5, <1>6, <1>11, <1>12
<1> HIDE DEF r, q, idx, m
<1> QED
    BY <1>8, <1>9, <1>12, <1>13, <1>14 DEF idx

LEMMA Verdicts ==
    ASSUME NEW n
    PROVE  /\ ~Incomplete.Complete /\ ~Incomplete.Error
           /\ ~Malformed.Complete /\ Malformed.Error
           /\ Complete(n).Complete /\ ~Complete(n).Error
    BY DEF Incomplete, Malformed, Complete

LEMMA LastChunkSettled ==
    ASSUME NEW X, NEW data \in Seq(X), NEW k \in 0..Len(data), NEW consumed
    PROVE  Settled(AfterLastChunk(SubSeq(data, 1, k), consumed), AfterLastChunk(data, consumed))
<1> DEFINE p == SubSeq(data, 1, k)
<1>1. p \in Seq(X) /\ Len(p) = k /\ k \in Nat
    BY SliceOK
<1>2. k >= 2 => Upto(p, 2) = Upto(data, 2)
    BY UptoOfFirst
<1>3. Upto(p, 2) = CRLF => k >= 2
    <2> HIDE DEF p
    <2>1. Len(Upto(p, 2)) = IF 2 <= Len(p) THEN 2 ELSE Len(p)
        BY <1>1, UptoOK
    <2>2. Upto(p, 2) = CRLF => Len(Upto(p, 2)) = 2
        BY Marks
    <2>3. PICK l : l = Len(Upto(p, 2))
        BY Zenon
    <2>4. l = (IF 2 <= k THEN 2 ELSE k) /\ (Upto(p, 2) = CRLF => l = 2)
        BY <1>1, <2>1, <2>2, <2>3
    <2>5. l = 2 => k >= 2
        BY <1>1, <2>4
    <2> QED
        BY <2>4, <2>5, Zenon
<1>4. Index(p, headerEnd) # -1 => k >= 2 /\ Index(data, headerEnd) = Index(p, headerEnd)
    <2>1. Len(headerEnd) \in Nat
        BY Marks
    <2>2. Index(p, headerEnd) # -1 => Index(data, headerEnd) = Index(p, headerEnd)
        BY <2>1, IndexOfFirst
    <2> HIDE DEF p
    <2>3. Index(p, headerEnd) = -1 \/ Index(p, headerEnd) \in 0..k - 4
        BY <1>1, Marks, IndexRange
    <2> QED
        BY <1>1, <2>2, <2>3
<1> HIDE DEF p
<1>5. AfterLastChunk(p, consumed) \in {Incomplete, AfterLastChunk(data, consumed)}
    BY <1>2, <1>3, <1>4 DEF AfterLastChunk
<1> QED
    BY <1>5, Verdicts DEF Settled, p

(* The verdict on a chunked body *)
LEMMA ChunksSettled ==
    ASSUME NEW X, NEW body \in Seq(X), Len(body) <= MaxStream, NEW n \in 0..Len(body), NEW sep
    PROVE  Settled(CheckChunks(SubSeq(body, 1, n), sep), CheckChunks(body, sep))
<1> DEFINE p == SubSeq(body, 1, n)
<1>1. p \in Seq(X) /\ Len(p) = n /\ Len(body) \in Nat
    BY SliceOK
<1>2. PICK f : Scans(f, p, sep) /\ CheckChunks(p, sep) = f[0]
    <2> HIDE DEF p
    <2> QED
        BY <1>1, ParserAssumption, ChunksScan
<1>3. PICK g : Scans(g, body, sep) /\ CheckChunks(body, sep) = g[0]
    BY ChunksScan
<1> DEFINE S == {d \in Nat : \A offset \in 0..MaxStream :
                                offset + d >= MaxStream + 1 => Settled(f[offset], g[offset])}
<1>4. 0 \in S
    BY ParserAssumption
<1>5. ASSUME NEW d \in Nat, d \in S PROVE d + 1 \in S
    <2> SUFFICES ASSUME NEW offset \in 0..MaxStream, offset + (d + 1) >= MaxStream + 1
                 PROVE  Settled(f[offset], g[offset])
        OBVIOUS
    <2>1. f[offset] = ChunkVerdict(p, sep, offset, f[NextChunk(p, offset)])
        <3> HIDE DEF p
        <3> QED
            BY <1>2 DEF Scans
    <2>2. g[offset] = ChunkVerdict(body, sep, offset, g[NextChunk(body, offset)])
        BY <1>3 DEF Scans
    <2>3. CASE ChunkIdx(p, offset) = -1
        <3>1. f[offset] = Incomplete
            <4> HIDE DEF p
            <4> QED
                BY <2>1, <2>3 DEF ChunkVerdict
        <3> QED
            BY <3>1, Verdicts DEF Settled
    <2>4. CASE ChunkIdx(p, offset) # -1
        <3>1. /\ ChunkIdx(body, offset) = ChunkIdx(p, offset)
              /\ ChunkLen(body, offset) = ChunkLen(p, offset)
              /\ ChunkData(body, offset) \in Seq(X)
            <4>1. offset \in Nat
                OBVIOUS
            <4> QED
                BY <2>4, <4>1, ChunkOfFirst
        <3>2. PICK k \in 0..Len(ChunkData(body, offset)) :
                  ChunkData(p, offset) = SubSeq(ChunkData(body, offset), 1, k)
            <4>1. offset \in Nat
                OBVIOUS
            <4> QED
                BY <2>4, <4>1, ChunkOfFirst, SMTT(30)
        <3>3. Len(ChunkData(p, offset)) = k /\ k <= Len(ChunkData(body, offset))
              /\ k \in Nat /\ Len(ChunkData(body, offset)) \in Nat
            BY <3>1, <3>2, SliceOK
        <3>4. NextChunk(body, offset) = NextChunk(p, offset)
            <4> HIDE DEF p
            <4> QED
                BY <3>1 DEF NextChunk
        <3>5. CASE Goes(p, offset)
            <4>1. NextChunk(p, offset) \in Nat /\ offset < NextChunk(p, offset)
                  /\ NextChunk(p, offset) <= Len(p)
                <5> HIDE DEF p
                <5> QED
                    BY <1>1, <3>5, Forward
            <4>2. Settled(f[NextChunk(p, offset)], g[NextChunk(p, offset)])
                <5>1. PICK o \in 0..MaxStream :
                          o = NextChunk(p, offset) /\ o + d >= MaxStream + 1
                    <6> HIDE DEF p
                    <6> QED
                        BY <1>1, <4>1, ParserAssumption
                <5>2. Settled(f[o], g[o])
                    BY <1>5, <5>1
                <5> HIDE DEF p
                <5> QED
                    BY <5>1, <5>2
            <4>3. ChunkLen(p, offset) \in Int
                <5> HIDE DEF p
                <5>1. After(p, offset) \in Seq(X)
                    BY <1>1, AfterOK
                <5>2. ChunkIdx(p, offset) \in Nat
                    <6>1. ChunkIdx(p, offset) = -1
                          \/ ChunkIdx(p, offset) \in 0..Len(After(p, offset)) - 2
                        BY <5>1, Marks, IndexRange DEF ChunkIdx
                    <6> QED
                        BY <2>4, <5>1, <6>1
                <5>3. Upto(After(p, offset), ChunkIdx(p, offset)) \in Seq(X)
                    BY <5>1, <5>2, UptoOK
                <5>4. ChunkLen(p, offset) \in -1..MaxInt
                    BY <5>3, ChunkSizeOK DEF ChunkLen
                <5> QED
                    BY <5>4, ParserAssumption
            <4> HIDE DEF p
            <4>4. f[offset] = f[NextChunk(p, offset)]
                BY <2>1, <3>5 DEF ChunkVerdict, Goes
            <4>5. ~(Len(ChunkData(body, offset)) < ChunkLen(body, offset) + 2)
                BY <3>1, <3>3, <3>5, <4>3 DEF Goes
            <4>6. Goes(body, offset)
                BY <3>1, <3>5, <4>5 DEF Goes
            <4>7. g[offset] = g[NextChunk(p, offset)]
                BY <2>2, <3>4, <4>6 DEF ChunkVerdict, Goes
            <4> QED
                BY <4>2, <4>4, <4>7
        <3>6. CASE ~Goes(p, offset)
            <4>1. CASE ChunkLen(p, offset) = 0
                <5> DEFINE c == sep + offset + ChunkIdx(p, offset) + 2
                <5>1. Settled(AfterLastChunk(ChunkData(p, offset), c),
                              AfterLastChunk(ChunkData(body, offset), c))
                    <6> HIDE DEF c
                    <6> QED
                        BY <3>1, <3>2, LastChunkSettled
                <5>2. f[offset] = AfterLastChunk(ChunkData(p, offset), c)
                    <6> HIDE DEF p
                    <6> QED
                        BY <2>1, <2>4, <4>1 DEF ChunkVerdict
                <5>3. g[offset] = AfterLastChunk(ChunkData(body, offset), c)
                    <6> HIDE DEF p
                    <6> QED
                        BY <2>2, <2>4, <3>1, <4>1 DEF ChunkVerdict
                <5> HIDE DEF p, c
                <5> QED
                    BY <5>1, <5>2, <5>3
            <4>2. CASE ChunkLen(p, offset) # 0
                <5> HIDE DEF p
                <5>1. \/ f[offset] = Incomplete
                      \/ f[offset] = Malformed /\ g[offset] = Malformed
                    BY <2>1, <2>2, <2>4, <3>1, <3>6, <4>2 DEF ChunkVerdict, Goes
                <5> QED
                    BY <5>1, Verdicts DEF Settled
            <4> QED
                BY <4>1, <4>2
        <3> QED
            BY <3>5, <3>6
    <2> QED
        BY <2>3, <2>4
<1>6. Settled(f[0], g[0])
    <2>1. \A d \in Nat : d \in S
        <3> HIDE DEF S
        <3> QED
            BY <1>4, <1>5, Induct
    <2>2. MaxStream + 1 \in S
        <3> HIDE DEF S
        <3> QED
            BY <2>1, ParserAssumption
    <2> QED
        BY <2>2, ParserAssumption
<1> HIDE DEF p
<1> QED
    BY <1>2, <1>3, <1>6 DEF p

-----------------------------------------------------------------------------
(***************************************************************************)
(* The header, and CheckRequest.                                           *)
(***************************************************************************)
LengthAt(headers, n) == parseInt(TrimSpace(Tail(Line(headers, n))))

LEMMA LengthOK ==
    ASSUME NEW X, NEW headers \in Seq(X), NEW name, NEW n \in Fields(headers, name)
    PROVE  LengthAt(headers, n) \in Int
<1>1. n \in Nat /\ Len(Line(headers, n)) > 1
    BY DEF Fields, LineStarts
<1> DEFINE cur == After(headers, n)
           idx == Index(cur, CRLF)
<1>2. cur \in Seq(X)
    BY <1>1, AfterOK
<1>3. idx = -1 \/ idx \in Nat
    <2> HIDE DEF cur
    <2>1. idx = -1 \/ idx \in 0..Len(cur) - 2
        BY <1>2, Marks, IndexRange
    <2> QED
        BY <1>2, <2>1
<1>4. Line(headers, n) \in Seq(X)
    <2>1. Line(headers, n) = IF idx = -1 THEN cur ELSE Upto(cur, idx)
        BY DEF Line
    <2> HIDE DEF idx, cur
    <2> QED
        BY <1>2, <1>3, <2>1, UptoOK
<1>5. Tail(Line(headers, n)) \in Seq(X)
    BY <1>1, <1>4
<1>6. TrimSpace(Tail(Line(headers, n))) \in Seq(X)
    BY <1>5, TrimOK
<1> QED
    BY <1>6, ParseIntOK DEF LengthAt

LEMMA LastLengthOK ==
    ASSUME NEW X, NEW headers \in Seq(X), NEW name, Fields(headers, name) # {}
    PROVE  LengthAt(headers, Max(Fields(headers, name))) \in Int
<1>1. Len(headers) \in Nat /\ \A i \in Fields(headers, name) : i \in 0..Len(headers)
    BY DEF Fields, LineStarts
<1>2. Max(Fields(headers, name)) \in Fields(headers, name)
    BY <1>1, Greatest
<1> QED
    BY <1>2, LengthOK

(* What CheckRequest says of a header that ends at end, given what follows  *)
(* from a chunked body and from a body with a length                        *)
HeaderVerdict(headers, end, chunks, length) ==
    IF end > MaxHeaderSize THEN Malformed
    ELSE IF Index(headers, CRLF) = -1 THEN Incomplete
    ELSE IF \E n \in Fields(headers, "Content-Length:") : LengthAt(headers, n) < 0 THEN Malformed
    ELSE IF \E n \in Fields(headers, "Transfer-Encoding:") :
                containsChunked(Tail(Line(headers, n)))
    THEN chunks
    ELSE IF Fields(headers, "Content-Length:") # {} THEN length
    ELSE Complete(end + 4)
LastLength(headers) == LengthAt(headers, Max(Fields(headers, "Content-Length:")))

LEMMA RequestVerdict ==
    ASSUME NEW data, NEW end, end = Index(data, headerEnd), end # -1
    PROVE  CheckRequest(data) =
               HeaderVerdict(Upto(data, end), end,
                             CheckChunks(After(data, end + 4), end + 4),
                             CheckLength(Len(data), end + 4, LastLength(Upto(data, end))))
    BY DEF CheckRequest, HeaderVerdict, LastLength, LengthAt

LEMMA LengthSettled ==
    ASSUME NEW n \in Nat, NEW m \in Nat, n <= m, NEW sep \in Int, NEW l \in Int
    PROVE  Settled(CheckLength(n, sep, l), CheckLength(m, sep, l))
<1>1. Wrap(sep + l) \in Int
    BY WrapOK
<1>2. n >= Wrap(sep + l) => m >= Wrap(sep + l)
    BY <1>1
<1>3. \/ CheckLength(n, sep, l) = Incomplete
      \/ CheckLength(n, sep, l) = CheckLength(m, sep, l)
    BY <1>2 DEF CheckLength
<1> QED
    BY <1>3, Verdicts DEF Settled

(* A verdict is final: what CheckRequest says of the first n symbols of an  *)
(* input, that it is complete or malformed, it says of all of it.  The      *)
(* exception are headers within three bytes of the limit: before their end  *)
(* has arrived, too many bytes have.                                        *)
THEOREM VerdictFinal ==
    ASSUME NEW X, NEW s \in Seq(X), Len(s) <= MaxStream, NEW n \in 0..Len(s)
    PROVE  \/ Settled(CheckRequest(SubSeq(s, 1, n)), CheckRequest(s))
           \/ /\ Index(s, headerEnd) \in (MaxHeaderSize - 2..MaxHeaderSize) \ {-1}
              /\ CheckRequest(SubSeq(s, 1, n)) = Malformed
<1> DEFINE p == SubSeq(s, 1, n)
           end == Index(p, headerEnd)
           all == Index(s, headerEnd)
<1>1. p \in Seq(X) /\ Len(p) = n /\ n \in Nat /\ Len(s) \in Nat /\ n <= Len(s)
    BY SliceOK
<1>2. /\ end # -1 => all = end
      /\ end = -1 /\ all # -1 => all + 4 > n
    <2>1. Len(headerEnd) \in Nat
        BY Marks
    <2>2. /\ end # -1 => all = end
          /\ end = -1 /\ all # -1 => all + Len(headerEnd) > n
        BY <2>1, IndexOfFirst
    <2> HIDE DEF end, all
    <2> QED
        BY <2>2, Marks
<1>3. all = -1 \/ all \in 0..Len(s) - 4
    BY Marks, IndexRange
<1>4. CASE end = -1
    <2>1. CheckRequest(p) = NoHeaderEndYet(n)
        <3> HIDE DEF p
        <3> QED
            BY <1>1, <1>4 DEF CheckRequest
    <2>2. CASE n <= MaxHeaderSize
        <3>1. CheckRequest(p) = Incomplete
            <4> HIDE DEF p
            <4> QED
                BY <1>1, <2>1, <2>2, ParserAssumption DEF NoHeaderEndYet
        <3> HIDE DEF p
        <3> QED
            BY <3>1, Verdicts DEF Settled, p
    <2>3. CASE n > MaxHeaderSize
        <3>1. ASSUME all = -1 PROVE CheckRequest(s) = Malformed
            <4>1. CheckRequest(s) = NoHeaderEndYet(Len(s))
                BY <3>1 DEF CheckRequest
            <4>2. Len(s) > MaxHeaderSize
                BY <1>1, <2>3, ParserAssumption
            <4>3. CheckRequest(s) = Malformed
                BY <4>1, <4>2 DEF NoHeaderEndYet
            <4> QED
                BY <4>3
        <3>2. ASSUME all # -1, all \notin (MaxHeaderSize - 2..MaxHeaderSize) \ {-1}
              PROVE  CheckRequest(s) = Malformed
            <4>1. all > MaxHeaderSize
                <5> HIDE DEF all, end
                <5> QED
                    BY <1>1, <1>2, <1>3, <1>4, <2>3, <3>2, ParserAssumption
            <4> QED
                BY <3>2, <4>1 DEF CheckRequest
        <3>3. \/ CheckRequest(s) = Malformed
              \/ all \in (MaxHeaderSize - 2..MaxHeaderSize) \ {-1}
            BY <3>1, <3>2, Zenon
        <3>4. CheckRequest(p) = Malformed
            <4> HIDE DEF p
            <4> QED
                BY <2>1, <2>3 DEF NoHeaderEndYet
        <3> HIDE DEF p
        <3> QED
            BY <3>3, <3>4, Verdicts DEF Settled, p
    <2> QED
        BY <1>1, <2>2, <2>3, ParserAssumption
<1>5. CASE end # -1
    <2>1. all = end
        BY <1>2, <1>5
    <2>2. end \in 0..n - 4
        <3> HIDE DEF p
        <3>1. end = -1 \/ end \in 0..Len(p) - 4
            BY <1>1, Marks, IndexRange
        <3> QED
            BY <1>1, <1>5, <3>1
    <2> DEFINE h == Upto(s, end)
               c1 == CheckChunks(After(p, end + 4), end + 4)
               c2 == CheckChunks(After(s, end + 4), end + 4)
               l1 == CheckLength(n, end + 4, LastLength(h))
               l2 == CheckLength(Len(s), end + 4, LastLength(h))
    <2>3. Upto(p, end) = h /\ h \in Seq(X)
        <3>1. end \in 0..n /\ end \in Nat
            <4> HIDE DEF end
            <4> QED
                BY <1>1, <2>2
        <3> HIDE DEF end
        <3> QED
            BY <3>1, UptoOfFirst, UptoOK
    <2>4. CheckRequest(p) = HeaderVerdict(h, end, c1, l1)
        <3> HIDE DEF p
        <3>1. CheckRequest(p) = HeaderVerdict(Upto(p, end), end, c1,
                                    CheckLength(Len(p), end + 4, LastLength(Upto(p, end))))
            BY <1>5, RequestVerdict
        <3> HIDE DEF end, h, c1
        <3> QED
            BY <1>1, <2>3, <3>1
    <2>5. CheckRequest(s) = HeaderVerdict(h, end, c2, l2)
        <3>1. end = Index(s, headerEnd)
            BY <2>1
        <3> HIDE DEF end
        <3> QED
            BY <1>5, <3>1, RequestVerdict
    <2>6. Settled(c1, c2)
        <3>1. end + 4 \in 0..n /\ end + 4 \in Nat /\ end + 4 <= Len(s)
            <4> HIDE DEF end
            <4> QED
                BY <1>1, <2>2
        <3> HIDE DEF end
        <3> DEFINE b == After(s, end + 4)
                   m == n - (end + 4)
        <3>2. After(p, end + 4) = SubSeq(b, 1, m)
            BY <3>1, AfterOfFirst
        <3>3. b \in Seq(X) /\ Len(b) = Len(s) - (end + 4)
            <4>1. b \in Seq(X)
                  /\ Len(b) = IF end + 4 <= Len(s) THEN Len(s) - (end + 4) ELSE 0
                BY <3>1, AfterOK
            <4> HIDE DEF b
            <4> QED
                BY <3>1, <4>1
        <3> HIDE DEF b
        <3>4. m \in 0..Len(b) /\ Len(b) <= MaxStream
            BY <1>1, <3>1, <3>3, ParserAssumption
        <3> HIDE DEF m, p
        <3>5. Settled(CheckChunks(SubSeq(b, 1, m), end + 4), CheckChunks(b, end + 4))
            BY <3>3, <3>4, ChunksSettled
        <3> QED
            BY <3>2, <3>5 DEF b
    <2>7. Fields(h, "Content-Length:") # {} => Settled(l1, l2)
        <3>1. end + 4 \in Int
            <4> HIDE DEF end
            <4> QED
                BY <1>1, <2>2
        <3> HIDE DEF end, h
        <3> SUFFICES ASSUME Fields(h, "Content-Length:") # {} PROVE Settled(l1, l2)
            OBVIOUS
        <3>2. LastLength(h) \in Int
            BY <2>3, LastLengthOK DEF LastLength
        <3> QED
            BY <1>1, <3>1, <3>2, LengthSettled
    <2> HIDE DEF h, c1, c2, l1, l2, end
    <2>8. \/ HeaderVerdict(h, end, c1, l1) = HeaderVerdict(h, end, c2, l2)
          \/ HeaderVerdict(h, end, c1, l1) = c1 /\ HeaderVerdict(h, end, c2, l2) = c2
          \/ /\ HeaderVerdict(h, end, c1, l1) = l1 /\ HeaderVerdict(h, end, c2, l2) = l2
             /\ Fields(h, "Content-Length:") # {}
        BY DEF HeaderVerdict
    <2>9. Settled(CheckRequest(p), CheckRequest(s))
        <3> HIDE DEF p
        <3> QED
            BY <2>4, <2>5, <2>6, <2>7, <2>8 DEF Settled
    <2> QED
        BY <2>9
<1> QED
    BY <1>4, <1>5

(* A header without the fields that announce a body makes a request         *)
(* complete: skipping CheckRequest then makes no difference.                *)
LEMMA BypassComplete ==
    ASSUME NEW data, shouldBypassFullRequestCheck(data)
    PROVE  CheckRequest(data) = Complete(Index(data, headerEnd) + 4)
<1> DEFINE end == Index(data, headerEnd)
           h == Upto(data, end)
<1>1. /\ end \in 0..MaxHeaderSize
      /\ Index(h, CRLF) # -1
      /\ \A n \in LineStarts(h) : Line(h, n)[1] \notin BodyFields
    BY DEF shouldBypassFullRequestCheck
<1>2. Fields(h, "Content-Length:") = {} /\ Fields(h, "Transfer-Encoding:") = {}
    <2> HIDE DEF h
    <2> QED
        BY <1>1 DEF Fields, BodyFields
<1>3. end # -1 /\ ~(end > MaxHeaderSize)
    <2> HIDE DEF end
    <2> QED
        BY <1>1, ParserAssumption
<1>4. CheckRequest(data) =
          HeaderVerdict(h, end, CheckChunks(After(data, end + 4), end + 4),
                        CheckLength(Len(data), end + 4, LastLength(h)))
    BY <1>3, RequestVerdict
<1> HIDE DEF h, end
<1>5. CheckRequest(data) = Complete(end + 4)
    BY <1>1, <1>2, <1>3, <1>4 DEF HeaderVerdict
<1> QED
    BY <1>5 DEF end

-----------------------------------------------------------------------------
(***************************************************************************)
(* serveHTTP.                                                              *)
(***************************************************************************)

(* The stream is part of what its client sends: if the end of the header is *)
(* in it, that is where the client put it.                                  *)
StreamOK ==
    /\ stream \in Seq(STRING) /\ Len(stream) <= MaxStream
    /\ meant.headerSize \in Int
    /\ Index(stream, headerEnd) \in {-1, meant.headerSize}
    /\ seen \in Nat

LEMMA StreamInit == Init => StreamOK
<1> SUFFICES ASSUME Init PROVE StreamOK
    OBVIOUS
<1>1. PICK r \in Requests, tail \in Tails :
          stream = Upto(Request(r) \o tail, MaxStream) /\ meant = Meaning(r)
    BY DEF Init
<1> DEFINE text == Request(r) \o tail
<1>2. text \in Seq(STRING) /\ Index(text, headerEnd) = Len(Header(r)) - 2
    BY RequestAssumption
<1>3. meant.headerSize = Len(Header(r)) - 2
    BY <1>1 DEF Meaning
<1>4. stream = Upto(text, MaxStream)
    BY <1>1
<1> HIDE DEF text
<1>5. Index(text, headerEnd) \in Int
    <2>1. Index(text, headerEnd) = -1 \/ Index(text, headerEnd) \in 0..Len(text) - 4
        BY <1>2, Marks, IndexRange
    <2> QED
        BY <1>2, <2>1
<1>6. PICK k \in 0..Len(text) : stream = SubSeq(text, 1, k) /\ k <= MaxStream
    <2>1. stream = SubSeq(text, 1, IF MaxStream <= Len(text) THEN MaxStream ELSE Len(text))
        BY <1>2, <1>4, ParserAssumption, UptoOK
    <2>2. Len(text) \in Nat /\ MaxStream \in Nat
        BY <1>2, ParserAssumption
    <2> QED
        BY <2>1, <2>2
<1>7. stream \in Seq(STRING) /\ Len(stream) = k
    BY <1>2, <1>6, SliceOK
<1>8. Index(stream, headerEnd) # -1 => Index(stream, headerEnd) = Index(text, headerEnd)
    <2>1. Len(headerEnd) \in Nat
        BY Marks
    <2> QED
        BY <1>2, <1>6, <2>1, IndexOfFirst
<1>9. seen = 0
    BY DEF Init
<1> QED
    BY <1>2, <1>3, <1>5, <1>6, <1>7, <1>8, <1>9 DEF StreamOK

(* A look's decision is CheckRequest's verdict on the first symbols *)
LEMMA LookVerdict ==
    ASSUME StreamOK, NEW available \in 1..Len(stream)
    PROVE  \E n \in 0..available :
              /\ Decide(Upto(stream, available)) = "serve" =>
                     /\ CheckRequest(SubSeq(stream, 1, n)).Complete
                     /\ ~CheckRequest(SubSeq(stream, 1, n)).Error
              /\ Decide(Upto(stream, available)) = "close" =>
                     CheckRequest(SubSeq(stream, 1, n)).Error
<1> DEFINE data == Upto(stream, available)
           first == Upto(data, PeekLen)
           Says(v) == /\ Decide(data) = "serve" => v.Complete /\ ~v.Error
                      /\ Decide(data) = "close" => v.Error
<1>1. stream \in Seq(STRING) /\ Len(stream) \in Nat
    BY DEF StreamOK
<1>2. data = SubSeq(stream, 1, available) /\ available \in 0..Len(stream)
    <2>1. available \in Nat /\ available <= Len(stream)
        BY <1>1
    <2> QED
        BY <1>1, <2>1, UptoOK
<1>3. PICK k \in 0..available : first = SubSeq(stream, 1, k)
    <2> HIDE DEF data
    <2>1. data \in Seq(STRING) /\ Len(data) = available /\ available \in Nat
        BY <1>1, <1>2, SliceOK
    <2>2. PICK k \in 0..available : first = SubSeq(data, 1, k)
        <3>1. first = SubSeq(data, 1, IF PeekLen <= Len(data) THEN PeekLen ELSE Len(data))
            BY <2>1, ParserAssumption, UptoOK
        <3> HIDE DEF first
        <3> QED
            BY <2>1, <3>1, ParserAssumption
    <2> HIDE DEF first
    <2>3. first = SubSeq(stream, 1, k)
        BY <1>1, <1>2, <2>2, SliceOfFirst
    <2> QED
        BY <2>3
<1>4. Says(CheckRequest(first)) \/ Says(CheckRequest(data))
    <2>1. CASE shouldBypassFullRequestCheck(first)
        <3>1. CheckRequest(first).Complete /\ ~CheckRequest(first).Error
            <4> HIDE DEF first
            <4> QED
                BY <2>1, BypassComplete, Verdicts
        <3>2. Decide(data) = "serve"
            BY <2>1 DEF Decide
        <3> HIDE DEF first, data
        <3> QED
            BY <3>1, <3>2
    <2>2. CASE ~shouldBypassFullRequestCheck(first)
        <3> DEFINE check == Look(data)
        <3>1. check \in {CheckRequest(first), CheckRequest(data)}
            BY DEF Look
        <3>2. Decide(data) = IF check.Error THEN "close"
                             ELSE IF check.Complete THEN "serve" ELSE "wait"
            BY <2>2 DEF Decide
        <3> HIDE DEF first, data, check
        <3> QED
            BY <3>1, <3>2
    <2> QED
        BY <2>1, <2>2
<1> HIDE DEF data, first
<1> QED
    <2>1. CASE Says(CheckRequest(first))
        <3>1. Says(CheckRequest(SubSeq(stream, 1, k)))
            BY <1>3, <2>1
        <3> QED
            BY <1>3, <3>1 DEF data
    <2>2. CASE Says(CheckRequest(data))
        <3>1. Says(CheckRequest(SubSeq(stream, 1, available))) /\ available \in 0..available
            BY <1>2, <2>2
        <3> QED
            BY <3>1 DEF data
    <2> QED
        BY <1>4, <2>1, <2>2

(* ... and that is the verdict on the whole stream *)
LEMMA LookFinal ==
    ASSUME StreamOK, ~Ambiguous, NEW available \in 1..Len(stream),
           Decide(Upto(stream, available)) \in {"serve", "close"}
    PROVE  Decide(Upto(stream, available)) =
               IF CheckRequest(stream).Error THEN "close" ELSE "serve"
<1> DEFINE d == Decide(Upto(stream, available))
           v(n) == CheckRequest(SubSeq(stream, 1, n))
<1>1. stream \in Seq(STRING) /\ Len(stream) <= MaxStream /\ Len(stream) \in Nat
    BY DEF StreamOK
<1>2. Index(stream, headerEnd) \notin (MaxHeaderSize - 2..MaxHeaderSize) \ {-1}
    <2>1. MaxHeaderSize \in Nat
        BY ParserAssumption
    <2>2. ~(meant.headerSize <= MaxHeaderSize) \/ meant.headerSize <= MaxHeaderSize - 3
        BY DEF Ambiguous, WithinLimit
    <2>3. meant.headerSize \in Int /\ Index(stream, headerEnd) \in {-1, meant.headerSize}
        BY DEF StreamOK
    <2> QED
        BY <2>1, <2>2, <2>3
<1>3. PICK n \in 0..available : /\ d = "serve" => v(n).Complete /\ ~v(n).Error
                                /\ d = "close" => v(n).Error
    BY LookVerdict
<1>4. n \in 0..Len(stream)
    BY <1>1
<1>5. Settled(v(n), CheckRequest(stream))
    BY <1>1, <1>2, <1>4, VerdictFinal
<1>6. d \in {"serve", "close"}
    OBVIOUS
<1> HIDE DEF d, v
<1> QED
    BY <1>3, <1>5, <1>6 DEF Settled, d

(* However a client's bytes are cut into reads, serveHTTP's verdict on a    *)
(* request is the one on all of them at once, whatever the requests: the    *)
(* first look at PeekLen bytes, the shortcut for requests without a body    *)
(* and the waiting make no difference.                                      *)
THEOREM CutCorrect == Spec => []CutIndependent
<1> DEFINE Inv == StreamOK /\ CutIndependent
<1>1. Init => Inv
    <2>1. Init => CutIndependent
        BY DEF Init, CutIndependent
    <2> QED
        BY <2>1, StreamInit
<1>2. Inv /\ [Next]_vars => Inv'
    <2> SUFFICES ASSUME Inv, [Next]_vars PROVE Inv'
        OBVIOUS
    <2>1. ASSUME NEW available \in 1..Len(stream), ServeHTTPLooks(available) PROVE Inv'
        <3>1. /\ stream' = stream /\ meant' = meant /\ seen' = available
              /\ decision' = Decide(Upto(stream, available))
            BY <2>1 DEF ServeHTTPLooks
        <3>2. StreamOK'
            <4>1. available \in Nat
                OBVIOUS
            <4> QED
                BY <3>1, <4>1 DEF StreamOK
        <3>3. Ambiguous' = Ambiguous /\ CheckRequest(stream)' = CheckRequest(stream)
            BY <3>1 DEF Ambiguous, WithinLimit
        <3>4. CutIndependent'
            BY <3>1, <3>3, LookFinal DEF CutIndependent
        <3> QED
            BY <3>2, <3>4
    <2>2. CASE UNCHANGED vars
        BY <2>2 DEF vars, StreamOK, CutIndependent, Ambiguous, WithinLimit
    <2> QED
        BY <2>1, <2>2 DEF Next
<1>3. Inv => CutIndependent
    OBVIOUS
<1> QED
    BY <1>1, <1>2, <1>3, PTL DEF Spec

-----------------------------------------------------------------------------
(***************************************************************************)
(* What is complete is there.                                              *)
(***************************************************************************)

Within(verdict, len) == verdict.BytesConsumed \in Int /\ verdict.BytesConsumed <= len

(* The size line at offset and what follows it lie in the body *)
LEMMA ChunkInside ==
    ASSUME NEW X, NEW body \in Seq(X), NEW offset \in Nat, ChunkIdx(body, offset) # -1
    PROVE  /\ ChunkIdx(body, offset) \in Nat
           /\ ChunkData(body, offset) \in Seq(X)
           /\ Len(ChunkData(body, offset)) = Len(body) - (offset + ChunkIdx(body, offset) + 2)
<1> DEFINE rest == After(body, offset)
           idx == ChunkIdx(body, offset)
           data == ChunkData(body, offset)
<1>1. rest \in Seq(X) /\ Len(rest) = IF offset <= Len(body) THEN Len(body) - offset ELSE 0
    BY AfterOK
<1>2. idx \in 0..Len(rest) - 2
    <2>1. idx = Index(rest, CRLF) /\ idx # -1
        BY DEF ChunkIdx
    <2> HIDE DEF rest, idx
    <2> QED
        BY <1>1, <2>1, Marks, IndexRange
<1>3. data = After(rest, idx + 2)
    BY DEF ChunkData
<1> HIDE DEF rest, idx, data
<1>4. idx \in Nat /\ idx + 2 \in Nat /\ idx + 2 <= Len(rest) /\ Len(rest) \in Nat
    BY <1>1, <1>2
<1>5. /\ data \in Seq(X)
      /\ Len(data) = IF idx + 2 <= Len(rest) THEN Len(rest) - (idx + 2) ELSE 0
    BY <1>1, <1>3, <1>4, AfterOK
<1>6. Len(body) \in Nat
    OBVIOUS
<1>7. Len(data) = Len(body) - (offset + idx + 2)
    BY <1>1, <1>4, <1>5, <1>6
<1> QED
    BY <1>4, <1>5, <1>7 DEF idx, data

LEMMA LastChunkThere ==
    ASSUME NEW X, NEW data \in Seq(X), NEW consumed \in Int,
           AfterLastChunk(data, consumed).Complete
    PROVE  Within(AfterLastChunk(data, consumed), consumed + Len(data))
<1>1. Len(data) \in Nat
    OBVIOUS
<1>2. CASE Upto(data, 2) = CRLF
    <2>1. PICK l : l = Len(Upto(data, 2))
        BY Zenon
    <2>2. l = (IF 2 <= Len(data) THEN 2 ELSE Len(data)) /\ l = 2
        BY <1>2, <2>1, Marks, UptoOK
    <2>3. 2 <= Len(data)
        BY <1>1, <2>2
    <2>4. AfterLastChunk(data, consumed) = Complete(consumed + 2)
        BY <1>2 DEF AfterLastChunk
    <2> QED
        BY <1>1, <2>3, <2>4 DEF Complete, Within
<1>3. CASE Upto(data, 2) # CRLF
    <2> DEFINE end == Index(data, headerEnd)
    <2>1. end = -1 \/ end \in 0..Len(data) - 4
        BY Marks, IndexRange
    <2>2. AfterLastChunk(data, consumed) = IF end # -1 THEN Complete(consumed + end + 4) ELSE Incomplete
        BY <1>3, Marks DEF AfterLastChunk
    <2> HIDE DEF end
    <2>3. end # -1
        BY <2>2, Verdicts
    <2> QED
        BY <1>1, <2>1, <2>2, <2>3 DEF Complete, Within
<1> QED
    BY <1>2, <1>3

LEMMA ChunksThere ==
    ASSUME NEW X, NEW body \in Seq(X), Len(body) <= MaxStream, NEW sep \in Int,
           CheckChunks(body, sep).Complete
    PROVE  Within(CheckChunks(body, sep), sep + Len(body))
<1>1. PICK f : Scans(f, body, sep) /\ CheckChunks(body, sep) = f[0]
    BY ChunksScan
<1> DEFINE There(v) == v.Complete => Within(v, sep + Len(body))
           S == {d \in Nat : \A offset \in 0..MaxStream :
                                offset + d >= MaxStream + 1 => There(f[offset])}
<1>2. 0 \in S
    BY ParserAssumption
<1>3. ASSUME NEW d \in Nat, d \in S PROVE d + 1 \in S
    <2> SUFFICES ASSUME NEW offset \in 0..MaxStream, offset + (d + 1) >= MaxStream + 1
                 PROVE  There(f[offset])
        OBVIOUS
    <2>1. f[offset] = ChunkVerdict(body, sep, offset, f[NextChunk(body, offset)])
        BY <1>1 DEF Scans
    <2>2. offset \in Nat /\ Len(body) \in Nat
        OBVIOUS
    <2>3. CASE Goes(body, offset)
        <3>1. NextChunk(body, offset) \in Nat /\ offset < NextChunk(body, offset)
              /\ NextChunk(body, offset) <= Len(body)
            BY <2>2, <2>3, Forward
        <3>2. PICK o \in 0..MaxStream : o = NextChunk(body, offset) /\ o + d >= MaxStream + 1
            BY <2>2, <3>1, ParserAssumption
        <3>3. f[offset] = f[o]
            BY <2>1, <2>3, <3>2 DEF ChunkVerdict, Goes
        <3>4. There(f[o])
            BY <1>3, <3>2
        <3> QED
            BY <3>3, <3>4
    <2>4. CASE ~Goes(body, offset)
        <3> DEFINE idx == ChunkIdx(body, offset)
                   data == ChunkData(body, offset)
                   c == sep + offset + idx + 2
        <3>1. CASE idx # -1 /\ ChunkLen(body, offset) = 0
            <4>1. f[offset] = AfterLastChunk(data, c)
                BY <2>1, <3>1 DEF ChunkVerdict
            <4>2. idx \in Nat /\ data \in Seq(X) /\ Len(data) = Len(body) - (offset + idx + 2)
                BY <2>2, <3>1, ChunkInside
            <4> HIDE DEF idx, data
            <4>3. c \in Int /\ c + Len(data) = sep + Len(body)
                BY <2>2, <4>2
            <4> HIDE DEF c
            <4> QED
                BY <4>1, <4>2, <4>3, LastChunkThere
        <3>2. CASE ~(idx # -1 /\ ChunkLen(body, offset) = 0)
            <4>1. f[offset] = Incomplete \/ f[offset] = Malformed
                BY <2>1, <2>4, <3>2 DEF ChunkVerdict, Goes
            <4> QED
                BY <4>1, Verdicts
        <3> QED
            BY <3>1, <3>2
    <2> QED
        BY <2>3, <2>4
<1>4. MaxStream + 1 \in S
    <2>1. \A d \in Nat : d \in S
        <3> HIDE DEF S
        <3> QED
            BY <1>2, <1>3, Induct
    <2> HIDE DEF S
    <2> QED
        BY <2>1, ParserAssumption
<1>5. There(f[0])
    BY <1>4, ParserAssumption
<1> QED
    BY <1>1, <1>5

LEMMA CompleteThere ==
    ASSUME NEW X, NEW data \in Seq(X), Len(data) <= MaxStream, CheckRequest(data).Complete
    PROVE  Within(CheckRequest(data), Len(data))
<1> DEFINE end == Index(data, headerEnd)
           h == Upto(data, end)
           chunks == CheckChunks(After(data, end + 4), end + 4)
           length == CheckLength(Len(data), end + 4, LastLength(h))
<1>1. end # -1
    <2>1. end = -1 => CheckRequest(data) \in {Incomplete, Malformed}
        BY DEF CheckRequest, NoHeaderEndYet
    <2> QED
        BY <2>1, Verdicts
<1>2. end \in 0..Len(data) - 4
    BY <1>1, Marks, IndexRange
<1>3. CheckRequest(data) = HeaderVerdict(h, end, chunks, length)
    BY <1>1, RequestVerdict
<1> HIDE DEF end
<1>4. Len(data) \in Nat /\ end \in Nat /\ end + 4 \in Nat /\ end + 4 <= Len(data)
    BY <1>2
<1>5. chunks.Complete => Within(chunks, Len(data))
    <2> DEFINE b == After(data, end + 4)
    <2>1. b \in Seq(X) /\ Len(b) = IF end + 4 <= Len(data) THEN Len(data) - (end + 4) ELSE 0
        BY <1>4, AfterOK
    <2> HIDE DEF b
    <2>2. Len(b) <= MaxStream /\ end + 4 \in Int /\ end + 4 + Len(b) = Len(data)
        BY <1>4, <2>1, ParserAssumption
    <2>3. chunks = CheckChunks(b, end + 4)
        BY DEF b
    <2> HIDE DEF chunks
    <2> QED
        BY <2>1, <2>2, <2>3, ChunksThere
<1>6. Fields(h, "Content-Length:") # {} /\ length.Complete => Within(length, Len(data))
    <2> SUFFICES ASSUME Fields(h, "Content-Length:") # {}, length.Complete
                 PROVE  Within(length, Len(data))
        OBVIOUS
    <2>1. LastLength(h) \in Int
        <3>1. h \in Seq(X)
            BY <1>4, UptoOK
        <3> HIDE DEF h
        <3> QED
            BY <3>1, LastLengthOK DEF LastLength
    <2> HIDE DEF h
    <2> DEFINE w == Wrap(end + 4 + LastLength(h))
    <2>2. w \in Int
        BY <1>4, <2>1, WrapOK
    <2>3. length = IF Len(data) >= w THEN Complete(w) ELSE Incomplete
        BY DEF CheckLength
    <2> HIDE DEF w, length
    <2>4. Len(data) >= w
        BY <2>3, Verdicts
    <2> QED
        BY <1>4, <2>2, <2>3, <2>4 DEF Complete, Within
<1> HIDE DEF h, chunks, length
<1>7. \/ CheckRequest(data) \in {Incomplete, Malformed, chunks, Complete(end + 4)}
      \/ Fields(h, "Content-Length:") # {} /\ CheckRequest(data) = length
    BY <1>3 DEF HeaderVerdict
<1>8. Within(Complete(end + 4), Len(data))
    BY <1>4 DEF Complete, Within
<1> QED
    BY <1>5, <1>6, <1>7, <1>8, Verdicts

(* A handler gets a request only when the whole input, searched at once,    *)
(* has a complete request that ends within the bytes that had arrived, also *)
(* when serveHTTP took the shortcut, and also near the header's limit: its  *)
(* reads never wait for the client.                                         *)
Served ==
    decision = "serve" =>
        /\ CheckRequest(stream).Complete
        /\ CheckRequest(stream).BytesConsumed <= seen

THEOREM ServedIsThere == Spec => []Served
<1> DEFINE Inv == StreamOK /\ Served
<1>1. Init => Inv
    <2>1. Init => Served
        BY DEF Init, Served
    <2> QED
        BY <2>1, StreamInit
<1>2. Inv /\ [Next]_vars => Inv'
    <2> SUFFICES ASSUME Inv, [Next]_vars PROVE Inv'
        OBVIOUS
    <2>1. ASSUME NEW available \in 1..Len(stream), ServeHTTPLooks(available) PROVE Inv'
        <3>1. /\ stream' = stream /\ meant' = meant /\ seen' = available
              /\ decision' = Decide(Upto(stream, available))
            BY <2>1 DEF ServeHTTPLooks
        <3>2. StreamOK'
            <4>1. available \in Nat
                OBVIOUS
            <4> QED
                BY <3>1, <4>1 DEF StreamOK
        <3>3. stream \in Seq(STRING) /\ Len(stream) <= MaxStream /\ Len(stream) \in Nat
            BY DEF StreamOK
        <3>4. ASSUME Decide(Upto(stream, available)) = "serve"
              PROVE  /\ CheckRequest(stream).Complete
                     /\ CheckRequest(stream).BytesConsumed <= available
            <4> DEFINE p(n) == SubSeq(stream, 1, n)
            <4>1. PICK n \in 0..available : CheckRequest(p(n)).Complete
                BY <3>4, LookVerdict
            <4>2. n \in 0..Len(stream)
                BY <3>3
            <4>3. \/ Settled(CheckRequest(p(n)), CheckRequest(stream))
                  \/ CheckRequest(p(n)) = Malformed
                BY <3>3, <4>2, VerdictFinal
            <4>4. CheckRequest(stream) = CheckRequest(p(n))
                <5> HIDE DEF p
                <5> QED
                    BY <4>1, <4>3, Verdicts DEF Settled
            <4>5. p(n) \in Seq(STRING) /\ Len(p(n)) = n
                BY <3>3, <4>2, SliceOK
            <4> HIDE DEF p
            <4>6. Len(p(n)) <= MaxStream
                BY <3>3, <4>2, <4>5, ParserAssumption
            <4>7. Within(CheckRequest(p(n)), n)
                BY <4>1, <4>5, <4>6, CompleteThere
            <4>8. CheckRequest(p(n)).BytesConsumed <= available
                BY <4>1, <4>7 DEF Within
            <4> QED
                BY <4>1, <4>4, <4>8
        <3>5. Served'
            BY <3>1, <3>4 DEF Served
        <3> QED
            BY <3>2, <3>5
    <2>2. CASE UNCHANGED vars
        BY <2>2 DEF vars, StreamOK, Served
    <2> QED
        BY <2>1, <2>2 DEF Next
<1>3. Inv => Served
    OBVIOUS
<1> QED
    BY <1>1, <1>2, <1>3, PTL DEF Spec
=============================================================================
