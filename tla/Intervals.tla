----------------------------- MODULE Intervals -----------------------------
(***************************************************************************)
(* The intervals of compiler/src/refine.rs, and why they may be trusted.   *)
(* Bounds saturate at Lowest and Limit, the two ends of i128.              *)
(*                                                                         *)
(* The comment on Interval says that saturating keeps the analysis sound,  *)
(* "widening, never narrowing". That is so of results that are themselves  *)
(* between the two (those of the machine's arithmetic are, unless it wraps *)
(* at i64): IntervalsSound says so of every operation, and GuardsUnneeded  *)
(* of the three questions that the pass asks of an interval.               *)
(* The proofs are arithmetic; only that of a product needs an argument: a  *)
(* product of two values lies between two products of bounds.              *)
(***************************************************************************)
EXTENDS Integers, TLAPS

CONSTANT Limit    \* i128::MAX

ASSUME LimitIsNat == Limit \in Nat

Lowest     == -Limit - 1
Sat(n)     == IF n > Limit THEN Limit ELSE IF n < Lowest THEN Lowest ELSE n
Iv(lo, hi) == [lo |-> lo, hi |-> hi]
Anything   == Iv(Lowest, Limit)
Exact(n)   == Iv(n, n)
Least(S)   == CHOOSE n \in S : \A m \in S : n <= m
Greatest(S) == CHOOSE n \in S : \A m \in S : m <= n

\* Of a type: the range between its bounds.
Full(range) == Iv(Least(range), Greatest(range))

Union(a, b) == Iv(Least({a.lo, b.lo}), Greatest({a.hi, b.hi}))
Negated(a)  == Iv(Sat(-a.hi), Sat(-a.lo))
Plus(a, b)  == Iv(Sat(a.lo + b.lo), Sat(a.hi + b.hi))
Minus(a, b) == Iv(Sat(a.lo - b.hi), Sat(a.hi - b.lo))
Candidates(a, b) == {Sat(x * y) : x \in {a.lo, a.hi}, y \in {b.lo, b.hi}}
Times(a, b) == Iv(Least(Candidates(a, b)), Greatest(Candidates(a, b)))

Within(a, range) == LET f == Full(range) IN a.lo >= f.lo /\ a.hi <= f.hi
ExcludesZero(a)  == a.hi < 0 \/ a.lo > 0
InBounds(a, dim) == a.lo >= 0 /\ a.hi < dim

-----------------------------------------------------------------------------
(* What an interval claims of a value.                                     *)

Numbers      == Lowest .. Limit
Interval     == [lo : Numbers, hi : Numbers]
LiesIn(n, a) == a.lo <= n /\ n <= a.hi

\* The record is its two bounds.
LEMMA IvIs == \A lo, hi : Iv(lo, hi).lo = lo /\ Iv(lo, hi).hi = hi
BY DEF Iv

\* Saturating keeps the order, and numbers within Limit.
LEMMA SatIs ==
  /\ \A n \in Int : Sat(n) \in Numbers
  /\ \A n \in Numbers : Sat(n) = n
  /\ \A m, n \in Int : m <= n => Sat(m) <= Sat(n)
BY LimitIsNat DEF Sat, Numbers, Lowest

\* The ends of a pair, of four numbers and of a range.
LEMMA EndsIs ==
  /\ \A x, y \in Int : /\ Least({x, y}) \in {x, y} /\ Least({x, y}) <= x /\ Least({x, y}) <= y
                       /\ Greatest({x, y}) \in {x, y} /\ x <= Greatest({x, y}) /\ y <= Greatest({x, y})
  /\ \A x, y \in Int : x <= y => Least(x .. y) = x /\ Greatest(x .. y) = y
<1>1. ASSUME NEW x \in Int, NEW y \in Int
      PROVE  /\ Least({x, y}) \in {x, y} /\ Least({x, y}) <= x /\ Least({x, y}) <= y
             /\ Greatest({x, y}) \in {x, y} /\ x <= Greatest({x, y}) /\ y <= Greatest({x, y})
  <2>1. \E n \in {x, y} : \A m \in {x, y} : n <= m
    OBVIOUS
  <2>2. \E n \in {x, y} : \A m \in {x, y} : m <= n
    OBVIOUS
  <2> QED BY <2>1, <2>2 DEF Least, Greatest
<1>2. ASSUME NEW x \in Int, NEW y \in Int, x <= y
      PROVE  Least(x .. y) = x /\ Greatest(x .. y) = y
  <2>1. x \in x .. y /\ \A m \in x .. y : x <= m
    BY <1>2
  <2>2. y \in x .. y /\ \A m \in x .. y : m <= y
    BY <1>2
  <2>3. \A n \in x .. y : (\A m \in x .. y : n <= m) => n = x
    BY <2>1
  <2>4. \A n \in x .. y : (\A m \in x .. y : m <= n) => n = y
    BY <2>2
  <2> QED BY <2>1, <2>2, <2>3, <2>4 DEF Least, Greatest
<1> QED BY <1>1, <1>2

LEMMA FourEnds ==
  ASSUME NEW p \in Int, NEW q \in Int, NEW r \in Int, NEW s \in Int,
         NEW E, E = {p, q, r, s}
  PROVE  /\ Least(E) \in E /\ \A m \in E : Least(E) <= m
         /\ Greatest(E) \in E /\ \A m \in E : m <= Greatest(E)
<1>1. \E n \in E : \A m \in E : n <= m
  <2>1. PICK m \in {p, q} : m <= p /\ m <= q
    OBVIOUS
  <2>2. PICK n \in {r, s} : n <= r /\ n <= s
    OBVIOUS
  <2> QED BY <2>1, <2>2
<1>2. \E n \in E : \A m \in E : m <= n
  <2>1. PICK m \in {p, q} : p <= m /\ q <= m
    OBVIOUS
  <2>2. PICK n \in {r, s} : r <= n /\ s <= n
    OBVIOUS
  <2> QED BY <2>1, <2>2
<1> QED BY <1>1, <1>2 DEF Least, Greatest

\* A factor between two bounds puts the product between two products.
LEMMA FactorBetween ==
  ASSUME NEW lo \in Int, NEW hi \in Int, NEW n \in Int, lo <= n, n <= hi, NEW k \in Int
  PROVE  \/ lo * k <= n * k /\ n * k <= hi * k
         \/ hi * k <= n * k /\ n * k <= lo * k
<1>1. ASSUME NEW d \in Int, d >= 0, NEW e \in Int, e >= 0 PROVE d * e >= 0
  BY <1>1
<1>2. CASE k >= 0
  <2>1. (n - lo) * k >= 0 /\ (hi - n) * k >= 0
    BY <1>1, <1>2
  <2> QED BY <2>1
<1>3. CASE k < 0
  <2>1. (n - lo) * (-k) >= 0 /\ (hi - n) * (-k) >= 0
    BY <1>1, <1>3
  <2> QED BY <2>1
<1> QED BY <1>2, <1>3

\* A product lies between two products of bounds.
LEMMA ProductBetween ==
  ASSUME NEW a \in Interval, NEW b \in Interval, NEW x \in Int, NEW y \in Int, LiesIn(x, a), LiesIn(y, b)
  PROVE  LET ends == {a.lo * b.lo, a.lo * b.hi, a.hi * b.lo, a.hi * b.hi}
         IN  /\ \E p \in ends : p <= x * y
             /\ \E p \in ends : x * y <= p
<1>1. PICK al \in Int, ah \in Int, bl \in Int, bh \in Int :
        /\ al = a.lo /\ ah = a.hi /\ bl = b.lo /\ bh = b.hi
        /\ al <= x /\ x <= ah /\ bl <= y /\ y <= bh
  BY LimitIsNat DEF Interval, Numbers, Lowest, LiesIn
<1>2. \/ al * y <= x * y /\ x * y <= ah * y
      \/ ah * y <= x * y /\ x * y <= al * y
  BY <1>1, FactorBetween
<1>3. \A c \in {al, ah} : \/ c * bl <= c * y /\ c * y <= c * bh
                          \/ c * bh <= c * y /\ c * y <= c * bl
  <2>1. ASSUME NEW c \in Int
        PROVE  \/ c * bl <= c * y /\ c * y <= c * bh
               \/ c * bh <= c * y /\ c * y <= c * bl
    <3>1. bl * c = c * bl /\ bh * c = c * bh /\ y * c = c * y
      OBVIOUS
    <3> QED BY <1>1, <3>1, FactorBetween
  <2> QED BY <2>1
<1>4. /\ al * y \in Int /\ ah * y \in Int /\ x * y \in Int /\ al * bl \in Int /\ al * bh \in Int
      /\ ah * bl \in Int /\ ah * bh \in Int
  OBVIOUS
<1>5. /\ al * bl <= al * y \/ al * bh <= al * y
      /\ ah * bl <= ah * y \/ ah * bh <= ah * y
      /\ al * y <= al * bl \/ al * y <= al * bh
      /\ ah * y <= ah * bl \/ ah * y <= ah * bh
  BY <1>3
<1>6. \/ al * bl <= x * y \/ al * bh <= x * y \/ ah * bl <= x * y \/ ah * bh <= x * y
  BY <1>2, <1>4, <1>5
<1>7. \/ x * y <= al * bl \/ x * y <= al * bh \/ x * y <= ah * bl \/ x * y <= ah * bh
  BY <1>2, <1>4, <1>5
<1> QED BY <1>1, <1>6, <1>7

LEMMA TimesSound ==
  ASSUME NEW a \in Interval, NEW b \in Interval, NEW x \in Int, NEW y \in Int,
         LiesIn(x, a), LiesIn(y, b)
  PROVE  Times(a, b) \in Interval /\ (x * y \in Numbers => LiesIn(x * y, Times(a, b)))
<1>1. PICK al \in Int, ah \in Int, bl \in Int, bh \in Int :
        al = a.lo /\ ah = a.hi /\ bl = b.lo /\ bh = b.hi
  BY LimitIsNat DEF Interval, Numbers, Lowest
<1>2. PICK p \in Int, q \in Int, r \in Int, s \in Int :
        p = al * bl /\ q = al * bh /\ r = ah * bl /\ s = ah * bh
  OBVIOUS
<1>3. PICK n \in Int : n = x * y
  OBVIOUS
<1>4. (\E e \in {p, q, r, s} : e <= n) /\ (\E e \in {p, q, r, s} : n <= e)
  BY <1>1, <1>2, <1>3, ProductBetween
<1>5. PICK E : E = {Sat(p), Sat(q), Sat(r), Sat(s)}
  OBVIOUS
<1>6. /\ Least(E) \in E /\ \A m \in E : Least(E) <= m
      /\ Greatest(E) \in E /\ \A m \in E : m <= Greatest(E)
  <2>1. Sat(p) \in Int /\ Sat(q) \in Int /\ Sat(r) \in Int /\ Sat(s) \in Int
    BY SatIs, LimitIsNat DEF Numbers, Lowest
  <2> QED BY <1>5, <2>1, FourEnds
<1>7. Candidates(a, b) = E
  BY <1>1, <1>2, <1>5 DEF Candidates
<1>8. Times(a, b) = Iv(Least(E), Greatest(E)) /\ Times(a, b).lo = Least(E) /\ Times(a, b).hi = Greatest(E)
  <2>1. Times(a, b) = Iv(Least(E), Greatest(E))
    BY <1>7 DEF Times
  <2> QED BY <2>1, IvIs
<1>9. E \subseteq Numbers
  BY <1>5, SatIs
<1>10. Least(E) \in Numbers /\ Greatest(E) \in Numbers
  BY <1>6, <1>9
<1>11. Times(a, b) \in Interval
  BY <1>8, <1>10 DEF Iv, Interval
<1>12. ASSUME n \in Numbers PROVE Least(E) <= n /\ n <= Greatest(E)
  <2>1. Sat(n) = n
    BY <1>12, SatIs
  <2>2. Sat(p) \in Numbers /\ Sat(q) \in Numbers /\ Sat(r) \in Numbers /\ Sat(s) \in Numbers
    BY SatIs
  <2>3. PICK d \in {p, q, r, s}, e \in {p, q, r, s} : d <= n /\ n <= e
    BY <1>4
  <2>4. Sat(d) <= Sat(n) /\ Sat(n) <= Sat(e) /\ Sat(d) \in E /\ Sat(e) \in E
    BY <1>5, <2>3, SatIs
  <2>5. Least(E) <= Sat(d) /\ Sat(e) <= Greatest(E)
    BY <1>6, <2>4
  <2>6. Numbers \subseteq Int
    BY LimitIsNat DEF Numbers, Lowest
  <2>7. /\ Sat(d) \in Int /\ Sat(e) \in Int /\ Sat(n) \in Int
        /\ Least(E) \in Int /\ Greatest(E) \in Int
    BY <1>9, <1>10, <1>12, <2>1, <2>4, <2>6
  <2> QED BY <2>1, <2>4, <2>5, <2>7
<1> QED BY <1>3, <1>8, <1>11, <1>12 DEF LiesIn

\* Whatever two values are, if an interval contains each, the interval that
\* the pass computes for an operation on them contains the result, unless the
\* result is beyond the ends of i128; and bounds never leave these.
THEOREM IntervalsSound ==
  ASSUME NEW a \in Interval, NEW b \in Interval, NEW x \in Numbers, NEW y \in Numbers,
         LiesIn(x, a), LiesIn(y, b)
  PROVE  /\ LiesIn(x, Exact(x)) /\ Exact(x) \in Interval
         /\ LiesIn(x, Anything) /\ Anything \in Interval
         /\ LiesIn(x, Union(a, b)) /\ LiesIn(y, Union(a, b)) /\ Union(a, b) \in Interval
         /\ Negated(a) \in Interval /\ (-x \in Numbers => LiesIn(-x, Negated(a)))
         /\ Plus(a, b) \in Interval /\ (x + y \in Numbers => LiesIn(x + y, Plus(a, b)))
         /\ Minus(a, b) \in Interval /\ (x - y \in Numbers => LiesIn(x - y, Minus(a, b)))
         /\ Times(a, b) \in Interval /\ (x * y \in Numbers => LiesIn(x * y, Times(a, b)))
<1> USE LimitIsNat
<1>0. PICK al \in Numbers, ah \in Numbers, bl \in Numbers, bh \in Numbers :
        /\ al = a.lo /\ ah = a.hi /\ bl = b.lo /\ bh = b.hi
        /\ al <= x /\ x <= ah /\ bl <= y /\ y <= bh
  BY DEF Interval, LiesIn
<1>1. LiesIn(x, Exact(x)) /\ Exact(x) \in Interval
  BY DEF LiesIn, Exact, Iv, Interval, Numbers, Lowest
<1>2. LiesIn(x, Anything) /\ Anything \in Interval
  BY DEF LiesIn, Anything, Iv, Interval, Numbers, Lowest
<1>3. LiesIn(x, Union(a, b)) /\ LiesIn(y, Union(a, b)) /\ Union(a, b) \in Interval
  <2>1. PICK lo, hi : lo = Least({al, bl}) /\ hi = Greatest({ah, bh})
    OBVIOUS
  <2>2. /\ lo \in {al, bl} /\ lo <= al /\ lo <= bl
        /\ hi \in {ah, bh} /\ ah <= hi /\ bh <= hi
    <3>1. al \in Int /\ ah \in Int /\ bl \in Int /\ bh \in Int
      BY DEF Numbers, Lowest
    <3> QED BY <2>1, <3>1, EndsIs
  <2>3. Union(a, b) = Iv(lo, hi)
    BY <1>0, <2>1 DEF Union
  <2> QED BY <1>0, <2>2, <2>3 DEF LiesIn, Iv, Interval, Numbers, Lowest
<1>4. Negated(a) \in Interval /\ (-x \in Numbers => LiesIn(-x, Negated(a)))
  <2>1. Negated(a) = Iv(Sat(-ah), Sat(-al))
    BY <1>0 DEF Negated
  <2> QED BY <1>0, <2>1 DEF LiesIn, Iv, Interval, Numbers, Sat, Lowest
<1>5. Plus(a, b) \in Interval /\ (x + y \in Numbers => LiesIn(x + y, Plus(a, b)))
  <2>1. Plus(a, b) = Iv(Sat(al + bl), Sat(ah + bh))
    BY <1>0 DEF Plus
  <2> QED BY <1>0, <2>1 DEF LiesIn, Iv, Interval, Numbers, Sat, Lowest
<1>6. Minus(a, b) \in Interval /\ (x - y \in Numbers => LiesIn(x - y, Minus(a, b)))
  <2>1. Minus(a, b) = Iv(Sat(al - bh), Sat(ah - bl))
    BY <1>0 DEF Minus
  <2> QED BY <1>0, <2>1 DEF LiesIn, Iv, Interval, Numbers, Sat, Lowest
<1>7. Times(a, b) \in Interval /\ (x * y \in Numbers => LiesIn(x * y, Times(a, b)))
  BY TimesSound DEF Numbers, Lowest
<1> QED BY <1>1, <1>2, <1>3, <1>4, <1>5, <1>6, <1>7

\* What the pass concludes from an interval is so of every value in it: it is
\* in the range of the type, it is no zero, it is an index of the array; and a
\* parameter, which may be any value of its type, is in the interval it starts
\* with.
THEOREM GuardsUnneeded ==
  ASSUME NEW a, NEW n \in Int, a.lo \in Int, a.hi \in Int, LiesIn(n, a)
  PROVE  /\ \A lo, hi \in Int : lo <= hi /\ Within(a, lo .. hi) => n \in lo .. hi
         /\ \A lo, hi \in Int : n \in lo .. hi => LiesIn(n, Full(lo .. hi))
         /\ ExcludesZero(a) => n # 0
         /\ \A dim \in Nat : InBounds(a, dim) => n \in 0 .. dim - 1
<1>1. ASSUME NEW lo \in Int, NEW hi \in Int, lo <= hi
      PROVE  Full(lo .. hi).lo = lo /\ Full(lo .. hi).hi = hi
  BY <1>1, EndsIs, IvIs DEF Full
<1>2. \A lo, hi \in Int : lo <= hi /\ Within(a, lo .. hi) => n \in lo .. hi
  BY <1>1 DEF Within, LiesIn
<1>3. \A lo, hi \in Int : n \in lo .. hi => LiesIn(n, Full(lo .. hi))
  BY <1>1 DEF LiesIn
<1>4. ExcludesZero(a) => n # 0
  BY DEF ExcludesZero, LiesIn
<1>5. \A dim \in Nat : InBounds(a, dim) => n \in 0 .. dim - 1
  BY DEF InBounds, LiesIn
<1> QED BY <1>2, <1>3, <1>4, <1>5
=============================================================================
