--------------------------- MODULE TimeSeriesProofs ---------------------------
(***************************************************************************)
(* Proofs about TimeSeries: for rows of any number and any times, for      *)
(* every origin and bound, and every interval and tolerance that is no     *)
(* longer than a duration.                                                 *)
(***************************************************************************)
EXTENDS TimeSeries, TLAPS, FiniteSetTheorems

-------------------------------------------------------------------------------
(***************************************************************************)
(* Integer division.                                                       *)
(***************************************************************************)
LEMMA Division ==
    ASSUME NEW a \in Nat, NEW b \in Nat \ {0}
    PROVE  /\ a \div b \in Nat
           /\ (a \div b) * b <= a
           /\ a < (a \div b) * b + b
OBVIOUS

LEMMA MultipleDivides ==
    ASSUME NEW f \in Int, NEW w \in Nat \ {0}
    PROVE  (f * w) % w = 0
OBVIOUS

LEMMA Splitting ==
    ASSUME NEW a \in Int, NEW b \in Nat \ {0}
    PROVE  /\ a \div b \in Int /\ (a \div b) * b \in Int
           /\ (a \div b) * b <= a /\ a < (a \div b) * b + b
           /\ (a \div b) * b = a - (a % b)
OBVIOUS

LEMMA Multiple ==
    ASSUME NEW t \in Int, NEW o \in Int, NEW w \in Nat \ {0}
    PROVE  \E f \in Int : /\ f * w \in Int
                          /\ t - ((t - o) % w) = o + f * w
                          /\ f * w <= t - o /\ t - o < f * w + w
<1> DEFINE a == t - o
           f == a \div w
           m == f * w
<1>1. a \in Int
  OBVIOUS
<1>2. f \in Int /\ m \in Int /\ m <= a /\ a < m + w /\ m = a - (a % w)
  BY <1>1, Splitting
<1>3. a % w \in Int
  BY <1>1
<1>4. t - (a % w) = o + m
  <2> HIDE DEF m
  <2>1. t - (a % w) = o + (a - (a % w))
    <3> DEFINE r == a % w
    <3>1. r \in Int
      BY <1>3
    <3> HIDE DEF r
    <3>2. t - r = o + (a - r)
      BY <3>1
    <3>3. QED
      BY <3>2 DEF r
  <2>2. QED
    BY <1>2, <2>1
<1>5. QED
  BY <1>2, <1>4

LEMMA MultiplesApart ==
    ASSUME NEW f \in Int, NEW g \in Int, NEW w \in Nat \ {0}, f * w < g * w
    PROVE  f * w + w <= g * w
<1>1. f < g
  <2> SUFFICES ASSUME f >= g PROVE FALSE
    OBVIOUS
  <2>1. (f - g) * w >= 0 /\ (f - g) * w = f * w - g * w
    OBVIOUS
  <2>2. QED
    BY <2>1
<1>2. (g - f - 1) * w >= 0
  BY <1>1
<1>3. (g - f - 1) * w = g * w - f * w - w
  OBVIOUS
<1>4. QED
  BY <1>2, <1>3

LEMMA Remainder ==
    ASSUME NEW a \in Int, NEW f \in Int, NEW w \in Nat \ {0},
           f * w <= a, a < f * w + w
    PROVE  f * w = a - (a % w)
<1> DEFINE q == a \div w
<1>1. /\ q \in Int /\ q * w \in Int /\ q * w <= a /\ a < q * w + w
      /\ q * w = a - (a % w)
  BY Splitting
<1> HIDE DEF q
<1>2. f * w \in Int
  OBVIOUS
<1>3. ~(f * w < q * w) /\ ~(q * w < f * w)
  BY <1>1, <1>2, MultiplesApart
<1>4. QED
  BY <1>1, <1>2, <1>3

LEMMA MultiplesAdd ==
    ASSUME NEW o \in Int, NEW f \in Int, NEW w \in Int, NEW b \in Nat \ {0},
           o % b = 0, w % b = 0
    PROVE  (o + f * w) % b = 0
<1> DEFINE m == o \div b
           n == w \div b
<1>1. m \in Int /\ n \in Int /\ o = m * b /\ w = n * b
  BY Splitting
<1> HIDE DEF m, n
<1>2. o + f * w = (m + f * n) * b
  BY <1>1
<1>3. m + f * n \in Int
  BY <1>1
<1>4. QED
  BY <1>2, <1>3, MultipleDivides

LEMMA QuotientBounds ==
    ASSUME NEW a \in Int, NEW b \in Nat \ {0}
    PROVE  /\ Quotient(a, b) \in Int
           /\ a >= 0 => Quotient(a, b) * b <= a /\ a < Quotient(a, b) * b + b
           /\ a < 0  => a <= Quotient(a, b) * b /\ Quotient(a, b) * b - b < a
<1>1. CASE a >= 0
  BY <1>1, Division DEF Quotient
<1>2. CASE a < 0
  <2> DEFINE q == (-a) \div b
  <2>1. -a \in Nat /\ Quotient(a, b) = -q
    BY <1>2 DEF Quotient
  <2>2. q \in Nat /\ q * b <= -a /\ -a < q * b + b
    BY <2>1, Division
  <2> HIDE DEF q
  <2>3. (-q) * b = -(q * b) /\ q * b \in Int
    BY <2>2
  <2>4. QED
    BY <1>2, <2>1, <2>2, <2>3
<1>3. QED
  BY <1>1, <1>2

LEMMA HalfBounds ==
    ASSUME NEW d \in Nat \ {0}
    PROVE  Half(d) \in Nat /\ Half(d) < d
BY DEF Half, Quotient

(***************************************************************************)
(* The start of a bucket, for a time on either side of the origin.         *)
(***************************************************************************)
LEMMA CallFacts ==
    ASSUME [call |-> call, rows |-> in] \in Requests
    PROVE  /\ call \in Call /\ in \in Seq(Row) /\ width \in Int /\ width < Longest
           /\ call.op # "asofJoin" => call.interval # Unset
<1>1. /\ call \in Call /\ in \in Seq(Row)
      /\ IF call.interval = Unset THEN call.op = "asofJoin"
         ELSE Duration(call.interval) < Longest
  BY TimesAssumption
<1>2. width \in Int /\ width < Longest
  <2>1. CASE call.interval = Unset
    BY <2>1, TimesAssumption DEF width
  <2>2. CASE call.interval # Unset
    <3>1. call.interval \in Interval
      BY <1>1, <2>2 DEF Call
    <3>2. Duration(call.interval) \in Int
      BY <3>1, TimesAssumption DEF Duration, Interval
    <3>3. QED
      BY <1>1, <2>2, <3>2 DEF width
  <2>3. QED
    BY <2>1, <2>2
<1>3. QED
  BY <1>1, <1>2

LEMMA BucketStartRight ==
    ASSUME call \in Call, width \in Int, NEW t \in Int
    PROVE  /\ BucketStart(t) \in Int
           /\ width > 0 /\ Reached(t) => BucketStart(t) = Start(t)
<1>1. CASE width <= 0
  BY <1>1 DEF BucketStart
<1>2. CASE width > 0
  <2> DEFINE o == call.origin
             delta == Sub(t, o)
             q == Quotient(delta, width)
             f == IF delta < 0 /\ delta # q * width THEN q - 1 ELSE q
  <2>1. o \in Int /\ width \in Nat \ {0} /\ Longest \in Nat
    BY <1>2, TimesAssumption DEF Call
  <2>2. delta \in Int
    BY <2>1 DEF Sub
  <2>3. Reached(t) => delta = t - o /\ delta >= width - Longest
    BY <2>1 DEF Sub, Reached
  <2>4. BucketStart(t) = o + Wrap(f * width)
    BY <1>2 DEF BucketStart
  <2> HIDE DEF delta
  <2>5. /\ q \in Int
        /\ delta >= 0 => q * width <= delta /\ delta < q * width + width
        /\ delta < 0  => delta <= q * width /\ q * width - width < delta
    BY <2>1, <2>2, QuotientBounds
  <2> HIDE DEF q
  <2>6. q * width \in Int /\ (q - 1) * width = q * width - width
    BY <2>1, <2>5
  <2>7. f \in Int /\ f * width \in Int /\ f * width <= delta /\ delta < f * width + width
    BY <2>1, <2>2, <2>5, <2>6
  <2> HIDE DEF f
  <2>8. BucketStart(t) \in Int
    BY <2>1, <2>4, <2>7 DEF Wrap
  <2>9. ASSUME Reached(t) PROVE BucketStart(t) = Start(t)
    <3>1. Wrap(f * width) = f * width
      BY <2>1, <2>2, <2>3, <2>7, <2>9 DEF Wrap
    <3>2. f * width = (t - o) - ((t - o) % width)
      BY <2>1, <2>3, <2>7, <2>9, Remainder
    <3>3. QED
      BY <2>1, <2>4, <2>7, <3>1, <3>2 DEF Start
  <2>10. QED
    BY <2>8, <2>9
<1>3. QED
  BY <1>1, <1>2

(***************************************************************************)
(* The starts of buckets are on the grid, and different ones are an        *)
(* interval apart.                                                         *)
(***************************************************************************)
LEMMA StartFacts ==
    ASSUME call \in Call, width \in Int, width > 0, NEW t \in Int, NEW u \in Int
    PROVE  /\ Start(t) \in Int /\ Start(t) <= t /\ t < Start(t) + width
           /\ (Start(t) - call.origin) % width = 0
           /\ Start(t) < Start(u) => Start(t) + width <= Start(u)
           /\ WholeSeconds => Start(t) % Second = 0
<1> DEFINE o == call.origin
<1>1. o \in Int /\ width \in Nat \ {0} /\ Second \in Nat \ {0}
  BY TimesAssumption DEF Call
<1>2. PICK f \in Int : /\ f * width \in Int
                       /\ Start(t) = o + f * width
                       /\ f * width <= t - o /\ t - o < f * width + width
  BY <1>1, Multiple DEF Start
<1>3. PICK g \in Int : /\ g * width \in Int
                       /\ Start(u) = o + g * width
                       /\ g * width <= u - o /\ u - o < g * width + width
  BY <1>1, Multiple DEF Start
<1>4. (f * width) % width = 0 /\ (o + f * width) - o = f * width
  BY <1>1, <1>2, MultipleDivides
<1>5. ASSUME Start(t) < Start(u) PROVE Start(t) + width <= Start(u)
  <2>1. f * width < g * width
    BY <1>1, <1>2, <1>5, <1>3
  <2>2. f * width + width <= g * width
    BY <1>1, <2>1, MultiplesApart
  <2>3. QED
    BY <1>1, <1>2, <1>3, <2>2
<1>6. ASSUME WholeSeconds PROVE Start(t) % Second = 0
  <2>1. o % Second = 0 /\ width % Second = 0
    BY <1>6 DEF WholeSeconds
  <2>2. (o + f * width) % Second = 0
    BY <1>1, <2>1, MultiplesAdd
  <2>3. QED
    BY <1>2, <2>2
<1>7. Start(t) \in Int /\ Start(t) <= t /\ t < Start(t) + width
  BY <1>1, <1>2
<1>8. (Start(t) - o) % width = 0
  BY <1>2, <1>4
<1>9. QED
  BY <1>5, <1>6, <1>7, <1>8

(***************************************************************************)
(* A time as it is written: whole seconds, and less than one too small.    *)
(***************************************************************************)
LEMMA WrittenFacts ==
    ASSUME NEW t \in Int
    PROVE  /\ Written(t) \in Int /\ Written(t) <= t /\ t < Written(t) + Second
           /\ Written(t) % Second = 0
           /\ t % Second = 0 => Written(t) = t
<1>1. Second \in Nat \ {0}
  BY TimesAssumption
<1>2. /\ t \div Second \in Int /\ Written(t) \in Int
      /\ Written(t) <= t /\ t < Written(t) + Second
      /\ Written(t) = t - (t % Second)
  BY <1>1, Splitting DEF Written
<1>3. Written(t) % Second = 0
  BY <1>1, <1>2, MultipleDivides DEF Written
<1>4. QED
  BY <1>1, <1>2, <1>3

(***************************************************************************)
(* Durations that stop at the longest one.                                 *)
(***************************************************************************)
LEMMA ApartFacts ==
    ASSUME NEW s \in Int, NEW t \in Int
    PROVE  /\ Distance(s, t) \in Nat /\ Apart(s, t) \in Nat /\ Apart(s, t) <= Distance(s, t)
           /\ Apart(s, t) = Distance(s, t) \/ (Apart(s, t) = Longest /\ Distance(s, t) > Longest)
BY TimesAssumption DEF Distance, Apart

-------------------------------------------------------------------------------
(***************************************************************************)
(* The rows of one key, in the order of the sort.                          *)
(***************************************************************************)
LEMMA TimesTyped ==
    ASSUME NEW rows \in Seq(Row)
    PROVE  /\ Times(rows) \in [DOMAIN rows -> Int]
           /\ \A i \in DOMAIN rows : rows[i].key \in Keys
                                     /\ (rows[i].time # Unparsed => rows[i].time = Times(rows)[i])
<1>1. \A i \in DOMAIN rows : rows[i] \in Row
  OBVIOUS
<1>2. \A i \in DOMAIN rows : Moment(rows[i]) \in Int
  BY <1>1, TimesAssumption DEF Moment, Row
<1>3. QED
  BY <1>1, <1>2 DEF Times, Moment, Row

LEMMA RowsOfKeyFinite ==
    ASSUME NEW rows \in Seq(Row), NEW k
    PROVE  IsFiniteSet(Of(rows, k)) /\ Cardinality(Of(rows, k)) \in Nat
<1>1. IsFiniteSet(1..Len(rows))
  <2>1. 1 \in Int /\ Len(rows) \in Int
    OBVIOUS
  <2>2. QED
    BY <2>1, FS_Interval
<1>2. Of(rows, k) \in SUBSET (1..Len(rows))
  BY DEF Of
<1>3. QED
  BY <1>1, <1>2, FS_Subset, FS_CardinalityType

LEMMA OrderFacts ==
    ASSUME NEW rows \in Seq(Row), NEW k, NEW s \in Orders(Of(rows, k), Times(rows))
    PROVE  /\ s \in Seq(DOMAIN rows) /\ Len(s) \in Nat /\ DOMAIN s = 1..Len(s)
           /\ Of(rows, k) # {} => Len(s) >= 1
           /\ \A m \in 1..Len(s) : s[m] \in DOMAIN rows /\ rows[s[m]].key = k
           /\ \A i \in DOMAIN rows : rows[i].key = k => \E m \in 1..Len(s) : s[m] = i
           /\ \A m, n \in 1..Len(s) : m < n => Precedes(Times(rows), s[m], s[n])
<1>1. Cardinality(Of(rows, k)) \in Nat
  BY RowsOfKeyFinite
<1>2. /\ s \in [1..Cardinality(Of(rows, k)) -> Of(rows, k)]
      /\ \A i \in Of(rows, k) : \E m \in DOMAIN s : s[m] = i
      /\ \A m, n \in DOMAIN s : m < n => Precedes(Times(rows), s[m], s[n])
  BY DEF Orders
<1>3. Len(s) = Cardinality(Of(rows, k)) /\ DOMAIN s = 1..Len(s) /\ s \in Seq(Of(rows, k))
  BY <1>1, <1>2
<1>4. \A m \in 1..Len(s) : s[m] \in DOMAIN rows /\ rows[s[m]].key = k
  BY <1>2, <1>3 DEF Of
<1>5. s \in Seq(DOMAIN rows)
  BY <1>3 DEF Of
<1>6. \A i \in DOMAIN rows : rows[i].key = k => \E m \in 1..Len(s) : s[m] = i
  BY <1>2, <1>3 DEF Of
<1>7. Of(rows, k) # {} => Len(s) >= 1
  BY <1>1, <1>2, <1>3
<1>8. QED
  BY <1>1, <1>2, <1>3, <1>4, <1>5, <1>6, <1>7

(***************************************************************************)
(* findAsofMatch before the tolerance: the nearest row on its side, and    *)
(* none only if there is none there.  Its side forward is strictly later.  *)
(***************************************************************************)
Beyond(j, t) ==
    CASE call.direction = "backward" -> rightTimes[j] <= t
      [] call.direction = "forward"  -> rightTimes[j] > t
      [] call.direction = "nearest"  -> TRUE

LEMMA CandidateNearest ==
    ASSUME call \in Call, right \in Seq(Row), NEW k, NEW t \in Int,
           NEW b \in Orders(Of(right, k), Times(right)),
           NEW n \in 0..Len(b), Splits(n, b, t), NEW c, c = Candidate(n, b, t)
    PROVE  /\ c = 0 => \A i \in Of(right, k) : ~Beyond(i, t)
           /\ c # 0 => /\ c \in Of(right, k) /\ Beyond(c, t)
                       /\ \A i \in Of(right, k) :
                             Beyond(i, t) => Apart(t, rightTimes[c]) <= Apart(t, rightTimes[i])
<1> DEFINE T(m) == rightTimes[b[m]]
<1>1. /\ b \in Seq(DOMAIN right) /\ Len(b) \in Nat
      /\ \A m \in 1..Len(b) : b[m] \in DOMAIN right /\ right[b[m]].key = k
      /\ \A i \in DOMAIN right : right[i].key = k => \E m \in 1..Len(b) : b[m] = i
      /\ \A l, m \in 1..Len(b) : l < m => Precedes(Times(right), b[l], b[m])
  BY OrderFacts
<1>2. /\ rightTimes \in [DOMAIN right -> Int] /\ rightTimes = Times(right)
      /\ Longest \in Nat
  BY TimesTyped, TimesAssumption DEF rightTimes
<1>3. /\ \A m \in 1..Len(b) : T(m) \in Int /\ b[m] # 0 /\ b[m] \in Of(right, k)
      /\ \A i \in Of(right, k) : \E m \in 1..Len(b) : b[m] = i
  BY <1>1, <1>2 DEF Of
<1>4. \A l, m \in 1..Len(b) : l < m => T(l) <= T(m)
  <2> SUFFICES ASSUME NEW l \in 1..Len(b), NEW m \in 1..Len(b), l < m PROVE T(l) <= T(m)
    OBVIOUS
  <2>1. Precedes(Times(right), b[l], b[m])
    BY <1>1
  <2>2. T(l) = Times(right)[b[l]] /\ T(m) = Times(right)[b[m]] /\ T(l) \in Int /\ T(m) \in Int
    BY <1>2, <1>3
  <2>3. QED
    BY <2>1, <2>2 DEF Precedes
<1>5. /\ \A m \in 1..Len(b) : m <= n => T(m) <= t
      /\ \A m \in 1..Len(b) : m > n => T(m) > t
  BY <1>1 DEF Splits
<1> HIDE DEF T
<1>6. /\ n > 0 => n \in 1..Len(b) /\ \A m \in 1..Len(b) : m <= n => T(m) <= T(n)
      /\ n < Len(b) => /\ n + 1 \in 1..Len(b)
                       /\ \A m \in 1..Len(b) : m > n => T(n + 1) <= T(m)
  <2>1. \A m \in 1..Len(b) : T(m) <= T(m)
    BY <1>3 DEF T
  <2>2. n > 0 => n \in 1..Len(b) /\ \A m \in 1..Len(b) : m <= n => T(m) <= T(n)
    <3>1. \A m \in 1..Len(b) : m <= n => m < n \/ m = n
      BY <1>1
    <3>2. QED
      BY <1>1, <1>4, <2>1, <3>1
  <2>3. n < Len(b) => /\ n + 1 \in 1..Len(b)
                      /\ \A m \in 1..Len(b) : m > n => T(n + 1) <= T(m)
    <3>1. \A m \in 1..Len(b) : m > n => n + 1 < m \/ m = n + 1
      BY <1>1
    <3>2. QED
      BY <1>1, <1>4, <2>1, <3>1
  <2>4. QED
    BY <2>2, <2>3
<1>7. CASE call.direction = "backward"
  <2>1. c = IF n > 0 THEN b[n] ELSE 0
    BY <1>7 DEF Candidate
  <2>2. \A m \in 1..Len(b) : Beyond(b[m], t) <=> m <= n
    BY <1>1, <1>3, <1>5, <1>7 DEF Beyond, T
  <2>3. CASE n > 0
    <3>1. c = b[n] /\ c # 0 /\ c \in Of(right, k) /\ Beyond(c, t)
      BY <1>3, <1>6, <2>1, <2>2, <2>3
    <3>2. \A m \in 1..Len(b) : m <= n => Apart(t, T(n)) <= Apart(t, T(m))
      BY <1>2, <1>3, <1>5, <1>6, <2>3 DEF Apart, Distance
    <3>3. QED
      BY <1>3, <2>2, <3>1, <3>2 DEF T
  <2>4. CASE n = 0
    BY <1>1, <1>3, <2>1, <2>2, <2>4
  <2>5. QED
    BY <2>3, <2>4
<1>8. CASE call.direction = "forward"
  <2>1. c = IF n < Len(b) THEN b[n + 1] ELSE 0
    BY <1>8 DEF Candidate
  <2>2. \A m \in 1..Len(b) : Beyond(b[m], t) <=> m > n
    <3>1. \A i : Beyond(i, t) <=> rightTimes[i] > t
      BY <1>8 DEF Beyond
    <3>2. \A m \in 1..Len(b) : T(m) \in Int /\ (m <= n => T(m) <= t) /\ (m > n => T(m) > t)
      BY <1>3, <1>5 DEF T
    <3>3. QED
      BY <1>1, <3>1, <3>2 DEF T
  <2>3. CASE n < Len(b)
    <3>1. c = b[n + 1] /\ c # 0 /\ c \in Of(right, k) /\ Beyond(c, t)
      BY <1>3, <1>6, <2>1, <2>2, <2>3
    <3>2. \A m \in 1..Len(b) : m > n => Apart(t, T(n + 1)) <= Apart(t, T(m))
      BY <1>2, <1>3, <1>5, <1>6, <2>3 DEF Apart, Distance
    <3>3. QED
      BY <1>3, <2>2, <3>1, <3>2 DEF T
  <2>4. CASE n = Len(b)
    BY <1>1, <1>3, <2>1, <2>2, <2>4
  <2>5. QED
    BY <1>1, <2>3, <2>4
<1>9. CASE call.direction = "nearest"
  <2>1. c = LET before == IF n > 0 THEN b[n] ELSE 0
                after == IF n < Len(b) THEN b[n + 1] ELSE 0
            IN  IF before = 0 \/ (after # 0 /\
                      Apart(t, rightTimes[before]) > Apart(t, rightTimes[after]))
                THEN after ELSE before
    BY <1>9 DEF Candidate
  <2>2. \A i : Beyond(i, t)
    BY <1>9 DEF Beyond
  <2>3. /\ n > 0 => \A m \in 1..Len(b) : m <= n => Apart(t, T(n)) <= Apart(t, T(m))
        /\ n < Len(b) => \A m \in 1..Len(b) :
                            m > n => Apart(t, T(n + 1)) <= Apart(t, T(m))
    BY <1>2, <1>3, <1>5, <1>6 DEF Apart, Distance
  <2>4. \A m \in 1..Len(b) : Apart(t, T(m)) \in Int
    BY <1>2, <1>3 DEF Apart, Distance
  <2>5. CASE n = 0 /\ n = Len(b)
    BY <1>1, <1>3, <2>1, <2>5
  <2>6. CASE n > 0 /\ (n = Len(b) \/ Apart(t, T(n)) <= Apart(t, T(n + 1)))
    <3>1. c = b[n] /\ n \in 1..Len(b) /\ c # 0
      BY <1>3, <1>6, <2>1, <2>4, <2>6 DEF T
    <3>2. \A m \in 1..Len(b) : Apart(t, T(n)) <= Apart(t, T(m))
      BY <1>1, <1>6, <2>3, <2>4, <2>6, <3>1
    <3>3. QED
      BY <1>3, <2>2, <3>1, <3>2 DEF T
  <2>7. CASE n < Len(b) /\ (n = 0 \/ Apart(t, T(n)) > Apart(t, T(n + 1)))
    <3>1. c = b[n + 1] /\ n + 1 \in 1..Len(b) /\ c # 0
      BY <1>3, <1>6, <2>1, <2>4, <2>7 DEF T
    <3>2. \A m \in 1..Len(b) : Apart(t, T(n + 1)) <= Apart(t, T(m))
      BY <1>1, <1>6, <2>3, <2>4, <2>7, <3>1
    <3>3. QED
      BY <1>3, <2>2, <3>1, <3>2 DEF T
  <2>8. QED
    BY <1>1, <1>6, <2>4, <2>5, <2>6, <2>7
<1>10. QED
  BY <1>7, <1>8, <1>9 DEF Call

(***************************************************************************)
(* findAsofMatch with the tolerance.                                       *)
(***************************************************************************)
LEMMA MatchNearest ==
    ASSUME call \in Call, width \in Int, right \in Seq(Row), NEW k, NEW t \in Int,
           NEW b \in Orders(Of(right, k), Times(right)),
           NEW n \in 0..Len(b), Splits(n, b, t), NEW j,
           j = (IF Candidate(n, b, t) # 0 /\ Tolerated(Candidate(n, b, t), t)
                THEN Candidate(n, b, t) ELSE 0)
    PROVE  /\ j \in {0} \cup DOMAIN right
           /\ j = 0 => \A i \in Of(right, k) : ~(Beyond(i, t) /\ Tolerated(i, t))
           /\ j # 0 => /\ j \in Of(right, k) /\ Beyond(j, t) /\ Tolerated(j, t)
                       /\ \A i \in Of(right, k) :
                             Beyond(i, t) => Apart(t, rightTimes[j]) <= Apart(t, rightTimes[i])
<1> DEFINE c == Candidate(n, b, t)
<1>1. /\ c = 0 => \A i \in Of(right, k) : ~Beyond(i, t)
      /\ c # 0 => /\ c \in Of(right, k) /\ Beyond(c, t)
                  /\ \A i \in Of(right, k) :
                        Beyond(i, t) => Apart(t, rightTimes[c]) <= Apart(t, rightTimes[i])
  BY CandidateNearest
<1>2. \A i \in Of(right, k) : i \in DOMAIN right /\ Apart(t, rightTimes[i]) \in Int
  BY TimesTyped, ApartFacts DEF Of, rightTimes
<1> HIDE DEF c
<1>3. j = IF c # 0 /\ Tolerated(c, t) THEN c ELSE 0
  BY DEF c
<1>4. CASE c # 0 /\ ~Tolerated(c, t)
  <2>1. width > 0 /\ Apart(t, rightTimes[c]) > width /\ j = 0
    BY <1>1, <1>2, <1>3, <1>4 DEF Tolerated
  <2>2. \A i \in Of(right, k) : Beyond(i, t) => ~Tolerated(i, t)
    BY <1>1, <1>2, <1>4, <2>1 DEF Tolerated
  <2>3. QED
    BY <2>1, <2>2
<1>5. CASE ~(c # 0 /\ ~Tolerated(c, t))
  BY <1>1, <1>2, <1>3, <1>5
<1>6. QED
  BY <1>4, <1>5
-------------------------------------------------------------------------------
(***************************************************************************)
(* The inductive invariant.  The properties speak of what was answered     *)
(* and are inductive only together with how far the loop has come: which   *)
(* rows are behind cur, and that what was emitted last is one interval     *)
(* before it.                                                              *)
(***************************************************************************)
PlaceInv ==
    /\ pc = "bucket" => call.op = "timeBucket"
    /\ pc \in {"group", "fill"} => call.op = "gapfill"
    /\ pc \in {"fetch", "join"} => call.op = "asofJoin"

StartsInv ==
    /\ Len(starts) <= Len(in)
    /\ \A i \in DOMAIN starts :
          in[i].time \in Int /\ starts[i] = Written(BucketStart(in[i].time))

JoinInv ==
    /\ Len(pairs) <= Len(in)
    /\ pc \in {"built", "fetch"} => pairs = <<>>
    /\ pc = "join" => \A k \in Keys : buckets[k] \in Orders(Of(right, k), Times(right))
    /\ Nearest

Sorted ==
    /\ Len(idxs) >= 1
    /\ idxs \in Orders(Of(in, key), times)
    /\ key \in filled

(***************************************************************************)
(* What is taken: the first row of the partition less than half an         *)
(* interval behind.                                                        *)
(***************************************************************************)
FitsWindow(e) ==
    IF e.row = 0 THEN Window(e) = {}
    ELSE e.row \in Window(e) /\ \A i \in Window(e) : i # e.row => Precedes(times, e.row, i)

Behind ==
    /\ \A m \in 1..(idx - 1) : times[idxs[m]] < cur
    /\ \A n \in DOMAIN emitted :
          emitted[n].key = key /\ emitted[n].row # 0 => times[emitted[n].row] < cur

Begun == Len(emitted) > 0 /\ emitted[Len(emitted)].key = key

InStep ==
    IF Begun
    THEN LET e == emitted[Len(emitted)]
         IN  cur = e.at + width /\ last = (IF e.row # 0 THEN e.row ELSE e.like)
    ELSE /\ cur = From(key) /\ last = 0
         /\ \A n \in DOMAIN emitted : emitted[n].key # key
         /\ Len(emitted) > 0 =>
               emitted[Len(emitted)].at + width > To(emitted[Len(emitted)].key)

Given ==
    /\ \A n \in DOMAIN emitted :
          FitsWindow(emitted[n]) /\ Dated(emitted[n]) /\ OnGrid(n) /\ FilledFrom(n)
    /\ \A m, n \in DOMAIN emitted :
          m < n /\ emitted[m].row # 0 => emitted[m].row # emitted[n].row
    /\ \A k \in filled : Answered(k) \/ (pc = "fill" /\ k = key)

FillInv ==
    /\ \A n \in DOMAIN emitted : emitted[n].key \in filled
    /\ pc = "fill" => Sorted
    /\ width > 0 => Given /\ (pc = "fill" => Behind /\ InStep)
    /\ pc = "done" /\ call.op = "gapfill" => \A i \in DOMAIN in : in[i].key \in filled

IInv == TypeOK /\ PlaceInv /\ StartsInv /\ JoinInv /\ FillInv

-------------------------------------------------------------------------------
(***************************************************************************)
(* What the types give, and what depends on the stage and its input only.  *)
(***************************************************************************)
LEMMA TypeFacts ==
    ASSUME TypeOK
    PROVE  /\ call \in Call /\ in \in Seq(Row) /\ width \in Int /\ width < Longest
           /\ times \in [DOMAIN in -> Int] /\ DOMAIN in = 1..Len(in) /\ Len(in) \in Nat
           /\ \A i \in DOMAIN in : in[i].key \in Keys
           /\ call.from \in Int \cup {Unset} /\ call.to \in Int \cup {Unset}
           /\ call.op # "asofJoin" => call.interval # Unset
<1>1. call \in Call /\ in \in Seq(Row) /\ width \in Int /\ width < Longest
      /\ (call.op # "asofJoin" => call.interval # Unset)
  BY CallFacts DEF TypeOK
<1>2. times \in [DOMAIN in -> Int] /\ \A i \in DOMAIN in : in[i].key \in Keys
  BY <1>1, TimesTyped DEF times
<1>3. QED
  BY <1>1, <1>2 DEF Call

LEMMA InputStays ==
    ASSUME call' = call, in' = in
    PROVE  /\ width' = width /\ times' = times
           /\ \A k : From(k)' = From(k) /\ To(k)' = To(k)
           /\ \A e : FitsWindow(e)' = FitsWindow(e) /\ Dated(e)' = Dated(e)
           /\ \A t : BucketStart(t)' = BucketStart(t)
<1>1. width' = width /\ times' = times
  BY DEF width, times
<1>2. \A k : From(k)' = From(k) /\ To(k)' = To(k)
  BY <1>1 DEF From, To
<1>3. \A e : Window(e)' = Window(e)
  BY <1>1 DEF Window, Within
<1>4. \A e : FitsWindow(e)' = FitsWindow(e)
  BY <1>1, <1>3 DEF FitsWindow
<1>5. \A e : Dated(e)' = Dated(e)
  BY DEF Dated
<1>6. \A t : BucketStart(t)' = BucketStart(t)
  BY <1>1 DEF BucketStart
<1>7. QED
  BY <1>1, <1>2, <1>4, <1>5, <1>6

(***************************************************************************)
(* The grid of a partition: from its first row, or `from`, to its last     *)
(* row, or `to`.                                                           *)
(***************************************************************************)
LEMMA Limits ==
    ASSUME TypeOK, NEW k, NEW s \in Orders(Of(in, k), times), Len(s) >= 1
    PROVE  /\ From(k) = (IF call.from # Unset THEN call.from ELSE times[s[1]])
           /\ To(k) = (IF call.to # Unset THEN call.to ELSE times[s[Len(s)]])
           /\ From(k) \in Int /\ To(k) \in Int
<1>1. /\ in \in Seq(Row) /\ times \in [DOMAIN in -> Int] /\ times = Times(in)
      /\ call.from \in Int \cup {Unset} /\ call.to \in Int \cup {Unset}
  BY TypeFacts DEF times
<1>2. /\ Len(s) \in Nat
      /\ \A m \in 1..Len(s) : s[m] \in DOMAIN in /\ in[s[m]].key = k
      /\ \A i \in DOMAIN in : in[i].key = k => \E m \in 1..Len(s) : s[m] = i
      /\ \A m, n \in 1..Len(s) : m < n => Precedes(times, s[m], s[n])
  BY <1>1, OrderFacts
<1>3. /\ 1 \in 1..Len(s) /\ Len(s) \in 1..Len(s)
      /\ \A m \in 1..Len(s) : s[m] \in Of(in, k) /\ times[s[m]] \in Int
      /\ \A i \in Of(in, k) : \E m \in 1..Len(s) : s[m] = i
  BY <1>1, <1>2 DEF Of
<1>4. ASSUME NEW m \in 1..Len(s)
      PROVE  times[s[1]] <= times[s[m]] /\ times[s[m]] <= times[s[Len(s)]]
  <2>1. m = 1 \/ 1 < m
    OBVIOUS
  <2>2. m = Len(s) \/ m < Len(s)
    BY <1>2
  <2>3. times[s[1]] <= times[s[m]]
    BY <1>2, <1>3, <2>1 DEF Precedes
  <2>4. times[s[m]] <= times[s[Len(s)]]
    BY <1>2, <1>3, <2>2 DEF Precedes
  <2>5. QED
    BY <2>3, <2>4
<1> DEFINE least == CHOOSE i \in Of(in, k) : \A j \in Of(in, k) : times[i] <= times[j]
           greatest == CHOOSE i \in Of(in, k) : \A j \in Of(in, k) : times[j] <= times[i]
<1>5. least \in Of(in, k) /\ \A j \in Of(in, k) : times[least] <= times[j]
  BY <1>3, <1>4
<1>6. greatest \in Of(in, k) /\ \A j \in Of(in, k) : times[j] <= times[greatest]
  BY <1>3, <1>4
<1>7. From(k) = IF call.from # Unset THEN call.from ELSE times[least]
  BY DEF From
<1>8. To(k) = IF call.to # Unset THEN call.to ELSE times[greatest]
  BY DEF To
<1> HIDE DEF least, greatest
<1>9. times[least] = times[s[1]] /\ times[greatest] = times[s[Len(s)]]
  BY <1>3, <1>4, <1>5, <1>6
<1>10. QED
  BY <1>1, <1>3, <1>7, <1>8, <1>9

(***************************************************************************)
(* Where the loop of gapfill stands.                                       *)
(***************************************************************************)
LEMMA FillFacts ==
    ASSUME IInv, pc = "fill"
    PROVE  /\ idxs \in Seq(DOMAIN in) /\ Len(idxs) \in Nat /\ Len(idxs) >= 1
           /\ \A m \in 1..Len(idxs) : idxs[m] \in DOMAIN in /\ in[idxs[m]].key = key
           /\ \A i \in DOMAIN in : in[i].key = key => \E m \in 1..Len(idxs) : idxs[m] = i
           /\ \A m, n \in 1..Len(idxs) : m < n => Precedes(times, idxs[m], idxs[n])
           /\ \A m \in 1..Len(idxs) : times[idxs[m]] \in Int
           /\ key \in Keys /\ key \in filled /\ until = To(key) /\ until \in Int
           /\ idx \in 1..(Len(idxs) + 1) /\ cur \in Int
           /\ From(key) = (IF call.from # Unset THEN call.from ELSE times[idxs[1]])
<1>1. TypeOK /\ Sorted
  BY DEF IInv, FillInv
<1>2. in \in Seq(Row) /\ times \in [DOMAIN in -> Int] /\ times = Times(in)
      /\ \A i \in DOMAIN in : in[i].key \in Keys
  BY <1>1, TypeFacts DEF times
<1>3. Len(idxs) >= 1 /\ idxs \in Orders(Of(in, key), times) /\ key \in filled
  BY <1>1 DEF Sorted
<1>4. /\ idxs \in Seq(DOMAIN in) /\ Len(idxs) \in Nat
      /\ \A m \in 1..Len(idxs) : idxs[m] \in DOMAIN in /\ in[idxs[m]].key = key
      /\ \A i \in DOMAIN in : in[i].key = key => \E m \in 1..Len(idxs) : idxs[m] = i
      /\ \A m, n \in 1..Len(idxs) : m < n => Precedes(times, idxs[m], idxs[n])
  BY <1>2, <1>3, OrderFacts
<1>5. /\ From(key) = (IF call.from # Unset THEN call.from ELSE times[idxs[1]])
      /\ To(key) = (IF call.to # Unset THEN call.to ELSE times[idxs[Len(idxs)]])
      /\ To(key) \in Int
  BY <1>1, <1>3, Limits
<1>6. until = To(key)
  BY <1>5 DEF until
<1>7. QED
  BY <1>1, <1>2, <1>3, <1>4, <1>5, <1>6 DEF TypeOK, key

(***************************************************************************)
(* A step that leaves gapfill's own state alone.                           *)
(***************************************************************************)
LEMMA FillStays ==
    ASSUME FillInv, call' = call, in' = in, UNCHANGED fillVars,
           pc # "fill", pc' # "fill",
           pc' = "done" /\ call.op = "gapfill" => \A i \in DOMAIN in : in[i].key \in filled
    PROVE  FillInv'
<1>1. /\ filled' = filled /\ idxs' = idxs /\ idx' = idx /\ cur' = cur /\ last' = last
      /\ emitted' = emitted
  BY DEF fillVars
<1>2. /\ width' = width /\ \A k : From(k)' = From(k) /\ To(k)' = To(k)
      /\ \A e : FitsWindow(e)' = FitsWindow(e) /\ Dated(e)' = Dated(e)
  BY InputStays
<1>3. width > 0 => Given'
  <2> SUFFICES ASSUME width > 0 PROVE Given'
    OBVIOUS
  <2>1. Given
    BY DEF FillInv
  <2>2. \A n \in DOMAIN emitted : OnGrid(n)'
    <3>1. \A n : Begins(n)' = Begins(n) /\ Ends(n)' = Ends(n)
      BY <1>1 DEF Begins, Ends
    <3>2. QED
      BY <1>1, <1>2, <2>1, <3>1 DEF Given, OnGrid
  <2>3. \A n \in DOMAIN emitted : FilledFrom(n)'
    BY <1>1, <2>1 DEF Given, FilledFrom, Begins
  <2>4. \A k \in filled : Answered(k)'
    BY <1>1, <1>2, <2>1 DEF Given, Answered
  <2>5. QED
    BY <1>1, <1>2, <2>1, <2>2, <2>3, <2>4 DEF Given
<1>4. QED
  BY <1>1, <1>2, <1>3 DEF FillInv

(***************************************************************************)
(* What the property asks of one pair depends on the stage and the rows.   *)
(***************************************************************************)
Matched(l, j) ==
    IF l.time = Unparsed THEN j = 0
    ELSE IF j = 0 THEN LeftOpen(l) \/ Eligible(l) = {}
    ELSE /\ j \in Eligible(l)
         /\ \A m \in Eligible(l) :
               \/ LeftOpen(l)
               \/ Distance(l.time, rightTimes[j]) <= Distance(l.time, rightTimes[m])
               \/ Distance(l.time, rightTimes[m]) >= Longest

LEMMA MatchedStays ==
    ASSUME call' = call, in' = in, right' = right
    PROVE  \A l, m : Matched(l, m)' = Matched(l, m)
<1>1. width' = width /\ rightTimes' = rightTimes
  BY InputStays DEF rightTimes
<1>2. \A m, t : OnSide(m, t)' = OnSide(m, t)
  BY <1>1 DEF OnSide
<1>3. \A l : Eligible(l)' = Eligible(l) /\ LeftOpen(l)' = LeftOpen(l)
  BY <1>1, <1>2 DEF Eligible, LeftOpen
<1>4. QED
  BY <1>1, <1>3 DEF Matched

LEMMA NearestStays ==
    ASSUME call' = call, in' = in, right' = right, pairs' = pairs, Nearest
    PROVE  Nearest'
<1>1. \A i \in DOMAIN pairs : Matched(in[i], pairs[i])
  BY DEF Nearest, Matched
<1>2. (\A i \in DOMAIN pairs : Matched(in[i], pairs[i]))'
  BY <1>1, MatchedStays
<1>3. QED
  BY <1>2 DEF Nearest, Matched

(***************************************************************************)
(* timeBucket.                                                             *)
(***************************************************************************)
LEMMA BuildInv == IInv /\ Build => IInv'
<1> SUFFICES ASSUME IInv, Build PROVE IInv'
  OBVIOUS
<1>1. /\ pc = "built" /\ UNCHANGED <<call, in, starts, right, buckets, pairs>>
      /\ UNCHANGED fillVars
      /\ \/ pc' = "refused"
         \/ pc' = "bucket" /\ call.op = "timeBucket"
         \/ pc' = "group" /\ call.op = "gapfill"
         \/ pc' = "fetch" /\ call.op = "asofJoin"
  BY TypeFacts DEF Build, joinVars, IInv, Call
<1>2. TypeOK'
  BY <1>1 DEF IInv, TypeOK, fillVars
<1>3. StartsInv' /\ JoinInv'
  <2>1. StartsInv'
    BY <1>1, InputStays DEF IInv, StartsInv
  <2>2. Nearest'
    BY <1>1, NearestStays DEF IInv, JoinInv
  <2>3. QED
    BY <1>1, <2>1, <2>2 DEF IInv, JoinInv
<1>4. FillInv'
  BY <1>1, FillStays DEF IInv
<1>5. QED
  BY <1>1, <1>2, <1>3, <1>4 DEF IInv, PlaceInv

LEMMA JoinStays ==
    ASSUME JoinInv, call' = call, in' = in, UNCHANGED joinVars,
           pc' = "join" => pc = "join", pc' \notin {"built", "fetch"}
    PROVE  JoinInv'
<1>1. right' = right /\ buckets' = buckets /\ pairs' = pairs
  BY DEF joinVars
<1>2. Nearest'
  BY <1>1, NearestStays DEF JoinInv
<1>3. QED
  BY <1>1, <1>2 DEF JoinInv

LEMMA BucketInv == IInv /\ Bucket => IInv'
<1> SUFFICES ASSUME IInv, Bucket PROVE IInv'
  OBVIOUS
<1>1. /\ pc = "bucket" /\ pc' = pc /\ call' = call /\ in' = in
      /\ UNCHANGED fillVars /\ UNCHANGED joinVars
      /\ Len(starts) < Len(in) /\ row.time # Unparsed
      /\ starts' = Append(starts, Written(BucketStart(row.time)))
  BY DEF Bucket
<1>2. /\ call \in Call /\ in \in Seq(Row) /\ width \in Int /\ Len(in) \in Nat
      /\ starts \in Seq(Int) /\ Len(starts) \in Nat /\ TypeOK
  BY TypeFacts DEF IInv, TypeOK
<1>3. row \in Row /\ row = in[Len(starts) + 1]
  BY <1>1, <1>2 DEF row
<1> DEFINE s == Written(BucketStart(row.time))
<1>4. row.time \in Int
  BY <1>1, <1>3 DEF Row
<1>5. s \in Int
  BY <1>2, <1>4, BucketStartRight, WrittenFacts
<1> HIDE DEF s
<1>6. /\ starts' \in Seq(Int) /\ Len(starts') = Len(starts) + 1
      /\ DOMAIN starts' = 1..(Len(starts) + 1)
      /\ \A i \in 1..Len(starts) : starts'[i] = starts[i]
      /\ starts'[Len(starts) + 1] = s
  BY <1>1, <1>2, <1>5 DEF s
<1>7. ASSUME NEW i \in DOMAIN starts'
      PROVE  in[i].time \in Int /\ starts'[i] = Written(BucketStart(in[i].time))
  <2>1. CASE i = Len(starts) + 1
    BY <1>3, <1>4, <1>6, <2>1 DEF s
  <2>2. CASE i \in 1..Len(starts)
    BY <1>2, <1>6, <2>2 DEF IInv, StartsInv
  <2>3. QED
    BY <1>2, <1>6, <2>1, <2>2
<1>8. StartsInv'
  <2>1. \A t : Written(BucketStart(t))' = Written(BucketStart(t))
    BY <1>1, InputStays DEF Written
  <2>2. QED
    BY <1>1, <1>2, <1>6, <1>7, <2>1 DEF StartsInv
<1>9. TypeOK'
  BY <1>1, <1>6 DEF IInv, TypeOK, fillVars, joinVars
<1>10. JoinInv' /\ FillInv'
  BY <1>1, JoinStays, FillStays DEF IInv
<1>11. QED
  BY <1>1, <1>8, <1>9, <1>10 DEF IInv, PlaceInv

(***************************************************************************)
(* The call fails, or ends.                                                *)
(***************************************************************************)
LEMMA StopInv == IInv /\ (BucketFails \/ FetchFails \/ Finish) => IInv'
<1> SUFFICES ASSUME IInv, BucketFails \/ FetchFails \/ Finish PROVE IInv'
  OBVIOUS
<1>1. /\ pc \in {"bucket", "fetch", "group", "join"} /\ pc' \in {"failed", "done"}
      /\ UNCHANGED <<call, in, starts>> /\ UNCHANGED fillVars /\ UNCHANGED joinVars
      /\ pc' = "done" /\ pc = "group" => \A i \in DOMAIN in : in[i].key \in filled
      /\ pc' = "done" => pc # "fetch"
  BY DEF BucketFails, FetchFails, Finish
<1>2. TypeOK'
  BY <1>1 DEF IInv, TypeOK, fillVars, joinVars
<1>3. StartsInv'
  BY <1>1, InputStays DEF IInv, StartsInv
<1>4. JoinInv'
  BY <1>1, JoinStays DEF IInv
<1>5. FillInv'
  BY <1>1, FillStays DEF IInv, PlaceInv
<1>6. QED
  BY <1>1, <1>2, <1>3, <1>4, <1>5 DEF IInv, PlaceInv

-------------------------------------------------------------------------------
(***************************************************************************)
(* asofJoin.                                                               *)
(***************************************************************************)
LEMMA FetchInv == IInv /\ Fetch => IInv'
<1> SUFFICES ASSUME IInv, Fetch PROVE IInv'
  OBVIOUS
<1>1. /\ pc = "fetch" /\ pc' = "join" /\ right' \in Rights
      /\ UNCHANGED <<call, in, starts, pairs>> /\ UNCHANGED fillVars
      /\ buckets' \in [Keys -> UNION {Orders(Of(right', k), Times(right')) : k \in Keys}]
      /\ \A k \in Keys : buckets'[k] \in Orders(Of(right', k), Times(right'))
  BY DEF Fetch
<1>2. right' \in Seq(Row)
  BY <1>1, TimesAssumption
<1>3. \A k \in Keys : buckets'[k] \in Seq(DOMAIN right')
  BY <1>1, <1>2, OrderFacts
<1>4. buckets' \in [Keys -> Seq(DOMAIN right')]
  BY <1>1, <1>3
<1>5. pairs = <<>> /\ pairs' = <<>> /\ TypeOK
  BY <1>1 DEF IInv, JoinInv
<1>6. TypeOK'
  BY <1>1, <1>2, <1>4, <1>5 DEF TypeOK, fillVars
<1>7. JoinInv'
  BY <1>1, <1>5 DEF IInv, JoinInv, Nearest
<1>8. StartsInv' /\ FillInv'
  BY <1>1, InputStays, FillStays DEF IInv, StartsInv
<1>9. QED
  BY <1>1, <1>6, <1>7, <1>8 DEF IInv, PlaceInv

(***************************************************************************)
(* The row taken is the nearest one of those the property speaks of.       *)
(***************************************************************************)
LEMMA MatchIsMatched ==
    ASSUME call \in Call, width \in Int, width < Longest, right \in Seq(Row),
           NEW l, l.time \in Int,
           NEW b \in Orders(Of(right, l.key), Times(right)),
           NEW n \in 0..Len(b), Splits(n, b, l.time), NEW j,
           j = (IF Candidate(n, b, l.time) # 0 /\ Tolerated(Candidate(n, b, l.time), l.time)
                THEN Candidate(n, b, l.time) ELSE 0)
    PROVE  j \in {0} \cup DOMAIN right /\ Matched(l, j)
<1> DEFINE t == l.time
           R == Of(right, l.key)
<1>0. t \in Int
  OBVIOUS
<1>1. /\ j \in {0} \cup DOMAIN right
      /\ j = 0 => \A i \in R : ~(Beyond(i, t) /\ Tolerated(i, t))
      /\ j # 0 => /\ j \in R /\ Beyond(j, t) /\ Tolerated(j, t)
                  /\ \A i \in R :
                        Beyond(i, t) => Apart(t, rightTimes[j]) <= Apart(t, rightTimes[i])
  BY MatchNearest
<1>2. /\ Longest \in Nat
      /\ \A i \in R : rightTimes[i] \in Int
  BY TimesTyped, TimesAssumption DEF Of, rightTimes
<1>3. ASSUME NEW i \in R
      PROVE  /\ Beyond(i, t) => OnSide(i, t)
             /\ OnSide(i, t) /\ ~LeftOpen(l) => Beyond(i, t)
  <2>1. rightTimes[i] \in Int /\ i \in Of(right, l.key)
    BY <1>2
  <2>2. CASE call.direction = "forward"
    <3>1. (Beyond(i, t) <=> rightTimes[i] > t) /\ (OnSide(i, t) <=> rightTimes[i] >= t)
      BY <2>2 DEF Beyond, OnSide
    <3>2. rightTimes[i] = t => LeftOpen(l)
      BY <2>1, <2>2 DEF LeftOpen
    <3>3. QED
      BY <1>0, <2>1, <3>1, <3>2
  <2>3. CASE call.direction = "backward"
    BY <2>3 DEF Beyond, OnSide
  <2>4. CASE call.direction = "nearest"
    BY <2>4 DEF Beyond, OnSide
  <2>5. QED
    BY <2>2, <2>3, <2>4 DEF Call
<1>4. \A i \in R : /\ Distance(t, rightTimes[i]) \in Nat /\ Apart(t, rightTimes[i]) \in Nat
                    /\ \/ Apart(t, rightTimes[i]) = Distance(t, rightTimes[i])
                       \/ /\ Apart(t, rightTimes[i]) = Longest
                          /\ Distance(t, rightTimes[i]) > Longest
  BY <1>2, ApartFacts
<1>5. \A i \in R : Tolerated(i, t) <=> (width > 0 => Distance(t, rightTimes[i]) <= width)
  BY <1>2, <1>4 DEF Tolerated
<1> HIDE DEF t
<1>6. Eligible(l) = {i \in R : OnSide(i, t) /\ Tolerated(i, t)}
  BY <1>5 DEF Eligible, t
<1>7. t # Unparsed
  BY <1>0, TimesAssumption
<1> HIDE DEF R
<1>8. CASE j = 0
  <2>1. ASSUME ~LeftOpen(l), NEW i \in Eligible(l) PROVE FALSE
    <3>1. i \in R /\ OnSide(i, t) /\ Tolerated(i, t)
      BY <1>6, <2>1
    <3>2. Beyond(i, t)
      BY <1>3, <2>1, <3>1
    <3>3. QED
      BY <1>1, <1>8, <3>1, <3>2
  <2>2. LeftOpen(l) \/ Eligible(l) = {}
    BY <2>1
  <2>3. QED
    BY <1>1, <1>7, <1>8, <2>2 DEF Matched, t
<1>9. CASE j # 0
  <2>1. j \in Eligible(l)
    <3>1. j \in R /\ Beyond(j, t) /\ Tolerated(j, t)
      BY <1>1, <1>9
    <3>2. OnSide(j, t)
      BY <1>3, <3>1
    <3>3. QED
      BY <1>6, <3>1, <3>2
  <2>2. ASSUME NEW m \in Eligible(l), ~LeftOpen(l)
        PROVE  \/ Distance(t, rightTimes[j]) <= Distance(t, rightTimes[m])
               \/ Distance(t, rightTimes[m]) >= Longest
    <3>1. j \in R /\ m \in R /\ OnSide(m, t)
      BY <1>1, <1>6, <1>9, <2>2
    <3>2. Beyond(m, t)
      BY <1>3, <2>2, <3>1
    <3>3. Apart(t, rightTimes[j]) <= Apart(t, rightTimes[m])
      BY <1>1, <1>9, <3>1, <3>2
    <3>4. QED
      BY <1>2, <1>4, <3>1, <3>3
  <2>3. \A m \in Eligible(l) :
           \/ LeftOpen(l)
           \/ Distance(t, rightTimes[j]) <= Distance(t, rightTimes[m])
           \/ Distance(t, rightTimes[m]) >= Longest
    BY <2>2
  <2>4. QED
    BY <1>1, <1>7, <1>9, <2>1, <2>3 DEF Matched, t
<1>10. QED
  BY <1>1, <1>8, <1>9

LEMMA JoinStep == IInv /\ Join => IInv'
<1> SUFFICES ASSUME IInv, Join PROVE IInv'
  OBVIOUS
<1>1. /\ pc = "join" /\ pc' = pc /\ UNCHANGED <<call, in, starts, right, buckets>>
      /\ UNCHANGED fillVars /\ Len(pairs) < Len(in)
  BY DEF Join
<1>2. /\ call \in Call /\ in \in Seq(Row) /\ width \in Int /\ width < Longest
      /\ Len(in) \in Nat /\ TypeOK
      /\ right \in Seq(Row) /\ pairs \in Seq({0} \cup DOMAIN right) /\ Len(pairs) \in Nat
  BY TypeFacts DEF IInv, TypeOK
<1>3. left \in Row /\ left = in[Len(pairs) + 1]
  BY <1>1, <1>2 DEF left
<1>4. PICK j \in {0} \cup DOMAIN right : pairs' = Append(pairs, j) /\ Matched(left, j)
  <2>1. CASE left.time = Unparsed
    BY <2>1 DEF Join, Matched
  <2>2. CASE left.time # Unparsed
    <3>1. PICK n \in 0..Len(buckets[left.key]) :
             LET j == Candidate(n, buckets[left.key], left.time)
             IN  /\ Splits(n, buckets[left.key], left.time)
                 /\ pairs' = Append(pairs, IF j # 0 /\ Tolerated(j, left.time) THEN j ELSE 0)
      BY <2>2 DEF Join
    <3> DEFINE b == buckets[left.key]
               c == Candidate(n, b, left.time)
               j == IF c # 0 /\ Tolerated(c, left.time) THEN c ELSE 0
    <3>2. left.time \in Int /\ b \in Orders(Of(right, left.key), Times(right))
      BY <1>1, <1>3, <2>2 DEF Row, IInv, JoinInv
    <3>3. Splits(n, b, left.time) /\ pairs' = Append(pairs, j)
      BY <3>1
    <3>4. j \in {0} \cup DOMAIN right /\ Matched(left, j)
      BY <1>2, <3>2, <3>3, MatchIsMatched
    <3> HIDE DEF j
    <3>5. QED
      BY <3>3, <3>4
  <2>3. QED
    BY <2>1, <2>2
<1>5. /\ pairs' \in Seq({0} \cup DOMAIN right) /\ Len(pairs') = Len(pairs) + 1
      /\ DOMAIN pairs' = 1..(Len(pairs) + 1) /\ pairs'[Len(pairs) + 1] = j
      /\ \A i \in 1..Len(pairs) : pairs'[i] = pairs[i]
  BY <1>2, <1>4
<1>6. \A l, m : Matched(l, m)' = Matched(l, m)
  BY <1>1, MatchedStays
<1>7. ASSUME NEW i \in DOMAIN pairs' PROVE Matched(in[i], pairs'[i])
  <2>1. CASE i = Len(pairs) + 1
    BY <1>3, <1>4, <1>5, <2>1
  <2>2. CASE i \in 1..Len(pairs)
    <3>1. i \in DOMAIN pairs
      BY <1>2, <2>2
    <3>2. Matched(in[i], pairs[i])
      BY <3>1 DEF IInv, JoinInv, Nearest, Matched
    <3>3. QED
      BY <1>5, <2>2, <3>2
  <2>3. QED
    BY <1>2, <1>5, <2>1, <2>2
<1>8. Nearest'
  <2>1. (\A i \in DOMAIN pairs : Matched(in[i], pairs[i]))'
    BY <1>1, <1>6, <1>7
  <2>2. QED
    BY <2>1 DEF Nearest, Matched
<1>9. JoinInv'
  BY <1>1, <1>2, <1>5, <1>8 DEF IInv, JoinInv
<1>10. TypeOK'
  BY <1>1, <1>2, <1>5 DEF TypeOK, fillVars
<1>11. StartsInv' /\ FillInv'
  BY <1>1, InputStays, FillStays DEF IInv, StartsInv
<1>12. QED
  BY <1>1, <1>9, <1>10, <1>11 DEF IInv, PlaceInv

-------------------------------------------------------------------------------
(***************************************************************************)
(* gapfill.  The other variables, in every step of its loop.               *)
(***************************************************************************)
LEMMA LoopFrame ==
    ASSUME IInv, pc \in {"group", "fill"}, pc' \in {"group", "fill"},
           UNCHANGED <<call, in, starts>>, UNCHANGED joinVars
    PROVE  PlaceInv' /\ StartsInv' /\ JoinInv'
<1>1. PlaceInv'
  BY DEF IInv, PlaceInv
<1>2. StartsInv'
  BY InputStays DEF IInv, StartsInv
<1>3. JoinInv'
  BY JoinStays DEF IInv
<1>4. QED
  BY <1>1, <1>2, <1>3

LEMMA BeginGroupInv == IInv /\ BeginGroup => IInv'
<1> SUFFICES ASSUME IInv, BeginGroup PROVE IInv'
  OBVIOUS
<1>1. /\ pc = "group" /\ pc' = "fill" /\ idx' = 1 /\ last' = 0
      /\ UNCHANGED <<call, in, starts, emitted>> /\ UNCHANGED joinVars
  BY DEF BeginGroup
<1>2. PICK i \in DOMAIN in :
         /\ in[i].key \notin filled
         /\ \E s \in Orders(Of(in, in[i].key), times) :
               /\ idxs' = s
               /\ cur' = IF call.from # Unset THEN call.from ELSE times[s[1]]
         /\ filled' = filled \cup {in[i].key}
  BY DEF BeginGroup
<1> DEFINE k == in[i].key
<1>3. /\ idxs' \in Orders(Of(in, k), times) /\ filled' = filled \cup {k}
      /\ cur' = IF call.from # Unset THEN call.from ELSE times[idxs'[1]]
  BY <1>2
<1>4. /\ TypeOK /\ in \in Seq(Row) /\ times = Times(in) /\ k \in Keys
      /\ times \in [DOMAIN in -> Int]
      /\ FillInv
  BY TypeFacts DEF IInv, times
<1>5. /\ idxs' \in Seq(DOMAIN in) /\ Len(idxs') \in Nat /\ Len(idxs') >= 1
      /\ \A m \in 1..Len(idxs') : idxs'[m] \in DOMAIN in /\ in[idxs'[m]].key = k
  <2>1. i \in Of(in, k)
    BY DEF Of
  <2>2. QED
    BY <1>3, <1>4, <2>1, OrderFacts
<1>6. key' = k
  BY <1>1, <1>5 DEF key
<1>7. cur' = From(k) /\ From(k) \in Int
  BY <1>3, <1>4, <1>5, Limits
<1>8. /\ width' = width /\ times' = times
      /\ \A q : From(q)' = From(q) /\ To(q)' = To(q)
      /\ \A e : FitsWindow(e)' = FitsWindow(e) /\ Dated(e)' = Dated(e)
  BY <1>1, InputStays
<1>9. TypeOK'
  <2>1. /\ filled' \subseteq Keys /\ idxs' \in Seq(DOMAIN in) /\ cur' \in Int
        /\ last' \in {0} \cup DOMAIN in
    BY <1>1, <1>3, <1>4, <1>5, <1>7 DEF TypeOK
  <2>2. idx' \in 1..(Len(idxs') + 1)
    BY <1>1, <1>5
  <2>3. QED
    BY <1>1, <1>4, <2>1, <2>2 DEF TypeOK, joinVars
<1>10. Sorted'
  BY <1>1, <1>3, <1>5, <1>6, <1>8 DEF Sorted
<1>11. \A n \in DOMAIN emitted : emitted[n].key \in filled /\ emitted[n].key # k
  BY <1>2, <1>4 DEF FillInv
<1>12. ASSUME width > 0 PROVE Given' /\ Behind' /\ InStep'
  <2>1. Given
    BY <1>4, <1>12 DEF FillInv
  <2>2. \A n \in DOMAIN emitted : OnGrid(n)'
    <3>1. \A n : Begins(n)' = Begins(n) /\ Ends(n)' = Ends(n)
      BY <1>1 DEF Begins, Ends
    <3>2. QED
      BY <1>1, <1>8, <2>1, <3>1 DEF Given, OnGrid
  <2>3. \A n \in DOMAIN emitted : FilledFrom(n)'
    BY <1>1, <2>1 DEF Given, FilledFrom, Begins
  <2>4. \A q \in filled : Answered(q)'
    BY <1>1, <1>8, <2>1 DEF Given, Answered
  <2>5. Given'
    BY <1>1, <1>3, <1>6, <1>8, <2>1, <2>2, <2>3, <2>4 DEF Given
  <2>6. Behind'
    BY <1>1, <1>6, <1>11 DEF Behind
  <2>7. InStep'
    <3>1. ~Begun'
      BY <1>1, <1>4, <1>6, <1>11 DEF Begun, TypeOK
    <3>2. Len(emitted) > 0 =>
            emitted[Len(emitted)].at + width > To(emitted[Len(emitted)].key)
      <4>1. Len(emitted) \in Nat /\ DOMAIN emitted = 1..Len(emitted)
        BY <1>4 DEF TypeOK
      <4>2. QED
        BY <1>1, <2>1, <4>1 DEF Given, OnGrid, Ends
    <3>3. QED
      BY <1>1, <1>6, <1>7, <1>8, <1>11, <3>1, <3>2 DEF InStep
  <2>8. QED
    BY <2>5, <2>6, <2>7
<1>13. FillInv'
  BY <1>1, <1>3, <1>8, <1>10, <1>11, <1>12 DEF FillInv
<1>14. QED
  BY <1>1, <1>9, <1>13, LoopFrame DEF IInv

LEMMA SkipRowInv == IInv /\ SkipRow => IInv'
<1> SUFFICES ASSUME IInv, SkipRow PROVE IInv'
  OBVIOUS
<1>1. /\ pc = "fill" /\ pc' = "fill" /\ idx <= Len(idxs) /\ idx' = idx + 1
      /\ times[idxs[idx]] < cur
      /\ UNCHANGED <<call, in, starts, filled, idxs, cur, last, emitted>>
      /\ UNCHANGED joinVars
  BY DEF SkipRow, Walking, next
<1>2. FillInv /\ idx \in 1..(Len(idxs) + 1) /\ Len(idxs) \in Nat
  BY <1>1, FillFacts DEF IInv
<1>3. /\ width' = width /\ times' = times /\ key' = key
      /\ \A q : From(q)' = From(q) /\ To(q)' = To(q)
      /\ \A e : FitsWindow(e)' = FitsWindow(e) /\ Dated(e)' = Dated(e)
  BY <1>1, InputStays DEF key
<1>4. TypeOK'
  BY <1>1, <1>2 DEF IInv, TypeOK, joinVars
<1>5. Sorted'
  BY <1>1, <1>2, <1>3 DEF Sorted, FillInv
<1>6. ASSUME width > 0 PROVE Given' /\ Behind' /\ InStep'
  <2>1. Given /\ Behind /\ InStep
    BY <1>1, <1>2, <1>6 DEF FillInv
  <2>2. \A n \in DOMAIN emitted : OnGrid(n)' /\ FilledFrom(n)'
    <3>1. \A n : Begins(n)' = Begins(n) /\ Ends(n)' = Ends(n)
      BY <1>1 DEF Begins, Ends
    <3>2. QED
      BY <1>1, <1>3, <2>1, <3>1 DEF Given, OnGrid, FilledFrom
  <2>3. \A q : Answered(q)' = Answered(q)
    BY <1>1, <1>3 DEF Answered
  <2>4. Given'
    BY <1>1, <1>3, <2>1, <2>2, <2>3 DEF Given
  <2>5. \A m \in 1..(idx' - 1) : times[idxs[m]] < cur
    <3>1. \A m \in 1..(idx' - 1) : m \in 1..(idx - 1) \/ m = idx
      BY <1>1, <1>2
    <3>2. QED
      BY <1>1, <2>1, <3>1 DEF Behind
  <2>6. Behind'
    BY <1>1, <1>3, <2>1, <2>5 DEF Behind
  <2>7. InStep'
    BY <1>1, <1>3, <2>1 DEF InStep, Begun
  <2>8. QED
    BY <2>4, <2>6, <2>7
<1>7. FillInv'
  BY <1>1, <1>2, <1>3, <1>5, <1>6 DEF FillInv
<1>8. QED
  BY <1>1, <1>4, <1>7, LoopFrame DEF IInv

LEMMA EndGroupInv == IInv /\ EndGroup => IInv'
<1> SUFFICES ASSUME IInv, EndGroup PROVE IInv'
  OBVIOUS
<1>1. /\ pc = "fill" /\ pc' = "group" /\ cur > until
      /\ UNCHANGED <<call, in, starts, filled, idxs, idx, cur, last, emitted>>
      /\ UNCHANGED joinVars
  BY DEF EndGroup, fillVars
<1>2. /\ FillInv /\ cur \in Int /\ until = To(key) /\ until \in Int /\ TypeOK
      /\ Len(emitted) \in Nat /\ DOMAIN emitted = 1..Len(emitted)
  BY <1>1, FillFacts DEF IInv, TypeOK
<1>3. /\ width' = width /\ times' = times
      /\ \A q : From(q)' = From(q) /\ To(q)' = To(q)
      /\ \A e : FitsWindow(e)' = FitsWindow(e) /\ Dated(e)' = Dated(e)
  BY <1>1, InputStays
<1>4. TypeOK'
  BY <1>1, <1>2 DEF TypeOK, joinVars
<1>5. ASSUME width > 0 PROVE Given'
  <2>1. Given /\ InStep
    BY <1>1, <1>2, <1>5 DEF FillInv
  <2>2. Len(emitted) > 0 =>
          emitted[Len(emitted)].at + width > To(emitted[Len(emitted)].key)
    <3>1. CASE Begun
      BY <1>1, <1>2, <2>1, <3>1 DEF InStep, Begun
    <3>2. CASE ~Begun
      BY <2>1, <3>2 DEF InStep
    <3>3. QED
      BY <3>1, <3>2
  <2>3. \A n \in DOMAIN emitted : OnGrid(n)'
    <3>1. \A n : Begins(n)' = Begins(n) /\ Ends(n)' = Ends(n)
      BY <1>1 DEF Begins, Ends
    <3>2. QED
      BY <1>1, <1>2, <1>3, <2>1, <2>2, <3>1 DEF Given, OnGrid
  <2>4. \A n \in DOMAIN emitted : FilledFrom(n)'
    BY <1>1, <2>1 DEF Given, FilledFrom, Begins
  <2>5. Answered(key)
    <3>1. CASE Begun
      BY <1>2, <3>1 DEF Answered, Begun
    <3>2. CASE ~Begun
      <4>1. cur = From(key) /\ cur > To(key)
        BY <1>1, <1>2, <2>1, <3>2 DEF InStep
      <4>2. ~(From(key) <= To(key))
        BY <1>2, <4>1
      <4>3. QED
        BY <4>2 DEF Answered
    <3>3. QED
      BY <3>1, <3>2
  <2>6. \A k \in filled : Answered(k)
    BY <2>1, <2>5 DEF Given
  <2>7. \A k : Answered(k)' = Answered(k)
    BY <1>1, <1>3 DEF Answered
  <2>8. QED
    BY <1>1, <1>3, <2>1, <2>3, <2>4, <2>6, <2>7 DEF Given
<1>6. FillInv'
  BY <1>1, <1>2, <1>3, <1>5 DEF FillInv
<1>7. QED
  BY <1>1, <1>4, <1>6, LoopFrame DEF IInv

(***************************************************************************)
(* A row or a synthetic one at time cur.  What the two have in common: the *)
(* emission fits its window, and the rows passed over so far are behind    *)
(* the next time of the grid.                                              *)
(***************************************************************************)
LEMMA EmitGiven ==
    ASSUME IInv, Walking, width > 0, NEW i \in {0} \cup DOMAIN in,
           emitted' = Append(emitted, Emission(i)), pc' = pc, idxs' = idxs,
           UNCHANGED <<call, in, filled>>,
           FitsWindow(Emission(i)), i # 0 => in[i].key = key /\ times[i] >= cur
    PROVE  Given'
<1>1. /\ TypeOK /\ pc = "fill" /\ cur <= until /\ Given /\ Behind /\ InStep
  BY DEF IInv, FillInv, Walking
<1>2. /\ key \in Keys /\ key \in filled /\ until = To(key) /\ cur \in Int
      /\ in \in Seq(Row) /\ times \in [DOMAIN in -> Int] /\ key' = key
  BY <1>1, FillFacts, TypeFacts DEF key
<1>3. PICK L, e :
         /\ L \in Nat
         /\ L = Len(emitted) /\ DOMAIN emitted = 1..L /\ e = Emission(i)
         /\ Len(emitted') = L + 1 /\ DOMAIN emitted' = 1..(L + 1)
         /\ \A n \in 1..L : emitted'[n] = emitted[n]
         /\ emitted'[L + 1] = e
  <2>1. emitted \in Seq(Emitted)
    BY <1>1 DEF TypeOK
  <2>2. /\ Len(emitted) \in Nat /\ DOMAIN emitted = 1..Len(emitted)
        /\ Len(emitted') = Len(emitted) + 1 /\ DOMAIN emitted' = 1..(Len(emitted) + 1)
        /\ \A n \in 1..Len(emitted) : emitted'[n] = emitted[n]
        /\ emitted'[Len(emitted) + 1] = Emission(i)
    BY <2>1
  <2>3. QED
    BY <2>2
<1>4. /\ e.key = key /\ e.at = cur /\ e.row = i /\ e.like = last
      /\ e.time = (IF i = 0 THEN Written(cur) ELSE in[i].time)
  BY <1>3 DEF Emission
<1>5. /\ width' = width /\ times' = times
      /\ \A q : From(q)' = From(q) /\ To(q)' = To(q)
      /\ \A x : FitsWindow(x)' = FitsWindow(x) /\ Dated(x)' = Dated(x)
      /\ \A t : BucketStart(t)' = BucketStart(t)
  BY InputStays
<1>6. Begun <=> L > 0 /\ emitted[L].key = key
  BY <1>3 DEF Begun
<1>7. ~Begun /\ L > 0 => emitted[L].at + width > To(emitted[L].key)
  BY <1>1, <1>3 DEF InStep
<1>8. IF Begun THEN /\ cur = emitted[L].at + width
                    /\ last = (IF emitted[L].row # 0 THEN emitted[L].row ELSE emitted[L].like)
               ELSE cur = From(key) /\ last = 0
  BY <1>1, <1>3 DEF InStep
<1>9. ASSUME NEW n \in 1..L
      PROVE  (FitsWindow(emitted[n]) /\ Dated(emitted[n]) /\ OnGrid(n) /\ FilledFrom(n))'
  <2>1. FitsWindow(emitted[n]) /\ Dated(emitted[n]) /\ OnGrid(n) /\ FilledFrom(n)
    BY <1>1, <1>3 DEF Given
  <2>2. n \in DOMAIN emitted /\ (n = 1 \/ n - 1 \in 1..L) /\ (n = L \/ n + 1 \in 1..L)
    BY <1>3
  <2>3. Begins(n)' = Begins(n)
    BY <1>3, <2>2 DEF Begins
  <2>4. FilledFrom(n)'
    BY <1>3, <2>1, <2>2, <2>3 DEF FilledFrom, Begins
  <2>5. OnGrid(n)'
    <3>1. /\ emitted[n].at = (IF Begins(n) THEN From(emitted[n].key)
                                ELSE emitted[n - 1].at + width)
          /\ emitted[n].at <= To(emitted[n].key)
      BY <2>1 DEF OnGrid
    <3>2. /\ (emitted[n].at = (IF Begins(n) THEN From(emitted[n].key)
                                 ELSE emitted[n - 1].at + width))'
          /\ (emitted[n].at <= To(emitted[n].key))'
      <4>1. emitted'[n] = emitted[n] /\ (~Begins(n) => emitted'[n - 1] = emitted[n - 1])
        BY <1>3, <2>2 DEF Begins
      <4>2. QED
        BY <1>5, <2>3, <3>1, <4>1
    <3>3. (Ends(n) => emitted[n].at + width > To(emitted[n].key))'
      <4>1. CASE n = L
        <5>1. Ends(n)' => ~Begun /\ L > 0
          BY <1>3, <1>4, <1>6, <4>1 DEF Ends
        <5>2. QED
          BY <1>3, <1>5, <1>7, <4>1, <5>1
      <4>2. CASE n # L
        <5>1. Ends(n)' <=> Ends(n)
          BY <1>3, <2>2, <4>2 DEF Ends
        <5>2. Ends(n) => emitted[n].at + width > To(emitted[n].key)
          BY <1>3, <2>1, <4>2 DEF OnGrid
        <5>3. QED
          BY <1>3, <1>5, <5>1, <5>2
      <4>3. QED
        BY <4>1, <4>2
    <3>4. QED
      BY <3>2, <3>3 DEF OnGrid
  <2>6. (FitsWindow(emitted[n]) /\ Dated(emitted[n]))'
    BY <1>3, <1>5, <2>1
  <2>7. QED
    BY <2>4, <2>5, <2>6
<1>10. (FitsWindow(emitted[L + 1]) /\ Dated(emitted[L + 1]) /\ OnGrid(L + 1) /\ FilledFrom(L + 1))'
  <2>1. (L + 1) - 1 = L /\ (L = 0 \/ L \in 1..L) /\ (L + 1 = 1 <=> L = 0)
    BY <1>3
  <2>2. Begins(L + 1)' <=> ~Begun
    BY <1>3, <1>4, <1>6, <2>1 DEF Begins
  <2>3. Begun => emitted'[L] = emitted[L]
    BY <1>3, <1>6, <2>1
  <2>4. FilledFrom(L + 1)'
    BY <1>3, <1>4, <1>8, <2>1, <2>2, <2>3 DEF FilledFrom
  <2>5. OnGrid(L + 1)'
    <3>1. (emitted[L + 1].at = IF Begins(L + 1) THEN From(emitted[L + 1].key)
                                 ELSE emitted[(L + 1) - 1].at + width)'
      BY <1>3, <1>4, <1>5, <1>8, <2>1, <2>2, <2>3
    <3>2. (emitted[L + 1].at <= To(emitted[L + 1].key))'
      BY <1>1, <1>2, <1>3, <1>4, <1>5
    <3>3. L + 1 = Len(emitted') /\ pc' = "fill"
      BY <1>1, <1>3
    <3>4. QED
      BY <3>1, <3>2, <3>3 DEF OnGrid
  <2>6. (FitsWindow(emitted[L + 1]) /\ Dated(emitted[L + 1]))'
    <3>1. Dated(e)
      BY <1>2, <1>4, WrittenFacts DEF Dated
    <3>2. QED
      BY <1>3, <1>5, <3>1
  <2>7. QED
    BY <2>4, <2>5, <2>6
<1>11. \A n \in 1..(L + 1) : n \in 1..L \/ n = L + 1
  BY <1>3
<1>12. \A m, n \in DOMAIN emitted' :
          m < n /\ emitted'[m].row # 0 => emitted'[m].row # emitted'[n].row
  <2> SUFFICES ASSUME NEW m \in 1..(L + 1), NEW n \in 1..(L + 1), m < n, emitted'[m].row # 0
               PROVE  emitted'[m].row # emitted'[n].row
    BY <1>3
  <2>1. m \in 1..L /\ emitted'[m] = emitted[m] /\ emitted[m].row # 0
    BY <1>3
  <2>2. CASE n \in 1..L
    BY <1>1, <1>3, <2>1, <2>2 DEF Given
  <2>3. CASE n = L + 1
    <3>1. emitted'[n].row = i
      BY <1>3, <1>4, <2>3
    <3>2. FitsWindow(emitted[m])
      BY <1>1, <1>3, <2>1 DEF Given
    <3>3. emitted[m].row \in DOMAIN in /\ in[emitted[m].row].key = emitted[m].key
      BY <2>1, <3>2 DEF FitsWindow, Window, Within, Of
    <3>4. emitted[m].key = key => times[emitted[m].row] < cur
      BY <1>1, <1>3, <2>1 DEF Behind
    <3>5. i # 0 => emitted[m].row # i
      BY <1>2, <3>3, <3>4
    <3>6. QED
      BY <2>1, <3>1, <3>5
  <2>4. QED
    BY <1>11, <2>2, <2>3
<1>13. \A k \in filled : (Answered(k) \/ (pc = "fill" /\ k = key))'
  <2>1. \A k : Answered(k) => Answered(k)'
    BY <1>3, <1>5 DEF Answered
  <2>2. QED
    BY <1>1, <1>2, <2>1 DEF Given
<1>14. QED
  BY <1>3, <1>9, <1>10, <1>11, <1>12, <1>13 DEF Given

LEMMA EmitInv ==
    ASSUME IInv, Walking, NEW i \in {0} \cup DOMAIN in, Emit(i),
           idx' \in 1..(Len(idxs) + 1), last' = (IF i # 0 THEN i ELSE last),
           i # 0 => in[i].key = key,
           width > 0 => /\ FitsWindow(Emission(i))
                        /\ i # 0 => times[i] >= cur /\ times[i] < cur + width
                        /\ \A m \in 1..(idx' - 1) : times[idxs[m]] < cur + width
    PROVE  IInv'
<1> DEFINE L == Len(emitted)
           e == Emission(i)
<1>1. /\ pc = "fill" /\ pc' = "fill" /\ emitted' = Append(emitted, e) /\ cur' = cur + width
      /\ UNCHANGED <<call, in, pc, starts, filled, idxs>> /\ UNCHANGED joinVars
  BY DEF Walking, Emit
<1>2. /\ TypeOK /\ FillInv /\ width \in Int /\ key \in Keys /\ key \in filled /\ cur \in Int
      /\ in \in Seq(Row) /\ times \in [DOMAIN in -> Int] /\ key' = key
  BY <1>1, FillFacts, TypeFacts DEF key, IInv
<1>3. /\ width' = width /\ times' = times
      /\ \A q : From(q)' = From(q) /\ To(q)' = To(q)
  BY <1>1, InputStays
<1>4. e \in Emitted /\ e.key = key /\ e.at = cur /\ e.row = i /\ e.like = last
  <2>1. Written(cur) \in Int /\ (i # 0 => in[i].time \in Int \cup {Unparsed})
    <3>1. Written(cur) \in Int
      BY <1>2, WrittenFacts
    <3>2. i # 0 => in[i] \in Row
      BY <1>2
    <3>3. QED
      BY <3>1, <3>2 DEF Row
  <2>2. QED
    BY <1>2, <2>1 DEF Emission, Emitted, TypeOK
<1> HIDE DEF e
<1>5. /\ emitted \in Seq(Emitted) /\ L \in Nat /\ DOMAIN emitted = 1..L
      /\ emitted' \in Seq(Emitted)
      /\ Len(emitted') = L + 1 /\ DOMAIN emitted' = 1..(L + 1)
      /\ \A n \in 1..L : emitted'[n] = emitted[n]
      /\ emitted'[L + 1] = e
  BY <1>1, <1>2, <1>4 DEF TypeOK
<1> HIDE DEF L
<1>6. TypeOK'
  <2>1. cur' \in Int /\ last' \in {0} \cup DOMAIN in /\ idx' \in 1..(Len(idxs') + 1)
    BY <1>1, <1>2 DEF TypeOK
  <2>2. QED
    BY <1>1, <1>2, <1>5, <2>1 DEF TypeOK, joinVars
<1>7. Sorted'
  BY <1>1, <1>2, <1>3 DEF FillInv, Sorted
<1>8. \A n \in DOMAIN emitted' : emitted'[n].key \in filled'
  <2>1. \A n \in 1..(L + 1) : n \in 1..L \/ n = L + 1
    BY <1>5
  <2>2. QED
    BY <1>1, <1>2, <1>4, <1>5, <2>1 DEF FillInv
<1>9. ASSUME width > 0 PROVE Given' /\ Behind' /\ InStep'
  <2>1. Given'
    BY <1>1, <1>9, EmitGiven DEF e
  <2>2. Behind
    BY <1>1, <1>2, <1>9 DEF FillInv
  <2>3. \A n \in DOMAIN emitted' :
           emitted'[n].key = key /\ emitted'[n].row # 0 => times[emitted'[n].row] < cur'
    <3> SUFFICES ASSUME NEW n \in 1..(L + 1), emitted'[n].key = key, emitted'[n].row # 0
                 PROVE  times[emitted'[n].row] < cur'
      BY <1>5
    <3>1. CASE n \in 1..L
      <4>1. emitted'[n] = emitted[n] /\ FitsWindow(emitted[n])
        BY <1>1, <1>2, <1>5, <1>9, <3>1 DEF FillInv, Given
      <4>2. emitted[n].row \in DOMAIN in
        BY <4>1 DEF FitsWindow, Window, Within, Of
      <4>3. times[emitted[n].row] < cur /\ times[emitted[n].row] \in Int
        BY <1>2, <1>5, <2>2, <3>1, <4>1, <4>2 DEF Behind
      <4>4. QED
        BY <1>1, <1>2, <1>9, <4>1, <4>3
    <3>2. CASE n = L + 1
      BY <1>1, <1>4, <1>5, <1>9, <3>2
    <3>3. QED
      BY <1>5, <3>1, <3>2
  <2>4. Behind'
    BY <1>1, <1>2, <1>3, <1>9, <2>3 DEF Behind
  <2>5. InStep'
    <3>1. Begun' /\ emitted'[Len(emitted')] = e
      BY <1>2, <1>4, <1>5 DEF Begun
    <3>2. QED
      BY <1>1, <1>3, <1>4, <3>1 DEF InStep
  <2>6. QED
    BY <2>1, <2>4, <2>5
<1>10. FillInv'
  BY <1>1, <1>3, <1>7, <1>8, <1>9 DEF FillInv
<1>11. QED
  BY <1>1, <1>6, <1>10, LoopFrame DEF IInv

(***************************************************************************)
(* The rows of the partition that are in the window of cur are not behind  *)
(* the index.                                                              *)
(***************************************************************************)
LEMMA WindowAhead ==
    ASSUME IInv, pc = "fill", width > 0, NEW i \in {0} \cup DOMAIN in,
           NEW j \in Window(Emission(i))
    PROVE  \E m \in idx..Len(idxs) : idxs[m] = j
<1>1. j \in DOMAIN in /\ in[j].key = key /\ times[j] >= cur
  <2>1. times[j] \in Int /\ cur \in Int
    BY FillFacts, TypeFacts DEF Window, Within, Of, IInv
  <2>2. QED
    BY <2>1 DEF Window, Within, Of, Emission
<1>2. PICK m \in 1..Len(idxs) : idxs[m] = j
  BY <1>1, FillFacts
<1>3. \A l \in 1..(idx - 1) : times[idxs[l]] < cur
  BY DEF IInv, FillInv, Behind
<1>4. idx \in 1..(Len(idxs) + 1) /\ Len(idxs) \in Nat /\ cur \in Int /\ times[j] \in Int
  BY <1>2, FillFacts
<1>5. ~(m < idx)
  BY <1>1, <1>2, <1>3, <1>4
<1>6. QED
  BY <1>2, <1>4, <1>5

LEMMA EmitRowInv == IInv /\ EmitRow => IInv'
<1> SUFFICES ASSUME IInv, EmitRow PROVE IInv'
  OBVIOUS
<1>1. /\ Walking /\ pc = "fill" /\ idx <= Len(idxs) /\ next = idxs[idx]
      /\ times[next] >= cur /\ InReach(times[next]) /\ Emit(next)
      /\ idx' = idx + 1 /\ last' = next
  BY DEF EmitRow, Walking, next
<1>2. PICK i : i = next
  OBVIOUS
<1>3. /\ idx \in 1..(Len(idxs) + 1) /\ Len(idxs) \in Nat /\ cur \in Int /\ width \in Int
      /\ width < Longest /\ Longest \in Nat
      /\ \A m \in 1..Len(idxs) : times[idxs[m]] \in Int
      /\ \A m, n \in 1..Len(idxs) : m < n => Precedes(times, idxs[m], idxs[n])
  BY <1>1, FillFacts, TypeFacts, TimesAssumption DEF IInv
<1>4. idx \in 1..Len(idxs)
  BY <1>1, <1>3
<1>5. i = idxs[idx] /\ i \in DOMAIN in /\ in[i].key = key /\ times[i] \in Int /\ i # 0
  BY <1>1, <1>2, <1>4, FillFacts, TypeFacts DEF IInv
<1>6. ASSUME width > 0
      PROVE  /\ FitsWindow(Emission(i)) /\ times[i] < cur + width
             /\ \A m \in 1..(idx' - 1) : times[idxs[m]] < cur + width
  <2>1. Half(width) \in Nat /\ Half(width) < width
    BY <1>3, <1>6, HalfBounds
  <2>2. times[i] = cur \/ (times[i] > cur /\ times[i] - cur < Half(width))
    <3>1. /\ Apart(times[i], cur) \in Nat /\ Distance(times[i], cur) \in Nat
          /\ \/ Apart(times[i], cur) = Distance(times[i], cur)
             \/ Apart(times[i], cur) = Longest
      BY <1>3, <1>5, ApartFacts
    <3>2. times[i] = cur \/ Apart(times[i], cur) < Half(width)
      BY <1>1, <1>2 DEF InReach
    <3>3. times[i] = cur \/ Distance(times[i], cur) < Half(width)
      BY <1>3, <2>1, <3>1, <3>2
    <3>4. QED
      BY <1>1, <1>2, <1>3, <1>5, <3>3 DEF Distance
  <2>3. times[i] < cur + width
    BY <1>3, <1>5, <2>1, <2>2
  <2>4. i \in Window(Emission(i))
    BY <1>5, <2>2 DEF Window, Within, Emission, Of
  <2>5. ASSUME NEW j \in Window(Emission(i)), j # i PROVE Precedes(times, i, j)
    <3>1. PICK m \in idx..Len(idxs) : idxs[m] = j
      BY <1>1, <1>5, <1>6, WindowAhead
    <3>2. m \in 1..Len(idxs) /\ idx < m
      BY <1>3, <1>5, <2>5, <3>1
    <3>3. QED
      BY <1>3, <1>4, <1>5, <3>1, <3>2
  <2>6. FitsWindow(Emission(i))
    <3>1. Emission(i).row = i
      BY DEF Emission
    <3>2. QED
      BY <1>5, <2>4, <2>5, <3>1 DEF FitsWindow
  <2>7. ASSUME NEW m \in 1..(idx' - 1) PROVE times[idxs[m]] < cur + width
    <3>1. m \in 1..(idx - 1) \/ m = idx
      BY <1>1, <1>3
    <3>2. CASE m = idx
      BY <1>5, <2>3, <3>2
    <3>3. CASE m \in 1..(idx - 1)
      <4>1. times[idxs[m]] < cur
        BY <1>1, <1>6, <3>3 DEF IInv, FillInv, Behind
      <4>2. times[idxs[m]] \in Int
        BY <1>3, <3>3
      <4>3. QED
        BY <1>3, <1>6, <4>1, <4>2
    <3>4. QED
      BY <3>1, <3>2, <3>3
  <2>8. QED
    BY <2>3, <2>6, <2>7
<1>7. idx' \in 1..(Len(idxs) + 1)
  BY <1>1, <1>3, <1>4
<1>8. QED
  BY <1>1, <1>2, <1>5, <1>6, <1>7, EmitInv

LEMMA EmitSyntheticInv == IInv /\ EmitSynthetic => IInv'
<1> SUFFICES ASSUME IInv, EmitSynthetic PROVE IInv'
  OBVIOUS
<1>1. /\ Walking /\ pc = "fill" /\ Emit(0) /\ idx' = idx /\ last' = last
      /\ idx <= Len(idxs) => times[idxs[idx]] >= cur /\ ~InReach(times[idxs[idx]])
  BY DEF EmitSynthetic, Walking, next
<1>2. /\ idx \in 1..(Len(idxs) + 1) /\ Len(idxs) \in Nat /\ cur \in Int /\ width \in Int
      /\ width < Longest /\ Longest \in Nat
      /\ \A m \in 1..Len(idxs) : times[idxs[m]] \in Int
      /\ \A m, n \in 1..Len(idxs) : m < n => Precedes(times, idxs[m], idxs[n])
  BY <1>1, FillFacts, TypeFacts, TimesAssumption DEF IInv
<1>3. ASSUME width > 0
      PROVE  /\ FitsWindow(Emission(0))
             /\ \A m \in 1..(idx' - 1) : times[idxs[m]] < cur + width
  <2>1. Half(width) \in Nat
    BY <1>2, <1>3, HalfBounds
  <2>2. ASSUME NEW j \in Window(Emission(0)) PROVE FALSE
    <3>1. PICK m \in idx..Len(idxs) : idxs[m] = j
      BY <1>1, <1>3, WindowAhead
    <3>2. /\ m \in 1..Len(idxs) /\ idx \in 1..Len(idxs)
          /\ times[idxs[idx]] \in Int /\ times[j] \in Int
      BY <1>2, <3>1
    <3>3. times[idxs[idx]] > cur /\ times[idxs[idx]] - cur >= Half(width)
      <4>1. Distance(times[idxs[idx]], cur) >= Apart(times[idxs[idx]], cur)
            /\ Apart(times[idxs[idx]], cur) \in Nat
            /\ Distance(times[idxs[idx]], cur) \in Nat
        BY <1>2, <3>2, ApartFacts
      <4>2. times[idxs[idx]] >= cur /\ times[idxs[idx]] # cur
            /\ ~(Apart(times[idxs[idx]], cur) < Half(width))
        BY <1>1, <1>2, <3>2 DEF InReach
      <4>3. Distance(times[idxs[idx]], cur) >= Half(width)
        BY <2>1, <4>1, <4>2
      <4>4. QED
        BY <1>2, <3>2, <4>2, <4>3 DEF Distance
    <3>4. times[j] >= times[idxs[idx]]
      <4>1. m = idx \/ idx < m
        BY <1>2, <3>1
      <4>2. CASE m = idx
        BY <3>1, <3>2, <4>2
      <4>3. CASE idx < m
        BY <1>2, <3>1, <3>2, <4>3 DEF Precedes
      <4>4. QED
        BY <4>1, <4>2, <4>3
    <3>5. times[j] = cur \/ (times[j] > cur /\ times[j] - cur < Half(width))
      BY DEF Window, Within, Emission
    <3>6. QED
      BY <1>2, <2>1, <3>2, <3>3, <3>4, <3>5
  <2>3. FitsWindow(Emission(0))
    BY <2>2 DEF FitsWindow, Emission
  <2>4. ASSUME NEW m \in 1..(idx' - 1) PROVE times[idxs[m]] < cur + width
    <3>1. times[idxs[m]] < cur
      BY <1>1, <1>3 DEF IInv, FillInv, Behind
    <3>2. m \in 1..Len(idxs)
      BY <1>1, <1>2
    <3>3. times[idxs[m]] \in Int
      BY <1>2, <3>2
    <3>4. QED
      BY <1>2, <1>3, <3>1, <3>3
  <2>5. QED
    BY <2>3, <2>4
<1>4. QED
  BY <1>1, <1>2, <1>3, EmitInv

-------------------------------------------------------------------------------
LEMMA InitInv == Init => IInv
<1> SUFFICES ASSUME Init PROVE IInv
  OBVIOUS
<1>1. PICK r \in Requests : call = r.call /\ in = r.rows
  BY DEF Init
<1>2. [call |-> call, rows |-> in] \in Requests
  <2>1. r \in [call : Call, rows : Seq(Row)]
    BY TimesAssumption
  <2>2. r = [call |-> call, rows |-> in]
    BY <1>1, <2>1
  <2>3. QED
    BY <2>2
<1>3. /\ pc = "built" /\ right = <<>> /\ buckets = [k \in Keys |-> <<>>]
      /\ filled = {} /\ idxs = <<>> /\ idx = 1 /\ cur = Zero /\ last = 0
      /\ starts = <<>> /\ emitted = <<>> /\ pairs = <<>>
  BY DEF Init
<1>4. in \in Seq(Row) /\ Len(in) \in Nat
  BY <1>2, CallFacts
<1>5. TypeOK
  BY <1>2, <1>3, TimesAssumption DEF TypeOK
<1>6. PlaceInv /\ StartsInv /\ JoinInv
  BY <1>3, <1>4 DEF PlaceInv, StartsInv, JoinInv, Nearest
<1>7. FillInv
  BY <1>3 DEF FillInv, Given
<1>8. QED
  BY <1>5, <1>6, <1>7 DEF IInv

LEMMA StutterInv == IInv /\ UNCHANGED vars => IInv'
<1> SUFFICES ASSUME IInv, UNCHANGED vars PROVE IInv'
  OBVIOUS
<1>1. /\ UNCHANGED <<call, in, pc, right, buckets, filled, idxs, idx, cur, last, starts,
                     emitted, pairs>>
      /\ width' = width /\ times' = times /\ key' = key
      /\ \A q : From(q)' = From(q) /\ To(q)' = To(q)
      /\ \A x : FitsWindow(x)' = FitsWindow(x) /\ Dated(x)' = Dated(x)
      /\ \A t : BucketStart(t)' = BucketStart(t)
  BY InputStays DEF vars, key
<1>2. TypeOK' /\ PlaceInv' /\ StartsInv'
  BY <1>1 DEF IInv, TypeOK, PlaceInv, StartsInv
<1>3. JoinInv'
  BY <1>1, NearestStays DEF IInv, JoinInv
<1>4. Given' <=> Given
  <2>1. \A n : Begins(n)' = Begins(n) /\ Ends(n)' = Ends(n)
    BY <1>1 DEF Begins, Ends
  <2>2. \A n : (OnGrid(n)' <=> OnGrid(n)) /\ (FilledFrom(n)' <=> FilledFrom(n))
    BY <1>1, <2>1 DEF OnGrid, FilledFrom
  <2>3. \A k : Answered(k)' <=> Answered(k)
    BY <1>1 DEF Answered
  <2>4. QED
    BY <1>1, <2>2, <2>3 DEF Given
<1>5. (Sorted' <=> Sorted) /\ (Behind' <=> Behind) /\ (InStep' <=> InStep)
  BY <1>1 DEF Sorted, Behind, InStep, Begun
<1>6. FillInv'
  BY <1>1, <1>4, <1>5 DEF IInv, FillInv
<1>7. QED
  BY <1>2, <1>3, <1>6 DEF IInv

LEMMA NextInv == IInv /\ [Next]_vars => IInv'
BY BuildInv, BucketInv, StopInv, BeginGroupInv, SkipRowInv, EmitRowInv,
   EmitSyntheticInv, EndGroupInv, FetchInv, JoinStep, StutterInv DEF Next

(***************************************************************************)
(* The inductive invariant holds throughout, for any rows and any stage.   *)
(***************************************************************************)
THEOREM Invariance == Spec => []IInv
<1>1. Init => IInv
  BY InitInv
<1>2. IInv /\ [Next]_vars => IInv'
  BY NextInv
<1>3. QED
  BY <1>1, <1>2, PTL DEF Spec

(***************************************************************************)
(* Every variable keeps its type: the indexes stay inside the rows.        *)
(***************************************************************************)
THEOREM TypeCorrect == Spec => []TypeOK
<1>1. IInv => TypeOK
  BY DEF IInv
<1>2. QED
  BY <1>1, Invariance, PTL

(***************************************************************************)
(* The inductive part of the property: each start is what bucketStart      *)
(* answers, as it is written.                                              *)
(***************************************************************************)
LEMMA StartsAreRight == TypeOK /\ StartsInv => InBucket
<1> SUFFICES ASSUME TypeOK, StartsInv, width > 0,
                    NEW i \in DOMAIN starts, Reached(in[i].time)
    PROVE  LET s == starts[i]
               t == in[i].time
           IN  /\ s = Written(Start(t))
               /\ WholeSeconds => s <= t /\ t < s + width /\ (s - call.origin) % width = 0
               /\ width >= Second =>
                    \A j \in DOMAIN starts : Reached(in[j].time) =>
                       (s = starts[j] <=> Start(t) = Start(in[j].time))
  BY DEF InBucket
<1> DEFINE t == in[i].time
<1>1. call \in Call /\ width \in Int
  BY TypeFacts
<1>2. ASSUME NEW j \in DOMAIN starts, Reached(in[j].time)
      PROVE  in[j].time \in Int /\ starts[j] = Written(Start(in[j].time))
  <2>1. in[j].time \in Int /\ starts[j] = Written(BucketStart(in[j].time))
    BY DEF StartsInv
  <2>2. BucketStart(in[j].time) = Start(in[j].time)
    BY <1>1, <1>2, <2>1, BucketStartRight
  <2>3. QED
    BY <2>1, <2>2
<1>3. t \in Int /\ starts[i] = Written(Start(t))
  BY <1>2
<1> HIDE DEF t
<1>4. /\ Start(t) \in Int /\ Start(t) <= t /\ t < Start(t) + width
      /\ (Start(t) - call.origin) % width = 0
      /\ WholeSeconds => Start(t) % Second = 0
  BY <1>1, <1>3, StartFacts
<1>5. ASSUME WholeSeconds
      PROVE  /\ starts[i] <= t /\ t < starts[i] + width
             /\ (starts[i] - call.origin) % width = 0
  <2>1. starts[i] = Start(t)
    BY <1>3, <1>4, <1>5, WrittenFacts
  <2>2. QED
    BY <1>4, <2>1
<1>6. ASSUME width >= Second, NEW j \in DOMAIN starts, Reached(in[j].time)
      PROVE  starts[i] = starts[j] <=> Start(t) = Start(in[j].time)
  <2> DEFINE u == in[j].time
  <2>1. u \in Int /\ starts[j] = Written(Start(u))
    BY <1>2, <1>6
  <2> HIDE DEF u
  <2>2. Start(u) \in Int
    BY <1>1, <2>1, StartFacts
  <2>3. /\ Start(t) < Start(u) => Start(t) + width <= Start(u)
        /\ Start(u) < Start(t) => Start(u) + width <= Start(t)
    BY <1>1, <1>3, <2>1, StartFacts
  <2>4. /\ Written(Start(t)) \in Int /\ Written(Start(u)) \in Int
        /\ Written(Start(t)) <= Start(t) /\ Start(t) < Written(Start(t)) + Second
        /\ Written(Start(u)) <= Start(u) /\ Start(u) < Written(Start(u)) + Second
    BY <1>4, <2>2, WrittenFacts
  <2>5. Second \in Nat
    BY TimesAssumption
  <2>6. Start(t) # Start(u) => Written(Start(t)) # Written(Start(u))
    BY <1>1, <1>4, <1>6, <2>2, <2>3, <2>4, <2>5
  <2>7. QED
    BY <1>3, <2>1, <2>6 DEF u
<1>7. QED
  BY <1>3, <1>5, <1>6 DEF t

(***************************************************************************)
(* timeBucket writes, to the second, the start of the bucket that holds    *)
(* the row's time, for times on either side of the origin; with intervals  *)
(* of a second or more, one start for each bucket.                         *)
(***************************************************************************)
THEOREM RowsInBuckets == Spec => []InBucket
<1>1. IInv => InBucket
  BY StartsAreRight DEF IInv
<1>2. QED
  BY <1>1, Invariance, PTL

(***************************************************************************)
(* The first row of the window is the first of those close, if there are   *)
(* any.                                                                    *)
(***************************************************************************)
LEMMA FitsIsTaken ==
    ASSUME TypeOK, width > 0, NEW e \in Emitted, FitsWindow(e)
    PROVE  Taken(e)
<1>1. /\ width \in Int /\ Second \in Nat \ {0} /\ e.at \in Int
      /\ times \in [DOMAIN in -> Int]
  BY TypeFacts, TimesAssumption DEF Emitted
<1>2. Half(width) \in Nat
  BY <1>1, HalfBounds
<1>3. Close(e) \subseteq Window(e)
  BY <1>1, <1>2 DEF Close, Window, Within, Of
<1>4. CASE e.row = 0
  BY <1>3, <1>4 DEF FitsWindow, Taken
<1>5. CASE e.row # 0
  BY <1>3, <1>5 DEF FitsWindow, Taken
<1>6. QED
  BY <1>4, <1>5

(***************************************************************************)
(* gapfill answers every time of every partition's grid once and in order, *)
(* with the partition's earliest row close to it or, if there is none, a   *)
(* synthetic row, dated to the second and filled from the row before it.   *)
(***************************************************************************)
THEOREM GapsAreFilled == Spec => []GapsFilled
<1>1. IInv => GapsFilled
  <2> SUFFICES ASSUME IInv, width > 0 PROVE
        /\ \A n \in DOMAIN emitted :
              Taken(emitted[n]) /\ Dated(emitted[n]) /\ OnGrid(n) /\ FilledFrom(n)
        /\ \A m, n \in DOMAIN emitted :
              m < n /\ emitted[m].row # 0 => emitted[m].row # emitted[n].row
        /\ pc = "done" /\ call.op = "gapfill" =>
              \A i \in DOMAIN in : Answered(in[i].key)
    BY DEF GapsFilled
  <2>1. FillInv /\ Given /\ TypeOK
    BY DEF IInv, FillInv
  <2>2. \A n \in DOMAIN emitted : Taken(emitted[n])
    <3>1. \A n \in DOMAIN emitted : emitted[n] \in Emitted /\ FitsWindow(emitted[n])
      BY <2>1 DEF Given, TypeOK
    <3>2. QED
      BY <2>1, <3>1, FitsIsTaken
  <2>3. QED
    BY <2>1, <2>2 DEF FillInv, Given
<1>2. QED
  BY <1>1, Invariance, PTL

(***************************************************************************)
(* asofJoin pairs every left row with the nearest right row of its key on  *)
(* the side asked for and within the tolerance, but for the two cases the  *)
(* property leaves open.                                                   *)
(***************************************************************************)
THEOREM PairsAreNearest == Spec => []Nearest
<1>1. IInv => Nearest
  BY DEF IInv, JoinInv
<1>2. QED
  BY <1>1, Invariance, PTL
===============================================================================
