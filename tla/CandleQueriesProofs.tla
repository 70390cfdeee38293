------------------------- MODULE CandleQueriesProofs -------------------------
(***************************************************************************)
(* Proofs about the candle queries, for every limit and any number of      *)
(* candles.                                                                *)
(***************************************************************************)
EXTENDS CandleQueries, TLAPS, FiniteSetTheorems, SequenceTheorems

-----------------------------------------------------------------------------
(* The inductive invariant *)

Ascending(q) == \A i, j \in DOMAIN q : i < j => q[i] < q[j]

\* q holds every candle of S between any two of its own.
Convex(S, q) ==
    \A t \in S : \A x, y \in ToSet(q) : x <= t /\ t <= y => t \in ToSet(q)

\* q may be shown when S is stored: stored candles, in order and without a hole.
Shown(S, q) == q \in Seq(Times) /\ Ascending(q) /\ ToSet(q) \subseteq S /\ Convex(S, q)

\* The page before chart c reaches up to it, though candles arrived meanwhile.
PageAnswer(S, c, q) ==
    /\ Shown(S, q)
    /\ c # <<>> =>
           /\ \A x \in ToSet(q) : x < c[1]
           /\ \A t \in S : t < c[1] => t \in ToSet(q) \/ \A x \in ToSet(q) : t < x

\* A range starts with the newest candle of chart c.
RangeAnswer(S, c, q) == Shown(S, q) /\ c # <<>> /\ q # <<>> /\ q[1] = Last(c)

PageRequest(c) == [kind |-> "page", limit |-> ChartLimit, from |-> Undefined,
                   to |-> IF c = <<>> THEN Undefined ELSE c[1]]
RangeRequest(c) == [kind |-> "range", limit |-> ChartLimit, from |-> Last(c), to |-> MaxTime]

\* The chart waits for its answer before it changes, so its request r is about the chart
\* as it is.
RequestInv(S, c, r) ==
    \/ r = NoRequest
    \/ r = PageRequest(c)
    \/ c # <<>> /\ r = RangeRequest(c)
    \/ /\ r.kind = "answered" /\ r.range \in BOOLEAN
       /\ r.range => RangeAnswer(S, c, r.data)
       /\ ~r.range => PageAnswer(S, c, r.data)

\* What NoHoles says of the other caller's answer.
RangeComplete ==
    (answer.status = "ok" /\ answer.query.from > 0 /\ answer.query.to > 0) =>
        \A t \in {u \in answer.at : answer.query.from <= u /\ u <= answer.query.to} :
            \/ t \in ToSet(answer.data)
            \/ /\ Len(answer.data) >= Min({RangeLimit, ParseLimit(answer.query.limit)})
               /\ Last(answer.data) < t

IInv == /\ stored \subseteq Times /\ stored # {}
        /\ Shown(stored, chart) /\ RequestInv(stored, chart, request) /\ RangeComplete

-----------------------------------------------------------------------------
(* ORDER BY *)

\* The rows that come before t.
Before(S, desc, t) == {u \in S : IF desc THEN u > t ELSE u < t}

\* A row that comes before another has a smaller rank.
LEMMA RankMonotone ==
    ASSUME NEW S, S \subseteq Int, IsFiniteSet(S), NEW desc \in BOOLEAN
    PROVE  /\ \A t \in S : Cardinality(Before(S, desc, t)) \in 0..(Cardinality(S) - 1)
           /\ \A u \in S : \A t \in Before(S, desc, u) :
                  Cardinality(Before(S, desc, t)) < Cardinality(Before(S, desc, u))
  <1> DEFINE B(t) == Before(S, desc, t)
  <1>1. ASSUME NEW t \in S, NEW R \in SUBSET S, B(t) \cup {t} \subseteq R
        PROVE  /\ Cardinality(B(t)) \in Nat /\ Cardinality(R) \in Nat
               /\ Cardinality(B(t)) < Cardinality(R)
    <2>1. IsFiniteSet(B(t)) /\ t \notin B(t)
      BY FS_Subset DEF Before
    <2>2. IsFiniteSet(B(t) \cup {t}) /\ Cardinality(B(t) \cup {t}) = Cardinality(B(t)) + 1
      BY <2>1, FS_AddElement
    <2>3. IsFiniteSet(R)
      BY FS_Subset
    <2>4. Cardinality(B(t) \cup {t}) <= Cardinality(R)
      BY <1>1, <2>3, FS_Subset
    <2>5. Cardinality(B(t)) \in Nat /\ Cardinality(R) \in Nat
      BY <2>1, <2>3, FS_CardinalityType
    <2> QED
      BY <2>2, <2>4, <2>5
  <1>2. \A t \in S : B(t) \cup {t} \subseteq S
    BY DEF Before
  <1>3. \A u \in S : \A t \in B(u) : t \in S /\ B(u) \in SUBSET S /\ B(t) \cup {t} \subseteq B(u)
    <2> TAKE u \in S
    <2> TAKE t \in B(u)
    <2>1. t \in S /\ B(u) \in SUBSET S
      BY DEF Before
    <2>2. ASSUME NEW v \in B(t)
          PROVE  v \in B(u)
      <3>1. v \in S /\ v \in Int /\ t \in Int /\ u \in Int
        BY <2>1 DEF Before
      <3>2. IF desc THEN v > t /\ t > u ELSE v < t /\ t < u
        BY DEF Before
      <3>3. IF desc THEN v > u ELSE v < u
        BY <3>1, <3>2
      <3> QED
        BY <3>1, <3>3 DEF Before
    <2> QED
      BY <2>1, <2>2
  <1>4. ASSUME NEW t \in S
        PROVE  Cardinality(B(t)) \in 0..(Cardinality(S) - 1)
    <2>1. /\ Cardinality(B(t)) \in Nat /\ Cardinality(S) \in Nat
          /\ Cardinality(B(t)) < Cardinality(S)
      BY <1>1, <1>2
    <2> QED
      BY <2>1
  <1>5. ASSUME NEW u \in S, NEW t \in B(u)
        PROVE  Cardinality(B(t)) < Cardinality(B(u))
    BY <1>1, <1>3
  <1> QED
    BY <1>4, <1>5

\* ORDER BY returns every row once, and in order.
LEMMA OrderedFacts ==
    ASSUME NEW S, S \subseteq Int, IsFiniteSet(S), NEW desc \in BOOLEAN
    PROVE  /\ Ordered(S, desc) \in Seq(S)
           /\ \A t \in S : \E i \in DOMAIN Ordered(S, desc) : Ordered(S, desc)[i] = t
           /\ \A i, j \in DOMAIN Ordered(S, desc) : i < j =>
                  IF desc THEN Ordered(S, desc)[i] > Ordered(S, desc)[j]
                          ELSE Ordered(S, desc)[i] < Ordered(S, desc)[j]
  <1> DEFINE n == Cardinality(S)
             rank == [t \in S |-> Cardinality(Before(S, desc, t))]
             q == Ordered(S, desc)
  <1>1. n \in Nat
    BY FS_CardinalityType
  <1>2. rank \in [S -> 0..(n - 1)]
    BY RankMonotone
  <1>3. \A u \in S : \A t \in Before(S, desc, u) : t \in S /\ rank[t] < rank[u]
    BY RankMonotone DEF Before
  <1>4. \A t, u \in S : t # u => t \in Before(S, desc, u) \/ u \in Before(S, desc, t)
    BY DEF Before
  <1>5. /\ q = [i \in 1..n |-> CHOOSE t \in S : Cardinality(Before(S, desc, t)) = i - 1]
        /\ \A t \in S : rank[t] = Cardinality(Before(S, desc, t))
    BY DEF Ordered, Before
  <1> HIDE DEF n, rank, q
  <1>6. \A t \in S : rank[t] \in Int
    BY <1>1, <1>2
  <1>7. \A t, u \in S : rank[t] = rank[u] => t = u
    BY <1>3, <1>4, <1>6
  <1>8. \A k \in 0..(n - 1) : \E t \in S : rank[t] = k
    <2>1. rank \in Injection(S, 0..(n - 1))
      BY <1>2, <1>7 DEF Injection, IsInjective
    <2>2. IsFiniteSet(0..(n - 1)) /\ Cardinality(0..(n - 1)) = n
      BY <1>1, FS_Interval
    <2>3. rank \in Surjection(S, 0..(n - 1))
      BY <2>1, <2>2, FS_Injection DEF n
    <2> QED
      BY <2>3 DEF Surjection
  <1>9. \A i \in 1..n : q[i] \in S /\ rank[q[i]] = i - 1
    <2> TAKE i \in 1..n
    <2>1. \E t \in S : Cardinality(Before(S, desc, t)) = i - 1
      BY <1>1, <1>5, <1>8
    <2>2. q[i] = CHOOSE t \in S : Cardinality(Before(S, desc, t)) = i - 1
      BY <1>5
    <2>3. q[i] \in S /\ Cardinality(Before(S, desc, q[i])) = i - 1
      BY <2>1, <2>2
    <2> QED
      BY <1>5, <2>3
  <1>10. q \in Seq(S) /\ DOMAIN q = 1..n
    BY <1>1, <1>5, <1>9
  <1>11. ASSUME NEW t \in S
         PROVE  \E i \in DOMAIN q : q[i] = t
    <2>1. rank[t] + 1 \in 1..n
      BY <1>1, <1>2
    <2>2. q[rank[t] + 1] \in S /\ rank[q[rank[t] + 1]] = rank[t]
      BY <1>6, <1>9, <2>1
    <2> QED
      BY <1>7, <1>10, <2>1, <2>2
  <1>12. ASSUME NEW i \in DOMAIN q, NEW j \in DOMAIN q, i < j
         PROVE  q[i] \in Before(S, desc, q[j])
    <2>1. q[i] \in S /\ q[j] \in S /\ rank[q[i]] < rank[q[j]]
      BY <1>1, <1>9, <1>10, <1>12
    <2>2. rank[q[i]] \in Int /\ rank[q[j]] \in Int
      BY <1>6, <2>1
    <2>3. q[i] # q[j]
      BY <2>1, <2>2
    <2>4. q[j] \in Before(S, desc, q[i]) => rank[q[j]] < rank[q[i]]
      BY <1>3, <2>1
    <2>5. q[i] \in Before(S, desc, q[j]) \/ q[j] \in Before(S, desc, q[i])
      BY <1>4, <2>1, <2>3, Zenon
    <2>6. ~(rank[q[j]] < rank[q[i]])
      BY <2>1, <2>2
    <2> QED
      BY <2>4, <2>5, <2>6, Zenon
  <1>13. \A i, j \in DOMAIN q : i < j => IF desc THEN q[i] > q[j] ELSE q[i] < q[j]
    BY <1>12 DEF Before
  <1> QED
    BY <1>10, <1>11, <1>13 DEF q

-----------------------------------------------------------------------------
(* The queries *)

\* The rows a query may return.
Matching(from, to) == {t \in stored : Where(t, from, to)}

\* Times are positive numbers, and so are the limits.
LEMMA Numbers ==
    /\ Times \subseteq Nat \ {0} /\ \A t \in Times : t <= MaxTime
    /\ IsFiniteSet(Times)
    /\ ChartLimit \in Nat \ {0} /\ RangeLimit \in Nat \ {0} /\ MaxTime \in Nat \ {0}
    /\ MaxLimit \in Nat
  BY QueryAssumption, FS_Interval DEF Times

\* Math.min of two numbers.
LEMMA MinOfTwo ==
    ASSUME NEW a \in Nat, NEW b \in Nat
    PROVE  Min({a, b}) = IF a <= b THEN a ELSE b
  <1> DEFINE m == IF a <= b THEN a ELSE b
  <1>1. m \in {a, b} /\ \A y \in {a, b} : m <= y
    OBVIOUS
  <1>2. \A x \in {a, b} : (\A y \in {a, b} : x <= y) => x = m
    OBVIOUS
  <1> QED
    BY <1>1, <1>2 DEF Min

\* p is what LIMIT leaves of the rows.
TakenFrom(S, rows, limit, p) ==
    /\ Len(rows) \in Nat /\ DOMAIN rows = 1..Len(rows)
    /\ p \in Seq(S) /\ Len(p) \in 0..Len(rows) /\ DOMAIN p = 1..Len(p)
    /\ Len(p) = limit \/ Len(p) = Len(rows)
    /\ \A i \in 1..Len(p) : p[i] = rows[i] /\ p[i] \in S

\* LIMIT leaves the first rows.
LEMMA Taken ==
    ASSUME NEW S, NEW rows \in Seq(S), NEW limit \in Nat,
           NEW p, p = SubSeq(rows, 1, Min({limit, Len(rows)}))
    PROVE  TakenFrom(S, rows, limit, p)
  <1> DEFINE n == Min({limit, Len(rows)})
  <1>1. n \in 0..Len(rows) /\ (n = limit \/ n = Len(rows))
    BY MinOfTwo
  <1>2. p = SubSeq(rows, 1, n)
    OBVIOUS
  <1> HIDE DEF n
  <1>3. Len(rows) \in Nat /\ DOMAIN rows = 1..Len(rows) /\ \A i \in 1..Len(rows) : rows[i] \in S
    BY LenProperties, ElementOfSeq
  <1>4. n \in Nat /\ n <= Len(rows) /\ \A i \in 1..n : rows[i] \in S
    <2>1. \A N \in Nat : n \in 0..N => n \in Nat /\ n <= N /\ \A i \in 1..n : i \in 1..N
      OBVIOUS
    <2>2. n \in Nat /\ n <= Len(rows) /\ \A i \in 1..n : i \in 1..Len(rows)
      BY <1>1, <1>3, <2>1, Zenon
    <2> QED
      BY <1>3, <2>2, Zenon
  <1>5. p \in Seq(S) /\ Len(p) = n /\ \A i \in 1..n : p[i] = rows[i]
    <2>1. /\ SubSeq(rows, 1, n) \in Seq(S)
          /\ Len(SubSeq(rows, 1, n)) = IF 1 <= n THEN n - 1 + 1 ELSE 0
          /\ \A i \in 1..(n - 1 + 1) : SubSeq(rows, 1, n)[i] = rows[1 + i - 1]
      BY <1>4, SubSeqProperties
    <2>2. (IF 1 <= n THEN n - 1 + 1 ELSE 0) = n /\ n - 1 + 1 = n
      BY <1>4
    <2>3. \A i \in 1..n : 1 + i - 1 = i
      BY <1>4
    <2> QED
      BY <1>2, <2>1, <2>2, <2>3
  <1>6. DOMAIN p = 1..Len(p)
    BY <1>5, LenProperties
  <1> QED
    BY <1>1, <1>3, <1>4, <1>5, <1>6 DEF TakenFrom

\* The rows that match are finitely many numbers.
LEMMA MatchingFacts ==
    ASSUME stored \subseteq Times, NEW from, NEW to
    PROVE  /\ Matching(from, to) \subseteq Times /\ Matching(from, to) \subseteq Int
           /\ IsFiniteSet(Matching(from, to))
  <1>1. Matching(from, to) \subseteq Times
    BY DEF Matching
  <1>2. Times \subseteq Int /\ IsFiniteSet(Times)
    BY Numbers
  <1>3. IsFiniteSet(Matching(from, to))
    BY <1>1, <1>2, FS_Subset
  <1> QED
    BY <1>1, <1>2, <1>3

\* A range query: the oldest rows of the range, oldest first.
LEMMA FindOldest ==
    ASSUME stored \subseteq Times, NEW from, NEW to, NEW limit \in Nat,
           NEW q, q = Find(from, to, limit, FALSE)
    PROVE  /\ q \in Seq(Times) /\ Ascending(q)
           /\ ToSet(q) \subseteq Matching(from, to)
           /\ \A t \in Matching(from, to) :
                  t \in ToSet(q) \/ (Len(q) = limit /\ \A x \in ToSet(q) : x < t)
  <1> DEFINE W == Matching(from, to)
             rows == Ordered(W, FALSE)
  <1>1. q = SubSeq(rows, 1, Min({limit, Len(rows)}))
    BY DEF Find, Matching
  <1>2. W \subseteq Times /\ W \subseteq Int /\ IsFiniteSet(W)
    BY MatchingFacts
  <1> HIDE DEF W
  <1>3. /\ rows \in Seq(W)
        /\ \A t \in W : \E i \in DOMAIN rows : rows[i] = t
        /\ \A i, j \in DOMAIN rows : i < j => rows[i] < rows[j]
    BY <1>2, OrderedFacts
  <1> HIDE DEF rows
  <1> DEFINE n == Len(q)
             N == Len(rows)
  <1>4. /\ N \in Nat /\ DOMAIN rows = 1..N /\ n \in 0..N /\ DOMAIN q = 1..n
        /\ (n = limit \/ n = N)
        /\ \A i \in 1..n : q[i] = rows[i] /\ q[i] \in W
        /\ q \in Seq(W)
    <2>1. TakenFrom(W, rows, limit, q)
      BY <1>1, <1>3, Taken
    <2> QED
      BY <2>1 DEF TakenFrom
  <1>5. q \in Seq(Times)
    BY <1>2, <1>4, SeqMonotonic
  <1> HIDE DEF n, N
  <1>6. ToSet(q) \subseteq W
    BY <1>4 DEF ToSet
  <1>7. \A i \in 1..n : i \in 1..N
    BY <1>4
  <1>8. Ascending(q)
    BY <1>3, <1>4, <1>7 DEF Ascending
  <1>9. ASSUME NEW t \in W, t \notin ToSet(q)
        PROVE  n = limit /\ \A x \in ToSet(q) : x < t
    <2>1. PICK k \in 1..N : rows[k] = t
      BY <1>3, <1>4
    <2>2. k \notin 1..n
      BY <1>4, <1>9, <2>1 DEF ToSet
    <2>3. k > n /\ n # N
      BY <1>4, <2>2
    <2>4. n = limit
      BY <1>4, <2>3
    <2>5. \A i \in 1..n : i \in 1..N /\ i < k
      BY <1>4, <2>3
    <2>6. \A i \in 1..n : rows[i] < rows[k]
      BY <1>3, <1>4, <2>5
    <2> QED
      BY <1>4, <2>1, <2>4, <2>6 DEF ToSet
  <1> QED
    BY <1>5, <1>6, <1>8, <1>9 DEF W, n

\* A page: the newest rows, oldest first.
LEMMA FindNewest ==
    ASSUME stored \subseteq Times, NEW from, NEW to, NEW limit \in Nat,
           NEW q, q = Find(from, to, limit, TRUE)
    PROVE  /\ q \in Seq(Times) /\ Ascending(q)
           /\ ToSet(q) \subseteq Matching(from, to)
           /\ \A t \in Matching(from, to) :
                  t \in ToSet(q) \/ \A x \in ToSet(q) : t < x
  <1> DEFINE W == Matching(from, to)
             rows == Ordered(W, TRUE)
             p == SubSeq(rows, 1, Min({limit, Len(rows)}))
             n == Len(p)
             m(i) == (n - i) + 1
  <1>1. q = Reverse(p)
    BY DEF Find, Matching
  <1>2. W \subseteq Times /\ W \subseteq Int /\ IsFiniteSet(W)
    BY MatchingFacts
  <1> HIDE DEF W
  <1>3. /\ rows \in Seq(W)
        /\ \A t \in W : \E i \in DOMAIN rows : rows[i] = t
        /\ \A i, j \in DOMAIN rows : i < j => rows[i] > rows[j]
    BY <1>2, OrderedFacts
  <1> HIDE DEF rows
  <1> DEFINE N == Len(rows)
  <1>4. /\ N \in Nat /\ DOMAIN rows = 1..N /\ n \in 0..N
        /\ \A i \in 1..n : p[i] = rows[i] /\ p[i] \in W
    <2>1. TakenFrom(W, rows, limit, p)
      BY <1>3, Taken
    <2> QED
      BY <2>1 DEF TakenFrom
  <1>5. q = [i \in 1..n |-> p[m(i)]]
    BY <1>1 DEF Reverse
  <1> HIDE DEF p, n, N
  <1>6. n \in Nat /\ n <= N
    BY <1>4
  <1>7. \A i \in 1..n : m(i) \in 1..n /\ m(m(i)) = i
    BY <1>6
  <1>8. \A i, j \in 1..n : i < j => m(j) < m(i)
    BY <1>6
  <1>9. \A i \in 1..n : m(i) \in 1..N
    BY <1>4, <1>6, <1>7
  <1> HIDE DEF m
  <1>10. \A i \in 1..n : q[i] = rows[m(i)] /\ q[i] \in W
    BY <1>4, <1>5, <1>7
  <1>11. DOMAIN q = 1..n /\ q \in Seq(Times)
    <2>1. DOMAIN q = 1..n
      BY <1>5
    <2>2. \A i \in 1..n : p[m(i)] \in Times
      BY <1>2, <1>5, <1>10
    <2>3. q \in [1..n -> Times]
      BY <1>5, <2>2
    <2>4. q \in UNION {[1..k -> Times] : k \in Nat}
      BY <1>6, <2>3, Zenon
    <2> QED
      BY <2>1, <2>4, SeqDef, Zenon
  <1>12. ToSet(q) \subseteq W
    BY <1>10, <1>11 DEF ToSet
  <1>13. \A t \in W : t \in Int
    BY <1>2
  <1>14. Ascending(q)
    <2> SUFFICES ASSUME NEW i \in 1..n, NEW j \in 1..n, i < j
                 PROVE  q[i] < q[j]
      BY <1>11 DEF Ascending
    <2>1. m(i) \in DOMAIN rows /\ m(j) \in DOMAIN rows /\ m(j) < m(i)
      BY <1>4, <1>8, <1>9
    <2>2. rows[m(j)] > rows[m(i)]
      BY <1>3, <2>1
    <2>3. q[i] \in Int /\ q[j] \in Int /\ q[j] > q[i]
      BY <1>10, <1>13, <2>2
    <2> QED
      BY <2>3
  <1>15. ASSUME NEW t \in W, t \notin ToSet(q), NEW i \in DOMAIN q
         PROVE  t < q[i]
    <2>1. PICK k \in 1..N : rows[k] = t
      BY <1>3, <1>4
    <2>2. k \notin 1..n
      <3> SUFFICES ASSUME k \in 1..n
                   PROVE  FALSE
        OBVIOUS
      <3>1. m(k) \in 1..n /\ q[m(k)] = rows[m(m(k))] /\ m(m(k)) = k
        BY <1>7, <1>10
      <3>2. q[m(k)] = t /\ m(k) \in DOMAIN q
        BY <1>11, <2>1, <3>1
      <3> QED
        BY <1>15, <3>2 DEF ToSet
    <2>3. i \in 1..n /\ m(i) \in 1..n /\ m(i) \in 1..N
      BY <1>7, <1>9, <1>11
    <2>4. m(i) < k
      BY <1>4, <1>6, <2>2, <2>3
    <2>5. rows[m(i)] > rows[k]
      BY <1>3, <1>4, <2>3, <2>4
    <2>6. q[i] > t /\ q[i] \in Int /\ t \in Int
      BY <1>10, <1>13, <2>1, <2>3, <2>5
    <2> QED
      BY <2>6
  <1>16. \A t \in W : t \notin ToSet(q) => \A x \in ToSet(q) : t < x
    BY <1>15 DEF ToSet
  <1> QED
    BY <1>11, <1>12, <1>14, <1>16 DEF W

-----------------------------------------------------------------------------
(* Sequences of candles *)

\* The ends of an ordered sequence.
LEMMA Ends ==
    ASSUME NEW q \in Seq(Times), Ascending(q), q # <<>>
    PROVE  /\ q[1] \in ToSet(q) /\ Last(q) \in ToSet(q)
           /\ \A x \in ToSet(q) : q[1] <= x /\ x <= Last(q)
           /\ ToSet(q) \subseteq Int
  <1> DEFINE n == Len(q)
  <1>1. n \in Nat \ {0} /\ DOMAIN q = 1..n
    BY EmptySeq, LenProperties
  <1>2. \A i \in 1..n : q[i] \in Int
    <2>1. \A i \in 1..n : q[i] \in Times
      BY ElementOfSeq
    <2>2. \A t \in Times : t \in Int
      BY Numbers
    <2> QED
      BY <2>1, <2>2
  <1>3. Last(q) = q[n]
    BY DEF Last
  <1> HIDE DEF n
  <1>4. 1 \in 1..n /\ n \in 1..n
    BY <1>1
  <1>5. \A i \in 1..n : (i = 1 \/ 1 < i) /\ (i = n \/ i < n)
    BY <1>1
  <1>6. \A i \in 1..n : q[1] <= q[i] /\ q[i] <= q[n]
    <2> TAKE i \in 1..n
    <2>1. (i = 1 \/ q[1] < q[i]) /\ (i = n \/ q[i] < q[n])
      BY <1>1, <1>4, <1>5 DEF Ascending
    <2>2. q[1] \in Int /\ q[i] \in Int /\ q[n] \in Int
      BY <1>2, <1>4
    <2> QED
      BY <2>1, <2>2
  <1> QED
    BY <1>1, <1>2, <1>3, <1>4, <1>6 DEF ToSet

\* Two ordered sequences, one before the other, make an ordered one.
LEMMA Concatenated ==
    ASSUME NEW p \in Seq(Times), NEW q \in Seq(Times), Ascending(p), Ascending(q),
           \A x \in ToSet(p) : \A y \in ToSet(q) : x < y
    PROVE  /\ p \o q \in Seq(Times) /\ Ascending(p \o q)
           /\ ToSet(p \o q) = ToSet(p) \cup ToSet(q)
  <1> DEFINE r == p \o q
             m == Len(p)
             n == Len(q)
  <1>1. /\ r \in Seq(Times) /\ Len(r) = m + n
        /\ \A i \in 1..(m + n) : r[i] = IF i <= m THEN p[i] ELSE q[i - m]
    BY ConcatProperties
  <1>2. m \in Nat /\ n \in Nat /\ DOMAIN p = 1..m /\ DOMAIN q = 1..n
    BY LenProperties
  <1>3. DOMAIN r = 1..(m + n)
    BY <1>1, LenProperties
  <1> HIDE DEF r, m, n
  <1>4. \A i \in 1..(m + n) : i <= m => i \in 1..m
    BY <1>2
  <1>5. \A i \in 1..(m + n) : ~(i <= m) => i - m \in 1..n
    BY <1>2
  <1>6. \A i \in 1..m : i \in 1..(m + n) /\ i <= m
    BY <1>2
  <1>7. \A i \in 1..n : i + m \in 1..(m + n) /\ ~(i + m <= m) /\ (i + m) - m = i
    BY <1>2
  <1>8. \A i \in 1..m : r[i] = p[i]
    BY <1>1, <1>6
  <1>9. \A i \in 1..n : r[i + m] = q[i]
    BY <1>1, <1>7
  <1>10. ToSet(r) = ToSet(p) \cup ToSet(q)
    <2>1. ASSUME NEW i \in 1..(m + n)
          PROVE  r[i] \in ToSet(p) \cup ToSet(q)
      BY <1>1, <1>2, <1>4, <1>5 DEF ToSet
    <2>2. ASSUME NEW i \in 1..m
          PROVE  p[i] \in ToSet(r)
      BY <1>3, <1>6, <1>8 DEF ToSet
    <2>3. ASSUME NEW i \in 1..n
          PROVE  q[i] \in ToSet(r)
      BY <1>3, <1>7, <1>9 DEF ToSet
    <2> QED
      BY <1>2, <1>3, <2>1, <2>2, <2>3 DEF ToSet
  <1>11. ASSUME NEW i \in 1..(m + n), NEW j \in 1..(m + n), i < j
         PROVE  r[i] < r[j]
    <2>1. CASE j <= m
      <3>1. i \in 1..m /\ j \in 1..m
        BY <1>2, <1>11, <2>1
      <3>2. p[i] < p[j]
        BY <1>2, <1>11, <3>1 DEF Ascending
      <3> QED
        BY <1>8, <3>1, <3>2
    <2>2. CASE ~(i <= m)
      <3>1. ~(j <= m) /\ i - m \in 1..n /\ j - m \in 1..n /\ i - m < j - m
        BY <1>2, <1>11, <2>2
      <3>2. q[i - m] < q[j - m]
        BY <1>2, <3>1 DEF Ascending
      <3>3. r[i] = q[i - m] /\ r[j] = q[j - m]
        BY <1>1, <2>2, <3>1
      <3> QED
        BY <3>2, <3>3
    <2>3. CASE i <= m /\ ~(j <= m)
      <3>1. i \in 1..m /\ j - m \in 1..n
        BY <1>4, <1>5, <2>3
      <3>2. r[i] = p[i] /\ r[j] = q[j - m]
        BY <1>1, <2>3
      <3>3. p[i] \in ToSet(p) /\ q[j - m] \in ToSet(q)
        BY <1>2, <3>1 DEF ToSet
      <3> QED
        BY <3>2, <3>3
    <2> QED
      BY <2>1, <2>2, <2>3
  <1>12. Ascending(r)
    BY <1>3, <1>11 DEF Ascending
  <1> QED
    BY <1>1, <1>10, <1>12 DEF r

\* Two sequences without a hole, and with none between them, make one without a hole.
LEMMA Joined ==
    ASSUME NEW S \in SUBSET Times, NEW p, NEW q, Shown(S, p), Shown(S, q),
           \A x \in ToSet(p) : \A y \in ToSet(q) : x < y,
           \A t \in S : \A x \in ToSet(p) : \A y \in ToSet(q) :
               x < t /\ t < y => t \in ToSet(p) \cup ToSet(q)
    PROVE  Shown(S, p \o q)
  <1>1. /\ p \in Seq(Times) /\ q \in Seq(Times) /\ Ascending(p) /\ Ascending(q)
        /\ ToSet(p) \subseteq S /\ ToSet(q) \subseteq S /\ Convex(S, p) /\ Convex(S, q)
    BY DEF Shown
  <1>2. /\ p \o q \in Seq(Times) /\ Ascending(p \o q)
        /\ ToSet(p \o q) = ToSet(p) \cup ToSet(q)
    BY <1>1, Concatenated
  <1>3. \A t \in S : t \in Int
    BY Numbers
  <1>4. ASSUME NEW t \in S, NEW x \in ToSet(p) \cup ToSet(q), NEW y \in ToSet(p) \cup ToSet(q),
               x <= t, t <= y
        PROVE  t \in ToSet(p) \cup ToSet(q)
    <2>1. t \in Int /\ x \in Int /\ y \in Int
      BY <1>1, <1>3
    <2>2. CASE x \in ToSet(p) /\ y \in ToSet(p)
      BY <1>1, <1>4, <2>2 DEF Convex
    <2>3. CASE x \in ToSet(q) /\ y \in ToSet(q)
      BY <1>1, <1>4, <2>3 DEF Convex
    <2>4. CASE x \in ToSet(p) /\ y \in ToSet(q)
      <3>1. x = t \/ t = y \/ (x < t /\ t < y)
        BY <1>4, <2>1
      <3> QED
        BY <2>4, <3>1
    <2>5. CASE x \in ToSet(q) /\ y \in ToSet(p)
      <3>1. y < x
        BY <2>5
      <3> QED
        BY <1>4, <2>1, <3>1
    <2> QED
      BY <2>2, <2>3, <2>4, <2>5
  <1>5. Convex(S, p \o q)
    BY <1>2, <1>4 DEF Convex
  <1>6. ToSet(p \o q) \subseteq S
    BY <1>1, <1>2
  <1> QED
    BY <1>2, <1>5, <1>6 DEF Shown

\* A sequence and its last candle.
LEMMA FrontAndLast ==
    ASSUME NEW q \in Seq(Times), Ascending(q), q # <<>>
    PROVE  /\ Front(q) \in Seq(Times) /\ Ascending(Front(q))
           /\ ToSet(q) = ToSet(Front(q)) \cup {Last(q)}
           /\ \A x \in ToSet(Front(q)) : x < Last(q)
  <1> DEFINE n == Len(q)
             f == Front(q)
  <1>1. n \in Nat \ {0} /\ DOMAIN q = 1..n /\ \A i \in 1..n : q[i] \in Times
    BY EmptySeq, LenProperties, ElementOfSeq
  <1>2. Last(q) = q[n] /\ f = SubSeq(q, 1, n - 1)
    BY DEF Last, Front
  <1> HIDE DEF n, f
  <1>3. n - 1 \in Nat /\ \A i \in 1..(n - 1) : i \in 1..n /\ i < n
    BY <1>1
  <1>4. \A i \in 1..n : i = n \/ i \in 1..(n - 1)
    BY <1>1
  <1>5. n \in 1..n
    BY <1>1
  <1>6. f \in Seq(Times) /\ DOMAIN f = 1..(n - 1) /\ \A i \in 1..(n - 1) : f[i] = q[i]
    <2>1. TakenFrom(Times, q, n - 1, f)
      <3>1. Min({n - 1, n}) = n - 1
        BY <1>1, <1>3, MinOfTwo
      <3> QED
        BY <1>2, <1>3, <3>1, Taken DEF n
    <2>2. Len(f) = n - 1
      <3>1. \A i \in 1..(n - 1) : q[i] \in Times
        BY <1>1, <1>3
      <3> QED
        BY <1>2, <1>3, <3>1, SubSeqProperties
    <2> QED
      BY <2>1, <2>2 DEF TakenFrom
  <1>7. Ascending(f)
    BY <1>1, <1>3, <1>6 DEF Ascending
  <1>8. ToSet(q) = ToSet(f) \cup {q[n]}
    BY <1>1, <1>3, <1>4, <1>5, <1>6 DEF ToSet
  <1>9. \A i \in 1..(n - 1) : f[i] < q[n]
    BY <1>1, <1>3, <1>5, <1>6 DEF Ascending
  <1> QED
    BY <1>2, <1>6, <1>7, <1>8, <1>9 DEF f, ToSet

-----------------------------------------------------------------------------
(* The chart's requests *)

\* The query of a page asks for the newest candles, or for the newest before the chart.
LEMMA PageQuery ==
    ASSUME Shown(stored, chart), request = PageRequest(chart)
    PROVE  /\ GetCandles(request) = Find(Undefined, request.to, ChartLimit + 1, TRUE)
           /\ chart # <<>> => chart[1] \in Times /\ request.to = chart[1]
           /\ chart = <<>> => request.to = Undefined
  <1>1. request.limit = ChartLimit /\ request.from = Undefined
    BY DEF PageRequest
  <1>2. /\ chart # <<>> => chart[1] \in Times /\ request.to = chart[1]
        /\ chart = <<>> => request.to = Undefined
    <2>1. request.to = IF chart = <<>> THEN Undefined ELSE chart[1]
      BY DEF PageRequest
    <2>2. chart # <<>> => chart[1] \in Times
      <3>1. chart \in Seq(Times)
        BY DEF Shown
      <3>2. chart # <<>> => Len(chart) \in Nat \ {0}
        BY <3>1, EmptySeq
      <3>3. chart # <<>> => 1 \in 1..Len(chart)
        BY <3>2
      <3> QED
        BY <3>1, <3>3, ElementOfSeq
    <2> QED
      BY <2>1, <2>2
  <1>3. ParseLimit(request.limit) = ChartLimit
    BY <1>1, Numbers DEF ParseLimit, Undefined
  <1>4. Truthy(request.from) = Undefined /\ Truthy(request.to) = request.to
    <2>1. request.from # 0 /\ request.to # 0
      BY <1>1, <1>2, Numbers DEF Undefined
    <2> QED
      BY <1>1, <2>1 DEF Truthy
  <1>5. ~(request.from # Undefined /\ request.to # Undefined)
    BY <1>1
  <1>6. (~(request.from # Undefined /\ request.to # Undefined)) = TRUE
    BY <1>5
  <1> HIDE DEF Undefined
  <1>7. GetCandles(request) = Find(Undefined, request.to, ChartLimit + 1, TRUE)
    BY <1>3, <1>4, <1>5, <1>6 DEF GetCandles
  <1> QED
    BY <1>2, <1>7

\* A page can be put before the chart.
LEMMA PageIsAnswer ==
    ASSUME stored \subseteq Times, Shown(stored, chart), request = PageRequest(chart),
           NEW q, q = GetCandles(request)
    PROVE  PageAnswer(stored, chart, q)
  <1> DEFINE W == Matching(Undefined, request.to)
  <1>1. /\ q = Find(Undefined, request.to, ChartLimit + 1, TRUE)
        /\ chart # <<>> => chart[1] \in Times /\ request.to = chart[1]
        /\ chart = <<>> => request.to = Undefined
    BY PageQuery
  <1>2. ChartLimit + 1 \in Nat
    BY Numbers
  <1>3. /\ q \in Seq(Times) /\ Ascending(q) /\ ToSet(q) \subseteq W
        /\ \A t \in W : t \in ToSet(q) \/ \A x \in ToSet(q) : t < x
    BY <1>1, <1>2, FindNewest
  <1>4. chart # <<>> => chart[1] # Undefined
    BY <1>1, Numbers DEF Undefined
  <1>5. \A t \in stored : t \in W <=> (chart # <<>> => t < chart[1])
    BY <1>1, <1>4 DEF Matching, Where
  <1>6. W \subseteq stored
    BY DEF Matching
  <1> HIDE DEF W
  <1>7. \A t \in stored : t \in Int
    BY Numbers
  <1>8. chart # <<>> => chart[1] \in Int
    <2>1. \A t \in Times : t \in Int
      BY Numbers
    <2> QED
      BY <1>1, <2>1
  <1>9. ASSUME NEW t \in stored, NEW x \in ToSet(q), NEW y \in ToSet(q), x <= t, t <= y
        PROVE  t \in ToSet(q)
    <2>1. t \in Int /\ x \in Int /\ y \in Int /\ y \in stored /\ y \in W
      BY <1>3, <1>6, <1>7
    <2>2. chart # <<>> => t < chart[1]
      BY <1>5, <1>8, <1>9, <2>1
    <2>3. t \in W
      BY <1>5, <2>2
    <2>4. ~(t < x)
      BY <1>9, <2>1
    <2> QED
      BY <1>3, <2>3, <2>4
  <1>10. Shown(stored, q)
    BY <1>3, <1>6, <1>9 DEF Shown, Convex
  <1>11. ASSUME chart # <<>>
         PROVE  /\ \A x \in ToSet(q) : x < chart[1]
                /\ \A t \in stored : t < chart[1] => t \in ToSet(q) \/ \A x \in ToSet(q) : t < x
    BY <1>3, <1>5, <1>6, <1>11
  <1> QED
    BY <1>10, <1>11 DEF PageAnswer

\* A query with both bounds asks for the oldest candles between them.
LEMMA RangeQuery ==
    ASSUME NEW q, ParseLimit(q.limit) \in Nat \ {0},
           q.from \in Nat \ {0}, q.to \in Nat \ {0}
    PROVE  \E limit \in Nat \ {0} :
               /\ limit = RangeLimit \/ limit = ParseLimit(q.limit) + 1
               /\ GetCandles(q) = Find(q.from, q.to, limit, FALSE)
  <1>1. q.from # Undefined /\ q.to # Undefined /\ q.from # 0 /\ q.to # 0
    BY DEF Undefined
  <1>2. Truthy(q.from) = q.from /\ Truthy(q.to) = q.to
    BY <1>1 DEF Truthy
  <1>3. (~(q.from # Undefined /\ q.to # Undefined)) = FALSE
    BY <1>1
  <1>4. CASE timeframe = "1D"
    <2>1. GetCandles(q) = Find(q.from, q.to, ParseLimit(q.limit) + 1, FALSE)
      BY <1>2, <1>3, <1>4 DEF GetCandles
    <2>2. ParseLimit(q.limit) + 1 \in Nat \ {0}
      OBVIOUS
    <2> QED
      BY <2>1, <2>2
  <1>5. CASE timeframe # "1D"
    <2>1. GetCandles(q) = Find(q.from, q.to, RangeLimit, FALSE)
      BY <1>1, <1>5 DEF GetCandles
    <2> QED
      BY <2>1, Numbers
  <1> QED
    BY <1>4, <1>5

\* What a query with both bounds leaves out is newer than what it returns.
LEMMA RangeRows ==
    ASSUME stored \subseteq Times, NEW q, ParseLimit(q.limit) \in Nat \ {0},
           q.from \in Nat \ {0}, q.to \in Nat \ {0}, NEW d, d = GetCandles(q)
    PROVE  /\ d \in Seq(Times) /\ Ascending(d)
           /\ ToSet(d) \subseteq {t \in stored : q.from <= t /\ t <= q.to}
           /\ \A t \in stored : q.from <= t /\ t <= q.to =>
                  \/ t \in ToSet(d)
                  \/ /\ Len(d) = RangeLimit \/ Len(d) = ParseLimit(q.limit) + 1
                     /\ d # <<>> /\ \A x \in ToSet(d) : x < t
  <1>1. PICK limit \in Nat \ {0} :
               /\ limit = RangeLimit \/ limit = ParseLimit(q.limit) + 1
               /\ d = Find(q.from, q.to, limit, FALSE)
    BY RangeQuery
  <1> DEFINE W == Matching(q.from, q.to)
  <1>2. /\ d \in Seq(Times) /\ Ascending(d) /\ ToSet(d) \subseteq W
        /\ \A t \in W : t \in ToSet(d) \/ (Len(d) = limit /\ \A x \in ToSet(d) : x < t)
    BY <1>1, FindOldest
  <1>3. q.from # Undefined /\ q.to # Undefined
    BY DEF Undefined
  <1>4. W = {t \in stored : q.from <= t /\ t <= q.to}
    BY <1>3 DEF Matching, Where
  <1> HIDE DEF W
  <1>5. Len(d) = limit => d # <<>>
    <2>1. Len(<<>>) = 0
      OBVIOUS
    <2> QED
      BY <1>1, <2>1
  <1> QED
    BY <1>1, <1>2, <1>4, <1>5

\* A range can replace the newest candle of the chart.
LEMMA RangeIsAnswer ==
    ASSUME stored \subseteq Times, Shown(stored, chart), chart # <<>>,
           request = RangeRequest(chart), NEW q, q = GetCandles(request)
    PROVE  RangeAnswer(stored, chart, q)
  <1> DEFINE l == Last(chart)
             W == {t \in stored : l <= t /\ t <= MaxTime}
  <1>1. request.limit = ChartLimit /\ request.from = l /\ request.to = MaxTime
    BY DEF RangeRequest
  <1>2. l \in ToSet(chart) /\ l \in stored
    BY Ends DEF Shown
  <1> HIDE DEF l
  <1>3. l \in Times /\ l \in Nat \ {0} /\ MaxTime \in Nat \ {0}
    BY <1>2, Numbers
  <1>4. ParseLimit(request.limit) = ChartLimit /\ ChartLimit \in Nat \ {0}
    BY <1>1, Numbers DEF ParseLimit, Undefined
  <1>5. /\ q \in Seq(Times) /\ Ascending(q) /\ ToSet(q) \subseteq W
        /\ \A t \in stored : l <= t /\ t <= MaxTime =>
               t \in ToSet(q) \/ (q # <<>> /\ \A x \in ToSet(q) : x < t)
    <2>1. /\ q \in Seq(Times) /\ Ascending(q)
          /\ ToSet(q) \subseteq {t \in stored : request.from <= t /\ t <= request.to}
          /\ \A t \in stored : request.from <= t /\ t <= request.to =>
                 \/ t \in ToSet(q)
                 \/ /\ Len(q) = RangeLimit \/ Len(q) = ParseLimit(request.limit) + 1
                    /\ q # <<>> /\ \A x \in ToSet(q) : x < t
      BY <1>1, <1>3, <1>4, RangeRows
    <2> QED
      BY <1>1, <2>1
  <1>6. \A t \in stored : t \in Int /\ t <= MaxTime
    BY Numbers
  <1>7. l \in ToSet(q)
    <2> SUFFICES ASSUME l \notin ToSet(q)
                 PROVE  FALSE
      OBVIOUS
    <2>1. l <= l /\ l <= MaxTime
      BY <1>2, <1>6
    <2>2. q # <<>> /\ \A x \in ToSet(q) : x < l
      BY <1>2, <1>5, <2>1
    <2>3. q[1] \in ToSet(q)
      BY <1>5, <2>2, Ends
    <2>4. q[1] < l /\ l <= q[1] /\ q[1] \in Int /\ l \in Int
      BY <1>2, <1>5, <1>6, <2>2, <2>3
    <2> QED
      BY <2>4
  <1>8. q # <<>>
    BY <1>7 DEF ToSet
  <1>9. q[1] = l
    <2>1. q[1] \in ToSet(q) /\ q[1] <= l
      BY <1>5, <1>7, <1>8, Ends
    <2>2. l <= q[1] /\ q[1] \in Int /\ l \in Int
      BY <1>2, <1>5, <1>6, <2>1
    <2> QED
      BY <2>1, <2>2
  <1>10. ASSUME NEW t \in stored, NEW x \in ToSet(q), NEW y \in ToSet(q), x <= t, t <= y
         PROVE  t \in ToSet(q)
    <2>1. /\ t \in Int /\ t <= MaxTime /\ x \in Int /\ y \in Int /\ l \in Int /\ l <= x
      BY <1>2, <1>5, <1>6
    <2>2. l <= t /\ ~(y < t)
      BY <1>10, <2>1
    <2> QED
      BY <1>5, <2>1, <2>2
  <1>11. Shown(stored, q)
    BY <1>5, <1>10 DEF Shown, Convex
  <1> QED
    BY <1>8, <1>9, <1>11 DEF RangeAnswer, l

\* The chart with an older page before it.
LEMMA PageJoined ==
    ASSUME NEW S \in SUBSET Times, NEW c, NEW q, Shown(S, c), PageAnswer(S, c, q)
    PROVE  Shown(S, q \o c)
  <1>1. /\ c \in Seq(Times) /\ Ascending(c) /\ ToSet(c) \subseteq S /\ Convex(S, c)
        /\ Shown(S, q) /\ ToSet(q) \subseteq S
    BY DEF Shown, PageAnswer
  <1>2. \A t \in S : t \in Int
    BY Numbers
  <1>3. \A y \in ToSet(c) : c # <<>> /\ c[1] \in ToSet(c) /\ c[1] <= y
    <2>1. \A y \in ToSet(c) : c # <<>>
      BY DEF ToSet
    <2>2. c # <<>> => c[1] \in ToSet(c) /\ \A y \in ToSet(c) : c[1] <= y
      BY <1>1, Ends
    <2> QED
      BY <2>1, <2>2
  <1>4. ASSUME NEW x \in ToSet(q), NEW y \in ToSet(c)
        PROVE  x < y
    <2>1. c[1] <= y /\ x < c[1] /\ x \in Int /\ y \in Int /\ c[1] \in Int
      BY <1>1, <1>2, <1>3 DEF PageAnswer
    <2> QED
      BY <2>1
  <1>5. ASSUME NEW t \in S, NEW x \in ToSet(q), NEW y \in ToSet(c), x < t, t < y
        PROVE  t \in ToSet(q) \cup ToSet(c)
    <2>1. t \in Int /\ x \in Int /\ y \in Int /\ c[1] \in Int
      BY <1>1, <1>2, <1>3
    <2>2. CASE t < c[1]
      <3>1. ~(t < x)
        BY <1>5, <2>1
      <3>2. t \in ToSet(q) \/ \A z \in ToSet(q) : t < z
        BY <1>3, <2>2 DEF PageAnswer
      <3> QED
        BY <3>1, <3>2
    <2>3. CASE ~(t < c[1])
      <3>1. c[1] <= t /\ t <= y
        BY <1>5, <2>1, <2>3
      <3> QED
        BY <1>1, <1>3, <3>1 DEF Convex
    <2> QED
      BY <2>2, <2>3
  <1> QED
    BY <1>1, <1>4, <1>5, Joined

\* The chart with a range in the place of its newest candle.
LEMMA RangeJoined ==
    ASSUME NEW S \in SUBSET Times, NEW c, NEW q, Shown(S, c), RangeAnswer(S, c, q)
    PROVE  Shown(S, Front(c) \o q)
  <1> DEFINE f == Front(c)
             l == Last(c)
  <1>1. /\ c \in Seq(Times) /\ Ascending(c) /\ ToSet(c) \subseteq S /\ Convex(S, c) /\ c # <<>>
        /\ q \in Seq(Times) /\ Ascending(q) /\ ToSet(q) \subseteq S /\ Convex(S, q) /\ q # <<>>
        /\ Shown(S, q) /\ q[1] = l
    BY DEF Shown, RangeAnswer
  <1>2. \A t \in S : t \in Int
    BY Numbers
  <1>3. /\ f \in Seq(Times) /\ Ascending(f) /\ ToSet(c) = ToSet(f) \cup {l}
        /\ \A x \in ToSet(f) : x < l
    BY <1>1, FrontAndLast
  <1>4. l \in ToSet(q) /\ \A y \in ToSet(q) : l <= y
    BY <1>1, Ends
  <1> HIDE DEF f, l
  <1>5. l \in Int
    BY <1>1, <1>2, <1>3
  <1>6. ASSUME NEW t \in S, NEW x \in ToSet(f), x <= t, t < l
        PROVE  t \in ToSet(f)
    <2>1. t \in Int /\ t # l /\ t <= l /\ x \in ToSet(c) /\ l \in ToSet(c)
      BY <1>2, <1>3, <1>5, <1>6
    <2>2. t \in ToSet(c)
      BY <1>1, <1>6, <2>1 DEF Convex
    <2> QED
      BY <1>3, <2>1, <2>2
  <1>7. Shown(S, f)
    <2>1. ASSUME NEW t \in S, NEW x \in ToSet(f), NEW y \in ToSet(f), x <= t, t <= y
          PROVE  t \in ToSet(f)
      <3>1. t \in Int /\ y \in Int /\ y < l
        BY <1>1, <1>2, <1>3
      <3>2. t < l
        BY <1>5, <2>1, <3>1
      <3> QED
        BY <1>6, <2>1, <3>2
    <2>2. Convex(S, f)
      BY <2>1 DEF Convex
    <2> QED
      BY <1>1, <1>3, <2>2 DEF Shown
  <1>8. ASSUME NEW x \in ToSet(f), NEW y \in ToSet(q)
        PROVE  x < y
    <2>1. x < l /\ l <= y /\ x \in Int /\ y \in Int
      BY <1>1, <1>2, <1>3, <1>4
    <2> QED
      BY <1>5, <2>1
  <1>9. ASSUME NEW t \in S, NEW x \in ToSet(f), NEW y \in ToSet(q), x < t, t < y
        PROVE  t \in ToSet(f) \cup ToSet(q)
    <2>1. t \in Int /\ x \in Int /\ y \in Int
      BY <1>1, <1>2, <1>3
    <2>2. x <= t /\ t <= y
      BY <1>9, <2>1
    <2>3. CASE t < l
      BY <1>6, <2>2, <2>3
    <2>4. CASE ~(t < l)
      <3>1. l <= t
        BY <1>5, <2>1, <2>4
      <3> QED
        BY <1>1, <1>4, <2>2, <3>1 DEF Convex
    <2> QED
      BY <2>3, <2>4
  <1>10. Shown(S, f \o q)
    BY <1>1, <1>7, <1>8, <1>9, Joined
  <1> QED
    BY <1>10 DEF f

\* A newer candle opens no hole in what is shown or was answered.
LEMMA NewerCandle ==
    ASSUME NEW S \in SUBSET Times, NEW n \in Times, \A u \in S : u < n,
           NEW c, NEW r, Shown(S, c), RequestInv(S, c, r)
    PROVE  Shown(S \cup {n}, c) /\ RequestInv(S \cup {n}, c, r)
  <1>1. \A t \in S \cup {n} : t \in Int
    BY Numbers
  <1>2. ASSUME NEW q, Shown(S, q)
        PROVE  Shown(S \cup {n}, q)
    <2>1. q \in Seq(Times) /\ Ascending(q) /\ ToSet(q) \subseteq S /\ Convex(S, q)
      BY <1>2 DEF Shown
    <2>2. \A y \in ToSet(q) : ~(n <= y)
      <3> TAKE y \in ToSet(q)
      <3>1. y \in Int /\ n \in Int /\ y < n
        BY <1>1, <2>1
      <3> QED
        BY <3>1
    <2>3. Convex(S \cup {n}, q)
      BY <2>1, <2>2 DEF Convex
    <2> QED
      BY <2>1, <2>3 DEF Shown
  <1>3. ASSUME NEW q, PageAnswer(S, c, q)
        PROVE  PageAnswer(S \cup {n}, c, q)
    <2>1. c # <<>> => c[1] \in S
      BY Ends DEF Shown
    <2>2. c # <<>> => ~(n < c[1])
      BY <1>1, <2>1
    <2> QED
      BY <1>2, <1>3, <2>2 DEF PageAnswer
  <1>4. ASSUME NEW q, RangeAnswer(S, c, q)
        PROVE  RangeAnswer(S \cup {n}, c, q)
    BY <1>2, <1>4 DEF RangeAnswer
  <1> QED
    BY <1>2, <1>3, <1>4, Zenon DEF RequestInv

-----------------------------------------------------------------------------
(* The invariant *)

\* A newer candle is newer than every stored one.
LEMMA NewestStored ==
    ASSUME NEW S \in SUBSET Times, S # {}, NEW t \in Times, t > Max(S)
    PROVE  \A u \in S : u < t
  <1> DEFINE D == {MaxTime - u : u \in S}
  <1>1. \A u \in S : u \in Int /\ MaxTime - u \in Nat
    BY Numbers
  <1>2. D # {} /\ D \in SUBSET Nat
    BY <1>1
  <1>3. PICK d \in D : \A e \in D : <<e, d>> \notin OpToRel(<, Nat)
    BY <1>2, NatLessThanWellFounded, WFMin
  <1>4. \A e \in D : ~(e < d)
    BY <1>2, <1>3 DEF OpToRel
  <1>5. PICK m \in S : d = MaxTime - m
    BY <1>3
  <1>6. \A u \in S : ~(MaxTime - u < MaxTime - m)
    BY <1>4, <1>5
  <1>7. \A u \in S : u <= m
    BY <1>1, <1>6, Numbers
  <1>8. Max(S) \in S /\ \A u \in S : u <= Max(S)
    BY <1>7 DEF Max
  <1>9. Max(S) \in Int /\ t \in Int
    <2>1. t \in Int
      BY Numbers
    <2> QED
      BY <1>1, <1>8, <2>1, Zenon
  <1> QED
    BY <1>1, <1>8, <1>9

\* At the start the chart is empty.
LEMMA InitIInv ==
    ASSUME Init
    PROVE  IInv
  <1>1. stored \subseteq Times /\ stored # {}
    <2>1. PICK t \in 1..2 : stored = {t}
      BY DEF Init
    <2>2. t \in Times
      BY QueryAssumption DEF Times
    <2> QED
      BY <2>1, <2>2
  <1>2. Shown(stored, chart)
    <2>1. chart = <<>> /\ <<>> \in Seq(Times) /\ DOMAIN chart = {}
      BY EmptySeq DEF Init
    <2> QED
      BY <2>1 DEF Shown, Ascending, Convex, ToSet
  <1>3. RequestInv(stored, chart, request)
    BY DEF Init, RequestInv
  <1>4. RangeComplete
    BY DEF Init, RangeComplete
  <1> QED
    BY <1>1, <1>2, <1>3, <1>4 DEF IInv

\* A request has the kind of its query until it is answered.
LEMMA RequestKinds ==
    ASSUME RequestInv(stored, chart, request)
    PROVE  /\ request.kind = "page" => request = PageRequest(chart)
           /\ request.kind = "range" => chart # <<>> /\ request = RangeRequest(chart)
           /\ request.kind = "answered" =>
                  /\ request.range \in BOOLEAN
                  /\ request.range => RangeAnswer(stored, chart, request.data)
                  /\ ~request.range => PageAnswer(stored, chart, request.data)
  <1>1. NoRequest.kind = "none" /\ PageRequest(chart).kind = "page"
        /\ RangeRequest(chart).kind = "range"
    BY DEF NoRequest, PageRequest, RangeRequest
  <1> QED
    BY <1>1 DEF RequestInv

\* The chart's query, its answer and a newer candle keep the invariant of the chart.
LEMMA ChartStep ==
    ASSUME IInv, AskPage \/ AskRange \/ QueryRuns \/ AnswerShown \/ \E t \in Times : Insert(t)
    PROVE  /\ stored' \subseteq Times /\ stored' # {}
           /\ Shown(stored', chart') /\ RequestInv(stored', chart', request')
  <1>1. /\ stored \subseteq Times /\ stored # {}
        /\ Shown(stored, chart) /\ RequestInv(stored, chart, request)
    BY DEF IInv
  <1>2. CASE AskPage
    <2>1. stored' = stored /\ chart' = chart /\ request' = PageRequest(chart)
      BY <1>2 DEF AskPage, PageRequest
    <2> QED
      BY <1>1, <2>1 DEF RequestInv
  <1>3. CASE AskRange
    <2>1. stored' = stored /\ chart' = chart /\ chart # <<>> /\ request' = RangeRequest(chart)
      BY <1>3 DEF AskRange, RangeRequest
    <2> QED
      BY <1>1, <2>1 DEF RequestInv
  <1>4. CASE QueryRuns
    <2> DEFINE d == GetCandles(request)
               r == [kind |-> "answered", range |-> request.kind = "range", data |-> d]
    <2>1. /\ stored' = stored /\ chart' = chart /\ request' = r
          /\ request.kind = "page" \/ request.kind = "range"
      BY <1>4 DEF QueryRuns
    <2>2. r.kind = "answered" /\ r.range = (request.kind = "range") /\ r.data = d
      OBVIOUS
    <2>3. request.kind = "page" => PageAnswer(stored, chart, d)
      BY <1>1, RequestKinds, PageIsAnswer
    <2>4. request.kind = "range" => RangeAnswer(stored, chart, d)
      BY <1>1, RequestKinds, RangeIsAnswer
    <2> HIDE DEF d, r
    <2>5. RequestInv(stored, chart, r)
      BY <2>1, <2>2, <2>3, <2>4 DEF RequestInv
    <2> QED
      BY <1>1, <2>1, <2>5
  <1>5. CASE AnswerShown
    <2> DEFINE d == request.data
    <2>1. /\ stored' = stored /\ request' = NoRequest /\ request.kind = "answered"
          /\ chart' = IF request.range THEN Front(chart) \o d ELSE d \o chart
      BY <1>5 DEF AnswerShown
    <2>2. /\ request.range \in BOOLEAN
          /\ request.range => RangeAnswer(stored, chart, d)
          /\ ~request.range => PageAnswer(stored, chart, d)
      BY <1>1, <2>1, RequestKinds
    <2> HIDE DEF d
    <2>3. CASE request.range
      <3>1. Shown(stored, Front(chart) \o d)
        BY <1>1, <2>2, <2>3, RangeJoined
      <3> QED
        BY <1>1, <2>1, <2>3, <3>1 DEF RequestInv
    <2>4. CASE ~request.range
      <3>1. Shown(stored, d \o chart)
        BY <1>1, <2>2, <2>4, PageJoined
      <3> QED
        BY <1>1, <2>1, <2>4, <3>1 DEF RequestInv
    <2> QED
      BY <2>3, <2>4
  <1>6. CASE \E t \in Times : Insert(t)
    <2>1. PICK t \in Times : Insert(t)
      BY <1>6
    <2>2. stored' = stored \cup {t} /\ chart' = chart /\ request' = request /\ t > Max(stored)
      BY <2>1 DEF Insert
    <2>3. \A u \in stored : u < t
      BY <1>1, <2>2, NewestStored
    <2>4. Shown(stored \cup {t}, chart) /\ RequestInv(stored \cup {t}, chart, request)
      BY <1>1, <2>3, NewerCandle
    <2> QED
      BY <1>1, <2>2, <2>4
  <1> QED
    BY <1>2, <1>3, <1>4, <1>5, <1>6

\* The answer to a query with any parameters is complete, up to its limit.
LEMMA QueryComplete ==
    ASSUME IInv, NEW q \in Params, Query(q)
    PROVE  RangeComplete'
  <1> DEFINE d == GetCandles(q)
             P == ParseLimit(q.limit)
  <1>1. CASE Refused(q)
    <2>1. answer'.status = "rejected"
      BY <1>1 DEF Query
    <2> QED
      BY <2>1 DEF RangeComplete
  <1>2. CASE ~Refused(q)
    <2>1. answer' = [status |-> "ok", query |-> q, data |-> d, at |-> stored]
      BY <1>2 DEF Query
    <2>2. answer'.query = q /\ answer'.data = d /\ answer'.at = stored
      BY <2>1
    <2>3. P \in Nat \ {0} /\ stored \subseteq Times
      BY <1>2, Numbers DEF Refused, IInv
    <2>4. q.from \in Int /\ q.to \in Int
      BY Numbers DEF Params, Undefined
    <2>5. ASSUME q.from > 0, q.to > 0, NEW t \in stored, q.from <= t, t <= q.to
          PROVE  t \in ToSet(d) \/ (Len(d) >= Min({RangeLimit, P}) /\ Last(d) < t)
      <3>1. q.from \in Nat \ {0} /\ q.to \in Nat \ {0}
        BY <2>4, <2>5
      <3>2. /\ d \in Seq(Times) /\ Ascending(d)
            /\ \/ t \in ToSet(d)
               \/ /\ Len(d) = RangeLimit \/ Len(d) = P + 1
                  /\ d # <<>> /\ \A x \in ToSet(d) : x < t
        BY <2>3, <2>5, <3>1, RangeRows
      <3> HIDE DEF d, P
      <3>3. d # <<>> => Last(d) \in ToSet(d)
        BY <3>2, Ends
      <3>4. Min({RangeLimit, P}) = IF RangeLimit <= P THEN RangeLimit ELSE P
        BY <2>3, MinOfTwo, Numbers
      <3>5. (Len(d) = RangeLimit \/ Len(d) = P + 1) => Len(d) >= Min({RangeLimit, P})
        BY <2>3, <3>4, Numbers
      <3> QED
        BY <3>2, <3>3, <3>5
    <2> HIDE DEF d
    <2>6. RangeComplete'
      BY <2>2, <2>5 DEF RangeComplete
    <2> QED
      BY <2>6
  <1> QED
    BY <1>1, <1>2

\* Every step preserves the invariant.
LEMMA NextIInv ==
    ASSUME IInv, [Next]_vars
    PROVE  IInv'
  <1>1. CASE AskPage \/ AskRange \/ QueryRuns \/ AnswerShown \/ \E t \in Times : Insert(t)
    <2>1. answer' = answer
      BY <1>1 DEF AskPage, AskRange, QueryRuns, AnswerShown, Insert
    <2>2. RangeComplete'
      BY <2>1 DEF IInv, RangeComplete
    <2> QED
      BY <1>1, <2>2, ChartStep DEF IInv
  <1>2. CASE \E q \in Params : Query(q)
    <2>1. RangeComplete'
      BY <1>2, QueryComplete
    <2>2. stored' = stored /\ chart' = chart /\ request' = request
      BY <1>2 DEF Query
    <2> QED
      BY <2>1, <2>2 DEF IInv
  <1>3. CASE UNCHANGED vars
    BY <1>3 DEF vars, IInv, RangeComplete
  <1> QED
    BY <1>1, <1>2, <1>3 DEF Next

-----------------------------------------------------------------------------
(* Theorems *)

\* Requests, answers and new candles keep what is shown and what is answered in order.
THEOREM Invariance == Spec => []IInv
  <1>1. Init => IInv
    BY InitIInv
  <1>2. IInv /\ [Next]_vars => IInv'
    BY NextIInv
  <1> QED
    BY <1>1, <1>2, PTL DEF Spec

\* The chart has no hole between its oldest and its newest candle, whatever the limits,
\* however its pages and ranges and new candles interleave; a range query returns every
\* candle of the range, or the oldest ones up to its limit.
THEOREM ChartHasNoHoles == Spec => []NoHoles
  <1>1. IInv => NoHoles
    <2> SUFFICES ASSUME IInv
                 PROVE  NoHoles
      OBVIOUS
    <2>1. /\ stored \subseteq Times /\ chart \in Seq(Times) /\ Ascending(chart)
          /\ ToSet(chart) \subseteq stored /\ Convex(stored, chart)
      BY DEF IInv, Shown
    <2>2. ASSUME chart # <<>>
          PROVE  {t \in stored : chart[1] <= t /\ t <= Last(chart)} = ToSet(chart)
      <3>1. /\ chart[1] \in ToSet(chart) /\ Last(chart) \in ToSet(chart)
            /\ \A x \in ToSet(chart) : chart[1] <= x /\ x <= Last(chart)
        BY <2>1, <2>2, Ends
      <3> QED
        BY <2>1, <3>1 DEF Convex
    <2>3. \A i, j \in DOMAIN chart : i < j => chart[i] < chart[j]
      BY <2>1 DEF Ascending
    <2>4. RangeComplete
      BY DEF IInv
    <2> QED
      BY <2>2, <2>3, <2>4 DEF NoHoles, RangeComplete
  <1> QED
    BY <1>1, Invariance, PTL

=============================================================================
