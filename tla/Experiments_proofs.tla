------------------------- MODULE Experiments_proofs -------------------------
(***************************************************************************)
(* Proofs about what is learned from the recorded market, for every        *)
(* market, log and set of trades.                                          *)
(*                                                                         *)
(* Features: RateInv relates an item's deque to the rows written so far.   *)
(* Calibration: the tables shown are cut off at the trade, and AskInv      *)
(* keeps the answers, the open questions and the pending ones in the order *)
(* of the trades, which leaves few gaps when a run stops.                  *)
(* Replay: ReplayInv says that the log is in the order of time, that each  *)
(* decision follows the switch to the build of its moment, and what each   *)
(* decision came of; the scorecard's readings of the log follow from it.   *)
(***************************************************************************)
EXTENDS Experiments, FiniteSetTheorems, SequenceTheorems, WellFoundedInduction, TLAPS

-----------------------------------------------------------------------------
(* Sets of numbers and their bounds.                                       *)

\* A set of natural numbers has a least one.
LEMMA LeastOf ==
    ASSUME NEW S, S \subseteq Nat, S # {}
    PROVE  Min(S) \in S /\ \A m \in S : Min(S) <= m
<1> DEFINE R == OpToRel(<, Nat)
<1>1. \A x, y \in Nat : x < y => <<x, y>> \in R
    BY DEF OpToRel
<1>2. IsWellFoundedOn(R, Nat)
    BY NatLessThanWellFounded
<1> HIDE DEF R
<1>3. PICK x \in S : \A y \in S : ~ (<<y, x>> \in R)
    BY <1>2, WFMin
<1>4. ASSUME NEW m \in S PROVE x <= m
    <2>1. m \in Nat /\ x \in Nat
        OBVIOUS
    <2>2. ~ (m < x)
        BY <1>1, <1>3, <2>1
    <2> QED
        BY <2>1, <2>2
<1> QED
    BY <1>4 DEF Min

\* A bounded set of natural numbers has a greatest one.
LEMMA GreatestOf ==
    ASSUME NEW n \in Nat, NEW S, S \subseteq 0..n, S # {}
    PROVE  Max(S) \in S /\ \A m \in S : m <= Max(S)
<1> DEFINE R == {n - m : m \in S}
<1>1. Min(R) \in R /\ \A r \in R : Min(R) <= r
    <2>1. R \subseteq Nat /\ R # {}
        <3>1. \A m \in S : n - m \in Nat
            OBVIOUS
        <3> QED
            BY <3>1
    <2> HIDE DEF R
    <2> QED
        BY <2>1, LeastOf
<1>2. PICK x \in S : Min(R) = n - x
    BY <1>1
<1>3. \A m \in S : m <= x
    <2> SUFFICES ASSUME NEW m \in S
                 PROVE  m <= x
        OBVIOUS
    <2>1. Min(R) <= n - m
        BY <1>1
    <2> QED
        BY <1>2, <2>1
<1> HIDE DEF R
<1> QED
    BY <1>3 DEF Max

-----------------------------------------------------------------------------
(* Ranks.                                                                  *)

\* R orders the members of a finite set.
Ranking(R, S) ==
    /\ IsFiniteSet(S)
    /\ \A x, y, z \in S : /\ <<x, x>> \notin R
                          /\ <<x, y>> \in R /\ <<y, z>> \in R => <<x, z>> \in R
                          /\ x = y \/ <<x, y>> \in R \/ <<y, x>> \in R

Below(R, S, x) == {y \in S : <<y, x>> \in R}

\* How many come before grows with the order.
LEMMA RankGrows ==
    ASSUME NEW R, NEW S, Ranking(R, S), NEW x \in S, NEW y \in S, <<x, y>> \in R
    PROVE  Cardinality(Below(R, S, x)) < Cardinality(Below(R, S, y))
<1>1. IsFiniteSet(S)
    BY DEF Ranking
<1>2. IsFiniteSet(Below(R, S, x)) /\ IsFiniteSet(Below(R, S, y))
    <2>1. Below(R, S, x) \in SUBSET S /\ Below(R, S, y) \in SUBSET S
        BY DEF Below
    <2> QED
        BY <1>1, <2>1, FS_Subset
<1>3. x \notin Below(R, S, x)
    BY DEF Below, Ranking
<1>4. Below(R, S, x) \cup {x} \in SUBSET Below(R, S, y)
    BY DEF Below, Ranking
<1>5. Cardinality(Below(R, S, x) \cup {x}) = Cardinality(Below(R, S, x)) + 1
    BY <1>2, <1>3, FS_AddElement
<1>6. Cardinality(Below(R, S, x) \cup {x}) <= Cardinality(Below(R, S, y))
    BY <1>2, <1>4, FS_Subset
<1>7. Cardinality(Below(R, S, x)) \in Nat /\ Cardinality(Below(R, S, y)) \in Nat
    BY <1>2, FS_CardinalityType
<1> QED
    BY <1>5, <1>6, <1>7

\* Every rank is taken, by one member.
LEMMA RankOfAll ==
    ASSUME NEW R, NEW S, Ranking(R, S)
    PROVE  /\ Cardinality(S) \in Nat
           /\ \A x \in S : Cardinality(Below(R, S, x)) \in 0..(Cardinality(S) - 1)
           /\ \A x, y \in S : Cardinality(Below(R, S, x)) = Cardinality(Below(R, S, y)) => x = y
           /\ \A i \in 0..(Cardinality(S) - 1) : \E x \in S : Cardinality(Below(R, S, x)) = i
<1> DEFINE n == Cardinality(S)
           rank == [x \in S |-> Cardinality(Below(R, S, x))]
<1>1. IsFiniteSet(S) /\ n \in Nat
    BY FS_CardinalityType DEF Ranking
<1>2. ASSUME NEW x \in S
      PROVE  Cardinality(Below(R, S, x)) \in 0..(n - 1)
    <2>1. Below(R, S, x) \in SUBSET (S \ {x})
        BY DEF Below, Ranking
    <2>2. IsFiniteSet(S \ {x}) /\ Cardinality(S \ {x}) = n - 1
        BY <1>1, FS_RemoveElement
    <2>3. IsFiniteSet(Below(R, S, x)) /\ Cardinality(Below(R, S, x)) <= n - 1
        BY <2>1, <2>2, FS_Subset
    <2>4. Cardinality(Below(R, S, x)) \in Nat
        BY <2>3, FS_CardinalityType
    <2> QED
        BY <1>1, <2>3, <2>4
<1>3. ASSUME NEW x \in S, NEW y \in S, Cardinality(Below(R, S, x)) = Cardinality(Below(R, S, y))
      PROVE  x = y
    <2>1. Cardinality(Below(R, S, x)) \in Int /\ Cardinality(Below(R, S, y)) \in Int
        BY <1>2
    <2>2. <<x, y>> \notin R /\ <<y, x>> \notin R
        BY <1>3, <2>1, RankGrows
    <2> QED
        BY <2>2 DEF Ranking
<1>4. rank \in Injection(S, 0..(n - 1))
    BY <1>2, <1>3 DEF Injection, IsInjective
<1>5. IsFiniteSet(0..(n - 1)) /\ Cardinality(0..(n - 1)) = n
    BY <1>1, FS_Interval, SMTT(30)
<1>6. rank \in Surjection(S, 0..(n - 1))
    <2> HIDE DEF rank
    <2> QED
        BY <1>4, <1>5, FS_Injection
<1>7. \A i \in 0..(n - 1) : \E x \in S : Cardinality(Below(R, S, x)) = i
    BY <1>6 DEF Surjection
<1> QED
    BY <1>1, <1>2, <1>3, <1>7

LEMMA RateNames ==
    ASSUME NEW S
    PROVE  Features!Cardinality(S) = Cardinality(S) /\ Features!Min(S) = Min(S)
BY DEF Features!Cardinality, Cardinality, Features!Min, Min

-----------------------------------------------------------------------------
(* Features: the rate of listings.                                         *)

\* The entries of a tracker, and the decisions of a key, in the hour before t.
Young(s, t) == {i \in 1..Len(s) : t - s[i] < RateWindow}
YoungOf(d, k, t) == {m \in 1..Len(d) : d[m].key = k /\ t - d[m].at < RateWindow}

Ordered(s) == \A i, j \in 1..Len(s) : i <= j => s[i] <= s[j]

RateInv ==
    /\ now \in Nat
    /\ times \in [Keys -> Seq(Nat)]
    /\ \A k \in Keys : Ordered(times[k]) /\ \A i \in 1..Len(times[k]) : times[k][i] <= now
    /\ \E S : decided \in Seq(S)
    /\ \A n \in 1..Len(decided) : decided[n].at \in Nat /\ decided[n].at <= now
    /\ \A k \in Keys : \A t \in Nat :
        t >= now => Cardinality(Young(times[k], t)) = Cardinality(YoungOf(decided, k, t))
    /\ Features!RateExact

LEMMA YoungFinite ==
    ASSUME NEW s, Len(s) \in Nat, NEW t, NEW k
    PROVE  /\ IsFiniteSet(Young(s, t)) /\ Cardinality(Young(s, t)) \in Nat
           /\ IsFiniteSet(YoungOf(s, k, t)) /\ Cardinality(YoungOf(s, k, t)) \in Nat
<1>1. IsFiniteSet(1..Len(s))
    BY FS_Interval
<1>2. Young(s, t) \subseteq 1..Len(s) /\ YoungOf(s, k, t) \subseteq 1..Len(s)
    BY DEF Young, YoungOf
<1>3. IsFiniteSet(Young(s, t)) /\ IsFiniteSet(YoungOf(s, k, t))
    BY <1>1, <1>2, FS_Subset
<1> QED
    BY <1>3, FS_CardinalityType

LEMMA CountedFrom ==
    ASSUME NEW l \in Nat, NEW n \in Nat, NEW m \in Nat, 1 <= m, m <= n, l = n - m + 1
    PROVE  \A j \in m..n : j - m + 1 \in 1..l
OBVIOUS

Kept(s, t) == IF Young(s, t) = {} THEN <<>> ELSE SubSeq(s, Min(Young(s, t)), Len(s))

\* What the tracker keeps for a listing: all that is young then or later.
LEMMA RecentKeeps ==
    ASSUME NEW s \in Seq(Nat), Ordered(s), NEW t \in Nat, RateWindow \in Nat
    PROVE  /\ Kept(s, t) \in Seq(Nat) /\ Ordered(Kept(s, t))
           /\ \A i \in 1..Len(Kept(s, t)) : \E j \in 1..Len(s) : Kept(s, t)[i] = s[j]
           /\ Len(Kept(s, t)) = Cardinality(Young(s, t))
           /\ \A u \in Nat : u >= t => Cardinality(Young(Kept(s, t), u)) = Cardinality(Young(s, u))
<1> DEFINE r == Kept(s, t)
<1>r. r = IF Young(s, t) = {} THEN <<>> ELSE SubSeq(s, Min(Young(s, t)), Len(s))
    BY DEF Kept
<1> SUFFICES /\ r \in Seq(Nat) /\ Ordered(r)
             /\ \A i \in 1..Len(r) : \E j \in 1..Len(s) : r[i] = s[j]
             /\ Len(r) = Cardinality(Young(s, t))
             /\ \A u \in Nat : u >= t => Cardinality(Young(r, u)) = Cardinality(Young(s, u))
    OBVIOUS
<1> HIDE DEF r
<1>0. Len(s) \in Nat /\ \A i \in 1..Len(s) : s[i] \in Nat
    BY LenProperties, ElementOfSeq
<1>1. CASE Young(s, t) = {}
    <2>1. r = <<>> /\ Len(r) = 0 /\ r \in Seq(Nat)
        <3>1. r = <<>>
            BY <1>1, <1>r
        <3>2. <<>> \in Seq(Nat) /\ Len(<<>>) = 0
            BY EmptySeq
        <3> QED
            BY <3>1, <3>2
    <2>2. Cardinality(Young(s, t)) = 0
        BY <1>1, FS_EmptySet
    <2>3. ASSUME NEW u \in Nat, u >= t
          PROVE  Young(r, u) = {} /\ Young(s, u) = {}
        <3>1. \A i \in 1..Len(s) : ~ (t - s[i] < RateWindow)
            BY <1>1 DEF Young
        <3>2. \A i \in 1..Len(s) : ~ (u - s[i] < RateWindow)
            BY <1>0, <2>3, <3>1
        <3>3. 1..Len(r) = {}
            BY <2>1
        <3> QED
            BY <3>2, <3>3 DEF Young
    <2>4. \A u \in Nat : u >= t => Cardinality(Young(r, u)) = Cardinality(Young(s, u))
        BY <2>3
    <2>5. Ordered(r) /\ \A i \in 1..Len(r) : \E j \in 1..Len(s) : r[i] = s[j]
        BY <2>1 DEF Ordered
    <2> QED
        BY <2>1, <2>2, <2>4, <2>5
<1>2. CASE Young(s, t) # {}
    <2> DEFINE m == Min(Young(s, t))
    <2>1. m \in Young(s, t) /\ \A i \in Young(s, t) : m <= i
        <3>1. Young(s, t) \subseteq Nat
            BY <1>0 DEF Young
        <3> QED
            BY <1>2, <3>1, LeastOf
    <2>2. m \in 1..Len(s) /\ t - s[m] < RateWindow
        BY <2>1 DEF Young
    <2>3. r = SubSeq(s, m, Len(s))
        BY <1>2, <1>r
    <2> HIDE DEF m
    <2>a. m \in Nat /\ Len(s) \in Nat /\ 1 <= m /\ m <= Len(s)
        BY <1>0, <2>2
    <2>4. /\ r \in Seq(Nat) /\ Len(r) = Len(s) - m + 1
          /\ \A i \in 1..(Len(s) - m + 1) : r[i] = s[m + i - 1]
        <3>1. \A i \in m..Len(s) : s[i] \in Nat
            BY <1>0, <2>a
        <3>2. m \in Int /\ Len(s) \in Int
            BY <2>a
        <3>3. /\ SubSeq(s, m, Len(s)) \in Seq(Nat)
              /\ Len(SubSeq(s, m, Len(s))) = IF m <= Len(s) THEN Len(s) - m + 1 ELSE 0
              /\ \A i \in 1..(Len(s) - m + 1) : SubSeq(s, m, Len(s))[i] = s[m + i - 1]
            BY <3>1, <3>2, SubSeqProperties
        <3> QED
            BY <2>a, <2>3, <3>3
    <2>b. Len(r) \in Nat /\ Len(r) = Len(s) - m + 1
        BY <2>a, <2>4
    <2>c. \A i \in 1..Len(r) : m + i - 1 \in 1..Len(s) /\ r[i] = s[m + i - 1]
        <3>1. \A i \in 1..(Len(s) - m + 1) : m + i - 1 \in 1..Len(s)
            BY <2>a
        <3> QED
            BY <2>b, <2>4, <3>1
    <2>d. \A j \in m..Len(s) : j - m + 1 \in 1..Len(r) /\ m + (j - m + 1) - 1 = j
        <3>1. \A j \in m..Len(s) : j - m + 1 \in 1..Len(r)
            BY <2>a, <2>b, CountedFrom
        <3>2. \A j \in m..Len(s) : m + (j - m + 1) - 1 = j
            BY <2>a
        <3> QED
            BY <3>1, <3>2
    <2>5. ASSUME NEW u \in Nat, u >= t, NEW i \in 1..Len(s), i < m
          PROVE  ~ (u - s[i] < RateWindow)
        <3>1. i \notin Young(s, t)
            BY <1>0, <2>1, <2>2, <2>5
        <3>2. ~ (t - s[i] < RateWindow)
            BY <3>1 DEF Young
        <3> QED
            BY <1>0, <2>5, <3>2
    <2>6. Young(s, t) = m..Len(s)
        <3>1. ASSUME NEW i \in m..Len(s)
              PROVE  i \in Young(s, t)
            <4>1. i \in 1..Len(s) /\ s[m] <= s[i]
                BY <1>0, <2>2 DEF Ordered
            <4>2. t - s[i] < RateWindow
                BY <1>0, <2>2, <4>1, SMTT(30)
            <4> QED
                BY <4>1, <4>2 DEF Young
        <3>2. ASSUME NEW i \in Young(s, t)
              PROVE  i \in m..Len(s)
            BY <1>0, <2>1, <2>2 DEF Young
        <3> QED
            BY <3>1, <3>2
    <2>7. Len(r) = Cardinality(Young(s, t))
        <3>1. m \in Int /\ Len(s) \in Int /\ ~ (m > Len(s))
            BY <1>0, <2>2
        <3> QED
            BY <2>4, <2>6, <3>1, FS_Interval
    <2>8. Ordered(r)
        <3> SUFFICES ASSUME NEW i \in 1..Len(r), NEW j \in 1..Len(r), i <= j
                     PROVE  r[i] <= r[j]
            BY DEF Ordered
        <3>1. m + i - 1 \in 1..Len(s) /\ m + j - 1 \in 1..Len(s)
            BY <2>c
        <3>2. m + i - 1 <= m + j - 1
            BY <2>a
        <3> QED
            BY <2>c, <3>1, <3>2 DEF Ordered
    <2>9. ASSUME NEW i \in 1..Len(r)
          PROVE  \E j \in 1..Len(s) : r[i] = s[j]
        <3> QED
            BY <2>c
    <2>10. ASSUME NEW u \in Nat, u >= t
           PROVE  Cardinality(Young(r, u)) = Cardinality(Young(s, u))
        <3> DEFINE f == [i \in Young(r, u) |-> m + i - 1]
        <3>1. \A i \in Young(r, u) : i \in 1..Len(r) /\ u - r[i] < RateWindow
            BY DEF Young
        <3>2. \A j \in Young(s, u) : j \in 1..Len(s) /\ u - s[j] < RateWindow
            BY DEF Young
        <3>3. f \in [Young(r, u) -> Young(s, u)]
            <4>1. ASSUME NEW i \in Young(r, u)
                  PROVE  m + i - 1 \in Young(s, u)
                <5>1. m + i - 1 \in 1..Len(s) /\ u - s[m + i - 1] < RateWindow
                    BY <2>c, <3>1
                <5> QED
                    BY <5>1 DEF Young
            <4> QED
                BY <4>1
        <3>4. \A i, j \in Young(r, u) : f[i] = f[j] => i = j
            <4>1. \A i, j \in Young(r, u) : i \in Int /\ j \in Int /\ m \in Int
                BY <2>2, <3>1
            <4>2. \A i, j \in Young(r, u) : m + i - 1 = m + j - 1 => i = j
                BY <4>1
            <4> QED
                BY <4>2
        <3>5. \A j \in Young(s, u) : \E i \in Young(r, u) : f[i] = j
            <4> SUFFICES ASSUME NEW j \in Young(s, u)
                         PROVE  \E i \in Young(r, u) : f[i] = j
                OBVIOUS
            <4>1. j \in m..Len(s)
                <5>1. j \in 1..Len(s) /\ u - s[j] < RateWindow
                    BY <3>2
                <5>2. ~ (j < m)
                    BY <2>5, <2>10, <5>1
                <5> QED
                    BY <2>a, <5>1, <5>2
            <4>2. j - m + 1 \in 1..Len(r) /\ m + (j - m + 1) - 1 = j
                BY <2>d, <4>1
            <4>3. r[j - m + 1] = s[j]
                BY <2>c, <4>2
            <4>4. j - m + 1 \in Young(r, u)
                BY <3>2, <4>2, <4>3 DEF Young
            <4>5. f[j - m + 1] = j
                BY <4>2, <4>4
            <4> QED
                BY <4>4, <4>5
        <3>6. f \in Bijection(Young(r, u), Young(s, u))
            <4>1. f \in Injection(Young(r, u), Young(s, u))
                BY <3>3, <3>4 DEF Injection, IsInjective
            <4>2. f \in Surjection(Young(r, u), Young(s, u))
                BY <3>3, <3>5 DEF Surjection
            <4> QED
                BY <4>1, <4>2 DEF Bijection
        <3>7. IsFiniteSet(Young(r, u))
            BY <2>b, YoungFinite
        <3> HIDE DEF f
        <3> QED
            BY <3>6, <3>7, FS_Bijection DEF ExistsBijection
    <2> QED
        BY <2>4, <2>7, <2>8, <2>9, <2>10
<1> QED
    BY <1>1, <1>2

LEMMA RateConstants == RateWindow \in Nat
BY ExperimentsAssumption DEF Features!RateAssumption

\* The column of the rate holds the number of listings that were counted.
LEMMA RowRate ==
    ASSUME NEW x, NEW n
    PROVE  Features!feature_vector(Features!compute_features(x, n))[Features!Rate] = Features!Value(n)
<1> DEFINE row == Features!compute_features(x, n)
<1>1. row.listings_per_hour_item = Features!Value(n)
    BY DEF Features!compute_features
<1>2. /\ DOMAIN Features!FEATURE_NAMES = 1..12
      /\ Features!FEATURE_NAMES[11] = "listings_per_hour_item"
    BY DEF Features!FEATURE_NAMES
<1> HIDE DEF row
<1>3. Features!feature_vector(row)[11] = row["listings_per_hour_item"]
    BY <1>2 DEF Features!feature_vector
<1> QED
    BY <1>1, <1>3 DEF Features!Rate, row

LEMMA RateInit == Features!Init => RateInv
<1> SUFFICES ASSUME Features!Init
             PROVE  RateInv
    OBVIOUS
<1>1. now = 0 /\ times = [k \in Keys |-> <<>>] /\ decided = <<>>
    BY DEF Features!Init
<1>2. <<>> \in Seq(Nat) /\ Len(<<>>) = 0 /\ 1..0 = {} /\ DOMAIN <<>> = {}
    BY EmptySeq
<1>3. ASSUME NEW k, NEW t
      PROVE  Young(<<>>, t) = {} /\ YoungOf(<<>>, k, t) = {}
    BY <1>2 DEF Young, YoungOf
<1>4. now \in Nat /\ times \in [Keys -> Seq(Nat)] /\ decided \in Seq(Nat)
    BY <1>1, <1>2
<1>5. \A k \in Keys : Ordered(times[k]) /\ \A i \in 1..Len(times[k]) : times[k][i] <= now
    BY <1>1, <1>2 DEF Ordered
<1>6. \A n \in 1..Len(decided) : decided[n].at \in Nat /\ decided[n].at <= now
    BY <1>1, <1>2
<1>7. \A k \in Keys : \A t \in Nat :
        t >= now => Cardinality(Young(times[k], t)) = Cardinality(YoungOf(decided, k, t))
    BY <1>1, <1>3
<1>8. Features!RateExact
    BY <1>1, <1>2 DEF Features!RateExact
<1> QED
    BY <1>4, <1>5, <1>6, <1>7, <1>8 DEF RateInv

\* A listing that is counted is young until its hour is over.
LEMMA YoungAppended ==
    ASSUME NEW s \in Seq(Nat), NEW t \in Nat, NEW u \in Nat, NEW r, r = Append(s, t)
    PROVE  Cardinality(Young(r, u)) = Cardinality(Young(s, u)) + IF u - t < RateWindow THEN 1 ELSE 0
<1>1. Len(s) \in Nat /\ Len(r) = Len(s) + 1 /\ r[Len(s) + 1] = t /\ \A i \in 1..Len(s) : r[i] = s[i]
    BY AppendProperties, LenProperties
<1>2. Len(s) + 1 \notin Young(s, u)
    BY <1>1 DEF Young
<1>3. Young(r, u) = IF u - t < RateWindow THEN Young(s, u) \cup {Len(s) + 1} ELSE Young(s, u)
    <2>1. 1..Len(r) = 1..Len(s) \cup {Len(s) + 1}
        BY <1>1
    <2> QED
        BY <1>1, <2>1 DEF Young
<1>4. IsFiniteSet(Young(s, u)) /\ Cardinality(Young(s, u)) \in Nat
    BY <1>1, YoungFinite
<1>5. Cardinality(Young(s, u) \cup {Len(s) + 1}) = Cardinality(Young(s, u)) + 1
    BY <1>2, <1>4, FS_AddElement
<1> QED
    BY <1>3, <1>4, <1>5

LEMMA YoungDecided ==
    ASSUME NEW S, NEW d \in Seq(S), NEW e, e.at \in Nat, NEW u \in Nat, NEW k
    PROVE  Cardinality(YoungOf(Append(d, e), k, u))
               = Cardinality(YoungOf(d, k, u)) + IF e.key = k /\ u - e.at < RateWindow THEN 1 ELSE 0
<1> DEFINE r == Append(d, e)
<1>1. Len(d) \in Nat /\ Len(r) = Len(d) + 1 /\ r[Len(d) + 1] = e /\ \A i \in 1..Len(d) : r[i] = d[i]
    <2>1. d \in Seq(S \cup {e}) /\ e \in S \cup {e}
        BY SeqMonotonic
    <2> QED
        BY <2>1, AppendProperties, LenProperties
<1> HIDE DEF r
<1>2. Len(d) + 1 \notin YoungOf(d, k, u)
    BY <1>1 DEF YoungOf
<1>3. YoungOf(r, k, u) =
        IF e.key = k /\ u - e.at < RateWindow THEN YoungOf(d, k, u) \cup {Len(d) + 1} ELSE YoungOf(d, k, u)
    <2>1. 1..Len(r) = 1..Len(d) \cup {Len(d) + 1}
        BY <1>1
    <2> QED
        BY <1>1, <2>1 DEF YoungOf
<1>4. IsFiniteSet(YoungOf(d, k, u)) /\ Cardinality(YoungOf(d, k, u)) \in Nat
    BY <1>1, YoungFinite
<1>5. Cardinality(YoungOf(d, k, u) \cup {Len(d) + 1}) = Cardinality(YoungOf(d, k, u)) + 1
    BY <1>2, <1>4, FS_AddElement
<1>6. Cardinality(YoungOf(r, k, u))
          = Cardinality(YoungOf(d, k, u)) + IF e.key = k /\ u - e.at < RateWindow THEN 1 ELSE 0
    BY <1>3, <1>4, <1>5
<1> QED
    BY <1>6 DEF r

LEMMA RateStep == RateInv /\ [Features!Next]_features => RateInv'
<1> SUFFICES ASSUME RateInv, [Features!Next]_features
             PROVE  RateInv'
    OBVIOUS
<1> USE RateConstants
<1>0. /\ now \in Nat /\ times \in [Keys -> Seq(Nat)]
      /\ \A k \in Keys : Ordered(times[k]) /\ \A i \in 1..Len(times[k]) : times[k][i] <= now
      /\ \A n \in 1..Len(decided) : decided[n].at \in Nat /\ decided[n].at <= now
    BY DEF RateInv
<1>00. \A k \in Keys : \A t \in Nat :
        t >= now => Cardinality(Young(times[k], t)) = Cardinality(YoungOf(decided, k, t))
    BY DEF RateInv
<1>a. \A k \in Keys : Len(times[k]) \in Nat /\ DOMAIN times[k] = 1..Len(times[k])
                      /\ \A i \in 1..Len(times[k]) : times[k][i] \in Nat
    BY <1>0, LenProperties, ElementOfSeq
<1>b. PICK S : decided \in Seq(S)
    BY DEF RateInv
<1>c. Len(decided) \in Nat /\ DOMAIN decided = 1..Len(decided)
    BY <1>b, LenProperties
<1>1. CASE UNCHANGED features
    BY <1>1 DEF RateInv, features, Features!RateExact
<1>2. ASSUME NEW t \in now..LastTick, Features!Other(t)
      PROVE  RateInv'
    <2>1. t \in Nat /\ now <= t /\ now' = t /\ UNCHANGED <<times, decided>>
        BY <1>0, <1>2 DEF Features!Other
    <2>2. \A k \in Keys : \A i \in 1..Len(times[k]) : times[k][i] <= t
        BY <1>0, <1>a, <2>1
    <2>3. \A n \in 1..Len(decided) : decided[n].at \in Nat /\ decided[n].at <= t
        BY <1>0, <2>1
    <2>4. \A k \in Keys : \A u \in Nat :
            u >= t => Cardinality(Young(times[k], u)) = Cardinality(YoungOf(decided, k, u))
        BY <1>0, <1>00, <2>1
    <2>5. Features!RateExact'
        BY <2>1 DEF RateInv, Features!RateExact
    <2> QED
        BY <1>0, <1>b, <2>1, <2>2, <2>3, <2>4, <2>5 DEF RateInv
<1>3. ASSUME NEW t \in now..LastTick, NEW k \in Keys, NEW x \in Inputs, Features!Decide(k, t, x)
      PROVE  RateInv'
    <2> DEFINE s == times[k]
               r == Features!Recent(k, t)
               e == [key |-> k, at |-> t,
                     row |-> Features!feature_vector(Features!compute_features(x, Len(r)))]
    <2>1. t \in Nat /\ now <= t /\ now' = t /\ times' = [times EXCEPT ![k] = Append(r, t)] /\ decided' = Append(decided, e)
        BY <1>0, <1>3 DEF Features!Decide
    <2>2. r = Kept(s, t)
        <3>1. Young(s, t) = {i \in DOMAIN times[k] : t - times[k][i] < RateWindow}
            BY <1>a DEF Young
        <3> QED
            BY <3>1, RateNames DEF Features!Recent, Kept
    <2>3. /\ r \in Seq(Nat) /\ Ordered(r)
          /\ \A i \in 1..Len(r) : \E j \in 1..Len(s) : r[i] = s[j]
          /\ Len(r) = Cardinality(Young(s, t))
          /\ \A u \in Nat : u >= t => Cardinality(Young(r, u)) = Cardinality(Young(s, u))
        <3>1. s \in Seq(Nat) /\ Ordered(s)
            BY <1>0
        <3> HIDE DEF s, r
        <3> QED
            BY <2>1, <2>2, <3>1, RecentKeeps
    <2>4. e.key = k /\ e.at = t /\ e.row[Features!Rate] = Features!Value(Len(r))
        BY RowRate
    <2> HIDE DEF r, e, s
    <2> DEFINE q == Append(r, t)
    <2>5. /\ Len(r) \in Nat /\ q \in Seq(Nat) /\ Len(q) = Len(r) + 1 /\ q[Len(r) + 1] = t
          /\ \A i \in 1..Len(r) : q[i] = r[i] /\ r[i] \in Nat
        BY <2>1, <2>3, AppendProperties, LenProperties, ElementOfSeq
    <2>6. \A i \in 1..Len(r) : r[i] <= t
        <3>1. \A j \in 1..Len(s) : s[j] \in Nat /\ s[j] <= now
            BY <1>0, <1>a DEF s
        <3>2. ASSUME NEW i \in 1..Len(r)
              PROVE  r[i] <= t
            <4>1. PICK j \in 1..Len(s) : r[i] = s[j]
                BY <2>3
            <4>2. s[j] \in Nat /\ s[j] <= now
                BY <3>1
            <4> QED
                BY <1>0, <2>1, <4>1, <4>2
        <3> QED
            BY <3>2
    <2>7. times' \in [Keys -> Seq(Nat)] /\ times'[k] = q /\ \A l \in Keys : l # k => times'[l] = times[l]
        BY <1>0, <2>1, <2>5
    <2> HIDE DEF q
    <2>8. Ordered(q) /\ \A i \in 1..Len(q) : q[i] <= t
        <3>1. \A i \in 1..Len(q) : i \in 1..Len(r) \/ i = Len(r) + 1
            BY <2>5
        <3>2. \A i \in 1..Len(q) : q[i] <= t
            BY <2>1, <2>5, <2>6, <3>1, SMTT(30)
        <3>3. ASSUME NEW i \in 1..Len(q), NEW j \in 1..Len(q), i <= j
              PROVE  q[i] <= q[j]
            <4>1. CASE j = Len(r) + 1
                BY <2>5, <3>2, <4>1
            <4>2. CASE j \in 1..Len(r)
                <5>1. i \in 1..Len(r)
                    BY <2>5, <3>3, <4>2
                <5> QED
                    BY <2>3, <2>5, <3>3, <4>2, <5>1 DEF Ordered
            <4> QED
                BY <3>1, <4>1, <4>2
        <3> QED
            BY <3>2, <3>3 DEF Ordered
    <2>9. \A l \in Keys : Ordered(times'[l]) /\ \A i \in 1..Len(times'[l]) : times'[l][i] <= now'
        <3> SUFFICES ASSUME NEW l \in Keys
                     PROVE  Ordered(times'[l]) /\ \A i \in 1..Len(times'[l]) : times'[l][i] <= t
            BY <2>1
        <3>1. CASE l = k
            BY <2>7, <2>8, <3>1
        <3>2. CASE l # k
            <4>1. times'[l] = times[l]
                BY <2>7, <3>2
            <4>2. \A i \in 1..Len(times[l]) : times[l][i] <= t
                BY <1>0, <1>a, <2>1
            <4> QED
                BY <1>0, <4>1, <4>2
        <3> QED
            BY <3>1, <3>2
    <2>10. /\ decided' \in Seq(S \cup {e}) /\ Len(decided') = Len(decided) + 1 /\ decided'[Len(decided) + 1] = e
           /\ \A n \in 1..Len(decided) : decided'[n] = decided[n]
        <3>1. decided \in Seq(S \cup {e}) /\ e \in S \cup {e}
            BY <1>b, SeqMonotonic
        <3> QED
            BY <2>1, <3>1, AppendProperties, LenProperties
    <2>11. \A n \in 1..Len(decided') : n \in 1..Len(decided) \/ n = Len(decided) + 1
        BY <1>c, <2>10
    <2>12. \A n \in 1..Len(decided') : decided'[n].at \in Nat /\ decided'[n].at <= now'
        <3> SUFFICES ASSUME NEW n \in 1..Len(decided')
                     PROVE  decided'[n].at \in Nat /\ decided'[n].at <= t
            BY <2>1
        <3>1. CASE n = Len(decided) + 1
            BY <2>1, <2>4, <2>10, <3>1
        <3>2. CASE n \in 1..Len(decided)
            <4>1. decided'[n] = decided[n] /\ decided[n].at \in Nat /\ decided[n].at <= now
                BY <1>0, <2>10, <3>2
            <4> QED
                BY <1>0, <2>1, <4>1
        <3> QED
            BY <2>11, <3>1, <3>2
    <2>13. ASSUME NEW l \in Keys, NEW u \in Nat, u >= t
           PROVE  Cardinality(Young(times'[l], u)) = Cardinality(YoungOf(decided', l, u))
        <3>1. Cardinality(Young(times[l], u)) = Cardinality(YoungOf(decided, l, u))
            BY <1>0, <1>00, <2>1, <2>13
        <3>2. Cardinality(YoungOf(decided', l, u))
                  = Cardinality(YoungOf(decided, l, u)) + IF e.key = l /\ u - e.at < RateWindow THEN 1 ELSE 0
            BY <1>b, <2>1, <2>4, YoungDecided
        <3>3. Cardinality(YoungOf(decided, l, u)) \in Nat
            BY <1>c, YoungFinite
        <3>4. CASE l = k
            <4>1. Cardinality(Young(q, u)) = Cardinality(Young(r, u)) + IF u - t < RateWindow THEN 1 ELSE 0
                BY <2>1, <2>3, YoungAppended DEF q
            <4>2. Cardinality(Young(r, u)) = Cardinality(Young(times[l], u))
                BY <2>3, <2>13, <3>4 DEF s
            <4> QED
                BY <2>4, <2>7, <3>1, <3>2, <3>4, <4>1, <4>2
        <3>5. CASE l # k
            BY <2>4, <2>7, <3>1, <3>2, <3>3, <3>5
        <3> QED
            BY <3>4, <3>5
    <2>14. Features!RateExact'
        <3> SUFFICES ASSUME NEW n \in 1..Len(decided')
                     PROVE  decided'[n].row[Features!Rate] =
                                Features!Value(Cardinality({m \in 1..(n - 1) : /\ decided'[m].key = decided'[n].key
                                                                               /\ decided'[n].at - decided'[m].at < RateWindow}))
            <4>1. DOMAIN decided' = 1..Len(decided')
                BY <2>10, LenProperties
            <4> QED
                BY <4>1, RateNames DEF Features!RateExact
        <3>1. CASE n \in 1..Len(decided)
            <4>1. \A m \in 1..(n - 1) : m \in 1..Len(decided)
                BY <1>c, <3>1
            <4>2. {m \in 1..(n - 1) : decided'[m].key = decided'[n].key /\ decided'[n].at - decided'[m].at < RateWindow}
                   = {m \in 1..(n - 1) : decided[m].key = decided[n].key /\ decided[n].at - decided[m].at < RateWindow}
                BY <2>10, <3>1, <4>1
            <4>3. decided[n].row[Features!Rate] =
                      Features!Value(Cardinality({m \in 1..(n - 1) : /\ decided[m].key = decided[n].key
                                                                     /\ decided[n].at - decided[m].at < RateWindow}))
                BY <1>c, <3>1, RateNames DEF RateInv, Features!RateExact
            <4> QED
                BY <2>10, <3>1, <4>2, <4>3
        <3>2. CASE n = Len(decided) + 1
            <4>1. decided'[n] = e /\ n - 1 = Len(decided)
                BY <1>c, <2>10, <3>2
            <4>2. {m \in 1..(n - 1) : decided'[m].key = decided'[n].key /\ decided'[n].at - decided'[m].at < RateWindow}
                   = YoungOf(decided, k, t)
                BY <2>4, <2>10, <4>1 DEF YoungOf
            <4>3. Len(r) = Cardinality(YoungOf(decided, k, t))
                BY <1>0, <1>00, <2>1, <2>3 DEF s
            <4> QED
                BY <2>4, <4>1, <4>2, <4>3
        <3> QED
            BY <2>11, <3>1, <3>2
    <2>15. (\E T : decided \in Seq(T))'
        BY <2>10
    <2>16. (\A l \in Keys : \A u \in Nat :
             u >= now => Cardinality(Young(times[l], u)) = Cardinality(YoungOf(decided, l, u)))'
        BY <2>1, <2>13
    <2> QED
        BY <2>1, <2>7, <2>9, <2>12, <2>14, <2>15, <2>16 DEF RateInv
<1> QED
    BY <1>1, <1>2, <1>3 DEF Features!Next

-----------------------------------------------------------------------------
(* Calibration: what a question shows.                                     *)

Markets == [builds : SUBSET (0..LastMoment), sold : SUBSET (0..LastMoment), listed : SUBSET (0..LastMoment)]

LEMMA CalibrationConstants ==
    /\ Len(Cases) \in Nat /\ DOMAIN Cases = 1..Len(Cases) /\ \A c \in DOMAIN Cases : Cases[c].decided \in Nat
    /\ Len(Variants) \in Nat /\ DOMAIN Variants = 1..Len(Variants)
    /\ Concurrency \in Nat /\ SalesSpan \in Nat /\ ListingsSpan \in Nat /\ LastMoment \in Nat
    /\ Failed \notin Verdicts
BY ExperimentsAssumption DEF Calibration!CalibrationAssumption

LEMMA CalibrationNames ==
    ASSUME NEW S
    PROVE  /\ Calibration!Cardinality(S) = Cardinality(S)
           /\ Calibration!Min(S) = Min(S) /\ Calibration!Max(S) = Max(S)
BY DEF Calibration!Cardinality, Cardinality, Calibration!Min, Min, Calibration!Max, Max

UpTo(f, k, b) == \A c \in 1..k : f[c] <= b

\* Finitely many numbers have a bound.
LEMMA FinitelyMany ==
    ASSUME NEW n \in Nat, NEW f \in [1..n -> Nat]
    PROVE  \E b \in Nat : UpTo(f, n, b)
<1> DEFINE Unbounded == {k \in 0..n : ~ \E b \in Nat : UpTo(f, k, b)}
<1>1. ASSUME Unbounded # {}
      PROVE  FALSE
    <2>1. PICK k \in Unbounded : \A l \in Unbounded : k <= l
        <3>1. Unbounded \subseteq Nat
            OBVIOUS
        <3> HIDE DEF Unbounded
        <3> QED
            BY <1>1, <3>1, LeastOf
    <2>2. k \in 0..n /\ ~ \E b \in Nat : UpTo(f, k, b)
        BY <2>1
    <2>3. k # 0
        <3>1. UpTo(f, 0, 0)
            BY DEF UpTo
        <3> QED
            BY <2>2, <3>1
    <2>4. k \in 1..n /\ k - 1 \in 0..n /\ ~ (k <= k - 1)
        BY <2>2, <2>3
    <2>5. PICK b \in Nat : UpTo(f, k - 1, b)
        BY <2>1, <2>4
    <2>6. f[k] \in Nat
        BY <2>4
    <2>7. PICK d \in Nat : d >= b /\ d >= f[k]
        <3>1. b + f[k] \in Nat /\ b + f[k] >= b /\ b + f[k] >= f[k]
            BY <2>6
        <3> QED
            BY <3>1
    <2>8. UpTo(f, k, d)
        <3> SUFFICES ASSUME NEW c \in 1..k
                     PROVE  f[c] <= d
            BY DEF UpTo
        <3>1. f[c] \in Nat /\ (c = k \/ c \in 1..(k - 1))
            BY <2>4
        <3>2. ASSUME c \in 1..(k - 1)
              PROVE  f[c] <= d
            <4>1. f[c] <= b
                BY <2>5, <3>2 DEF UpTo
            <4> QED
                BY <2>7, <3>1, <4>1
        <3> QED
            BY <2>7, <3>1, <3>2
    <2> QED
        BY <2>2, <2>8
<1>2. n \in 0..n
    OBVIOUS
<1>3. n \notin Unbounded
    BY <1>1
<1> QED
    BY <1>2, <1>3

\* The trades were decided before some moment.
LEMMA DecidedBounded == \E b \in Nat : Calibration!Decided \subseteq 0..b
<1> DEFINE f == [c \in 1..Len(Cases) |-> Cases[c].decided]
<1>1. f \in [1..Len(Cases) -> Nat] /\ Len(Cases) \in Nat
    BY CalibrationConstants
<1>2. PICK b \in Nat : \A c \in 1..Len(Cases) : Cases[c].decided <= b
    <2>1. PICK b \in Nat : UpTo(f, Len(Cases), b)
        <3> HIDE DEF f
        <3> QED
            BY <1>1, FinitelyMany
    <2>2. \A c \in 1..Len(Cases) : Cases[c].decided <= b
        BY <2>1 DEF UpTo
    <2> QED
        BY <2>2
<1>3. Calibration!Decided \subseteq 0..b
    <2> SUFFICES ASSUME NEW c \in 1..Len(Cases)
                 PROVE  Cases[c].decided \in 0..b
        BY CalibrationConstants DEF Calibration!Decided
    <2>1. Cases[c].decided \in Nat
        BY CalibrationConstants
    <2>2. Cases[c].decided <= b
        BY <1>2
    <2> QED
        BY <2>1, <2>2
<1> QED
    BY <1>3

LEMMA MarketShown == market \in Markets => Calibration!SeesWhatWasKnown
<1> SUFFICES ASSUME market \in Markets, NEW m \in Calibration!Decided
             PROVE  LET view == Calibration!as_of(Calibration!history, m)
                        built == {b \in market.builds : b <= m}
                    IN  /\ view.build = {b \in built : \A x \in built : x <= b}
                        /\ view.sales = {s \in market.sold : s < m /\ m - s <= SalesSpan}
                        /\ view.listings = {s \in market.listed : s < m /\ m - s <= ListingsSpan}
    BY DEF Calibration!SeesWhatWasKnown
<1> USE CalibrationConstants
<1> DEFINE first == Calibration!Min(Calibration!Decided)
           latest == Calibration!Max(Calibration!Decided)
           built == {b \in market.builds : b <= m}
<1>1. first \in Nat /\ latest \in Nat /\ m \in Nat /\ first <= m /\ m <= latest
    <2>1. PICK b \in Nat : Calibration!Decided \subseteq 0..b
        BY DecidedBounded
    <2>2. /\ Max(Calibration!Decided) \in Calibration!Decided /\ m <= Max(Calibration!Decided)
          /\ Min(Calibration!Decided) \in Calibration!Decided /\ Min(Calibration!Decided) <= m
        <3>1. Calibration!Decided \subseteq Nat /\ Calibration!Decided # {}
            BY <2>1
        <3> QED
            BY <2>1, <3>1, LeastOf, GreatestOf
    <2> QED
        BY <2>1, <2>2, CalibrationNames
<1>2. market.builds \subseteq 0..LastMoment /\ market.sold \subseteq 0..LastMoment /\ market.listed \subseteq 0..LastMoment
    BY DEF Markets
<1> HIDE DEF first, latest
<1>3. /\ Calibration!history.builds = {b \in market.builds : b <= latest}
      /\ Calibration!history.sold = {s \in market.sold : first - SalesSpan <= s /\ s < latest}
      /\ Calibration!history.listed = {s \in market.listed : first - ListingsSpan <= s /\ s < latest}
    BY DEF Calibration!history, Calibration!fetch_baseline_snapshots, first, latest
<1>4. built = {b \in Calibration!history.builds : b <= m}
    BY <1>1, <1>2, <1>3
<1>5. Calibration!as_of(Calibration!history, m).build = IF built = {} THEN {} ELSE {Max(built)}
    BY <1>4, CalibrationNames DEF Calibration!as_of
<1>6. Calibration!as_of(Calibration!history, m).build = {b \in built : \A x \in built : x <= b}
    <2>1. CASE built = {}
        BY <1>5, <2>1
    <2>2. CASE built # {}
        <3>1. built \subseteq 0..LastMoment
            BY <1>2
        <3> HIDE DEF built
        <3>2. Max(built) \in built /\ \A x \in built : x <= Max(built)
            BY <2>2, <3>1, GreatestOf
        <3>3. \A y \in built : y \in Nat
            BY <3>1
        <3>4. ASSUME NEW y \in built, \A x \in built : x <= y
              PROVE  y = Max(built)
            <4>1. y \in Nat /\ Max(built) \in Nat
                BY <3>2, <3>3
            <4>2. y <= Max(built) /\ Max(built) <= y
                BY <3>2, <3>4
            <4> QED
                BY <4>1, <4>2
        <3> QED
            BY <1>5, <2>2, <3>2, <3>4
    <2> QED
        BY <2>1, <2>2
<1>7. Calibration!as_of(Calibration!history, m).sales = {s \in market.sold : s < m /\ m - s <= SalesSpan}
    <2>1. Calibration!as_of(Calibration!history, m).sales
            = {s \in Calibration!history.sold : m - SalesSpan <= s /\ s < m}
        BY DEF Calibration!as_of, Calibration!before
    <2> QED
        BY <1>1, <1>2, <1>3, <2>1
<1>8. Calibration!as_of(Calibration!history, m).listings = {s \in market.listed : s < m /\ m - s <= ListingsSpan}
    <2>1. Calibration!as_of(Calibration!history, m).listings
            = {s \in Calibration!history.listed : m - ListingsSpan <= s /\ s < m}
        BY DEF Calibration!as_of, Calibration!before
    <2> QED
        BY <1>1, <1>2, <1>3, <2>1
<1> QED
    BY <1>6, <1>7, <1>8

\* No step of a run changes the market.
LEMMA MarketKept == [Calibration!Next]_calibration => UNCHANGED market
<1> SUFFICES ASSUME [Calibration!Next]_calibration
             PROVE  UNCHANGED market
    OBVIOUS
<1> USE DEF Calibration!Write, Calibration!Continue, Calibration!AskFinally
<1>1. CASE UNCHANGED calibration
    BY <1>1 DEF calibration
<1>2. CASE Calibration!StartRun \/ Calibration!TakeSlot \/ Calibration!EndRun \/ Calibration!Kill
    BY <1>2 DEF Calibration!StartRun, Calibration!TakeSlot, Calibration!EndRun, Calibration!Kill
<1>3. ASSUME NEW q, Calibration!Respond(q)
      PROVE  UNCHANGED market
    BY <1>3 DEF Calibration!Respond, Calibration!Answer, Calibration!Garbled, Calibration!CallTools,
                Calibration!RejectTool, Calibration!Trouble, Calibration!ClaudeFails, Calibration!HitQuota
<1> QED
    BY <1>1, <1>2, <1>3 DEF Calibration!Next

(***************************************************************************)
(* A question shows of the market what was known when its trade was        *)
(* decided (load_cases, MarketHistory.as_of), and the rate in a listing's  *)
(* row counts the listings of its item in the hour before                  *)
(* (ListingRateTracker, replay_features).                                  *)
(***************************************************************************)
THEOREM SeesWhatWasKnownHolds == ExperimentsSpec => []SeesWhatWasKnown
<1> DEFINE Known == RateInv /\ market \in Markets
<1>1. ExperimentsInit => Known
    BY RateInit DEF ExperimentsInit, Calibration!Init, Markets
<1>2. Known /\ [ExperimentsNext]_<<scorecardVars, calibration, features>> => Known'
    <2> SUFFICES ASSUME Known, [ExperimentsNext]_<<scorecardVars, calibration, features>>
                 PROVE  Known'
        OBVIOUS
    <2>1. [Features!Next]_features /\ [Calibration!Next]_calibration
        BY DEF ExperimentsNext
    <2>2. RateInv'
        BY <2>1, RateStep
    <2>3. (market \in Markets)'
        BY <2>1, MarketKept DEF Markets
    <2> QED
        BY <2>2, <2>3
<1>3. Known => SeesWhatWasKnown
    BY MarketShown DEF RateInv, SeesWhatWasKnown
<1> QED
    BY <1>1, <1>2, <1>3, PTL DEF ExperimentsSpec

-----------------------------------------------------------------------------
(* Calibration: the questions in line.                                     *)

LEMMA QuestionPairs == \A q \in Calibration!Questions : q = <<q[1], q[2]>> /\ q[1] \in Nat /\ q[2] \in Nat
BY CalibrationConstants DEF Calibration!Questions

LEMMA QuestionsFinite == IsFiniteSet(Calibration!Questions)
<1>1. IsFiniteSet(1..Len(Cases)) /\ IsFiniteSet(1..Len(Variants))
    BY CalibrationConstants, FS_Interval
<1>2. IsFiniteSet((1..Len(Cases)) \X (1..Len(Variants)))
    BY <1>1, FS_Product
<1> QED
    BY <1>2, CalibrationConstants DEF Calibration!Questions

\* The questions are asked in a total order.
LEMMA OrderTotal ==
    ASSUME NEW q \in Calibration!Questions, NEW r \in Calibration!Questions, NEW s \in Calibration!Questions
    PROVE  /\ ~ Calibration!Order(q, q)
           /\ Calibration!Order(q, r) /\ Calibration!Order(r, s) => Calibration!Order(q, s)
           /\ q = r \/ Calibration!Order(q, r) \/ Calibration!Order(r, q)
<1>1. /\ q = <<q[1], q[2]>> /\ q[1] \in Nat /\ q[2] \in Nat
      /\ r = <<r[1], r[2]>> /\ r[1] \in Nat /\ r[2] \in Nat
      /\ s[1] \in Nat /\ s[2] \in Nat
    BY QuestionPairs
<1>2. q[1] = r[1] /\ q[2] = r[2] => q = r
    BY <1>1
<1>3. q[1] = r[1] \/ q[1] < r[1] \/ r[1] < q[1]
    BY <1>1
<1>4. q[2] = r[2] \/ q[2] < r[2] \/ r[2] < q[2]
    BY <1>1
<1>5. ~ Calibration!Order(q, q)
    BY <1>1 DEF Calibration!Order
<1>6. Calibration!Order(q, r) /\ Calibration!Order(r, s) => Calibration!Order(q, s)
    BY <1>1 DEF Calibration!Order
<1>7. q = r \/ Calibration!Order(q, r) \/ Calibration!Order(r, q)
    BY <1>2, <1>3, <1>4 DEF Calibration!Order
<1> QED
    BY <1>5, <1>6, <1>7

QuestionOrder == {p \in Calibration!Questions \X Calibration!Questions : Calibration!Order(p[1], p[2])}

LEMMA QuestionsRanked ==
    ASSUME NEW S, S \subseteq Calibration!Questions
    PROVE  /\ Ranking(QuestionOrder, S)
           /\ \A x, y \in S : <<x, y>> \in QuestionOrder <=> Calibration!Order(x, y)
           /\ \A x \in S : Below(QuestionOrder, S, x) = {y \in S : Calibration!Order(y, x)}
<1>1. \A x, y \in S : <<x, y>> \in QuestionOrder <=> Calibration!Order(x, y)
    BY DEF QuestionOrder
<1>2. IsFiniteSet(S)
    BY QuestionsFinite, FS_Subset
<1>3. Ranking(QuestionOrder, S)
    BY <1>1, <1>2, OrderTotal DEF Ranking
<1>4. \A x \in S : Below(QuestionOrder, S, x) = {y \in S : Calibration!Order(y, x)}
    BY <1>1 DEF Below
<1> QED
    BY <1>1, <1>3, <1>4

\* The line holds the questions of a set, each before those that come after it.
LEMMA InOrder ==
    ASSUME NEW S, S \subseteq Calibration!Questions
    PROVE  LET p == Calibration!sorted(S, Calibration!Order)
           IN  /\ p \in Seq(S)
               /\ \A i, j \in 1..Len(p) : i < j => Calibration!Order(p[i], p[j])
               /\ \A q \in S : \E i \in 1..Len(p) : p[i] = q
<1> DEFINE p == Calibration!sorted(S, Calibration!Order)
           n == Cardinality(S)
<1>0. Ranking(QuestionOrder, S)
    BY QuestionsRanked
<1>1. n \in Nat
    BY <1>0, RankOfAll
<1>2. p = [i \in 1..n |-> CHOOSE x \in S : Cardinality(Below(QuestionOrder, S, x)) = i - 1]
    <2>1. p = [i \in 1..Calibration!Cardinality(S) |->
                 CHOOSE x \in S : Calibration!Cardinality({y \in S : Calibration!Order(y, x)}) = i - 1]
        BY DEF Calibration!sorted
    <2>2. \A x \in S : Calibration!Cardinality({y \in S : Calibration!Order(y, x)}) = Cardinality(Below(QuestionOrder, S, x))
        BY CalibrationNames, QuestionsRanked
    <2> HIDE DEF p
    <2> QED
        BY <2>1, <2>2, CalibrationNames
<1> HIDE DEF p
<1>3. ASSUME NEW i \in 1..n
      PROVE  p[i] \in S /\ Cardinality(Below(QuestionOrder, S, p[i])) = i - 1
    <2>1. i - 1 \in 0..(n - 1)
        BY <1>1
    <2>2. \E x \in S : Cardinality(Below(QuestionOrder, S, x)) = i - 1
        BY <1>0, <2>1, RankOfAll
    <2>3. p[i] = CHOOSE x \in S : Cardinality(Below(QuestionOrder, S, x)) = i - 1
        BY <1>2
    <2> QED
        BY <2>2, <2>3
<1>4. p \in Seq(S) /\ Len(p) = n
    <2>1. p \in [1..n -> S]
        BY <1>2, <1>3
    <2> QED
        BY <1>1, <2>1, LenProperties
<1>5. ASSUME NEW i \in 1..n, NEW j \in 1..n, i < j
      PROVE  Calibration!Order(p[i], p[j])
    <2>1. p[i] \in S /\ p[j] \in S /\ Cardinality(Below(QuestionOrder, S, p[i])) < Cardinality(Below(QuestionOrder, S, p[j]))
        BY <1>1, <1>3, <1>5
    <2>2. ~ Calibration!Order(p[j], p[i])
        <3>1. <<p[j], p[i]>> \notin QuestionOrder
            BY <1>0, <1>1, <1>3, <1>5, <2>1, RankGrows
        <3> QED
            BY <2>1, <3>1, QuestionsRanked
    <2>3. p[i] # p[j]
        BY <1>1, <1>3, <1>5
    <2> QED
        BY <2>1, <2>2, <2>3, OrderTotal
<1>6. ASSUME NEW q \in S
      PROVE  \E i \in 1..n : p[i] = q
    <2>1. Cardinality(Below(QuestionOrder, S, q)) \in 0..(n - 1)
        BY <1>0, RankOfAll
    <2> DEFINE i == Cardinality(Below(QuestionOrder, S, q)) + 1
    <2>2. i \in 1..n /\ i - 1 = Cardinality(Below(QuestionOrder, S, q))
        BY <1>1, <2>1
    <2>3. p[i] \in S /\ Cardinality(Below(QuestionOrder, S, p[i])) = Cardinality(Below(QuestionOrder, S, q))
        BY <1>3, <2>2
    <2>4. p[i] = q
        BY <1>0, <2>3, RankOfAll
    <2> QED
        BY <2>2, <2>4
<1> QED
    BY <1>4, <1>5, <1>6 DEF p

-----------------------------------------------------------------------------
(* Calibration: a run takes the questions in line, and none that has an    *)
(* answer.                                                                 *)

\* The questions without a verdict up to r.
Unanswered(r) == {q \in Calibration!Questions : lines[q] = <<>> /\ (q = r \/ Calibration!Order(q, r))}

AskTypes ==
    /\ lines \in [Calibration!Questions -> Seq(Verdicts \cup {Failed})]
    /\ Calibration!Open \subseteq Calibration!Questions
    /\ pending \in Seq(Calibration!Questions)

InLine ==
    /\ \A i \in 1..Len(pending) : Calibration!Answers(pending[i]) = {} /\ pending[i] \notin Calibration!Open
    /\ \A i, j \in 1..Len(pending) : i < j => Calibration!Order(pending[i], pending[j])

Stopped == ~running => pending = <<>> /\ Calibration!Open = {}

\* Until a quota is hit, what has no verdict is open or in line.
AllUnderWay ==
    running /\ ~quota =>
        \A q \in Calibration!Questions :
            lines[q] = <<>> => q \in Calibration!Open \/ \E i \in 1..Len(pending) : pending[i] = q

\* No more than Concurrency questions are without a verdict up to one that is open or has one.
FewSkipped ==
    \A r \in Calibration!Questions :
        r \in Calibration!Open \/ lines[r] # <<>> => Cardinality(Unanswered(r)) <= Concurrency

AskInv == AskTypes /\ Calibration!PaidOnce /\ InLine /\ Stopped /\ AllUnderWay /\ FewSkipped

LEMMA FewerSkipped ==
    ASSUME NEW S, S \subseteq Calibration!Questions, Cardinality(S) <= Concurrency, NEW T, T \subseteq S
    PROVE  Cardinality(T) <= Concurrency
<1>1. IsFiniteSet(S) /\ T \in SUBSET S
    BY QuestionsFinite, FS_Subset
<1>2. IsFiniteSet(T) /\ Cardinality(T) <= Cardinality(S)
    BY <1>1, FS_Subset
<1>3. Cardinality(S) \in Nat /\ Cardinality(T) \in Nat
    BY <1>1, <1>2, FS_CardinalityType
<1> QED
    BY <1>2, <1>3, CalibrationConstants

LEMMA AskInit == Calibration!Init => AskInv
<1> SUFFICES ASSUME Calibration!Init
             PROVE  AskInv
    OBVIOUS
<1>1. lines = [q \in Calibration!Questions |-> <<>>] /\ running = FALSE /\ pending = <<>> /\ Calibration!Open = {}
    BY DEF Calibration!Init, Calibration!NoAsks, Calibration!Open
<1>2. <<>> \in Seq(Verdicts \cup {Failed}) /\ <<>> \in Seq(Calibration!Questions) /\ Len(<<>>) = 0 /\ DOMAIN <<>> = {}
    BY EmptySeq
<1>3. AskTypes
    BY <1>1, <1>2 DEF AskTypes
<1>4. Calibration!PaidOnce
    <2>1. \A q \in Calibration!Questions : Calibration!Answers(q) = {}
        BY <1>1, <1>2 DEF Calibration!Answers
    <2> QED
        BY <2>1, FS_EmptySet, CalibrationNames DEF Calibration!PaidOnce
<1>5. InLine
    BY <1>1, <1>2 DEF InLine
<1>6. Stopped /\ AllUnderWay /\ FewSkipped
    BY <1>1 DEF Stopped, AllUnderWay, FewSkipped
<1> QED
    BY <1>3, <1>4, <1>5, <1>6 DEF AskInv

LEMMA StartRunKeeps == AskInv /\ Calibration!StartRun => AskInv'
<1> SUFFICES ASSUME AskInv, Calibration!StartRun
             PROVE  AskInv'
    OBVIOUS
<1> DEFINE S == {q \in Calibration!Questions : ~ Calibration!Done(q)}
<1>1. /\ ~running /\ running' = TRUE /\ lines' = lines /\ asks' = asks
      /\ pending' = Calibration!sorted(S, Calibration!Order)
    BY DEF Calibration!StartRun
<1>2. S \subseteq Calibration!Questions /\ \A q \in S : Calibration!Answers(q) = {}
    BY DEF Calibration!Done
<1>3. \A q \in Calibration!Questions : Calibration!Answers(q) = {} => q \in S
    BY DEF Calibration!Done
<1> HIDE DEF S
<1>4. /\ pending' \in Seq(S)
      /\ \A i, j \in 1..Len(pending') : i < j => Calibration!Order(pending'[i], pending'[j])
      /\ \A q \in S : \E i \in 1..Len(pending') : pending'[i] = q
    BY <1>1, <1>2, InOrder
<1>5. Calibration!Open = {} /\ Calibration!Open' = {}
    BY <1>1 DEF AskInv, Stopped, Calibration!Open
<1>6. AskTypes'
    <2>1. pending' \in Seq(Calibration!Questions)
        BY <1>2, <1>4, SeqMonotonic
    <2> QED
        BY <1>1, <1>5, <2>1 DEF AskInv, AskTypes
<1>7. \A q : Calibration!Answers(q)' = Calibration!Answers(q)
    BY <1>1 DEF Calibration!Answers
<1>8. Calibration!PaidOnce'
    BY <1>1, <1>5, <1>7 DEF AskInv, Calibration!PaidOnce, Calibration!Questions
<1>9. InLine'
    <2>1. \A i \in 1..Len(pending') : pending'[i] \in S
        BY <1>4, ElementOfSeq
    <2> QED
        BY <1>2, <1>4, <1>5, <1>7, <2>1 DEF InLine, Calibration!Order
<1>10. Stopped'
    BY <1>1 DEF Stopped
<1>11. AllUnderWay'
    <2>1. ASSUME NEW q \in Calibration!Questions, lines[q] = <<>>
          PROVE  q \in S
        <3>1. Calibration!Answers(q) = {}
            BY <2>1, EmptySeq DEF Calibration!Answers
        <3> QED
            BY <1>3, <3>1
    <2> QED
        BY <1>1, <1>4, <2>1 DEF AllUnderWay, Calibration!Questions
<1>12. FewSkipped'
    <2>1. \A r : Unanswered(r)' = Unanswered(r)
        BY <1>1 DEF Unanswered, Calibration!Questions, Calibration!Order
    <2> QED
        BY <1>1, <1>5, <2>1 DEF AskInv, FewSkipped, Calibration!Questions
<1> QED
    BY <1>6, <1>8, <1>9, <1>10, <1>11, <1>12 DEF AskInv

LEMMA TakeSlotKeeps == AskInv /\ Calibration!TakeSlot => AskInv'
<1> SUFFICES ASSUME AskInv, Calibration!TakeSlot
             PROVE  AskInv'
    OBVIOUS
<1> DEFINE h == Head(pending)
<1>1. /\ running /\ pending # <<>> /\ pending' = Tail(pending)
      /\ lines' = lines /\ running' = running /\ quota' = quota
    BY DEF Calibration!TakeSlot
<1>2. /\ h \in Calibration!Questions /\ pending' \in Seq(Calibration!Questions)
      /\ Len(pending) \in Nat /\ Len(pending') = Len(pending) - 1 /\ Len(pending) >= 1
      /\ h = pending[1] /\ \A i \in 1..Len(pending') : pending'[i] = pending[i + 1]
    <2>1. pending \in Seq(Calibration!Questions)
        BY DEF AskInv, AskTypes
    <2>2. /\ h \in Calibration!Questions /\ pending' \in Seq(Calibration!Questions)
          /\ Len(pending') = Len(pending) - 1 /\ \A i \in 1..Len(pending') : pending'[i] = pending[i + 1]
        BY <1>1, <2>1, HeadTailProperties
    <2>3. Len(pending) \in Nat /\ Len(pending') \in Nat
        BY <2>1, <2>2, LenProperties
    <2>4. h = pending[1]
        OBVIOUS
    <2> QED
        BY <2>2, <2>3, <2>4
<1>3. \A i \in 1..Len(pending') : i + 1 \in 1..Len(pending) /\ 1 < i + 1
    BY <1>2
<1>4. Calibration!Open' = IF quota THEN Calibration!Open ELSE Calibration!Open \cup {h}
    BY DEF Calibration!TakeSlot, Calibration!Open
<1> HIDE DEF h
<1>5. \A q : Calibration!Answers(q)' = Calibration!Answers(q)
    BY <1>1 DEF Calibration!Answers
<1>6. \A r : Unanswered(r)' = Unanswered(r)
    BY <1>1 DEF Unanswered, Calibration!Questions, Calibration!Order
<1>7. Calibration!Answers(h) = {} /\ h \notin Calibration!Open
    <2>1. 1 \in 1..Len(pending)
        BY <1>2
    <2>2. Calibration!Answers(pending[1]) = {} /\ pending[1] \notin Calibration!Open
        BY <2>1 DEF AskInv, InLine
    <2> QED
        BY <1>2, <2>2
<1>8. \A i \in 1..Len(pending') : Calibration!Order(h, pending'[i])
    BY <1>2, <1>3 DEF AskInv, InLine
<1>9. AskTypes'
    BY <1>1, <1>2, <1>4 DEF AskInv, AskTypes, Calibration!Questions
<1>10. Calibration!PaidOnce'
    BY <1>1, <1>4, <1>5, <1>7 DEF AskInv, Calibration!PaidOnce, Calibration!Questions
<1>11. InLine'
    <2>1. ASSUME NEW i \in 1..Len(pending')
          PROVE  Calibration!Answers(pending'[i]) = {} /\ pending'[i] \notin Calibration!Open'
        <3>1. Calibration!Answers(pending'[i]) = {} /\ pending'[i] \notin Calibration!Open
            BY <1>2, <1>3 DEF AskInv, InLine
        <3>2. pending'[i] # h
            BY <1>2, <1>8, OrderTotal
        <3> QED
            BY <1>4, <3>1, <3>2
    <2>2. ASSUME NEW i \in 1..Len(pending'), NEW j \in 1..Len(pending'), i < j
          PROVE  Calibration!Order(pending'[i], pending'[j])
        <3>1. i + 1 < j + 1
            BY <1>2, <2>2
        <3>2. Calibration!Order(pending[i + 1], pending[j + 1])
            BY <1>3, <3>1 DEF AskInv, InLine
        <3> QED
            BY <1>2, <3>2
    <2> QED
        BY <1>5, <2>1, <2>2 DEF InLine, Calibration!Order
<1>12. Stopped'
    BY <1>1 DEF Stopped
<1>13. AllUnderWay'
    <2> SUFFICES ASSUME ~quota, NEW q \in Calibration!Questions, lines[q] = <<>>
                 PROVE  q \in Calibration!Open' \/ \E i \in 1..Len(pending') : pending'[i] = q
        BY <1>1 DEF AllUnderWay, Calibration!Questions
    <2>1. CASE q \in Calibration!Open
        BY <1>4, <2>1
    <2>2. ASSUME NEW i \in 1..Len(pending), pending[i] = q
          PROVE  q \in Calibration!Open' \/ \E j \in 1..Len(pending') : pending'[j] = q
        <3>1. CASE i = 1
            BY <1>2, <1>4, <2>2, <3>1
        <3>2. CASE i # 1
            <4>1. i - 1 \in 1..Len(pending') /\ (i - 1) + 1 = i
                BY <1>2, <3>2
            <4>2. pending'[i - 1] = q
                BY <1>2, <2>2, <4>1
            <4> QED
                BY <4>1, <4>2
        <3> QED
            BY <3>1, <3>2
    <2>3. q \in Calibration!Open \/ \E i \in 1..Len(pending) : pending[i] = q
        BY <1>1 DEF AskInv, AllUnderWay
    <2> QED
        BY <2>1, <2>2, <2>3
<1>14. FewSkipped'
    <2>1. ASSUME ~quota
          PROVE  Cardinality(Unanswered(h)) <= Concurrency
        <3>1. Unanswered(h) \subseteq Calibration!Open \cup {h}
            <4> SUFFICES ASSUME NEW q \in Unanswered(h), q \notin Calibration!Open
                         PROVE  q = h
                OBVIOUS
            <4>1. q \in Calibration!Questions /\ lines[q] = <<>> /\ (q = h \/ Calibration!Order(q, h))
                BY DEF Unanswered
            <4>2. PICK i \in 1..Len(pending) : pending[i] = q
                BY <1>1, <2>1, <4>1 DEF AskInv, AllUnderWay
            <4>3. CASE i = 1
                BY <1>2, <4>2, <4>3
            <4>4. CASE i # 1
                <5>1. 1 \in 1..Len(pending) /\ 1 < i
                    BY <1>2, <4>4
                <5>2. Calibration!Order(h, q)
                    BY <1>2, <4>2, <5>1 DEF AskInv, InLine
                <5> QED
                    BY <1>2, <4>1, <5>2, OrderTotal
            <4> QED
                BY <4>3, <4>4
        <3>2. IsFiniteSet(Calibration!Open) /\ Cardinality(Calibration!Open) \in Nat
            <4>1. Calibration!Open \in SUBSET Calibration!Questions
                BY DEF AskInv, AskTypes
            <4> QED
                BY <4>1, QuestionsFinite, FS_Subset, FS_CardinalityType
        <3>3. Cardinality(Calibration!Open) < Concurrency
            BY CalibrationNames DEF Calibration!TakeSlot
        <3>4. Cardinality(Calibration!Open \cup {h}) = Cardinality(Calibration!Open) + 1
            BY <1>7, <3>2, FS_AddElement
        <3>5. Cardinality(Calibration!Open \cup {h}) <= Concurrency
            BY <3>2, <3>3, <3>4, CalibrationConstants
        <3>6. Calibration!Open \cup {h} \subseteq Calibration!Questions
            BY <1>2 DEF AskInv, AskTypes
        <3> QED
            BY <3>1, <3>5, <3>6, FewerSkipped
    <2> QED
        BY <1>1, <1>4, <1>6, <2>1 DEF AskInv, FewSkipped, Calibration!Questions
<1> QED
    BY <1>9, <1>10, <1>11, <1>12, <1>13, <1>14 DEF AskInv

\* What an open question's step can do: leave a verdict, go on, or hit the quota.
LEMMA RespondCases ==
    ASSUME NEW q \in Calibration!Open, Calibration!Respond(q)
    PROVE  \/ \E v \in Verdicts \cup {Failed} : Calibration!Write(q, v)
           \/ UNCHANGED <<lines, running, pending, quota>> /\ Calibration!Open' = Calibration!Open
           \/ Calibration!HitQuota(q)
<1>1. ASSUME NEW s, Calibration!Continue(q, s)
      PROVE  UNCHANGED <<lines, running, pending, quota>> /\ Calibration!Open' = Calibration!Open
    BY <1>1 DEF Calibration!Continue, Calibration!Go, Calibration!Open
<1>2. ASSUME Calibration!AskFinally(q)
      PROVE  UNCHANGED <<lines, running, pending, quota>> /\ Calibration!Open' = Calibration!Open
    BY <1>1, <1>2 DEF Calibration!AskFinally
<1>3. CASE Calibration!Answer(q)
    BY <1>3 DEF Calibration!Answer
<1>4. CASE Calibration!Garbled(q)
    BY <1>2, <1>4 DEF Calibration!Garbled
<1>5. CASE Calibration!CallTools(q)
    BY <1>1, <1>2, <1>5 DEF Calibration!CallTools
<1>6. CASE Calibration!RejectTool(q)
    BY <1>1, <1>2, <1>6 DEF Calibration!RejectTool
<1>7. CASE Calibration!Trouble(q)
    BY <1>1, <1>7 DEF Calibration!Trouble
<1>8. CASE Calibration!ClaudeFails(q)
    BY <1>8 DEF Calibration!ClaudeFails
<1> QED
    BY <1>3, <1>4, <1>5, <1>6, <1>7, <1>8 DEF Calibration!Respond

LEMMA WriteKeeps ==
    ASSUME AskInv, NEW q \in Calibration!Open, NEW v \in Verdicts \cup {Failed}, Calibration!Write(q, v)
    PROVE  AskInv'
<1>1. /\ lines' = [lines EXCEPT ![q] = Append(lines[q], v)] /\ Calibration!Open' = Calibration!Open \ {q}
      /\ running' = running /\ pending' = pending /\ quota' = quota
    BY DEF Calibration!Write, Calibration!Close, Calibration!Open
<1>2. /\ q \in Calibration!Questions /\ lines \in [Calibration!Questions -> Seq(Verdicts \cup {Failed})]
      /\ Calibration!Open \subseteq Calibration!Questions
    BY DEF AskInv, AskTypes
<1>3. lines'[q] = Append(lines[q], v) /\ \A r \in Calibration!Questions : r # q => lines'[r] = lines[r]
    BY <1>1, <1>2
<1>4. /\ Append(lines[q], v) \in Seq(Verdicts \cup {Failed}) /\ Append(lines[q], v) # <<>>
      /\ DOMAIN lines[q] = 1..Len(lines[q]) /\ Len(lines[q]) \in Nat
      /\ DOMAIN Append(lines[q], v) = 1..(Len(lines[q]) + 1)
      /\ \A i \in 1..Len(lines[q]) : Append(lines[q], v)[i] = lines[q][i]
    <2>1. lines[q] \in Seq(Verdicts \cup {Failed})
        BY <1>2
    <2>2. /\ Append(lines[q], v) \in Seq(Verdicts \cup {Failed}) /\ Append(lines[q], v) # <<>>
          /\ Len(Append(lines[q], v)) = Len(lines[q]) + 1
          /\ \A i \in 1..Len(lines[q]) : Append(lines[q], v)[i] = lines[q][i]
        BY <2>1, AppendProperties
    <2>3. DOMAIN lines[q] = 1..Len(lines[q]) /\ Len(lines[q]) \in Nat
        BY <2>1, LenProperties
    <2>4. DOMAIN Append(lines[q], v) = 1..Len(Append(lines[q], v))
        BY <2>2, LenProperties
    <2> QED
        BY <2>2, <2>3, <2>4
<1>5. \A r \in Calibration!Questions : r # q => Calibration!Answers(r)' = Calibration!Answers(r)
    BY <1>3 DEF Calibration!Answers
<1>6. Calibration!Answers(q) = {}
    BY <1>2 DEF AskInv, Calibration!PaidOnce
<1>7. Cardinality(Calibration!Answers(q)') <= 1
    <2>1. ASSUME NEW i \in Calibration!Answers(q)'
          PROVE  i = Len(lines[q]) + 1
        <3>1. i \in DOMAIN lines'[q] /\ lines'[q][i] # Failed
            BY <2>1 DEF Calibration!Answers
        <3>2. i \notin 1..Len(lines[q])
            BY <1>3, <1>4, <1>6, <3>1 DEF Calibration!Answers
        <3>3. i \in 1..(Len(lines[q]) + 1)
            BY <1>3, <1>4, <3>1
        <3> QED
            BY <1>4, <3>2, <3>3
    <2>2. Calibration!Answers(q)' \in SUBSET {Len(lines[q]) + 1}
        BY <2>1
    <2>3. IsFiniteSet({Len(lines[q]) + 1}) /\ Cardinality({Len(lines[q]) + 1}) = 1
        BY FS_Singleton
    <2>4. \A T \in SUBSET {Len(lines[q]) + 1} : Cardinality(T) <= 1
        BY <2>3, FS_Subset, ZenonT(60)
    <2> QED
        BY <2>2, <2>4
<1>8. AskTypes'
    <2>1. lines' \in [Calibration!Questions -> Seq(Verdicts \cup {Failed})]
        BY <1>1, <1>2, <1>4
    <2> QED
        BY <1>1, <2>1 DEF AskInv, AskTypes, Calibration!Questions
<1>9. Calibration!PaidOnce'
    <2>1. ASSUME NEW r \in Calibration!Questions
          PROVE  /\ Calibration!Cardinality(Calibration!Answers(r)') <= 1
                 /\ r \in Calibration!Open' => Calibration!Answers(r)' = {}
        <3>1. CASE r = q
            BY <1>1, <1>7, <3>1, CalibrationNames
        <3>2. CASE r # q
            BY <1>1, <1>5, <3>2 DEF AskInv, Calibration!PaidOnce
        <3> QED
            BY <3>1, <3>2
    <2> QED
        BY <2>1 DEF Calibration!PaidOnce, Calibration!Questions, Calibration!Cardinality
<1>10. InLine'
    <2>1. ASSUME NEW i \in 1..Len(pending)
          PROVE  Calibration!Answers(pending[i])' = {} /\ pending[i] \notin Calibration!Open'
        <3>1. pending[i] \in Calibration!Questions
            BY ElementOfSeq DEF AskInv, AskTypes
        <3>2. Calibration!Answers(pending[i]) = {} /\ pending[i] \notin Calibration!Open
            BY DEF AskInv, InLine
        <3>3. pending[i] # q
            BY <3>2
        <3>4. \A r \in Calibration!Questions : r # q /\ Calibration!Answers(r) = {} => {j \in DOMAIN lines'[r] : lines'[r][j] # Failed} = {}
            BY <1>5 DEF Calibration!Answers
        <3>5. {j \in DOMAIN lines'[pending[i]] : lines'[pending[i]][j] # Failed} = {}
            BY <3>1, <3>2, <3>3, <3>4
        <3> QED
            BY <1>1, <3>2, <3>5 DEF Calibration!Answers
    <2>2. \A i, j \in 1..Len(pending) : i < j => Calibration!Order(pending[i], pending[j])
        BY DEF AskInv, InLine
    <2> QED
        BY <1>1, <2>1, <2>2 DEF InLine, Calibration!Order, Calibration!Answers
<1>11. Stopped'
    BY <1>1 DEF AskInv, Stopped
<1>12. AllUnderWay'
    <2> SUFFICES ASSUME running, ~quota, NEW r \in Calibration!Questions, lines'[r] = <<>>
                 PROVE  r \in Calibration!Open' \/ \E i \in 1..Len(pending) : pending[i] = r
        BY <1>1 DEF AllUnderWay, Calibration!Questions
    <2>1. r # q
        BY <1>3, <1>4
    <2>2. lines[r] = <<>>
        BY <1>3, <2>1
    <2> QED
        BY <1>1, <2>1, <2>2 DEF AskInv, AllUnderWay
<1>13. FewSkipped'
    <2> SUFFICES ASSUME NEW r \in Calibration!Questions, r \in Calibration!Open' \/ lines'[r] # <<>>
                 PROVE  Cardinality(Unanswered(r)') <= Concurrency
        BY DEF FewSkipped, Calibration!Questions
    <2>1. r \in Calibration!Open \/ lines[r] # <<>>
        BY <1>1, <1>3
    <2>2. Cardinality(Unanswered(r)) <= Concurrency
        BY <2>1 DEF AskInv, FewSkipped
    <2>3. \A p \in Calibration!Questions : lines'[p] = <<>> => lines[p] = <<>>
        BY <1>3, <1>4
    <2>4. Unanswered(r)' \subseteq Unanswered(r)
        BY <2>3 DEF Unanswered, Calibration!Questions, Calibration!Order
    <2>5. Unanswered(r) \subseteq Calibration!Questions
        BY DEF Unanswered
    <2> QED
        BY <2>2, <2>4, <2>5, FewerSkipped
<1> QED
    BY <1>8, <1>9, <1>10, <1>11, <1>12, <1>13 DEF AskInv

\* Less that is open, and nothing written.
LEMMA LeavingKeeps ==
    ASSUME AskInv, lines' = lines, Calibration!Open' \subseteq Calibration!Open,
           pending' = pending \/ pending' = <<>>,
           running' => running,
           ~running' => pending' = <<>> /\ Calibration!Open' = {},
           running' /\ ~quota' => ~quota /\ pending' = pending /\ Calibration!Open' = Calibration!Open
    PROVE  AskInv'
<1>1. \A q : Calibration!Answers(q)' = Calibration!Answers(q)
    BY DEF Calibration!Answers
<1>2. \A r : Unanswered(r)' = Unanswered(r)
    BY DEF Unanswered, Calibration!Questions, Calibration!Order
<1>3. <<>> \in Seq(Calibration!Questions) /\ 1..Len(<<>>) = {}
    BY EmptySeq
<1>4. AskTypes'
    BY <1>3 DEF AskInv, AskTypes, Calibration!Questions
<1>5. Calibration!PaidOnce'
    BY <1>1 DEF AskInv, Calibration!PaidOnce, Calibration!Questions
<1>6. InLine'
    <2>1. CASE pending' = pending
        BY <1>1, <2>1 DEF AskInv, InLine, Calibration!Order
    <2>2. CASE pending' = <<>>
        BY <1>3, <2>2 DEF InLine
    <2> QED
        BY <2>1, <2>2
<1>7. Stopped'
    BY DEF Stopped
<1>8. AllUnderWay'
    BY DEF AskInv, AllUnderWay, Calibration!Questions
<1>9. FewSkipped'
    BY <1>2 DEF AskInv, FewSkipped, Calibration!Questions
<1> QED
    BY <1>4, <1>5, <1>6, <1>7, <1>8, <1>9 DEF AskInv

LEMMA AskStep == AskInv /\ [Calibration!Next]_calibration => AskInv'
<1> SUFFICES ASSUME AskInv, [Calibration!Next]_calibration
             PROVE  AskInv'
    OBVIOUS
<1>1. CASE UNCHANGED calibration
    <2>1. Calibration!Open' = Calibration!Open /\ UNCHANGED <<lines, pending, running, quota>>
        BY <1>1 DEF calibration, Calibration!Open
    <2> QED
        BY <2>1, LeavingKeeps DEF AskInv, Stopped
<1>2. CASE Calibration!StartRun
    BY <1>2, StartRunKeeps
<1>3. CASE Calibration!TakeSlot
    BY <1>3, TakeSlotKeeps
<1>4. ASSUME NEW q \in Calibration!Open, Calibration!Respond(q)
      PROVE  AskInv'
    <2>1. ASSUME NEW v \in Verdicts \cup {Failed}, Calibration!Write(q, v)
          PROVE  AskInv'
        BY <2>1, WriteKeeps
    <2>2. CASE UNCHANGED <<lines, running, pending, quota>> /\ Calibration!Open' = Calibration!Open
        BY <2>2, LeavingKeeps DEF AskInv, Stopped
    <2>3. CASE Calibration!HitQuota(q)
        <3>1. /\ quota' = TRUE /\ Calibration!Open' = Calibration!Open \ {q}
              /\ lines' = lines /\ pending' = pending /\ running' = running
            BY <2>3 DEF Calibration!HitQuota, Calibration!Close, Calibration!Open
        <3> QED
            BY <3>1, LeavingKeeps DEF AskInv, Stopped
    <2> QED
        BY <1>4, <2>1, <2>2, <2>3, RespondCases
<1>5. CASE Calibration!EndRun
    <2>1. /\ pending = <<>> /\ Calibration!Open = {} /\ running /\ running' = FALSE
          /\ UNCHANGED <<lines, pending, quota>> /\ Calibration!Open' = Calibration!Open
        BY <1>5 DEF Calibration!EndRun, Calibration!Open
    <2> QED
        BY <2>1, LeavingKeeps
<1>6. CASE Calibration!Kill
    <2>1. running' = FALSE /\ pending' = <<>> /\ lines' = lines /\ Calibration!Open' = {}
        BY <1>6 DEF Calibration!Kill, Calibration!NoAsks, Calibration!Open
    <2> QED
        BY <2>1, LeavingKeeps
<1> QED
    BY <1>1, <1>2, <1>3, <1>4, <1>5, <1>6 DEF Calibration!Next

\* One of the questions with a verdict comes after all others.
LEMMA LastVerdict ==
    ASSUME NEW A, A \subseteq Calibration!Questions, A # {}
    PROVE  \E m \in A : \A r \in A : r = m \/ Calibration!Order(r, m)
<1> DEFINE trades == {r[1] : r \in A}
           c == Max(trades)
           variants == {r[2] : r \in {s \in A : s[1] = c}}
           v == Max(variants)
<1>0. \A r \in A : r = <<r[1], r[2]>> /\ r[1] \in 0..Len(Cases) /\ r[2] \in 0..Len(Variants)
    BY CalibrationConstants DEF Calibration!Questions
<1>1. c \in trades /\ \A t \in trades : t <= c
    <2>1. trades \subseteq 0..Len(Cases) /\ trades # {} /\ Len(Cases) \in Nat
        BY <1>0, CalibrationConstants
    <2> HIDE DEF trades
    <2> QED
        BY <2>1, GreatestOf
<1>2. v \in variants /\ \A t \in variants : t <= v
    <2>1. variants # {}
        <3> HIDE DEF c
        <3> QED
            BY <1>1
    <2>2. variants \subseteq 0..Len(Variants) /\ Len(Variants) \in Nat
        BY <1>0, CalibrationConstants
    <2> HIDE DEF variants
    <2> QED
        BY <2>1, <2>2, GreatestOf
<1> HIDE DEF c, v
<1>3. PICK m \in A : m[1] = c /\ m[2] = v
    BY <1>2
<1>4. ASSUME NEW r \in A
      PROVE  r = m \/ Calibration!Order(r, m)
    <2>1. /\ r = <<r[1], r[2]>> /\ r[1] \in Nat /\ r[2] \in Nat
          /\ m = <<m[1], m[2]>> /\ m[1] \in Nat /\ m[2] \in Nat
        BY QuestionPairs
    <2>2. r[1] <= c
        BY <1>1
    <2>3. r[1] = c => r[2] <= v
        BY <1>2
    <2>4. r[1] = m[1] /\ r[2] = m[2] => r = m
        BY <2>1
    <2>5. r[1] < m[1] \/ (r[1] = m[1] /\ (r[2] = m[2] \/ r[2] < m[2]))
        BY <1>3, <2>1, <2>2, <2>3
    <2> QED
        BY <2>4, <2>5 DEF Calibration!Order
<1> QED
    BY <1>4

LEMMA FewLeft == AskInv => Calibration!LeavesSample
<1> SUFFICES ASSUME AskInv
             PROVE  Calibration!LeavesSample
    OBVIOUS
<1> DEFINE A == {r \in Calibration!Questions : lines[r] # <<>>}
           Gap == {q \in Calibration!Questions :
                     lines[q] = <<>> /\ \E r \in Calibration!Questions : lines[r] # <<>> /\ Calibration!Order(q, r)}
<1>1. Cardinality(Gap) <= Concurrency
    <2>1. CASE A = {}
        <3>1. Gap = {}
            BY <2>1
        <3>2. Cardinality(Gap) = 0
            BY <3>1, FS_EmptySet
        <3> HIDE DEF Gap
        <3> QED
            BY <3>2, CalibrationConstants
    <2>2. CASE A # {}
        <3>1. PICK m \in A : \A r \in A : r = m \/ Calibration!Order(r, m)
            <4>1. A \subseteq Calibration!Questions
                OBVIOUS
            <4> HIDE DEF A
            <4> QED
                BY <2>2, <4>1, LastVerdict
        <3>2. Cardinality(Unanswered(m)) <= Concurrency /\ Unanswered(m) \subseteq Calibration!Questions
            BY DEF AskInv, FewSkipped, Unanswered
        <3>3. Gap \subseteq Unanswered(m)
            <4> SUFFICES ASSUME NEW q \in Calibration!Questions, lines[q] = <<>>,
                                NEW r \in Calibration!Questions, lines[r] # <<>>, Calibration!Order(q, r)
                         PROVE  q \in Unanswered(m)
                OBVIOUS
            <4>1. m \in Calibration!Questions /\ (r = m \/ Calibration!Order(r, m))
                BY <3>1
            <4>2. Calibration!Order(q, m)
                BY <4>1, OrderTotal
            <4> QED
                BY <4>2 DEF Unanswered
        <3> HIDE DEF Gap
        <3> QED
            BY <3>2, <3>3, FewerSkipped
    <2> QED
        BY <2>1, <2>2
<1>2. Calibration!Cardinality(Gap) <= Concurrency
    <2> HIDE DEF Gap
    <2> QED
        BY <1>1, CalibrationNames
<1> QED
    BY <1>2 DEF Calibration!LeavesSample

(***************************************************************************)
(* No question of the calibration is asked again after a successful        *)
(* verdict, however often runs stop and resume (done_keys), and when a run *)
(* has stopped, at a quota or killed, at most Concurrency questions before *)
(* the last one with a verdict have none (run_verdicts).                   *)
(***************************************************************************)
THEOREM PaidOnceHolds == ExperimentsSpec => []PaidOnce
<1>1. ExperimentsInit => AskInv
    BY AskInit DEF ExperimentsInit
<1>2. AskInv /\ [ExperimentsNext]_<<scorecardVars, calibration, features>> => AskInv'
    <2>1. [ExperimentsNext]_<<scorecardVars, calibration, features>> => [Calibration!Next]_calibration
        BY DEF ExperimentsNext
    <2> QED
        BY <2>1, AskStep
<1>3. AskInv => PaidOnce
    BY FewLeft DEF AskInv, PaidOnce
<1> QED
    BY <1>1, <1>2, <1>3, PTL DEF ExperimentsSpec

-----------------------------------------------------------------------------
(* Replay: the builds and the log.                                         *)

IsSwitch(x) == x.type = "baseline"
IsDecision(x) == x.type = "decision"
Moment(x) == IF x.type = "baseline" THEN x.from ELSE x.time

\* The line j is the last switch up to line i.
InForce(l, j, i) == j \in 1..i /\ IsSwitch(l[j]) /\ \A k \in (j + 1)..i : ~IsSwitch(l[k])

LogTypes(l, t) ==
    \A i \in 1..Len(l) : /\ Moment(l[i]) \in Nat /\ Moment(l[i]) <= t /\ Moment(l[i]) < LogEnd
                         /\ IsSwitch(l[i]) <=> ~IsDecision(l[i])

\* The lines are in the order of time, and a switch is later than all lines before it.
LogOrder(l) ==
    \A i, k \in 1..Len(l) :
        k < i => Moment(l[k]) <= Moment(l[i]) /\ (IsSwitch(l[i]) => Moment(l[k]) < Moment(l[i]))

LogSwitches(l) ==
    \A i \in 1..Len(l) :
        IsSwitch(l[i]) => l[i].build \in Int /\ (l[i].look_ahead <=> l[i].build > Moment(l[i]))

\* The last switch before a decision is to the build of its moment.
LogBuilds(l) ==
    \A i \in 1..Len(l) :
        IsDecision(l[i]) =>
            /\ WarmupStart <= Moment(l[i])
            /\ \E j \in 1..Len(l) : InForce(l, j, i) /\ l[j].build = active_build(Moment(l[i]))

LogActive(l, t, a) ==
    \/ l = <<>> /\ a = NoBuild
    \/ a = active_build(t) /\ \E j \in 1..Len(l) : InForce(l, j, Len(l)) /\ l[j].build = a

LogOK(l, t, a) ==
    /\ \E S : l \in Seq(S)
    /\ LogTypes(l, t) /\ LogOrder(l) /\ LogSwitches(l) /\ LogBuilds(l) /\ LogActive(l, t, a)

\* The stored builds are of the recorded range, and one of them is scheduled.
StoredBuilds == builds \subseteq Times /\ Scheduled(builds) # {}

LEMMA ReplayConstants ==
    /\ WarmupStart \in Nat /\ LogStart \in Nat /\ LogEnd \in Nat
    /\ WarmupStart <= LogStart /\ LogStart < LogEnd
    /\ Lowest \notin Listings /\ NoScore \notin Scores /\ NoRule \notin Rules
BY ReplayAssumption

\* At any moment a scheduled build is active; from the warmup on it is the newest of all, once there is one.
LEMMA ActiveBuild ==
    ASSUME StoredBuilds, NEW t \in Nat
    PROVE  /\ active_build(t) \in Nat
           /\ WarmupStart <= t /\ t < LogEnd /\ {b \in builds : b <= t} # {}
                => active_build(t) = Max({b \in builds : b <= t})
<1> USE ReplayConstants
<1> DEFINE S == Scheduled(builds)
           B == {b \in builds : b <= WarmupStart}
           built == {b \in S : b <= t}
           all == {b \in builds : b <= t}
<1>1. builds \subseteq 0..LogEnd /\ \A b \in builds : b \in Nat /\ b < LogEnd
    BY DEF StoredBuilds, Times
<1>2. S = {b \in builds : b < LogEnd /\ b >= (IF B = {} THEN WarmupStart ELSE Max(B))}
    BY DEF Scheduled
<1>3. B # {} => Max(B) \in B /\ \A b \in B : b <= Max(B)
    <2>1. B \subseteq 0..LogEnd
        BY <1>1
    <2> HIDE DEF B
    <2> QED
        BY <2>1, GreatestOf
<1>4. active_build(t) = IF built = {} THEN Min(S) ELSE Max(built)
    BY DEF active_build
<1> HIDE DEF S
<1>5. S \subseteq Nat /\ S # {} /\ S \subseteq builds
    BY <1>1, <1>2 DEF StoredBuilds, S
<1>6. built # {} => Max(built) \in built /\ \A b \in built : b <= Max(built)
    <2>1. built \subseteq 0..LogEnd
        BY <1>1, <1>5
    <2> HIDE DEF built
    <2> QED
        BY <2>1, GreatestOf
<1>7. active_build(t) \in Nat
    <2>1. Min(S) \in S
        BY <1>5, LeastOf
    <2> HIDE DEF built
    <2>2. built # {} => Max(built) \in S
        BY <1>6 DEF built
    <2> QED
        BY <1>4, <1>5, <2>1, <2>2
<1>8. ASSUME WarmupStart <= t, t < LogEnd, all # {}
      PROVE  active_build(t) = Max(all)
    <2>1. Max(all) \in all /\ \A b \in all : b <= Max(all)
        <3>1. all \subseteq 0..LogEnd
            BY <1>1
        <3> HIDE DEF all
        <3> QED
            BY <1>8, <3>1, GreatestOf
    <2> DEFINE m == Max(all)
    <2> HIDE DEF m
    <2>2. m \in builds /\ m \in Nat /\ m <= t /\ m < LogEnd /\ \A b \in builds : b <= t => b <= m
        BY <1>1, <2>1 DEF m
    <2>3. B = {} => m >= WarmupStart
        BY <1>1, <2>2
    <2>4. B # {} => m >= Max(B)
        <3>1. ASSUME B # {}
              PROVE  Max(B) \in builds /\ Max(B) <= t
            <4>1. Max(B) \in builds /\ Max(B) <= WarmupStart
                BY <1>3, <3>1
            <4>2. Max(B) \in Nat
                BY <1>1, <4>1
            <4> HIDE DEF B
            <4> QED
                BY <1>8, <4>1, <4>2
        <3> QED
            BY <1>1, <2>2, <3>1
    <2>5. m \in S
        <3> HIDE DEF B
        <3> QED
            BY <1>2, <2>2, <2>3, <2>4
    <2>6. m \in built
        BY <2>2, <2>5
    <2>7. Max(built) \in Nat /\ Max(built) <= m /\ m <= Max(built)
        BY <1>1, <1>5, <1>6, <2>2, <2>6
    <2>8. Max(built) = m
        <3> HIDE DEF built
        <3> QED
            BY <2>2, <2>7
    <2> QED
        BY <1>4, <2>6, <2>8 DEF m
<1> QED
    BY <1>7, <1>8

LEMMA Appended ==
    ASSUME NEW S, NEW l \in Seq(S), NEW x
    PROVE  /\ Append(l, x) \in Seq(S \cup {x}) /\ l \o <<x>> = Append(l, x) /\ l \o <<>> = l
           /\ Len(l) \in Nat /\ Len(Append(l, x)) = Len(l) + 1 /\ Append(l, x)[Len(l) + 1] = x
           /\ \A i \in 1..Len(l) : Append(l, x)[i] = l[i]
           /\ \A i \in 1..(Len(l) + 1) : i \in 1..Len(l) \/ i = Len(l) + 1
<1>1. l \in Seq(S \cup {x}) /\ x \in S \cup {x}
    BY SeqMonotonic
<1>2. Len(l) \in Nat
    BY LenProperties
<1>3. \A i \in 1..(Len(l) + 1) : i \in 1..Len(l) \/ i = Len(l) + 1
    BY <1>2
<1> QED
    BY <1>1, <1>2, <1>3, AppendProperties, AppendIsConcat, ConcatEmptySeq

\* What was in force stays so.
LEMMA StaysInForce ==
    ASSUME NEW S, NEW l \in Seq(S), NEW x, NEW j, NEW i \in 1..Len(l)
    PROVE  InForce(Append(l, x), j, i) <=> InForce(l, j, i)
<1>1. Len(l) \in Nat /\ \A k \in 1..Len(l) : Append(l, x)[k] = l[k]
    BY Appended
<1>2. j \in 1..i => j \in 1..Len(l) /\ \A k \in (j + 1)..i : k \in 1..Len(l)
    BY <1>1
<1> QED
    BY <1>1, <1>2 DEF InForce

\* A log is extended by a line at t, a switch only if that is a later time.
LEMMA LineAdded ==
    ASSUME NEW S, NEW l \in Seq(S), NEW T \in Nat, NEW t \in Nat, T <= t, t < LogEnd,
           LogTypes(l, T), LogOrder(l), LogSwitches(l), LogBuilds(l),
           NEW x, Moment(x) = t, IsSwitch(x) <=> ~IsDecision(x),
           IsSwitch(x) => /\ \A k \in 1..Len(l) : Moment(l[k]) < t
                          /\ x.build \in Int /\ (x.look_ahead <=> x.build > t),
           IsDecision(x) => /\ WarmupStart <= t
                            /\ \E j \in 1..Len(l) : InForce(l, j, Len(l)) /\ l[j].build = active_build(t)
    PROVE  LogTypes(Append(l, x), t) /\ LogOrder(Append(l, x)) /\ LogSwitches(Append(l, x)) /\ LogBuilds(Append(l, x))
<1> DEFINE r == Append(l, x)
           n == Len(l)
<1>1. /\ n \in Nat /\ Len(r) = n + 1 /\ r[n + 1] = x
      /\ \A i \in 1..n : r[i] = l[i]
      /\ \A i \in 1..Len(r) : i \in 1..n \/ i = n + 1
    BY Appended
<1>2. \A i \in 1..n : \A j : InForce(r, j, i) <=> InForce(l, j, i)
    BY StaysInForce
<1>3. \A i \in 1..n : /\ Moment(l[i]) \in Nat /\ Moment(l[i]) <= t /\ Moment(l[i]) < LogEnd
                      /\ IsSwitch(l[i]) <=> ~IsDecision(l[i])
    BY DEF LogTypes
<1> HIDE DEF r
<1>4. LogTypes(r, t)
    <2> SUFFICES ASSUME NEW i \in 1..Len(r)
                 PROVE  /\ Moment(r[i]) \in Nat /\ Moment(r[i]) <= t /\ Moment(r[i]) < LogEnd
                        /\ IsSwitch(r[i]) <=> ~IsDecision(r[i])
        BY DEF LogTypes
    <2>1. CASE i \in 1..n
        BY <1>1, <1>3, <2>1
    <2>2. CASE i = n + 1
        BY <1>1, <2>2
    <2> QED
        BY <1>1, <2>1, <2>2
<1>5. LogOrder(r)
    <2> SUFFICES ASSUME NEW i \in 1..Len(r), NEW k \in 1..Len(r), k < i
                 PROVE  Moment(r[k]) <= Moment(r[i]) /\ (IsSwitch(r[i]) => Moment(r[k]) < Moment(r[i]))
        BY DEF LogOrder
    <2>1. k \in 1..n
        BY <1>1
    <2>2. CASE i \in 1..n
        BY <1>1, <2>1, <2>2 DEF LogOrder
    <2>3. CASE i = n + 1
        BY <1>1, <1>3, <2>1, <2>3
    <2> QED
        BY <1>1, <2>2, <2>3
<1>6. LogSwitches(r)
    <2> SUFFICES ASSUME NEW i \in 1..Len(r), IsSwitch(r[i])
                 PROVE  r[i].build \in Int /\ (r[i].look_ahead <=> r[i].build > Moment(r[i]))
        BY DEF LogSwitches
    <2>1. CASE i \in 1..n
        BY <1>1, <2>1 DEF LogSwitches
    <2>2. CASE i = n + 1
        BY <1>1, <2>2
    <2> QED
        BY <1>1, <2>1, <2>2
<1>7. LogBuilds(r)
    <2> SUFFICES ASSUME NEW i \in 1..Len(r), IsDecision(r[i])
                 PROVE  /\ WarmupStart <= Moment(r[i])
                        /\ \E j \in 1..Len(r) : InForce(r, j, i) /\ r[j].build = active_build(Moment(r[i]))
        BY DEF LogBuilds
    <2>1. CASE i \in 1..n
        <3>1. WarmupStart <= Moment(l[i]) /\ \E j \in 1..n : InForce(l, j, i) /\ l[j].build = active_build(Moment(l[i]))
            BY <1>1, <2>1 DEF LogBuilds
        <3>2. PICK j \in 1..n : InForce(l, j, i) /\ l[j].build = active_build(Moment(l[i]))
            BY <3>1
        <3>3. InForce(r, j, i) /\ r[j] = l[j] /\ r[i] = l[i] /\ j \in 1..Len(r)
            BY <1>1, <1>2, <2>1, <3>2
        <3> QED
            BY <3>1, <3>2, <3>3
    <2>2. CASE i = n + 1
        <3>1. IsDecision(x) /\ r[i] = x /\ ~IsSwitch(x)
            BY <1>1, <2>2
        <3>2. PICK j \in 1..n : InForce(l, j, n) /\ l[j].build = active_build(t)
            BY <3>1
        <3>3. InForce(r, j, n + 1)
            <4>1. n \in 1..n
                BY <1>1
            <4>2. InForce(r, j, n)
                BY <1>2, <3>2, <4>1
            <4>3. \A k \in (j + 1)..(n + 1) : k \in (j + 1)..n \/ k = n + 1
                BY <1>1
            <4>4. j \in 1..(n + 1)
                BY <1>1
            <4> QED
                BY <1>1, <3>1, <4>2, <4>3, <4>4, <2>2 DEF InForce
        <3> QED
            BY <1>1, <2>2, <3>1, <3>2, <3>3
    <2> QED
        BY <1>1, <2>1, <2>2
<1> QED
    BY <1>4, <1>5, <1>6, <1>7 DEF r

SwitchLine(t) == [type |-> "baseline", build |-> active_build(t), from |-> t, look_ahead |-> active_build(t) > t]

\* After advance the log is that of its moment, with a switch to its build.
LEMMA Advanced ==
    ASSUME StoredBuilds, NEW T \in Nat, NEW t \in Nat, T <= t, t < LogEnd, LogOK(log, T, active)
    PROVE  LogOK(log \o advance(t), t, active_build(t)) /\ log \o advance(t) # <<>>
<1>1. PICK S : log \in Seq(S)
    BY DEF LogOK
<1>2. active_build(t) \in Nat /\ active_build(t) # NoBuild
    <2>1. active_build(t) \in Nat
        BY ActiveBuild
    <2> QED
        BY <2>1 DEF NoBuild
<1>3. CASE active_build(t) = active
    <2>1. log \o advance(t) = log
        BY <1>1, <1>3, Appended DEF advance
    <2>2. LogActive(log, T, active)
        BY DEF LogOK
    <2>3. PICK j \in 1..Len(log) : InForce(log, j, Len(log)) /\ log[j].build = active
        BY <1>2, <1>3, <2>2 DEF LogActive
    <2>4. LogActive(log, t, active)
        BY <1>3, <2>3 DEF LogActive
    <2>5. log # <<>>
        BY <2>3, EmptySeq
    <2>6. LogTypes(log, t)
        BY DEF LogOK, LogTypes
    <2> QED
        BY <1>1, <1>3, <2>1, <2>4, <2>5, <2>6 DEF LogOK
<1>4. CASE active_build(t) # active
    <2> DEFINE x == SwitchLine(t)
               r == Append(log, x)
    <2>1. log \o advance(t) = r
        BY <1>1, <1>4, Appended DEF advance, SwitchLine
    <2>2. IsSwitch(x) /\ ~IsDecision(x) /\ Moment(x) = t /\ x.build = active_build(t) /\ (x.look_ahead <=> x.build > t)
        BY DEF IsSwitch, IsDecision, Moment, SwitchLine
    <2>3. \A k \in 1..Len(log) : Moment(log[k]) < t
        <3> SUFFICES ASSUME NEW k \in 1..Len(log)
                     PROVE  Moment(log[k]) < t
            OBVIOUS
        <3>1. log # <<>>
            BY EmptySeq
        <3>2. active = active_build(T)
            BY <3>1 DEF LogOK, LogActive
        <3>3. T # t
            BY <1>4, <3>2
        <3>4. Moment(log[k]) \in Nat /\ Moment(log[k]) <= T
            BY DEF LogOK, LogTypes
        <3> QED
            BY <3>3, <3>4
    <2> HIDE DEF x
    <2>4. LogTypes(r, t) /\ LogOrder(r) /\ LogSwitches(r) /\ LogBuilds(r)
        <3>1. LogTypes(log, T) /\ LogOrder(log) /\ LogSwitches(log) /\ LogBuilds(log)
            BY DEF LogOK
        <3>2. x.build \in Int
            BY <1>2, <2>2
        <3> HIDE DEF r
        <3> QED
            BY <1>1, <2>2, <2>3, <3>1, <3>2, LineAdded DEF r
    <2>5. /\ r \in Seq(S \cup {x}) /\ Len(r) = Len(log) + 1 /\ Len(log) \in Nat
          /\ r[Len(log) + 1] = x
        BY <1>1, Appended
    <2> HIDE DEF r
    <2>6. InForce(r, Len(r), Len(r)) /\ Len(r) \in 1..Len(r)
        BY <2>2, <2>5 DEF InForce
    <2>7. LogActive(r, t, active_build(t))
        BY <2>2, <2>5, <2>6 DEF LogActive
    <2>8. r # <<>>
        BY <2>6, EmptySeq
    <2>9. \E U : r \in Seq(U)
        BY <2>5
    <2> QED
        BY <2>1, <2>4, <2>7, <2>8, <2>9 DEF LogOK
<1> QED
    BY <1>3, <1>4

LEMMA DecisionLogged ==
    ASSUME NEW l, NEW t \in Nat, t < LogEnd, WarmupStart <= t, LogOK(l, t, active_build(t)), l # <<>>,
           NEW x, IsDecision(x), ~IsSwitch(x), Moment(x) = t
    PROVE  LogOK(l \o <<x>>, t, active_build(t))
<1>1. PICK S : l \in Seq(S)
    BY DEF LogOK
<1> DEFINE r == Append(l, x)
           n == Len(l)
<1>2. /\ l \o <<x>> = r /\ r \in Seq(S \cup {x}) /\ n \in Nat /\ Len(r) = n + 1 /\ r[n + 1] = x
      /\ \A i \in 1..n : r[i] = l[i]
    BY <1>1, Appended
<1>3. PICK j \in 1..n : InForce(l, j, n) /\ l[j].build = active_build(t)
    BY DEF LogOK, LogActive
<1>4. LogTypes(r, t) /\ LogOrder(r) /\ LogSwitches(r) /\ LogBuilds(r)
    <2>1. LogTypes(l, t) /\ LogOrder(l) /\ LogSwitches(l) /\ LogBuilds(l)
        BY DEF LogOK
    <2> HIDE DEF r
    <2> QED
        BY <1>1, <1>3, <2>1, LineAdded DEF r
<1>5. InForce(r, j, n + 1)
    <2>1. n \in 1..n
        BY <1>2, <1>3
    <2>2. InForce(r, j, n)
        BY <1>1, <1>3, <2>1, StaysInForce
    <2>3. \A k \in (j + 1)..(n + 1) : k \in (j + 1)..n \/ k = n + 1
        BY <1>2
    <2>4. j \in 1..(n + 1)
        BY <1>2
    <2> HIDE DEF r
    <2> QED
        BY <1>2, <2>2, <2>3, <2>4 DEF InForce
<1> HIDE DEF r
<1>6. LogActive(r, t, active_build(t))
    <2>1. j \in 1..Len(r) /\ r[j].build = active_build(t)
        BY <1>2, <1>3
    <2> QED
        BY <1>2, <1>5, <2>1 DEF LogActive
<1>7. \E U : r \in Seq(U)
    BY <1>2
<1> QED
    BY <1>2, <1>4, <1>6, <1>7 DEF LogOK

-----------------------------------------------------------------------------
(* Replay: what the rules were given.                                      *)

DecisionsUpTo(l, i) == {j \in 1..Len(l) : IsDecision(l[j]) /\ j <= i}

\* The decision d came of g: the rules', or that of a repeated tick.
CameOf(d, g) ==
    \/ /\ d = decide_scored(g.score, g.rule, g.low, LiveZ, LiveSavings)
       /\ g.score = NoScore => g.rule = NoRule
       /\ g.rule = NoRule => ~g.low
    \/ d = Repeat("duplicate") /\ g.score = NoScore

GivenOK(l, g) ==
    /\ \E S : g \in Seq(S)
    /\ Len(g) = Cardinality(DecisionsUpTo(l, Len(l)))
    /\ \A i \in 1..Len(l) :
         IsDecision(l[i]) => /\ Cardinality(DecisionsUpTo(l, i)) \in 1..Len(g)
                             /\ CameOf(l[i].d, g[Cardinality(DecisionsUpTo(l, i))])

LEMMA DecisionsAppended ==
    ASSUME NEW S, NEW l \in Seq(S), NEW x
    PROVE  /\ Cardinality(DecisionsUpTo(l, Len(l))) \in Nat
           /\ \A i \in 1..Len(l) : DecisionsUpTo(Append(l, x), i) = DecisionsUpTo(l, i)
           /\ Cardinality(DecisionsUpTo(Append(l, x), Len(l) + 1))
                  = Cardinality(DecisionsUpTo(l, Len(l))) + IF IsDecision(x) THEN 1 ELSE 0
<1> DEFINE r == Append(l, x)
           n == Len(l)
<1>1. /\ n \in Nat /\ Len(r) = n + 1 /\ r[n + 1] = x
      /\ \A i \in 1..n : r[i] = l[i]
      /\ \A i \in 1..(n + 1) : i \in 1..n \/ i = n + 1
    BY Appended
<1> HIDE DEF r
<1>2. IsFiniteSet(DecisionsUpTo(l, n))
    <2>1. IsFiniteSet(1..n)
        BY <1>1, FS_Interval
    <2>2. DecisionsUpTo(l, n) \in SUBSET (1..n)
        BY DEF DecisionsUpTo
    <2> QED
        BY <2>1, <2>2, FS_Subset
<1>3. Cardinality(DecisionsUpTo(l, n)) \in Nat
    BY <1>2, FS_CardinalityType
<1>4. ASSUME NEW i \in 1..n
      PROVE  DecisionsUpTo(r, i) = DecisionsUpTo(l, i)
    BY <1>1 DEF DecisionsUpTo
<1>5. DecisionsUpTo(r, n + 1) = IF IsDecision(x) THEN DecisionsUpTo(l, n) \cup {n + 1} ELSE DecisionsUpTo(l, n)
    BY <1>1 DEF DecisionsUpTo
<1>6. n + 1 \notin DecisionsUpTo(l, n)
    BY <1>1 DEF DecisionsUpTo
<1>7. Cardinality(DecisionsUpTo(l, n) \cup {n + 1}) = Cardinality(DecisionsUpTo(l, n)) + 1
    BY <1>2, <1>6, FS_AddElement
<1>8. Cardinality(DecisionsUpTo(r, n + 1)) = Cardinality(DecisionsUpTo(l, n)) + IF IsDecision(x) THEN 1 ELSE 0
    BY <1>3, <1>5, <1>7
<1> QED
    BY <1>3, <1>4, <1>8 DEF r

\* A switch is not a decision.
LEMMA GivenAdvanced ==
    ASSUME NEW S, NEW l \in Seq(S), NEW g, GivenOK(l, g), NEW x, ~IsDecision(x)
    PROVE  GivenOK(Append(l, x), g)
<1> DEFINE r == Append(l, x)
           n == Len(l)
<1>1. /\ n \in Nat /\ Len(r) = n + 1 /\ r[n + 1] = x /\ \A i \in 1..n : r[i] = l[i]
      /\ \A i \in 1..(n + 1) : i \in 1..n \/ i = n + 1
    BY Appended
<1>2. /\ Cardinality(DecisionsUpTo(l, n)) \in Nat
      /\ \A i \in 1..n : DecisionsUpTo(r, i) = DecisionsUpTo(l, i)
      /\ Cardinality(DecisionsUpTo(r, n + 1)) = Cardinality(DecisionsUpTo(l, n))
    BY DecisionsAppended
<1> HIDE DEF r
<1>3. ASSUME NEW i \in 1..Len(r), IsDecision(r[i])
      PROVE  /\ Cardinality(DecisionsUpTo(r, i)) \in 1..Len(g)
             /\ CameOf(r[i].d, g[Cardinality(DecisionsUpTo(r, i))])
    <2>1. i \in 1..n
        BY <1>1, <1>3
    <2> QED
        BY <1>1, <1>2, <1>3, <2>1 DEF GivenOK
<1>4. GivenOK(r, g)
    BY <1>1, <1>2, <1>3 DEF GivenOK
<1> QED
    BY <1>4 DEF r

LEMMA GivenAfterAdvance ==
    ASSUME NEW t, NEW u, LogOK(log, u, active), GivenOK(log, given)
    PROVE  GivenOK(log \o advance(t), given)
<1>1. PICK S : log \in Seq(S)
    BY DEF LogOK
<1>2. CASE active_build(t) = active
    BY <1>1, <1>2, Appended DEF advance
<1>3. CASE active_build(t) # active
    <2> DEFINE x == SwitchLine(t)
    <2>1. ~IsDecision(x)
        BY DEF IsDecision, SwitchLine
    <2>2. advance(t) = <<x>>
        BY <1>3 DEF advance, SwitchLine
    <2> HIDE DEF x
    <2>3. GivenOK(Append(log, x), given)
        BY <1>1, <2>1, GivenAdvanced
    <2> QED
        BY <1>1, <2>2, <2>3, Appended
<1> QED
    BY <1>2, <1>3

LEMMA GivenDecided ==
    ASSUME NEW S, NEW l \in Seq(S), NEW g, GivenOK(l, g), NEW x, IsDecision(x), NEW y, CameOf(x.d, y)
    PROVE  GivenOK(Append(l, x), Append(g, y))
<1> DEFINE r == Append(l, x)
           n == Len(l)
           h == Append(g, y)
<1>1. /\ n \in Nat /\ Len(r) = n + 1 /\ r[n + 1] = x /\ \A i \in 1..n : r[i] = l[i]
      /\ \A i \in 1..(n + 1) : i \in 1..n \/ i = n + 1
    BY Appended
<1>2. /\ Cardinality(DecisionsUpTo(l, n)) \in Nat
      /\ \A i \in 1..n : DecisionsUpTo(r, i) = DecisionsUpTo(l, i)
      /\ Cardinality(DecisionsUpTo(r, n + 1)) = Cardinality(DecisionsUpTo(l, n)) + 1
    BY DecisionsAppended
<1>3. PICK U : g \in Seq(U)
    BY DEF GivenOK
<1>4. /\ h \in Seq(U \cup {y}) /\ Len(g) \in Nat /\ Len(h) = Len(g) + 1 /\ h[Len(g) + 1] = y
      /\ \A i \in 1..Len(g) : h[i] = g[i]
    BY <1>3, Appended
<1> HIDE DEF r, h
<1>5. ASSUME NEW i \in 1..Len(r), IsDecision(r[i])
      PROVE  /\ Cardinality(DecisionsUpTo(r, i)) \in 1..Len(h)
             /\ CameOf(r[i].d, h[Cardinality(DecisionsUpTo(r, i))])
    <2>1. CASE i \in 1..n
        <3>1. IsDecision(l[i]) /\ r[i] = l[i] /\ DecisionsUpTo(r, i) = DecisionsUpTo(l, i)
            BY <1>1, <1>2, <1>5, <2>1
        <3> DEFINE c == Cardinality(DecisionsUpTo(l, i))
        <3>2. c \in 1..Len(g) /\ CameOf(l[i].d, g[c])
            BY <2>1, <3>1 DEF GivenOK
        <3> HIDE DEF c
        <3>3. c \in 1..Len(h) /\ h[c] = g[c]
            BY <1>4, <3>2
        <3> QED
            BY <3>1, <3>2, <3>3 DEF c
    <2>2. CASE i = n + 1
        <3>1. Cardinality(DecisionsUpTo(r, i)) = Len(g) + 1
            BY <1>2, <2>2 DEF GivenOK
        <3>2. Len(g) + 1 \in 1..Len(h)
            BY <1>4
        <3> QED
            BY <1>1, <1>4, <2>2, <3>1, <3>2
    <2> QED
        BY <1>1, <2>1, <2>2
<1>6. Len(h) = Cardinality(DecisionsUpTo(r, Len(r)))
    BY <1>1, <1>2, <1>4 DEF GivenOK
<1>7. GivenOK(r, h)
    BY <1>4, <1>5, <1>6 DEF GivenOK
<1> QED
    BY <1>7 DEF r, h

-----------------------------------------------------------------------------
(* Replay: the merged stream is in the order of time.                      *)

HeadTypes ==
    /\ head \in [Streams -> Nat \cup {Wanted, Ended}] /\ last \in [Streams -> Nat]
    /\ poll.started \in Nat /\ poll.started <= last["snapshots"]
    /\ head["feed"] \in Nat => head["feed"] <= last["feed"]
    /\ head["snapshots"] \in Nat => head["snapshots"] = poll.started

\* No event that is still to come is earlier than t.
Reached(t) ==
    /\ \A s \in Streams : head[s] \in Nat => t <= head[s]
    /\ head["feed"] = Wanted => t <= last["feed"]
    /\ head["snapshots"] = Wanted => t <= poll.started

ReplayInv ==
    /\ StoredBuilds /\ HeadTypes
    /\ \E t \in Nat : Reached(t) /\ LogOK(log, t, active)
    /\ GivenOK(log, given)

LEMMA StreamNames == Streams = {"snapshots", "feed"} /\ Wanted \notin Nat /\ Ended \notin Nat /\ Wanted # Ended
BY DEF Streams, Wanted, Ended

LEMMA ReplayInit == Init => ReplayInv
<1> SUFFICES ASSUME Init
             PROVE  ReplayInv
    OBVIOUS
<1> USE ReplayConstants
<1>1. /\ builds \in SUBSET Times /\ Scheduled(builds) # {}
      /\ head = [s \in Streams |-> Wanted] /\ last = [s \in Streams |-> WarmupStart]
      /\ poll.started = WarmupStart
      /\ active = NoBuild /\ log = <<>> /\ given = <<>>
    BY DEF Init
<1>2. /\ <<>> \in Seq({}) /\ Len(<<>>) = 0 /\ 1..0 = {}
    BY EmptySeq
<1>3. StoredBuilds
    BY <1>1 DEF StoredBuilds
<1>4. HeadTypes
    BY <1>1, StreamNames DEF HeadTypes
<1>5. Reached(WarmupStart)
    BY <1>1, StreamNames DEF Reached
<1>6. LogOK(log, WarmupStart, active)
    BY <1>1, <1>2 DEF LogOK, LogTypes, LogOrder, LogSwitches, LogBuilds, LogActive
<1>7. GivenOK(log, given)
    <2>1. DecisionsUpTo(<<>>, Len(<<>>)) = {}
        BY <1>2 DEF DecisionsUpTo
    <2>2. Cardinality({}) = 0
        BY FS_EmptySet
    <2> QED
        BY <1>1, <1>2, <2>1, <2>2 DEF GivenOK
<1> QED
    BY <1>3, <1>4, <1>5, <1>6, <1>7 DEF ReplayInv

LEMMA BuildsKept ==
    ASSUME builds' = builds
    PROVE  /\ \A t : active_build(t)' = active_build(t)
           /\ StoredBuilds' <=> StoredBuilds
           /\ \A l, t, a : LogOK(l, t, a)' <=> LogOK(l, t, a)
<1>1. \A t : active_build(t)' = active_build(t)
    BY DEF active_build, Scheduled
<1>2. StoredBuilds' <=> StoredBuilds
    BY DEF StoredBuilds, Scheduled, Times
<1>3. \A l, t, a : LogOK(l, t, a)' <=> LogOK(l, t, a)
    BY <1>1, ZenonT(60) DEF LogOK, LogTypes, LogOrder, LogSwitches, LogBuilds, LogActive
<1> QED
    BY <1>1, <1>2, <1>3

LEMMA PullKeeps ==
    ASSUME ReplayInv, NEW s \in Streams, Pull(s)
    PROVE  ReplayInv'
<1>0. builds' = builds /\ active' = active /\ log' = log /\ given' = given /\ head[s] = Wanted
    BY DEF Pull
<1>1. PICK u \in Nat : Reached(u) /\ LogOK(log, u, active)
    BY DEF ReplayInv
<1>2. head \in [Streams -> Nat \cup {Wanted, Ended}] /\ last \in [Streams -> Nat]
    BY DEF ReplayInv, HeadTypes
<1>3. ASSUME HeadTypes', Reached(u)'
      PROVE  ReplayInv'
    <2>1. StoredBuilds'
        BY <1>0, BuildsKept DEF ReplayInv
    <2>2. GivenOK(log, given)'
        BY <1>0, ZenonT(60) DEF ReplayInv, GivenOK, DecisionsUpTo, CameOf, IsDecision
    <2>3. LogOK(log, u, active)'
        BY <1>0, <1>1, BuildsKept
    <2> QED
        BY <1>1, <1>3, <2>1, <2>2, <2>3 DEF ReplayInv
<1>4. CASE head' = [head EXCEPT ![s] = Ended] /\ UNCHANGED <<last, poll>>
    <2>1. HeadTypes'
        BY <1>4, StreamNames DEF ReplayInv, HeadTypes
    <2>2. Reached(u)'
        BY <1>1, <1>2, <1>4, StreamNames DEF Reached
    <2> QED
        BY <1>3, <2>1, <2>2
<1>5. ASSUME NEW t \in last[s]..(LogEnd - 1), last' = [last EXCEPT ![s] = t],
             s = "feed", head' = [head EXCEPT ![s] = t], UNCHANGED poll
      PROVE  ReplayInv'
    <2>1. t \in Nat /\ last[s] <= t /\ s # "snapshots"
        BY <1>2, <1>5, ReplayConstants
    <2>2. /\ head'["feed"] = t /\ last'["feed"] = t
          /\ head'["snapshots"] = head["snapshots"] /\ last'["snapshots"] = last["snapshots"]
        BY <1>2, <1>5, StreamNames
    <2>3. HeadTypes'
        <3>1. head' \in [Streams -> Nat \cup {Wanted, Ended}] /\ last' \in [Streams -> Nat]
            BY <1>2, <1>5, <2>1
        <3> QED
            BY <1>5, <2>1, <2>2, <3>1 DEF ReplayInv, HeadTypes
    <2>4. u <= t
        BY <1>0, <1>1, <1>2, <1>5, <2>1 DEF Reached
    <2>5. Reached(u)'
        BY <1>1, <1>5, <2>1, <2>2, <2>4, StreamNames DEF Reached
    <2> QED
        BY <1>3, <2>3, <2>5
<1>6. ASSUME NEW t \in last[s]..(LogEnd - 1), last' = [last EXCEPT ![s] = t],
             s = "snapshots", head' = [head EXCEPT ![s] = stamp(t)], poll' = [started |-> stamp(t), previous |-> t]
      PROVE  ReplayInv'
    <2>1. t \in Nat /\ last["snapshots"] <= t
        BY <1>2, <1>6, ReplayConstants
    <2>2. poll.started \in Nat /\ poll.started <= last["snapshots"] /\ last["snapshots"] \in Nat
        BY <1>2, <1>6 DEF ReplayInv, HeadTypes
    <2>3. stamp(t) = t \/ stamp(t) = poll.started
        BY DEF stamp
    <2> DEFINE p == stamp(t)
    <2>4. p \in Nat /\ poll.started <= p /\ p <= t
        BY <2>1, <2>2, <2>3
    <2>5. /\ head'["snapshots"] = p /\ last'["snapshots"] = t /\ poll'.started = p
          /\ head'["feed"] = head["feed"] /\ last'["feed"] = last["feed"]
        BY <1>2, <1>6, StreamNames
    <2>6. head' \in [Streams -> Nat \cup {Wanted, Ended}] /\ last' \in [Streams -> Nat]
        BY <1>2, <1>6, <2>1, <2>4
    <2> HIDE DEF p
    <2>7. HeadTypes'
        BY <2>4, <2>5, <2>6 DEF ReplayInv, HeadTypes
    <2>8. u <= p
        BY <1>0, <1>1, <1>6, <2>2, <2>4 DEF Reached
    <2>9. Reached(u)'
        BY <1>1, <2>4, <2>5, <2>8, StreamNames DEF Reached
    <2> QED
        BY <1>3, <2>7, <2>9
<1> QED
    BY <1>4, <1>5, <1>6 DEF Pull

\* An event is not earlier than what was reached, and once it is taken its time is.
LEMMA EventTaken ==
    ASSUME ReplayInv, NEW s \in Streams, First(s), head' = [head EXCEPT ![s] = Wanted], last' = last, poll' = poll,
           NEW t, head[s] = t, NEW u \in Nat, Reached(u)
    PROVE  /\ t \in Nat /\ u <= t /\ t < LogEnd
           /\ HeadTypes' /\ Reached(t)'
<1>1. head \in [Streams -> Nat \cup {Wanted, Ended}] /\ last \in [Streams -> Nat]
    BY DEF ReplayInv, HeadTypes
<1>2. t \in Nat /\ t < LogEnd
    BY ReplayConstants DEF First, Times
<1>3. u <= t
    BY <1>2 DEF Reached
<1>4. \A x \in Streams : x # s => head'[x] = head[x] /\ head[x] # Wanted /\ (head[x] \in Nat => t <= head[x])
    <2> SUFFICES ASSUME NEW x \in Streams, x # s
                 PROVE  head'[x] = head[x] /\ head[x] # Wanted /\ (head[x] \in Nat => t <= head[x])
        OBVIOUS
    <2>1. head'[x] = head[x] /\ head[x] # Wanted
        BY <1>1 DEF First
    <2>2. head[x] = Ended \/ head[s] < head[x] \/ head[s] = head[x]
        BY DEF First
    <2> QED
        BY <1>2, <2>1, <2>2, StreamNames
<1>5. head'[s] = Wanted
    BY <1>1
<1>6. head' \in [Streams -> Nat \cup {Wanted, Ended}]
    BY <1>1
<1>7. HeadTypes'
    <2>1. \A x \in Streams : head'[x] \in Nat => head'[x] = head[x]
        BY <1>4, <1>5, StreamNames
    <2>2. "feed" \in Streams /\ "snapshots" \in Streams
        BY StreamNames
    <2>3. /\ poll'.started \in Nat /\ poll'.started <= last'["snapshots"]
          /\ last' \in [Streams -> Nat]
        BY DEF ReplayInv, HeadTypes
    <2>4. /\ head'["feed"] \in Nat => head'["feed"] <= last'["feed"]
          /\ head'["snapshots"] \in Nat => head'["snapshots"] = poll'.started
        BY <2>1, <2>2 DEF ReplayInv, HeadTypes
    <2> QED
        BY <1>6, <2>3, <2>4 DEF HeadTypes
<1>8. Reached(t)'
    <2>1. \A x \in Streams : head'[x] \in Nat => t <= head'[x]
        BY <1>4, <1>5, StreamNames
    <2>2. head'["feed"] = Wanted => s = "feed"
        BY <1>4, StreamNames
    <2>3. head'["snapshots"] = Wanted => s = "snapshots"
        BY <1>4, StreamNames
    <2>4. s = "feed" => t <= last["feed"]
        BY <1>2 DEF ReplayInv, HeadTypes
    <2>5. s = "snapshots" => t <= poll.started
        BY <1>2 DEF ReplayInv, HeadTypes
    <2> QED
        BY <2>1, <2>2, <2>3, <2>4, <2>5 DEF Reached
<1> QED
    BY <1>2, <1>3, <1>7, <1>8

LEMMA PassKeeps ==
    ASSUME ReplayInv, NEW s \in Streams, Pass(s)
    PROVE  ReplayInv'
<1>1. /\ First(s) /\ head' = [head EXCEPT ![s] = Wanted] /\ last' = last /\ poll' = poll
      /\ builds' = builds /\ given' = given
    BY DEF Pass
<1>2. PICK u \in Nat : Reached(u) /\ LogOK(log, u, active)
    BY DEF ReplayInv
<1>3. PICK t : head[s] = t
    OBVIOUS
<1>4. t \in Nat /\ u <= t /\ t < LogEnd /\ HeadTypes' /\ Reached(t)'
    BY <1>1, <1>2, <1>3, EventTaken
<1>5. active' = active_build(t) /\ log' = log \o advance(t)
    BY <1>3 DEF Pass
<1>6. StoredBuilds
    BY DEF ReplayInv
<1>7. LogOK(log \o advance(t), t, active_build(t))
    BY <1>2, <1>4, <1>6, Advanced
<1>8. LogOK(log, t, active)'
    BY <1>1, <1>5, <1>7, BuildsKept
<1>9. GivenOK(log \o advance(t), given)
    BY <1>2, GivenAfterAdvance, SMTT(30) DEF ReplayInv
<1>10. GivenOK(log, given)'
    BY <1>1, <1>5, <1>9 DEF GivenOK, DecisionsUpTo, CameOf, IsDecision
<1> QED
    BY <1>1, <1>4, <1>6, <1>8, <1>10, BuildsKept DEF ReplayInv

LEMMA HandleKeeps ==
    ASSUME ReplayInv, NEW s \in Streams, NEW of, NEW p, NEW d, NEW g,
           Handle(s, head[s], of, p, d, g), CameOf(d, g)
    PROVE  ReplayInv'
<1>1. /\ First(s) /\ head' = [head EXCEPT ![s] = Wanted] /\ last' = last /\ poll' = poll /\ builds' = builds
      /\ given' = Append(given, g) /\ head[s] >= LogStart
    BY DEF Handle
<1>2. PICK u \in Nat : Reached(u) /\ LogOK(log, u, active)
    BY DEF ReplayInv
<1>3. PICK t : head[s] = t
    OBVIOUS
<1>4. t \in Nat /\ u <= t /\ t < LogEnd /\ HeadTypes' /\ Reached(t)'
    BY <1>1, <1>2, <1>3, EventTaken
<1> DEFINE l == log \o advance(t)
           x == [type |-> "decision", time |-> t, of |-> of, price |-> p, d |-> d]
<1>5. active' = active_build(t) /\ log' = l \o <<x>>
    BY <1>3 DEF Handle
<1>6. StoredBuilds
    BY DEF ReplayInv
<1>7. LogOK(l, t, active_build(t)) /\ l # <<>>
    BY <1>2, <1>4, <1>6, Advanced
<1>8. IsDecision(x) /\ ~IsSwitch(x) /\ Moment(x) = t /\ x.d = d
    BY DEF IsDecision, IsSwitch, Moment
<1>9. WarmupStart <= t
    BY <1>1, <1>3, <1>4, ReplayConstants
<1>10. GivenOK(l, given)
    BY <1>2, GivenAfterAdvance DEF ReplayInv
<1> HIDE DEF l, x
<1>11. LogOK(l \o <<x>>, t, active_build(t))
    BY <1>4, <1>7, <1>8, <1>9, DecisionLogged
<1>12. LogOK(log, t, active)'
    BY <1>1, <1>5, <1>11, BuildsKept
<1>13. GivenOK(l \o <<x>>, Append(given, g))
    <2>1. PICK S : l \in Seq(S)
        BY <1>7 DEF LogOK
    <2>2. GivenOK(Append(l, x), Append(given, g))
        BY <1>8, <1>10, <2>1, GivenDecided, SMTT(30)
    <2> QED
        BY <2>1, <2>2, Appended, ZenonT(60)
<1>14. GivenOK(log, given)'
    BY <1>1, <1>5, <1>13, ZenonT(60) DEF GivenOK, DecisionsUpTo, CameOf, IsDecision
<1> QED
    BY <1>1, <1>4, <1>6, <1>12, <1>14, BuildsKept DEF ReplayInv

LEMMA ReplayStep == ReplayInv /\ [Next]_vars => ReplayInv'
<1> SUFFICES ASSUME ReplayInv, [Next]_vars
             PROVE  ReplayInv'
    OBVIOUS
<1>1. CASE UNCHANGED vars
    <2>1. builds' = builds /\ head' = head /\ last' = last /\ poll' = poll /\ active' = active /\ log' = log /\ given' = given
        BY <1>1 DEF vars
    <2>2. GivenOK(log, given)'
        BY <2>1 DEF ReplayInv, GivenOK, DecisionsUpTo, CameOf, IsDecision
    <2>3. PICK u \in Nat : Reached(u) /\ LogOK(log, u, active)
        BY DEF ReplayInv
    <2>4. LogOK(log, u, active)'
        BY <2>1, <2>3, BuildsKept
    <2>5. Reached(u)' /\ HeadTypes'
        BY <2>1, <2>3 DEF ReplayInv, HeadTypes, Reached, Streams
    <2> QED
        BY <2>1, <2>2, <2>3, <2>4, <2>5, BuildsKept DEF ReplayInv
<1>2. ASSUME NEW s \in Streams, Pull(s)
      PROVE  ReplayInv'
    BY <1>2, PullKeeps
<1>3. ASSUME NEW s \in Streams, Pass(s)
      PROVE  ReplayInv'
    BY <1>3, PassKeeps
<1>4. ASSUME NEW s \in Streams, NEW of \in Listings \cup {Lowest}, NEW p \in Prices, Skip(s, of, p)
      PROVE  ReplayInv'
    <2> DEFINE g == [score |-> NoScore, rule |-> NoRule, low |-> FALSE]
    <2>1. Handle(s, head[s], of, p, Repeat("duplicate"), g)
        BY <1>4 DEF Skip
    <2>2. CameOf(Repeat("duplicate"), g)
        BY DEF CameOf
    <2> HIDE DEF g
    <2> QED
        BY <2>1, <2>2, HandleKeeps
<1>5. ASSUME NEW s \in Streams, NEW of \in Listings \cup {Lowest}, NEW p \in Prices, Score(s, of, p)
      PROVE  ReplayInv'
    <2>1. PICK w \in Scores \cup {NoScore}, rule \in Rules \cup {NoRule}, low \in BOOLEAN :
            /\ w = NoScore => rule = NoRule
            /\ rule = NoRule => ~low
            /\ Handle(s, head[s], of, p, decide_scored(w, rule, low, LiveZ, LiveSavings),
                      [score |-> w, rule |-> rule, low |-> low])
        BY <1>5 DEF Score
    <2> DEFINE g == [score |-> w, rule |-> rule, low |-> low]
               d == decide_scored(w, rule, low, LiveZ, LiveSavings)
    <2>2. g.score = w /\ g.rule = rule /\ g.low = low
        OBVIOUS
    <2>3. CameOf(d, g)
        BY <2>1, <2>2 DEF CameOf
    <2> HIDE DEF g, d
    <2>4. Handle(s, head[s], of, p, d, g)
        BY <2>1 DEF d, g
    <2> QED
        BY <2>3, <2>4, HandleKeeps
<1> QED
    BY <1>1, <1>2, <1>3, <1>4, <1>5 DEF Next

-----------------------------------------------------------------------------
(* Scorecard: how the log is read.                                         *)

LEMMA LogLines ==
    ASSUME NEW t, LogOK(log, t, active)
    PROVE  /\ Len(log) \in Nat /\ DOMAIN log = 1..Len(log)
           /\ Lines("decision") = {i \in 1..Len(log) : IsDecision(log[i])}
           /\ Lines("baseline") = {i \in 1..Len(log) : IsSwitch(log[i])}
<1>1. PICK S : log \in Seq(S)
    BY DEF LogOK
<1>2. Len(log) \in Nat /\ DOMAIN log = 1..Len(log)
    BY <1>1, LenProperties
<1> QED
    BY <1>2 DEF Lines, IsDecision, IsSwitch

\* The n-th decision is found at its line.
LEMMA DecisionFound ==
    ASSUME NEW t, LogOK(log, t, active), NEW n \in 1..Cardinality(Lines("decision"))
    PROVE  /\ DecisionLine(n) \in 1..Len(log) /\ IsDecision(log[DecisionLine(n)])
           /\ Cardinality(DecisionsUpTo(log, DecisionLine(n))) = n
<1> DEFINE S == Lines("decision")
           R == {p \in S \X S : p[1] < p[2]}
<1>1. S \subseteq 1..Len(log) /\ Len(log) \in Nat /\ \A i \in S : IsDecision(log[i])
    BY LogLines
<1>2. \A i \in S : DecisionsUpTo(log, i) = {j \in S : j <= i}
    BY LogLines DEF DecisionsUpTo
<1>3. DecisionLine(n) = CHOOSE i \in S : Cardinality({j \in S : j <= i}) = n
    BY DEF DecisionLine
<1> HIDE DEF S
<1>0. S \subseteq Int
    BY <1>1
<1>4. \A x, y \in S : <<x, y>> \in R <=> x < y
    OBVIOUS
<1> HIDE DEF R
<1>5. Ranking(R, S)
    <2>1. IsFiniteSet(S)
        <3>1. IsFiniteSet(1..Len(log)) /\ S \in SUBSET (1..Len(log))
            BY <1>1, FS_Interval
        <3> QED
            BY <3>1, FS_Subset
    <2>2. \A x, y, z \in Int : ~(x < x) /\ (x < y /\ y < z => x < z) /\ (x = y \/ x < y \/ y < x)
        OBVIOUS
    <2>3. \A x, y, z \in S : ~(x < x) /\ (x < y /\ y < z => x < z) /\ (x = y \/ x < y \/ y < x)
        BY <1>0, <2>2
    <2> QED
        BY <1>4, <2>1, <2>3 DEF Ranking
<1>6. Cardinality(S) \in Nat /\ n - 1 \in 0..(Cardinality(S) - 1)
    BY <1>5, RankOfAll DEF S
<1>7. PICK i \in S : Cardinality(Below(R, S, i)) = n - 1
    BY <1>5, <1>6, RankOfAll
<1>8. Cardinality({j \in S : j <= i}) = n
    <2>1. {j \in S : j <= i} = Below(R, S, i) \cup {i}
        <3>1. \A x, y \in Int : x <= y <=> (x < y \/ x = y)
            OBVIOUS
        <3>2. \A j \in S : j <= i <=> (j < i \/ j = i)
            BY <1>0, <3>1
        <3>3. \A j \in S : j \in Below(R, S, i) <=> j < i
            BY <1>4 DEF Below
        <3> QED
            BY <3>2, <3>3 DEF Below
    <2>2. IsFiniteSet(Below(R, S, i)) /\ i \notin Below(R, S, i)
        <3>1. Below(R, S, i) \in SUBSET S
            BY DEF Below
        <3> QED
            BY <1>5, <3>1, FS_Subset DEF Ranking, Below
    <2>3. Cardinality(Below(R, S, i) \cup {i}) = Cardinality(Below(R, S, i)) + 1
        BY <2>2, FS_AddElement
    <2> QED
        BY <1>6, <1>7, <2>1, <2>3
<1>9. DecisionLine(n) \in S /\ Cardinality({j \in S : j <= DecisionLine(n)}) = n
    BY <1>3, <1>8
<1> QED
    BY <1>1, <1>2, <1>9

\* Only one switch is in force at a line, and it is the one that is read.
LEMMA SwitchFound ==
    ASSUME NEW t, LogOK(log, t, active), NEW i \in 1..Len(log), NEW j \in 1..Len(log), InForce(log, j, i)
    PROVE  Switch(i) = j
<1>1. Len(log) \in Nat
    BY LogLines
<1> DEFINE P(k) == log[k].type = "baseline" /\ \A m \in (k + 1)..i : log[m].type # "baseline"
<1>2. j \in 1..i /\ P(j)
    BY DEF InForce, IsSwitch
<1>3. ASSUME NEW k \in 1..i, P(k)
      PROVE  k = j
    <2>1. ~ (k \in (j + 1)..i) /\ ~ (j \in (k + 1)..i)
        BY <1>2, <1>3
    <2>2. k \in Int /\ j \in Int /\ k <= i /\ j <= i /\ i \in Int
        BY <1>1, <1>2
    <2> HIDE DEF P
    <2> QED
        BY <2>1, <2>2
<1>4. Switch(i) = CHOOSE k \in 1..i : P(k)
    BY DEF Switch
<1> HIDE DEF P
<1> QED
    BY <1>2, <1>3, <1>4


\* The ranges that recall leaves out are those of the switches to a build of later.
LEMMA InRange ==
    ASSUME NEW t, LogOK(log, t, active), NEW i \in 1..Len(log), NEW j \in 1..Len(log), InForce(log, j, i),
           IsDecision(log[i])
    PROVE  /\ Moment(log[j]) <= Moment(log[i])
           /\ in_look_ahead(Moment(log[i])) <=> log[j].look_ahead
<1> USE ReplayConstants
<1> DEFINE N == Len(log)
           B == Lines("baseline")
           F(k) == Moment(log[k])
           Later(k) == {m \in B : m > k}
           End(k) == IF Later(k) = {} THEN LogEnd ELSE F(Min(Later(k)))
<1>1. N \in Nat /\ B \subseteq 1..N /\ B \subseteq Nat /\ \A k \in 1..N : k \in B <=> IsSwitch(log[k])
    BY LogLines
<1>2. \A k \in 1..N : F(k) \in Nat /\ F(k) < LogEnd
    BY DEF LogOK, LogTypes
<1>3. \A x, y \in 1..N : y < x => F(y) <= F(x) /\ (x \in B => F(y) < F(x))
    BY <1>1 DEF LogOK, LogOrder
<1>4. i \notin B /\ j \in B /\ j <= i
    <2>1. ~ IsSwitch(log[i])
        BY DEF LogOK, LogTypes
    <2>2. IsSwitch(log[j]) /\ j <= i
        BY <1>1 DEF InForce
    <2> QED
        BY <1>1, <2>1, <2>2
<1>5. \A k \in B : k > j => k > i
    <2>1. \A k \in (j + 1)..i : k \notin B
        <3>1. \A k \in (j + 1)..i : k \in 1..N /\ ~ IsSwitch(log[k])
            BY <1>1 DEF InForce
        <3> QED
            BY <1>1, <3>1
    <2>2. \A k \in Nat : k > j /\ ~ (k > i) => k \in (j + 1)..i
        BY <1>1
    <2> QED
        BY <1>1, <2>1, <2>2
<1>6. \A k \in B : log[k].from = F(k)
    BY <1>1 DEF Moment, IsSwitch
<1>7. \A k \in B : Later(k) # {} => Min(Later(k)) \in Later(k) /\ \A m \in Later(k) : Min(Later(k)) <= m
    <2> SUFFICES ASSUME NEW k \in B, Later(k) # {}
                 PROVE  Min(Later(k)) \in Later(k) /\ \A m \in Later(k) : Min(Later(k)) <= m
        OBVIOUS
    <2>1. Later(k) \subseteq Nat
        BY <1>1
    <2> HIDE DEF Later
    <2> QED
        BY <2>1, LeastOf
<1>8. in_look_ahead(F(i)) <=> \E k \in B : log[k].look_ahead /\ F(k) <= F(i) /\ F(i) < End(k)
    <2>1. look_ahead_ranges = {<<F(k), End(k)>> : k \in {m \in B : log[m].look_ahead}}
        <3>1. \A k \in B : <<log[k].from, IF Later(k) = {} THEN LogEnd ELSE log[Min(Later(k))].from>> = <<F(k), End(k)>>
            <4> SUFFICES ASSUME NEW k \in B
                         PROVE  <<log[k].from, IF Later(k) = {} THEN LogEnd ELSE log[Min(Later(k))].from>> = <<F(k), End(k)>>
                OBVIOUS
            <4>1. Later(k) # {} => log[Min(Later(k))].from = F(Min(Later(k)))
                <5>1. Later(k) # {} => Min(Later(k)) \in B
                    BY <1>7
                <5> HIDE DEF F, Later
                <5> QED
                    BY <1>6, <5>1
            <4>2. log[k].from = F(k)
                BY <1>6
            <4> HIDE DEF F, Later
            <4> QED
                BY <4>1, <4>2
        <3>2. look_ahead_ranges =
                {<<log[k].from, IF Later(k) = {} THEN LogEnd ELSE log[Min(Later(k))].from>> :
                    k \in {m \in B : log[m].look_ahead}}
            BY DEF look_ahead_ranges
        <3> HIDE DEF F, End, Later, B
        <3> QED
            BY <3>1, <3>2
    <2> HIDE DEF F, End, B
    <2>2. \A r \in look_ahead_ranges : \E k \in B : log[k].look_ahead /\ r = <<F(k), End(k)>>
        BY <2>1
    <2>3. \A k \in B : log[k].look_ahead => <<F(k), End(k)>> \in look_ahead_ranges
        BY <2>1
    <2>4. \A k : <<F(k), End(k)>>[1] = F(k) /\ <<F(k), End(k)>>[2] = End(k)
        OBVIOUS
    <2>5. in_look_ahead(F(i)) <=> \E r \in look_ahead_ranges : r[1] <= F(i) /\ F(i) < r[2]
        BY DEF in_look_ahead
    <2> QED
        BY <2>2, <2>3, <2>4, <2>5, ZenonT(60)
<1> HIDE DEF F, B, N
<1>9. F(j) <= F(i)
    <2>1. j # i /\ j \in Nat /\ i \in Nat /\ j \in 1..N /\ i \in 1..N
        BY <1>1, <1>4 DEF N
    <2>2. j < i
        BY <1>4, <2>1
    <2> QED
        BY <1>3, <2>1, <2>2
<1>10. F(i) < End(j)
    <2>1. CASE Later(j) = {}
        BY <1>2, <2>1 DEF N
    <2>2. CASE Later(j) # {}
        <3>1. Min(Later(j)) \in B /\ Min(Later(j)) > j
            BY <1>4, <1>7, <2>2
        <3>2. Min(Later(j)) > i
            BY <1>5, <3>1
        <3> HIDE DEF Later
        <3> DEFINE m == Min(Later(j))
        <3>3. m \in B /\ m > i /\ m \in 1..N /\ i \in 1..N
            BY <1>1, <3>1, <3>2 DEF N
        <3>4. End(j) = F(m)
            BY <2>2
        <3> HIDE DEF m, End
        <3>5. m \in Nat /\ i \in Nat
            BY <1>1, <3>3
        <3>6. F(i) < F(m)
            BY <1>3, <3>3, <3>5
        <3> QED
            BY <3>4, <3>6
    <2> QED
        BY <2>1, <2>2
<1>11. ASSUME NEW k \in B, F(k) <= F(i), F(i) < End(k)
       PROVE  k = j
    <2>1. k \in 1..N /\ j \in 1..N /\ i \in 1..N /\ k \in Nat /\ j \in Nat /\ i \in Nat
        BY <1>1, <1>4 DEF N
    <2>2. F(k) \in Nat /\ F(i) \in Nat /\ F(j) \in Nat
        BY <1>2, <2>1 DEF N
    <2>3. ~ (k > j)
        <3>1. k > i => F(i) < F(k)
            BY <1>3, <2>1
        <3> QED
            BY <1>5, <1>11, <2>2, <3>1
    <2>4. ~ (k < j)
        <3> SUFFICES ASSUME k < j
                     PROVE  FALSE
            OBVIOUS
        <3>1. j \in Later(k)
            BY <1>4, <2>1
        <3>2. Min(Later(k)) \in B /\ Min(Later(k)) <= j
            BY <1>7, <3>1
        <3>3. End(k) = F(Min(Later(k)))
            BY <3>1
        <3> HIDE DEF Later, End
        <3> DEFINE m == Min(Later(k))
        <3>4. m \in B /\ m <= j /\ End(k) = F(m)
            BY <3>2, <3>3
        <3> HIDE DEF m
        <3>5. m \in Nat /\ m \in 1..N
            BY <1>1, <3>4
        <3>6. F(m) \in Nat
            BY <1>2, <3>5 DEF N
        <3>7. F(m) <= F(j)
            <4>1. m < j => F(m) <= F(j)
                BY <1>3, <2>1, <3>5
            <4>2. m < j \/ m = j
                BY <2>1, <3>4, <3>5
            <4> QED
                BY <2>2, <4>1, <4>2
        <3>8. F(i) < F(m)
            BY <1>11, <3>4
        <3> QED
            BY <1>9, <2>2, <3>6, <3>7, <3>8
    <2> QED
        BY <2>1, <2>3, <2>4
<1> HIDE DEF End
<1>12. in_look_ahead(F(i)) <=> log[j].look_ahead
    <2>1. \A k \in B : F(k) <= F(i) /\ F(i) < End(k) => k = j
        BY <1>11
    <2> QED
        BY <1>4, <1>8, <1>9, <1>10, <2>1
<1> QED
    BY <1>9, <1>12 DEF F


-----------------------------------------------------------------------------
(* Scorecard: every decision is read with the build of its moment.         *)

\* The n-th decision of the log, its line and its switch.
LEMMA DecisionRead ==
    ASSUME NEW t, LogOK(log, t, active), NEW n \in 1..Cardinality(Lines("decision"))
    PROVE  \E i \in 1..Len(log), j \in 1..Len(log) :
             /\ IsDecision(log[i]) /\ Cardinality(DecisionsUpTo(log, i)) = n
             /\ InForce(log, j, i) /\ log[j].build = active_build(Moment(log[i]))
             /\ Moment(log[i]) = log[i].time /\ WarmupStart <= log[i].time
             /\ decisions[n] = [row |-> log[i], build |-> log[j].build, look_ahead |-> log[j].look_ahead]
<1> DEFINE i == DecisionLine(n)
<1>1. i \in 1..Len(log) /\ IsDecision(log[i]) /\ Cardinality(DecisionsUpTo(log, i)) = n
    BY DecisionFound
<1>2. decisions[n] = [row |-> log[i], build |-> log[Switch(i)].build, look_ahead |-> log[Switch(i)].look_ahead]
    BY DEF decisions
<1> HIDE DEF i
<1>3. WarmupStart <= Moment(log[i])
    BY <1>1 DEF LogOK, LogBuilds
<1>4. PICK j \in 1..Len(log) : InForce(log, j, i) /\ log[j].build = active_build(Moment(log[i]))
    BY <1>1 DEF LogOK, LogBuilds
<1>5. Switch(i) = j
    BY <1>1, <1>4, SwitchFound
<1>6. Moment(log[i]) = log[i].time
    BY <1>1 DEF Moment, IsDecision
<1> QED
    BY <1>1, <1>2, <1>3, <1>4, <1>5, <1>6

LEMMA BuildsRead == ReplayInv => BuildInEffect
<1> SUFFICES ASSUME ReplayInv, NEW n \in 1..Cardinality(Lines("decision"))
             PROVE  LET d == decisions[n]
                        built == {b \in builds : b <= d.row.time}
                    IN  /\ built # {} => d.build = Max(built)
                        /\ ~d.look_ahead => d.build <= d.row.time
                        /\ d.look_ahead <=> in_look_ahead(d.row.time)
    <2>1. ToSet(decisions) = {decisions[n] : n \in 1..Cardinality(Lines("decision"))}
        BY DEF ToSet, decisions
    <2> QED
        BY <2>1 DEF BuildInEffect
<1>1. StoredBuilds
    BY DEF ReplayInv
<1>2. PICK t \in Nat : LogOK(log, t, active)
    BY DEF ReplayInv
<1>3. PICK i \in 1..Len(log), j \in 1..Len(log) :
        /\ IsDecision(log[i]) /\ InForce(log, j, i) /\ log[j].build = active_build(Moment(log[i]))
        /\ Moment(log[i]) = log[i].time /\ WarmupStart <= log[i].time
        /\ decisions[n] = [row |-> log[i], build |-> log[j].build, look_ahead |-> log[j].look_ahead]
    BY <1>2, DecisionRead
<1> DEFINE m == log[i].time
<1>4. m \in Nat /\ WarmupStart <= m /\ m < LogEnd
    <2>1. Moment(log[i]) \in Nat /\ Moment(log[i]) < LogEnd
        BY <1>2 DEF LogOK, LogTypes
    <2> QED
        BY <1>3, <2>1
<1>5. decisions[n].row.time = m /\ decisions[n].build = log[j].build /\ decisions[n].look_ahead = log[j].look_ahead
    BY <1>3
<1>6. log[j].build = active_build(m)
    BY <1>3
<1>7. Moment(log[j]) <= m /\ (in_look_ahead(m) <=> log[j].look_ahead)
    <2>1. Moment(log[j]) <= Moment(log[i]) /\ (in_look_ahead(Moment(log[i])) <=> log[j].look_ahead)
        BY <1>2, <1>3, InRange
    <2> QED
        BY <1>3, <2>1
<1>8. log[j].build \in Int /\ (log[j].look_ahead <=> log[j].build > Moment(log[j])) /\ Moment(log[j]) \in Nat
    <2>1. IsSwitch(log[j])
        BY <1>3 DEF InForce
    <2> QED
        BY <1>2, <2>1 DEF LogOK, LogSwitches, LogTypes
<1> HIDE DEF m
<1>9. {b \in builds : b <= m} # {} => active_build(m) = Max({b \in builds : b <= m})
    BY <1>1, <1>4, ActiveBuild
<1>10. ~log[j].look_ahead => log[j].build <= m
    BY <1>4, <1>7, <1>8
<1> QED
    BY <1>5, <1>6, <1>7, <1>9, <1>10

\* ScorecardSpec: the scorecard reads the log that Replay writes.
LEMMA ReplayInvHolds == ExperimentsSpec => []ReplayInv
<1>1. ExperimentsInit => ReplayInv
    BY ReplayInit DEF ExperimentsInit, ScorecardInit
<1>2. ReplayInv /\ [ExperimentsNext]_<<scorecardVars, calibration, features>> => ReplayInv'
    <2>1. [ExperimentsNext]_<<scorecardVars, calibration, features>> => [Next]_vars
        BY DEF ExperimentsNext, ScorecardNext, scorecardVars
    <2> QED
        BY <2>1, ReplayStep
<1> QED
    BY <1>1, <1>2, PTL DEF ExperimentsSpec

(* Every logged decision is read with the newest of all stored builds that was built by its moment, and it is marked as
   looking ahead exactly in the ranges that recall leaves out (Scorecard: read_decision_log, Replay: advance_to). *)
THEOREM BuildInEffectHolds == ExperimentsSpec => []BuildInEffect
BY ReplayInvHolds, BuildsRead, PTL

-----------------------------------------------------------------------------
(* Scorecard: a sweep's cell approves what its thresholds would have.      *)

\* What the log says of a decision tells what other thresholds would have made of it.
LEMMA Redecided ==
    ASSUME NEW d, NEW g, CameOf(d, g), NEW z, NEW savings
    PROVE  (d.score # NoScore /\ would_trigger(d.score, z, savings) /\ dre_would_approve(d)) <=>
           decide_scored(g.score, g.rule, g.low, z, savings).approve
<1>1. CASE d = Repeat("duplicate") /\ g.score = NoScore
    <2>1. d.score = NoScore
        BY <1>1 DEF Repeat, Decision
    <2>2. ~ decide_scored(g.score, g.rule, g.low, z, savings).approve
        BY <1>1 DEF decide_scored, Decision
    <2> QED
        BY <2>1, <2>2
<1>2. CASE /\ d = decide_scored(g.score, g.rule, g.low, LiveZ, LiveSavings)
           /\ g.score = NoScore => g.rule = NoRule
           /\ g.rule = NoRule => ~g.low
    <2>1. CASE g.score = NoScore
        BY <1>2, <2>1 DEF decide_scored, Decision
    <2>2. CASE g.score # NoScore /\ g.score.macro
        BY <1>2, <2>2 DEF decide_scored, Decision, source_can_trigger, dre_would_approve
    <2>3. CASE g.score # NoScore /\ ~g.score.macro
        <3>1. should_trigger_anomaly(g.score, z, savings) <=> would_trigger(g.score, z, savings)
            BY <2>3 DEF should_trigger_anomaly, would_trigger, source_can_trigger
        <3>2. decide_scored(g.score, g.rule, g.low, z, savings).approve <=>
                would_trigger(g.score, z, savings) /\ g.rule # NoRule /\ ~g.low
            BY <2>3, <3>1 DEF decide_scored, Decision, source_can_trigger
        <3>3. d.score = g.score
            BY <1>2 DEF decide_scored, Decision
        <3>4. dre_would_approve(d) <=> g.rule # NoRule /\ ~g.low
            <4>1. CASE ~ should_trigger_anomaly(g.score, LiveZ, LiveSavings)
                BY <1>2, <2>3, <4>1 DEF decide_scored, Decision, source_can_trigger, dre_would_approve
            <4>2. CASE should_trigger_anomaly(g.score, LiveZ, LiveSavings)
                BY <1>2, <2>3, <4>2 DEF decide_scored, Decision, source_can_trigger, dre_would_approve
            <4> QED
                BY <4>1, <4>2
        <3> QED
            BY <2>3, <3>2, <3>3, <3>4
    <2> QED
        BY <2>1, <2>2, <2>3
<1> QED
    BY <1>1, <1>2 DEF CameOf

LEMMA CellsExact == ReplayInv => SweepExact
<1> SUFFICES ASSUME ReplayInv, NEW z \in SweepZ, NEW savings \in SweepSavings
             PROVE  Cell(z, savings) =
                      {decisions[n].row.of : n \in {k \in DOMAIN decisions :
                         /\ decisions[k].row.of # Lowest /\ is_scorable(decisions[k])
                         /\ decide_scored(given[k].score, given[k].rule, given[k].low, z, savings).approve}}
    BY DEF SweepExact
<1> DEFINE N == 1..Cardinality(Lines("decision"))
           Sold(x) == /\ x.row.of # Lowest /\ x.row.d.score # NoScore /\ is_scorable(x)
                      /\ would_trigger(x.row.d.score, z, savings) /\ dre_would_approve(x.row.d)
           Bought(k) == /\ decisions[k].row.of # Lowest /\ is_scorable(decisions[k])
                        /\ decide_scored(given[k].score, given[k].rule, given[k].low, z, savings).approve
<1>1. DOMAIN decisions = N
    BY DEF decisions
<1>2. PICK t \in Nat : LogOK(log, t, active)
    BY DEF ReplayInv
<1>3. \A n \in N : CameOf(decisions[n].row.d, given[n])
    <2> SUFFICES ASSUME NEW n \in N
                 PROVE  CameOf(decisions[n].row.d, given[n])
        OBVIOUS
    <2>1. PICK i \in 1..Len(log), j \in 1..Len(log) :
            /\ IsDecision(log[i]) /\ Cardinality(DecisionsUpTo(log, i)) = n
            /\ decisions[n] = [row |-> log[i], build |-> log[j].build, look_ahead |-> log[j].look_ahead]
        BY <1>2, DecisionRead
    <2>2. decisions[n].row = log[i]
        BY <2>1
    <2>3. CameOf(log[i].d, given[Cardinality(DecisionsUpTo(log, i))])
        BY <2>1 DEF ReplayInv, GivenOK
    <2> QED
        BY <2>1, <2>2, <2>3
<1>4. \A n \in N : Sold(decisions[n]) <=> Bought(n)
    <2> SUFFICES ASSUME NEW n \in N
                 PROVE  Sold(decisions[n]) <=> Bought(n)
        OBVIOUS
    <2> DEFINE d == decisions[n].row.d
    <2>1. CameOf(d, given[n])
        BY <1>3
    <2> HIDE DEF d
    <2>2. (d.score # NoScore /\ would_trigger(d.score, z, savings) /\ dre_would_approve(d)) <=>
          decide_scored(given[n].score, given[n].rule, given[n].low, z, savings).approve
        BY <2>1, Redecided
    <2> QED
        BY <2>2 DEF d
<1>5. Cell(z, savings) = {d.row.of : d \in {x \in ToSet(decisions) : Sold(x)}}
    BY DEF Cell
<1>6. ToSet(decisions) = {decisions[n] : n \in N}
    BY <1>1 DEF ToSet
<1> HIDE DEF N, Sold
<1>7. {x \in ToSet(decisions) : Sold(x)} = {decisions[n] : n \in {k \in N : Bought(k)}}
    <2> HIDE DEF Bought
    <2> QED
        BY <1>4, <1>6
<1> HIDE DEF Bought
<1>8. Cell(z, savings) = {decisions[n].row.of : n \in {k \in N : Bought(k)}}
    BY <1>5, <1>7
<1> QED
    BY <1>1, <1>8 DEF Bought

(* Every cell of the sweep approves exactly the listings that a replay with those thresholds would have approved: the
   log holds enough of each decision (baseline_scorecard.py: score_sweep, records_sweep_inputs). *)
THEOREM SweepExactHolds == ExperimentsSpec => []SweepExact
BY ReplayInvHolds, CellsExact, PTL

=============================================================================
