-------------------------- MODULE Detection_proofs --------------------------
(***************************************************************************)
(* For any listings, prices, baselines, limits and failures: the records   *)
(* give the dedup memory of the live listener; the price window holds the  *)
(* newest prices, one reading an hour of a quiet item, and an offer is     *)
(* scored once at one price; and a trade approved on its price makes a     *)
(* profit under the baseline that approved it.                             *)
(***************************************************************************)
EXTENDS Detection, FiniteSetTheorems, SequenceTheorems, WellFoundedInduction, TLAPS

-----------------------------------------------------------------------------
(* The replayed memory.                                                    *)

\* A memory's entry is a record or nothing.
Remembering(d) == d.entry \in Entry \cup {NoEntry}

\* Two memories that judge every tick alike: they differ at most in when a snapshot entered the window.
SameMemory(d, e) ==
    /\ d.listings = e.listings
    /\ d.entry = NoEntry <=> e.entry = NoEntry
    /\ d.entry # NoEntry => /\ d.entry.price = e.entry.price
                            /\ d.entry.time = e.entry.time
                            /\ d.entry.ask = e.entry.ask

\* The live memory and the one the records give.
MemoryInv == Remembering(dedup) /\ Remembering(replayed) /\ SameMemory(dedup, replayed)

LEMMA SameVerdict ==
  ASSUME NEW d, NEW e, SameMemory(d, e), NEW t
  PROVE  is_duplicate(t, d) <=> is_duplicate(t, e)
  BY DEF SameMemory, is_duplicate, SeenAt

LEMMA UpdateRemembers ==
  ASSUME NEW d, Remembering(d), NEW t \in Tick, NEW enters
  PROVE  update_dedup_cache(t, d, enters).entry \in Entry
<1> DEFINE ask == IF d.entry = NoEntry THEN Never ELSE d.entry.ask
           windowed == IF d.entry = NoEntry THEN Never ELSE d.entry.windowed
<1>1. ask \in Prices \cup {Never} /\ windowed \in Times \cup {Never}
  BY DEF Remembering, Entry
<1>2. t.time \in Times /\ t.price \in Prices
  BY DEF Tick
<1> QED BY <1>1, <1>2 DEF update_dedup_cache, Entry

LEMMA SameUpdate ==
  ASSUME NEW d, NEW e, Remembering(d), Remembering(e), SameMemory(d, e), NEW t \in Tick, NEW enters
  PROVE  SameMemory(update_dedup_cache(t, d, enters), update_dedup_cache(t, e, TRUE))
<1> DEFINE u == update_dedup_cache(t, d, enters)
           v == update_dedup_cache(t, e, TRUE)
<1>1. u.entry # NoEntry /\ v.entry # NoEntry
  BY UpdateRemembers, NoEntryAssumption
<1>2. u.listings = v.listings
  BY DEF update_dedup_cache, SameMemory
<1>3. u.entry.price = v.entry.price /\ u.entry.time = v.entry.time /\ u.entry.ask = v.entry.ask
  BY DEF update_dedup_cache, SameMemory
<1> QED BY <1>1, <1>2, <1>3 DEF SameMemory

\* A tick that is no duplicate is remembered and recorded, or neither.
LEMMA RememberInv ==
  ASSUME MemoryInv, NEW t \in Tick, NEW failed, NEW enters, ~is_duplicate(t, dedup), Remember(t, failed, enters)
  PROVE  MemoryInv'
<1>1. CASE UNCHANGED <<dedup, replayed>>
  BY <1>1 DEF MemoryInv, Remembering, SameMemory
<1>2. CASE dedup' = update_dedup_cache(t, dedup, enters) /\ Record(t)
  <2>1. ~is_duplicate(t, replayed)
    BY SameVerdict DEF MemoryInv
  <2>2. replayed' = update_dedup_cache(t, replayed, TRUE)
    BY <1>2, <2>1 DEF Record
  <2>3. Remembering(update_dedup_cache(t, dedup, enters)) /\ Remembering(update_dedup_cache(t, replayed, TRUE))
    BY UpdateRemembers DEF MemoryInv, Remembering
  <2>4. SameMemory(update_dedup_cache(t, dedup, enters), update_dedup_cache(t, replayed, TRUE))
    BY SameUpdate DEF MemoryInv
  <2> QED BY <1>2, <2>2, <2>3, <2>4 DEF MemoryInv, Remembering, SameMemory
<1> QED BY <1>1, <1>2 DEF Remember

LEMMA MemoryStep == MemoryInv /\ [Next]_vars => MemoryInv'
<1> SUFFICES ASSUME MemoryInv, [Next]_vars PROVE MemoryInv'
  OBVIOUS
<1>1. ASSUME NEW t \in Tick, TakeDuplicate(t) PROVE MemoryInv'
  <2>1. is_duplicate(t, replayed)
    BY <1>1, SameVerdict DEF TakeDuplicate, MemoryInv
  <2>2. UNCHANGED <<dedup, replayed>>
    BY <1>1, <2>1 DEF TakeDuplicate, Record
  <2> QED BY <2>2 DEF MemoryInv, Remembering, SameMemory
<1>2. ASSUME NEW t \in Tick, NEW failed, TakeUnchanged(t, failed) PROVE MemoryInv'
  BY <1>2, RememberInv DEF TakeUnchanged
<1>3. ASSUME NEW t \in Tick, NEW failed, TakeNew(t, failed) PROVE MemoryInv'
  BY <1>3, RememberInv DEF TakeNew
<1>4. CASE RestartListener
  BY <1>4 DEF RestartListener, EmptyDedup, MemoryInv, Remembering, SameMemory
<1>5. CASE \/ \E rule \in {"price", "stickers"} : Approve(rule)
           \/ Reject \/ Execute \/ EvaluationFails
           \/ \E b \in Baselines : Load(b)
           \/ RestartRedis \/ UNCHANGED vars
  <2>1. UNCHANGED <<dedup, replayed>>
    BY <1>5 DEF Approve, Reject, Execute, EvaluationFails, Load, RestartRedis, vars, live, history
  <2> QED BY <2>1 DEF MemoryInv, Remembering, SameMemory
<1> QED BY <1>1, <1>2, <1>3, <1>4, <1>5 DEF Next

(* Recorded ticks alone rebuild the memory that the listener decides with: every failure
   of a Redis command falls before both the memory and the record, or after both. *)
THEOREM ReplayableHolds == Spec => []Replayable
<1>1. Init => MemoryInv
  BY DEF Init, EmptyDedup, MemoryInv, Remembering, SameMemory
<1>2. MemoryInv => Replayable
  BY DEF MemoryInv, SameMemory, Replayable
<1> QED BY <1>1, <1>2, MemoryStep, PTL DEF Spec

-----------------------------------------------------------------------------
(* The trades.                                                             *)

\* An anomaly that was scored with a baseline is approved under that baseline.
JobInv ==
    job # NoJob =>
        /\ job = [of |-> job.of, price |-> job.price, scored |-> job.scored, known |-> job.known,
                  rule |-> job.rule, approved |-> job.approved]
        /\ job.price \in Prices
        /\ job.known \in Baselines \cup {NoBaseline}
        /\ job.rule # "none" /\ job.known # NoBaseline => job.approved = job.known

TradeInv == baseline \in Baselines \cup {NoBaseline} /\ JobInv /\ NoLossTrade

LEMMA TradeStep == TradeInv /\ [Next]_vars => TradeInv'
<1> SUFFICES ASSUME TradeInv, [Next]_vars PROVE TradeInv'
  OBVIOUS
<1> USE DEF TradeInv
<1>1. ASSUME NEW t \in Tick, NEW failed, TakeNew(t, failed) PROVE TradeInv'
  <2>1. UNCHANGED <<baseline, trade>> /\ t.price \in Prices
    BY <1>1 DEF TakeNew, Arrives, Tick
  <2>2. JobInv'
    <3>1. CASE UNCHANGED job
      BY <3>1 DEF JobInv
    <3>2. CASE job' = score_window(t, window')
      BY <2>1, <3>2 DEF JobInv, score_window
    <3> QED BY <1>1, <3>1, <3>2 DEF TakeNew
  <2> QED BY <2>1, <2>2 DEF NoLossTrade
<1>2. ASSUME NEW rule \in {"price", "stickers"}, Approve(rule) PROVE TradeInv'
  <2>1. UNCHANGED <<baseline, trade>> /\ job # NoJob /\ job' = [job EXCEPT !.rule = rule, !.approved = JudgedBy]
    BY <1>2 DEF Approve
  <2>2. job' = [of |-> job.of, price |-> job.price, scored |-> job.scored, known |-> job.known,
                rule |-> rule, approved |-> JudgedBy]
    BY <2>1 DEF JobInv
  <2>3. JobInv'
    BY <2>1, <2>2 DEF JobInv, JudgedBy
  <2> QED BY <2>1, <2>3 DEF NoLossTrade
<1>3. CASE Execute
  <2>1. UNCHANGED baseline /\ job # NoJob /\ job' = NoJob /\ job.rule # "none"
        /\ trade' = IF below_fee_floor(JudgedBy) THEN trade ELSE job
    BY <1>3 DEF Execute
  <2>2. NoLossTrade'
    <3>1. CASE below_fee_floor(JudgedBy)
      BY <2>1, <3>1 DEF NoLossTrade
    <3>2. CASE ~below_fee_floor(JudgedBy)
      <4> SUFFICES ASSUME job.rule = "price", job.known # NoBaseline
                   PROVE  Net(job.approved, job.price) > 0
        BY <2>1, <3>2 DEF NoLossTrade, Net
      <4>1. JudgedBy = job.known /\ job.approved = job.known
        BY <2>1 DEF JudgedBy, JobInv
      <4>2. job.known.resale \in Nat /\ job.price \in Nat /\ Fee \in Nat
        BY <2>1, DetectionAssumption DEF JobInv
      <4> QED BY <3>2, <4>1, <4>2 DEF below_fee_floor, Net
    <3> QED BY <3>1, <3>2
  <2> QED BY <2>1, <2>2 DEF JobInv
<1>4. CASE Reject \/ EvaluationFails \/ RestartListener
  BY <1>4 DEF Reject, EvaluationFails, RestartListener, JobInv, NoLossTrade
<1>5. CASE \/ \E t \in Tick : TakeDuplicate(t) \/ \E failed \in {"nothing", "zcard", "zadd", "trim", "score"} : TakeUnchanged(t, failed)
           \/ \E b \in Baselines : Load(b)
           \/ RestartRedis \/ UNCHANGED vars
  <2>1. baseline' \in Baselines \cup {NoBaseline} /\ UNCHANGED <<job, trade>>
    BY <1>5 DEF TakeDuplicate, TakeUnchanged, Arrives, Load, RestartRedis, vars, live
  <2> QED BY <2>1 DEF JobInv, NoLossTrade
<1> QED BY <1>1, <1>2, <1>3, <1>4, <1>5 DEF Next

(* A price-approved trade is above the fee floor of the baseline that approved it, whatever
   the loader does between the scoring, the rules and the floor. *)
THEOREM NoLossTradeHolds == Spec => []NoLossTrade
<1>1. Init => TradeInv
  BY DEF Init, TradeInv, JobInv, NoLossTrade
<1>2. TradeInv => NoLossTrade
  BY DEF TradeInv
<1> QED BY <1>1, <1>2, TradeStep, PTL DEF Spec

-----------------------------------------------------------------------------
(* The order of a window's members.                                        *)

(* A set of natural numbers has a least element.                            *)
LEMMA Least ==
  ASSUME NEW S, S \subseteq Nat, S # {}
  PROVE  \E n \in S : \A m \in S : n <= m
<1> DEFINE R == OpToRel(<, Nat)
<1>1. \A x, y \in Nat : x < y => <<x, y>> \in R
  BY DEF OpToRel
<1>2. IsWellFoundedOn(R, Nat)
  BY NatLessThanWellFounded
<1> HIDE DEF R
<1>3. PICK x \in S : \A y \in S : ~ (<<y, x>> \in R)
  BY <1>2, WFMin
<1>4. ASSUME NEW m \in S PROVE x <= m
  <2>1. m \in Nat /\ x \in Nat OBVIOUS
  <2>2. ~ (m < x) BY <1>1, <1>3, <2>1
  <2> QED BY <2>1, <2>2
<1> QED BY <1>4

(* A set of bounded natural numbers has a greatest element.                 *)
LEMMA Greatest ==
  ASSUME NEW bound \in Nat, NEW S, S \subseteq 0..bound, S # {}
  PROVE  \E n \in S : \A m \in S : m <= n
<1> DEFINE T == {bound - n : n \in S}
<1>0. \A n \in S : bound - n \in Nat
  OBVIOUS
<1>1. T \subseteq Nat /\ T # {}
  BY <1>0
<1>2. PICK k \in T : \A j \in T : k <= j
  BY <1>1, Least
<1>3. PICK n \in S : k = bound - n
  BY <1>2
<1>4. ASSUME NEW m \in S PROVE m <= n
  <2>1. bound - m \in T /\ m \in 0..bound /\ n \in 0..bound
    BY <1>0
  <2>2. k <= bound - m
    BY <1>2, <2>1
  <2> QED
    BY <1>3, <2>1, <2>2
<1> QED
  BY <1>4

LEMMA Members ==
  ASSUME NEW m \in Member
  PROVE  /\ m.time \in Nat /\ m.time <= MaxTime /\ m.price \in Nat /\ m.price <= 999
         /\ Padded(m.price) \in Nat /\ Padded(m.price) <= 999
         /\ m = [time |-> m.time, price |-> m.price]
<1>0. MaxTime \in Nat /\ Prices \subseteq 1..999
  BY DetectionAssumption DEF DetectionAssumption
<1>a. m.time \in Times /\ m.price \in Prices
  BY DEF Member
<1>b. m = [time |-> m.time, price |-> m.price]
  BY DEF Member
<1>1. ASSUME NEW p \in Prices PROVE Padded(p) \in Nat /\ Padded(p) <= 999 /\ p \in Nat /\ p <= 999
  <2>1. p \in 1..999
    BY <1>0
  <2> QED
    BY <2>1 DEF Padded
<1>2. ASSUME NEW t \in Times PROVE t \in Nat /\ t <= MaxTime
  BY <1>0 DEF Times
<1>3. m.time \in Nat /\ m.time <= MaxTime
  BY <1>a, <1>2
<1>4. m.price \in Nat /\ m.price <= 999 /\ Padded(m.price) \in Nat /\ Padded(m.price) <= 999
  BY <1>a, <1>1
<1> QED
  BY <1>b, <1>3, <1>4

(* Redis ranks any two members one way.                                     *)
LEMMA Ranked ==
  /\ \A m, x \in Member : m = x \/ Before(m, x) \/ Before(x, m)
  /\ \A m, x \in Member : ~ (Before(m, x) /\ (m = x \/ Before(x, m)))
  /\ \A m, x, y \in Member : Before(m, x) /\ Before(x, y) => Before(m, y)
<1>1. ASSUME NEW m \in Member, NEW x \in Member
      PROVE  /\ m = x \/ Before(m, x) \/ Before(x, m)
             /\ ~ (Before(m, x) /\ (m = x \/ Before(x, m)))
  <2> DEFINE d == Padded(m.price)
             e == Padded(x.price)
  <2>1. m.time \in Nat /\ m.price \in Nat /\ d \in Nat /\ x.time \in Nat /\ x.price \in Nat /\ e \in Nat
    BY Members
  <2>2. m.time = x.time /\ m.price = x.price => m = x
    BY Members
  <2>3. /\ Before(m, x) <=> m.time < x.time \/ (m.time = x.time /\ (d < e \/ (d = e /\ m.price < x.price)))
        /\ Before(x, m) <=> x.time < m.time \/ (x.time = m.time /\ (e < d \/ (e = d /\ x.price < m.price)))
    BY DEF Before
  <2> HIDE DEF d, e
  <2> QED
    BY <2>1, <2>2, <2>3
<1>2. ASSUME NEW m \in Member, NEW x \in Member, NEW y \in Member, Before(m, x), Before(x, y)
      PROVE  Before(m, y)
  <2> DEFINE d == Padded(m.price)
             e == Padded(x.price)
             f == Padded(y.price)
  <2>1. /\ m.time \in Nat /\ m.price \in Nat /\ d \in Nat /\ x.time \in Nat /\ x.price \in Nat /\ e \in Nat
        /\ y.time \in Nat /\ y.price \in Nat /\ f \in Nat
    BY Members
  <2>2. /\ m.time < x.time \/ (m.time = x.time /\ (d < e \/ (d = e /\ m.price < x.price)))
        /\ x.time < y.time \/ (x.time = y.time /\ (e < f \/ (e = f /\ x.price < y.price)))
        /\ Before(m, y) <=> m.time < y.time \/ (m.time = y.time /\ (d < f \/ (d = f /\ m.price < y.price)))
    BY <1>2 DEF Before
  <2> HIDE DEF d, e, f
  <2> QED
    BY <2>1, <2>2
<1> QED
  BY <1>1, <1>2

(* A window has an oldest and a newest member.                              *)
LEMMA Oldest ==
  ASSUME NEW W \in SUBSET Member, W # {}
  PROVE  \E m \in W : \A x \in W \ {m} : Before(m, x)
<1>1. PICK a \in W : \A x \in W : a.time <= x.time
  <2> DEFINE S == {x.time : x \in W}
  <2>1. S \subseteq Nat /\ S # {}
    BY Members
  <2>2. PICK n \in S : \A m \in S : n <= m
    BY <2>1, Least
  <2>3. PICK x \in W : n = x.time
    BY <2>2
  <2> QED
    BY <2>2, <2>3
<1>2. PICK b \in W : b.time = a.time /\ \A x \in W : x.time = a.time => Padded(b.price) <= Padded(x.price)
  <2> DEFINE S == {Padded(x.price) : x \in {y \in W : y.time = a.time}}
  <2>1. S \subseteq Nat /\ S # {}
    BY Members
  <2>2. PICK n \in S : \A m \in S : n <= m
    BY <2>1, Least
  <2>3. PICK x \in W : x.time = a.time /\ n = Padded(x.price)
    BY <2>2
  <2> QED
    BY <2>2, <2>3
<1>3. PICK c \in W : /\ c.time = a.time /\ Padded(c.price) = Padded(b.price)
                     /\ \A x \in W : x.time = a.time /\ Padded(x.price) = Padded(b.price) => c.price <= x.price
  <2> DEFINE S == {x.price : x \in {y \in W : y.time = a.time /\ Padded(y.price) = Padded(b.price)}}
  <2>1. S \subseteq Nat /\ S # {}
    BY <1>2, Members
  <2>2. PICK n \in S : \A m \in S : n <= m
    BY <2>1, Least
  <2>3. PICK x \in W : x.time = a.time /\ Padded(x.price) = Padded(b.price) /\ n = x.price
    BY <2>2
  <2> QED
    BY <2>2, <2>3
<1>4. ASSUME NEW x \in W, x # c PROVE Before(c, x)
  <2> DEFINE d == Padded(x.price)
             e == Padded(b.price)
  <2>1. x.time \in Nat /\ x.price \in Nat /\ d \in Nat /\ a.time \in Nat /\ e \in Nat /\ c.price \in Nat
    BY Members
  <2>2. a.time <= x.time /\ (x.time = a.time => e <= d) /\ (x.time = a.time /\ d = e => c.price <= x.price)
    BY <1>1, <1>2, <1>3
  <2>3. x.time = a.time /\ x.price = c.price => x = c
    BY <1>3, <1>4, Members
  <2>4. Before(c, x) <=> a.time < x.time \/ (a.time = x.time /\ (e < d \/ (e = d /\ c.price < x.price)))
    BY <1>3 DEF Before
  <2> HIDE DEF d, e
  <2> QED
    BY <1>4, <2>1, <2>2, <2>3, <2>4
<1> QED
  BY <1>4

LEMMA UpToBound == \A n, m \in Nat : n <= m => n \in 0..m
OBVIOUS

LEMMA Latest ==
  ASSUME NEW W \in SUBSET Member, W # {}
  PROVE  \E m \in W : \A x \in W \ {m} : Before(x, m)
<1>0. MaxTime \in Nat
  BY DetectionAssumption DEF DetectionAssumption
<1> DEFINE k == 999
<1>k. k \in Nat
  OBVIOUS
<1>m. ASSUME NEW x \in W PROVE x.time \in 0..MaxTime /\ x.price \in 0..k /\ Padded(x.price) \in 0..k
  <2>1. x \in Member
    OBVIOUS
  <2>2. /\ x.time \in Nat /\ x.time <= MaxTime /\ x.price \in Nat /\ x.price <= k
        /\ Padded(x.price) \in Nat /\ Padded(x.price) <= k
    BY <2>1, Members
  <2> HIDE DEF k
  <2> QED
    BY <1>0, <1>k, <2>2, UpToBound
<1> HIDE DEF k
<1>1. PICK a \in W : \A x \in W : x.time <= a.time
  <2> DEFINE S == {x.time : x \in W}
  <2>1. S \subseteq 0..MaxTime /\ S # {}
    BY <1>m
  <2>2. PICK n \in S : \A m \in S : m <= n
    BY <1>0, <2>1, Greatest
  <2>3. PICK x \in W : n = x.time
    BY <2>2
  <2> QED
    BY <2>2, <2>3
<1>2. PICK b \in W : b.time = a.time /\ \A x \in W : x.time = a.time => Padded(x.price) <= Padded(b.price)
  <2> DEFINE S == {Padded(x.price) : x \in {y \in W : y.time = a.time}}
  <2>1. S \subseteq 0..k /\ S # {}
    BY <1>m
  <2>2. PICK n \in S : \A m \in S : m <= n
    <3> HIDE DEF S
    <3> QED
      BY <1>k, <2>1, Greatest
  <2>3. PICK x \in W : x.time = a.time /\ n = Padded(x.price)
    BY <2>2
  <2> QED
    BY <2>2, <2>3
<1>3. PICK c \in W : /\ c.time = a.time /\ Padded(c.price) = Padded(b.price)
                     /\ \A x \in W : x.time = a.time /\ Padded(x.price) = Padded(b.price) => x.price <= c.price
  <2> DEFINE S == {x.price : x \in {y \in W : y.time = a.time /\ Padded(y.price) = Padded(b.price)}}
  <2>1. S \subseteq 0..k /\ S # {}
    BY <1>2, <1>m
  <2>2. PICK n \in S : \A m \in S : m <= n
    <3> HIDE DEF S
    <3> QED
      BY <1>k, <2>1, Greatest
  <2>3. PICK x \in W : x.time = a.time /\ Padded(x.price) = Padded(b.price) /\ n = x.price
    BY <2>2
  <2> QED
    BY <2>2, <2>3
<1>4. ASSUME NEW x \in W, x # c PROVE Before(x, c)
  <2> DEFINE d == Padded(x.price)
             e == Padded(b.price)
  <2>1. x.time \in Nat /\ x.price \in Nat /\ d \in Nat /\ a.time \in Nat /\ e \in Nat /\ c.price \in Nat
    BY Members
  <2>2. x.time <= a.time /\ (x.time = a.time => d <= e) /\ (x.time = a.time /\ d = e => x.price <= c.price)
    BY <1>1, <1>2, <1>3
  <2>3. x.time = a.time /\ x.price = c.price => x = c
    BY <1>3, <1>4, Members
  <2>4. Before(x, c) <=> x.time < a.time \/ (a.time = x.time /\ (d < e \/ (e = d /\ x.price < c.price)))
    BY <1>3 DEF Before
  <2> HIDE DEF d, e
  <2> QED
    BY <1>4, <2>1, <2>2, <2>3, <2>4
<1> QED
  BY <1>4

-----------------------------------------------------------------------------
(* The window.                                                             *)

\* The members of a set that rank above m
Above(w, m) == {x \in w : Before(m, x)}

LEMMA AboveFinite ==
  ASSUME NEW w \in SUBSET Member, IsFiniteSet(w), NEW v \in SUBSET w, NEW m
  PROVE  /\ IsFiniteSet(Above(w, m)) /\ Cardinality(Above(w, m)) \in Nat
         /\ IsFiniteSet(Above(v, m)) /\ Cardinality(Above(v, m)) \in Nat
         /\ Cardinality(Above(v, m)) <= Cardinality(Above(w, m))
<1>1. Above(w, m) \in SUBSET w /\ Above(v, m) \in SUBSET Above(w, m)
  BY DEF Above
<1>2. IsFiniteSet(Above(w, m))
  BY <1>1, FS_Subset
<1>3. IsFiniteSet(Above(v, m)) /\ Cardinality(Above(v, m)) <= Cardinality(Above(w, m))
  BY <1>1, <1>2, FS_Subset
<1> QED
  BY <1>2, <1>3, FS_CardinalityType

(* At most n members have fewer than n above them.                          *)
LEMMA NewestFew ==
  ASSUME NEW w \in SUBSET Member, IsFiniteSet(w), NEW n \in Nat
  PROVE  IsFiniteSet(Newest(w, n)) /\ Cardinality(Newest(w, n)) \in Nat /\ Cardinality(Newest(w, n)) <= n
<1> DEFINE S == Newest(w, n)
<1>1. S \in SUBSET w
  BY DEF Newest
<1>2. IsFiniteSet(S)
  BY <1>1, FS_Subset
<1>3. Cardinality(S) \in Nat
  BY <1>2, FS_CardinalityType
<1>4. CASE S = {}
  BY <1>2, <1>3, <1>4, FS_EmptySet
<1>5. CASE S # {}
  <2>1. PICK m \in S : \A x \in S \ {m} : Before(m, x)
    BY <1>1, <1>5, Oldest
  <2>2. Cardinality(Above(w, m)) < n
    BY <2>1 DEF Newest, Above
  <2>3. S \ {m} \in SUBSET Above(w, m)
    BY <1>1, <2>1 DEF Above
  <2>4. IsFiniteSet(Above(w, m)) /\ Cardinality(Above(w, m)) \in Nat
    BY AboveFinite
  <2>5. Cardinality(S \ {m}) <= Cardinality(Above(w, m))
    BY <2>3, <2>4, FS_Subset
  <2>6. Cardinality(S \ {m}) = Cardinality(S) - 1
    <3>1. m \in S
      BY <2>1
    <3> HIDE DEF S
    <3> QED
      BY <1>2, <3>1, FS_RemoveElement
  <2> QED
    BY <1>2, <1>3, <2>2, <2>4, <2>5, <2>6
<1> QED
  BY <1>4, <1>5

(* What a larger set counts among its newest, a smaller one with it does.   *)
LEMMA NewestShrinks ==
  ASSUME NEW w \in SUBSET Member, IsFiniteSet(w), NEW v \in SUBSET w, NEW n \in Nat
  PROVE  Newest(w, n) \cap v \subseteq Newest(v, n)
<1> SUFFICES ASSUME NEW m \in Newest(w, n), m \in v PROVE m \in Newest(v, n)
  OBVIOUS
<1>1. Cardinality(Above(w, m)) < n
  BY DEF Newest, Above
<1>2. Cardinality(Above(v, m)) < n
  BY <1>1, AboveFinite
<1> QED
  BY <1>2 DEF Newest, Above

(* A member put into the whole and into a window that holds the newest of   *)
(* it: the window goes on holding them, and nothing else if it held nothing *)
(* else.                                                                    *)
LEMMA PushHoldsNewest ==
  ASSUME NEW P \in SUBSET Member, IsFiniteSet(P), NEW W \in SUBSET P, NEW n \in Nat,
         Newest(P, n) \subseteq W, NEW m \in Member
  PROVE  /\ Newest(P \cup {m}, n) \subseteq Newest(W \cup {m}, n)
         /\ W = Newest(P, n) => Newest(W \cup {m}, n) = Newest(P \cup {m}, n)
<1> DEFINE Q == P \cup {m}
           V == W \cup {m}
<1>1. Q \in SUBSET Member /\ IsFiniteSet(Q) /\ V \in SUBSET Q /\ P \in SUBSET Q
  BY FS_AddElement
<1>2. Newest(Q, n) \subseteq Newest(V, n)
  <2>1. Newest(Q, n) \cap P \subseteq Newest(P, n)
    BY <1>1, NewestShrinks
  <2>2. Newest(Q, n) \subseteq V
    BY <2>1 DEF Newest
  <2>3. Newest(Q, n) \cap V \subseteq Newest(V, n)
    BY <1>1, NewestShrinks
  <2> QED
    BY <2>2, <2>3
<1>3. ASSUME W = Newest(P, n), NEW x \in Newest(V, n), x \notin Newest(Q, n) PROVE FALSE
  <2>1. x \in V /\ x \in Q /\ Cardinality(Above(V, x)) < n
    BY <1>3 DEF Newest, Above
  <2>2. ~ (Cardinality(Above(Q, x)) < n)
    BY <1>3, <2>1 DEF Newest, Above
  <2> DEFINE A == Above(Q, x) \ V
  <2>3. A # {}
    <3>1. A = {} => Above(Q, x) = Above(V, x)
      BY <1>1 DEF Above
    <3> QED
      BY <2>1, <2>2, <3>1
  <2>4. A \in SUBSET Member
    BY <1>1 DEF Above
  <2>5. PICK y \in A : \A z \in A \ {y} : Before(z, y)
    BY <2>3, <2>4, Latest
  <2>6. y \in P /\ y \notin Newest(P, n) /\ Before(x, y) /\ y \in Member /\ x \in Member
    BY <1>1, <1>3, <2>1 DEF Above
  <2>7. ~ (Cardinality(Above(P, y)) < n)
    BY <2>6 DEF Newest, Above
  <2>8. Above(P, y) \in SUBSET Above(V, x)
    <3> SUFFICES ASSUME NEW z \in P, Before(y, z) PROVE z \in V /\ Before(x, z)
      BY DEF Above
    <3>1. z \in Member /\ Before(x, z)
      BY <2>6, Ranked
    <3>2. z \notin A
      <4>1. z = y => FALSE
        BY <2>6, Ranked
      <4>2. Before(z, y) => FALSE
        BY <2>6, <3>1, Ranked
      <4> QED
        BY <2>5, <4>1, <4>2
    <3> QED
      BY <1>1, <3>1, <3>2 DEF Above
  <2>9. Cardinality(Above(P, y)) <= Cardinality(Above(V, x))
    BY <1>1, <2>8, AboveFinite, FS_Subset
  <2>10. Cardinality(Above(P, y)) \in Nat /\ Cardinality(Above(V, x)) \in Nat
    BY <1>1, AboveFinite
  <2> QED
    BY <2>1, <2>7, <2>9, <2>10
<1> QED
  BY <1>2, <1>3

\* The window against everything pushed since Redis started
WindowInv ==
    /\ pushed \subseteq Member /\ IsFiniteSet(pushed)
    /\ troubles \in Nat
    /\ HoldsNewest
    /\ Cardinality(window) <= WindowSize + troubles

(* A push, and what its failing commands leave (push_to_window).            *)
LEMMA PushStep ==
  ASSUME WindowInv, NEW t \in Tick, NEW failed, push_to_window(t, failed), Fails(failed)
  PROVE  WindowInv'
<1> DEFINE m == [time |-> t.time, price |-> t.price]
           all == window \cup {m}
<1>1. /\ pushed \in SUBSET Member /\ IsFiniteSet(pushed) /\ window \in SUBSET pushed /\ m \in Member
      /\ Newest(pushed, WindowSize) \subseteq window /\ WindowSize \in Nat /\ troubles \in Nat
  BY DetectionAssumption DEF DetectionAssumption, WindowInv, HoldsNewest, Tick, Member
<1>2. IsFiniteSet(window) /\ IsFiniteSet(all) /\ IsFiniteSet(pushed \cup {m})
  <2>1. IsFiniteSet(window)
    BY <1>1, FS_Subset
  <2> QED
    BY <1>1, <2>1, FS_AddElement
<1>3. Cardinality(window) \in Nat /\ Cardinality(all) \in Nat /\ Cardinality(all) <= Cardinality(window) + 1
  <2> HIDE DEF m
  <2>1. Cardinality(window) \in Nat
    BY <1>2, FS_CardinalityType
  <2>2. Cardinality(window \cup {m}) = IF m \in window THEN Cardinality(window) ELSE Cardinality(window) + 1
    BY <1>2, FS_AddElement
  <2> QED
    BY <2>1, <2>2
<1>4. troubles' \in Nat /\ troubles <= troubles' /\ (failed # "nothing" => troubles' = troubles + 1)
  BY <1>1 DEF Fails
<1>5. CASE failed = "zadd"
  <2>1. UNCHANGED <<window, pushed>> /\ troubles' = troubles + 1
    BY <1>4, <1>5 DEF push_to_window
  <2> QED
    BY <1>1, <1>3, <2>1 DEF WindowInv, HoldsNewest
<1>6. CASE failed # "zadd"
  <2>1. pushed' = pushed \cup {m} /\ window' = IF failed = "trim" THEN all ELSE Trim(all)
    BY <1>1, <1>6 DEF push_to_window
  <2>2. /\ Newest(pushed', WindowSize) \subseteq Trim(all)
        /\ window = Newest(pushed, WindowSize) => Trim(all) = Newest(pushed', WindowSize)
    BY <1>1, <2>1, PushHoldsNewest DEF Trim
  <2>3. Trim(all) \subseteq all
    BY DEF Trim, Newest
  <2>4. pushed' \subseteq Member /\ IsFiniteSet(pushed') /\ all \subseteq pushed'
    BY <1>1, <1>2, <2>1
  <2>5. CASE failed = "trim"
    <3>1. troubles' = troubles + 1 /\ window' = all
      BY <1>4, <2>1, <2>5
    <3>2. troubles' # 0 /\ Cardinality(window') <= WindowSize + troubles'
      BY <1>1, <1>3, <3>1 DEF WindowInv
    <3> QED
      BY <1>4, <2>2, <2>3, <2>4, <3>1, <3>2 DEF WindowInv, HoldsNewest
  <2>6. CASE failed # "trim"
    <3>1. window' = Trim(all)
      BY <2>1, <2>6
    <3>2. Cardinality(Trim(all)) \in Nat /\ Cardinality(Trim(all)) <= WindowSize
      BY <1>1, <1>2, NewestFew DEF Trim
    <3>3. Cardinality(window') <= WindowSize + troubles'
      BY <1>1, <1>4, <3>1, <3>2
    <3>4. troubles' = 0 => troubles = 0
      BY <1>1, <1>4
    <3> QED
      BY <1>4, <2>2, <2>3, <2>4, <3>1, <3>3, <3>4 DEF WindowInv, HoldsNewest
  <2> QED
    BY <2>5, <2>6
<1> QED
  BY <1>5, <1>6

-----------------------------------------------------------------------------
(* The dedup memory's listings: one entry each, the oldest forgotten first. *)

CachedPrice == [listing : Listings, price : Prices]

Distinct(c) == \A i, j \in DOMAIN c : c[i].listing = c[j].listing => i = j

LEMMA WithoutSound ==
  ASSUME NEW c \in Seq(CachedPrice), Distinct(c), NEW l
  PROVE  /\ Without(c, l) \in Seq(CachedPrice) /\ Len(Without(c, l)) <= Len(c) /\ Distinct(Without(c, l))
         /\ \A i \in DOMAIN Without(c, l) : Without(c, l)[i].listing # l /\ \E j \in DOMAIN c : c[j] = Without(c, l)[i]
<1>1. CASE \E i \in DOMAIN c : c[i].listing = l
  <2> DEFINE k == CHOOSE i \in DOMAIN c : c[i].listing = l
             w == RemoveAt(c, k)
  <2>1. k \in 1..Len(c) /\ c[k].listing = l /\ Len(c) \in Nat
    BY <1>1
  <2>2. Without(c, l) = w
    BY <1>1 DEF Without
  <2> HIDE DEF k
  <2>3. /\ w \in Seq(CachedPrice) /\ Len(w) = Len(c) - 1
        /\ \A i \in 1..Len(w) : w[i] = IF i < k THEN c[i] ELSE c[i + 1]
    <3>1. PICK n \in Nat : n = Len(c)
      BY <2>1
    <3>2. PICK a, b : a = SubSeq(c, 1, k - 1) /\ b = SubSeq(c, k + 1, n)
      OBVIOUS
    <3>3. w = a \o b
      BY <3>1, <3>2 DEF RemoveAt
    <3>4. \A i \in 1..n : c[i] \in CachedPrice
      BY <3>1, ElementOfSeq
    <3>5. k \in 1..n
      BY <2>1, <3>1
    <3>6. a \in Seq(CachedPrice) /\ Len(a) = k - 1 /\ \A i \in 1..(k - 1) : a[i] = c[i]
      <4>1. 1 \in Int /\ k - 1 \in Int /\ \A i \in 1..(k - 1) : c[i] \in CachedPrice
        BY <3>4, <3>5
      <4>2. /\ SubSeq(c, 1, k - 1) \in Seq(CachedPrice)
            /\ Len(SubSeq(c, 1, k - 1)) = IF 1 <= k - 1 THEN k - 1 - 1 + 1 ELSE 0
            /\ \A i \in 1..(k - 1 - 1 + 1) : SubSeq(c, 1, k - 1)[i] = c[1 + i - 1]
        BY <4>1, SubSeqProperties
      <4> QED
        BY <3>2, <3>5, <4>2
    <3>7. b \in Seq(CachedPrice) /\ Len(b) = n - k /\ \A i \in 1..(n - k) : b[i] = c[k + i]
      <4>1. k + 1 \in Int /\ n \in Int /\ \A i \in (k + 1)..n : c[i] \in CachedPrice
        BY <3>4, <3>5
      <4>2. /\ SubSeq(c, k + 1, n) \in Seq(CachedPrice)
            /\ Len(SubSeq(c, k + 1, n)) = IF k + 1 <= n THEN n - (k + 1) + 1 ELSE 0
            /\ \A i \in 1..(n - (k + 1) + 1) : SubSeq(c, k + 1, n)[i] = c[k + 1 + i - 1]
        BY <4>1, SubSeqProperties
      <4> QED
        BY <3>2, <3>5, <4>2
    <3> HIDE DEF w
    <3>8. /\ a \o b \in Seq(CachedPrice) /\ Len(a \o b) = Len(a) + Len(b)
          /\ \A i \in 1..(Len(a) + Len(b)) : (a \o b)[i] = IF i <= Len(a) THEN a[i] ELSE b[i - Len(a)]
      BY <3>6, <3>7, ConcatProperties
    <3>9. w \in Seq(CachedPrice) /\ Len(w) = n - 1
      BY <3>3, <3>5, <3>6, <3>7, <3>8
    <3>10. ASSUME NEW i \in 1..(n - 1) PROVE w[i] = IF i < k THEN c[i] ELSE c[i + 1]
      <4>1. w[i] = IF i <= k - 1 THEN a[i] ELSE b[i - (k - 1)]
        <5>1. i \in 1..(Len(a) + Len(b)) /\ Len(a) = k - 1
          BY <3>5, <3>6, <3>7
        <5>2. w[i] = IF i <= Len(a) THEN a[i] ELSE b[i - Len(a)]
          BY <3>3, <3>8, <5>1
        <5> QED
          BY <5>1, <5>2
      <4>2. CASE i < k
        <5>1. i <= k - 1 /\ i \in 1..(k - 1)
          BY <3>5, <4>2
        <5> QED
          BY <3>6, <4>1, <4>2, <5>1
      <4>3. CASE ~ (i < k)
        <5>1. ~ (i <= k - 1) /\ i - (k - 1) \in 1..(n - k) /\ k + (i - (k - 1)) = i + 1
          BY <3>5, <4>3
        <5> QED
          BY <3>7, <4>1, <4>3, <5>1
      <4> QED
        BY <4>2, <4>3
    <3> QED
      BY <3>1, <3>9, <3>10
  <2> HIDE DEF w
  <2>4. ASSUME NEW i \in 1..Len(w)
        PROVE  \E j \in 1..Len(c) : j # k /\ c[j] = w[i] /\ j = IF i < k THEN i ELSE i + 1
    <3>1. PICK j : j = IF i < k THEN i ELSE i + 1
      OBVIOUS
    <3>2. j \in 1..Len(c) /\ j # k
      BY <2>1, <2>3, <3>1
    <3>3. w[i] = c[j]
      BY <2>3, <3>1
    <3> QED
      BY <3>1, <3>2, <3>3
  <2>5. ASSUME NEW i \in 1..Len(w) PROVE w[i].listing # l
    BY <2>1, <2>4 DEF Distinct
  <2>6. Distinct(w)
    <3> SUFFICES ASSUME NEW i \in 1..Len(w), NEW j \in 1..Len(w), w[i].listing = w[j].listing PROVE i = j
      BY <2>3 DEF Distinct
    <3>1. PICK p \in 1..Len(c) : c[p] = w[i] /\ p = IF i < k THEN i ELSE i + 1
      BY <2>4
    <3>2. PICK q \in 1..Len(c) : c[q] = w[j] /\ q = IF j < k THEN j ELSE j + 1
      BY <2>4
    <3>3. p = q
      BY <3>1, <3>2 DEF Distinct
    <3> QED
      BY <2>1, <3>1, <3>2, <3>3
  <2> QED
    BY <2>1, <2>2, <2>3, <2>4, <2>5, <2>6
<1>2. CASE ~ \E i \in DOMAIN c : c[i].listing = l
  BY <1>2 DEF Without
<1> QED
  BY <1>1, <1>2

\* A cache within its limit
Sound(c) == c \in Seq(CachedPrice) /\ Distinct(c) /\ Len(c) <= CacheSize

\* Of the ticks listing the new price, of all others what the cache already had
Puts(t, c, n) ==
    /\ t.of \in Listings => \E i \in DOMAIN n : n[i] = [listing |-> t.of, price |-> t.price]
    /\ \A i \in DOMAIN n : n[i].listing # t.of => \E j \in DOMAIN c : c[j] = n[i]

LEMMA PutSound ==
  ASSUME NEW c, Sound(c), NEW t \in Tick, NEW n, n = put_listing_price(t, c)
  PROVE  Sound(n) /\ Puts(t, c, n)
<1> USE DEF Sound, Puts
<1>1. CASE t.of \notin Listings
  BY <1>1 DEF put_listing_price
<1>2. CASE t.of \in Listings
  <2> DEFINE w == Without(c, t.of)
             e == [listing |-> t.of, price |-> t.price]
             all == Append(w, e)
  <2>1. /\ w \in Seq(CachedPrice) /\ Len(w) <= Len(c) /\ Len(w) \in Nat /\ Len(c) \in Nat /\ Distinct(w)
        /\ \A i \in DOMAIN w : w[i].listing # t.of /\ \E j \in DOMAIN c : c[j] = w[i]
    BY WithoutSound
  <2>2. e \in CachedPrice /\ e.listing = t.of
    BY <1>2 DEF CachedPrice, Tick
  <2>3. n = IF Len(all) > CacheSize THEN Tail(all) ELSE all
    BY <1>2 DEF put_listing_price
  <2>4. CacheSize \in Nat \ {0}
    BY DetectionAssumption DEF DetectionAssumption
  <2> HIDE DEF w, e
  <2>5. /\ all \in Seq(CachedPrice) /\ Len(all) = Len(w) + 1 /\ all[Len(w) + 1] = e
        /\ \A i \in 1..Len(w) : all[i] = w[i]
    BY <2>1, <2>2
  <2> HIDE DEF all
  <2>6. \E i \in 1..Len(all) : all[i] = e /\ i = Len(all)
    BY <2>1, <2>5
  <2>7. \A i \in 1..Len(all) : all[i].listing # t.of => \E j \in DOMAIN c : c[j] = all[i]
    <3>1. \A i \in 1..Len(all) : i \in 1..Len(w) \/ i = Len(w) + 1
      BY <2>1, <2>5
    <3> QED
      BY <2>1, <2>2, <2>5, <3>1
  <2>8. \A i, j \in 1..Len(all) : all[i].listing = all[j].listing => i = j
    <3>1. \A i \in 1..Len(all) : i \in 1..Len(w) \/ i = Len(w) + 1
      BY <2>1, <2>5
    <3>d. DOMAIN w = 1..Len(w)
      BY <2>1
    <3>2. \A i \in 1..Len(w) : all[i].listing # t.of
      BY <2>1, <2>5, <3>d
    <3>3. \A i, j \in 1..Len(w) : all[i].listing = all[j].listing => i = j
      <4>1. \A i, j \in 1..Len(w) : w[i].listing = w[j].listing => i = j
        BY <2>1, <3>d DEF Distinct
      <4>2. \A i \in 1..Len(w) : all[i] = w[i]
        BY <2>5
      <4> QED
        BY <4>1, <4>2
    <3> QED
      BY <2>2, <2>5, <3>1, <3>2, <3>3
  <2>9. CASE Len(all) > CacheSize
    <3>1. n = Tail(all) /\ all # <<>>
      BY <2>3, <2>4, <2>5, <2>9
    <3>2. n \in Seq(CachedPrice) /\ Len(n) = Len(all) - 1 /\ \A i \in 1..Len(n) : n[i] = all[i + 1]
      <4>1. all \in Seq(CachedPrice) /\ all # <<>>
        BY <2>5, <3>1
      <4>2. /\ Tail(all) \in Seq(CachedPrice) /\ Len(Tail(all)) = Len(all) - 1
            /\ \A i \in 1..Len(Tail(all)) : Tail(all)[i] = all[i + 1]
        BY <4>1, HeadTailProperties
      <4>3. n = Tail(all)
        BY <3>1
      <4> QED
        BY <4>2, <4>3
    <3>3. \A i \in 1..Len(n) : i + 1 \in 1..Len(all)
      BY <2>1, <2>5, <3>2
    <3>4. Len(n) <= CacheSize /\ Len(n) \in 1..Len(n) /\ Len(n) + 1 = Len(all)
      BY <2>1, <2>4, <2>5, <2>9, <3>2
    <3>5. n[Len(n)] = e
      BY <2>6, <3>2, <3>4
    <3>6. Distinct(n)
      <4> SUFFICES ASSUME NEW i \in 1..Len(n), NEW j \in 1..Len(n), n[i].listing = n[j].listing PROVE i = j
        BY <3>2 DEF Distinct
      <4>1. i + 1 = j + 1
        BY <2>8, <3>2, <3>3
      <4> QED
        BY <4>1
    <3>7. \A i \in 1..Len(n) : n[i].listing # t.of => \E j \in DOMAIN c : c[j] = n[i]
      BY <2>7, <3>2, <3>3
    <3> QED
      BY <1>2, <3>2, <3>4, <3>5, <3>6, <3>7 DEF e
  <2>10. CASE ~ (Len(all) > CacheSize)
    <3>1. n = all /\ Len(all) <= CacheSize
      BY <2>1, <2>3, <2>4, <2>5, <2>10
    <3> QED
      BY <1>2, <2>5, <2>6, <2>7, <2>8, <3>1 DEF e, Distinct
  <2> QED
    BY <2>9, <2>10
<1> QED
  BY <1>1, <1>2

\* What a memory knows of a source that was scored at a price
Remembers(d, l, seen) ==
    seen.times > 0 => IF l = Lowest THEN d.entry # NoEntry /\ d.entry.ask = seen.price ELSE SeenAt(d, l, seen.price)

Judgement == [price : Prices \cup {Never}, times : Nat]

\* A listing in the memory has one entry, and what was scored is remembered at its price.
ScoredInv ==
    /\ Sound(dedup.listings)
    /\ judged \in [Listings \cup {Lowest} -> Judgement]
    /\ \A l \in Listings \cup {Lowest} : judged[l].times <= 1 /\ Remembers(dedup, l, judged[l])

Knows(d, l) == \E i \in DOMAIN d.listings : d.listings[i].listing = l

(* An update keeps what the memory knew of the listings still in it, and    *)
(* learns the tick's price.                                                 *)
LEMMA UpdateKnows ==
  ASSUME ScoredInv, NEW t \in Tick, NEW enters, NEW u, u = update_dedup_cache(t, dedup, enters)
  PROVE  /\ Sound(u.listings)
         /\ t.of \in Listings => SeenAt(u, t.of, t.price)
         /\ \A l \in Listings, p \in Prices \cup {Never} :
              l # t.of /\ SeenAt(dedup, l, p) /\ Knows(u, l) => SeenAt(u, l, p)
<1> DEFINE c == dedup.listings
           n == u.listings
<1>1. Sound(c)
  BY DEF ScoredInv
<1>2. n = put_listing_price(t, c)
  BY DEF update_dedup_cache
<1> HIDE DEF c, n
<1>3. Sound(n) /\ Puts(t, c, n)
  BY <1>1, <1>2, PutSound
<1>4. ASSUME NEW l \in Listings, NEW p \in Prices \cup {Never}, l # t.of, SeenAt(dedup, l, p), NEW i \in DOMAIN n, n[i].listing = l
      PROVE  SeenAt(u, l, p)
  <2>1. PICK j \in DOMAIN c : c[j] = n[i]
    BY <1>3, <1>4 DEF Puts
  <2>2. PICK k \in DOMAIN c : c[k] = [listing |-> l, price |-> p]
    BY <1>4 DEF SeenAt, c
  <2>3. c[j].listing = c[k].listing
    BY <1>4, <2>1, <2>2
  <2>4. j = k
    BY <1>1, <2>3 DEF Sound, Distinct
  <2> QED
    BY <2>1, <2>2, <2>4 DEF SeenAt, n
<1> QED
  BY <1>3, <1>4 DEF SeenAt, Puts, Knows, n

(* What the sighting of a tick makes of one source's judgement.             *)
LEMMA Judging ==
  ASSUME ScoredInv, Remembering(dedup), NEW t \in Tick, NEW times \in 0..1, NEW u,
         (u = dedup /\ times = 0) \/ \E enters : u = update_dedup_cache(t, dedup, enters),
         times = 0 \/ (~ is_duplicate(t, dedup) /\ ~ is_unchanged_snapshot(t, dedup)),
         Sighted(t, times, u), NEW k \in Listings \cup {Lowest}
  PROVE  judged'[k] \in Judgement /\ judged'[k].times <= 1 /\ Remembers(u, k, judged'[k])
<1> DEFINE old == judged[k]
           new == judged'[k]
           kept == u = dedup /\ times = 0
<1>1. /\ old \in Judgement /\ old.price \in Prices \cup {Never} /\ old.times \in Nat /\ old.times <= 1
      /\ Remembers(dedup, k, old) /\ DOMAIN judged = Listings \cup {Lowest}
  BY DEF ScoredInv, Judgement
<1>2. new = IF k = t.of
            THEN [price |-> t.price, times |-> IF old.price = t.price THEN old.times + times ELSE times]
            ELSE IF k = Lowest \/ Knows(u, k) THEN old ELSE Unjudged
  BY <1>1 DEF Sighted, Knows
<1>3. t.price \in Prices /\ Lowest \notin Listings /\ times \in Nat /\ times <= 1
  BY DetectionAssumption DEF Tick, DetectionAssumption
<1>4. ~ kept => u.entry # NoEntry /\ u.entry.ask = IF IsSnapshot(t) THEN t.price
                                                      ELSE IF dedup.entry = NoEntry THEN Never ELSE dedup.entry.ask
  <2> SUFFICES ASSUME NEW enters, u = update_dedup_cache(t, dedup, enters)
               PROVE  u.entry # NoEntry /\ u.entry.ask = IF IsSnapshot(t) THEN t.price
                                                      ELSE IF dedup.entry = NoEntry THEN Never ELSE dedup.entry.ask
    OBVIOUS
  <2>1. u.entry # NoEntry
    BY UpdateRemembers, NoEntryAssumption
  <2> QED
    BY <2>1 DEF update_dedup_cache
<1>5. ~ kept => /\ t.of \in Listings => SeenAt(u, t.of, t.price)
                /\ \A l \in Listings, p \in Prices \cup {Never} :
                         l # t.of /\ SeenAt(dedup, l, p) /\ Knows(u, l)
                            => SeenAt(u, l, p)
  BY UpdateKnows
<1> HIDE DEF old, new
<1>6. CASE k = t.of
  <2> DEFINE n == IF old.price = t.price THEN old.times + times ELSE times
  <2>1. new = [price |-> t.price, times |-> n]
    BY <1>2, <1>6
  <2>2. old.times > 0 /\ times > 0 => old.price # t.price
    <3> SUFFICES ASSUME old.times > 0, times > 0, old.price = t.price PROVE FALSE
      OBVIOUS
    <3>1. ~ is_duplicate(t, dedup) /\ ~ is_unchanged_snapshot(t, dedup)
      BY <1>3
    <3>2. CASE k = Lowest
      <4>1. dedup.entry # NoEntry /\ dedup.entry.ask = t.price
        BY <1>1, <3>2 DEF Remembers
      <4> QED
        BY <1>6, <3>1, <3>2, <4>1 DEF is_unchanged_snapshot, IsSnapshot
    <3>3. CASE k # Lowest
      <4>1. SeenAt(dedup, t.of, t.price) /\ t.of \in Listings
        BY <1>1, <1>6, <3>3 DEF Remembers
      <4> QED
        BY <3>1, <4>1 DEF is_duplicate
    <3> QED
      BY <3>2, <3>3
  <2>3. n \in Nat /\ n <= 1
    BY <1>1, <1>3, <2>2
  <2>4. ASSUME kept, n > 0 PROVE Remembers(u, k, new)
    <3>1. times = 0 /\ old.price = t.price /\ old.times > 0
      <4>1. times = 0
        BY <2>4
      <4>2. n = IF old.price = t.price THEN old.times + times ELSE times
        OBVIOUS
      <4> HIDE DEF n
      <4>3. old.price # t.price => n = 0
        BY <4>1, <4>2
      <4>4. old.price = t.price
        BY <2>4, <4>3
      <4>5. n = old.times
        BY <1>1, <4>1, <4>2, <4>4
      <4> QED
        BY <2>4, <4>1, <4>4, <4>5
    <3>2. new.price = old.price
      BY <2>1, <3>1
    <3> QED
      BY <1>1, <2>4, <3>1, <3>2 DEF Remembers
  <2>5. ASSUME ~ kept PROVE Remembers(u, k, new)
    <3>1. k = Lowest => u.entry # NoEntry /\ u.entry.ask = t.price
      BY <1>4, <1>6, <2>5 DEF IsSnapshot
    <3>2. k # Lowest => SeenAt(u, k, t.price)
      BY <1>5, <1>6, <2>5
    <3>3. new.price = t.price
      BY <2>1
    <3> QED
      BY <3>1, <3>2, <3>3 DEF Remembers
  <2> HIDE DEF n
  <2>6. ~ (n > 0) => Remembers(u, k, new)
    BY <2>1 DEF Remembers
  <2>7. new \in Judgement /\ new.times <= 1
    BY <1>3, <2>1, <2>3 DEF Judgement
  <2> QED
    BY <2>4, <2>5, <2>6, <2>7 DEF new
<1>7. CASE k # t.of
  <2>1. CASE new = Unjudged
    <3>1. new.times = 0 /\ new \in Judgement
      BY <2>1 DEF Unjudged, Judgement
    <3> QED
      BY <3>1 DEF Remembers, new
  <2>2. CASE new = old /\ k = Lowest
    <3>1. ~ kept => dedup.entry = NoEntry \/ (u.entry # NoEntry /\ u.entry.ask = dedup.entry.ask)
      BY <1>4, <1>7, <2>2 DEF IsSnapshot
    <3> QED
      BY <1>1, <2>2, <3>1 DEF Remembers, new
  <2>3. CASE new = old /\ k # Lowest /\ Knows(u, k)
    <3>1. k \in Listings
      BY <2>3
    <3>2. old.times > 0 => SeenAt(dedup, k, old.price)
      BY <1>1, <2>3 DEF Remembers
    <3>3. old.times > 0 => SeenAt(u, k, old.price)
      <4>1. CASE kept
        BY <3>2, <4>1
      <4>2. CASE ~ kept
        <5>1. \A p \in Prices \cup {Never} : SeenAt(dedup, k, p) => SeenAt(u, k, p)
          BY <1>5, <1>7, <2>3, <3>1, <4>2
        <5> QED
          BY <1>1, <3>2, <5>1
      <4> QED
        BY <4>1, <4>2
    <3> QED
      BY <1>1, <2>3, <3>3 DEF Remembers, new
  <2> QED
    BY <1>2, <1>7, <2>1, <2>2, <2>3
<1> QED
  BY <1>6, <1>7

LEMMA SightedStep ==
  ASSUME ScoredInv, Remembering(dedup), NEW t \in Tick, NEW times \in 0..1,
         (dedup' = dedup /\ times = 0) \/ \E enters : dedup' = update_dedup_cache(t, dedup, enters),
         times = 0 \/ (~ is_duplicate(t, dedup) /\ ~ is_unchanged_snapshot(t, dedup)),
         Sighted(t, times, dedup')
  PROVE  ScoredInv'
<1>1. PICK u : u = dedup'
  OBVIOUS
<1>2. Sound(u.listings)
  <2>1. CASE u = dedup
    BY <2>1 DEF ScoredInv
  <2>2. CASE \E enters : u = update_dedup_cache(t, dedup, enters)
    BY <2>2, UpdateKnows
  <2> QED
    BY <1>1, <2>1, <2>2
<1>3. \A k \in Listings \cup {Lowest} :
         judged'[k] \in Judgement /\ judged'[k].times <= 1 /\ Remembers(u, k, judged'[k])
  <2>1. (u = dedup /\ times = 0) \/ \E enters : u = update_dedup_cache(t, dedup, enters)
    BY <1>1
  <2>2. Sighted(t, times, u)
    BY <1>1
  <2> QED
    BY <2>1, <2>2, Judging
<1>4. DOMAIN judged' = Listings \cup {Lowest} /\ judged' = [k \in DOMAIN judged' |-> judged'[k]]
  BY DEF Sighted, ScoredInv
<1>5. judged' \in [Listings \cup {Lowest} -> Judgement]
  BY <1>3, <1>4
<1> QED
  BY <1>1, <1>2, <1>3, <1>5 DEF ScoredInv, Sound, Distinct, Remembers, SeenAt

(* No step scores an offer again while the memory knows it at its price.    *)
LEMMA ScoredStep == ScoredInv /\ MemoryInv /\ [Next]_vars => ScoredInv'
<1> SUFFICES ASSUME ScoredInv, MemoryInv, [Next]_vars PROVE ScoredInv'
  OBVIOUS
<1>0. Remembering(dedup)
  BY DEF MemoryInv
<1>1. ASSUME NEW t \in Tick, TakeDuplicate(t) PROVE ScoredInv'
  BY <1>0, <1>1, SightedStep DEF TakeDuplicate
<1>2. ASSUME NEW t \in Tick, NEW failed, TakeUnchanged(t, failed) PROVE ScoredInv'
  <2>1. CASE failed = "zcard"
    BY <1>2, <2>1 DEF TakeUnchanged, Remember, ScoredInv, Sound, Distinct, Remembers, SeenAt
  <2>2. CASE failed # "zcard"
    <3>1. Sighted(t, 0, dedup') /\ \E enters : dedup' = update_dedup_cache(t, dedup, enters)
      BY <1>2, <2>2 DEF TakeUnchanged, Remember
    <3> QED
      BY <1>0, <3>1, SightedStep
  <2> QED
    BY <2>1, <2>2
<1>3. ASSUME NEW t \in Tick, NEW failed, TakeNew(t, failed) PROVE ScoredInv'
  <2>1. PICK times \in 0..1 : times = IF failed = "nothing" THEN 1 ELSE 0
    OBVIOUS
  <2>2. Sighted(t, times, dedup') /\ dedup' = update_dedup_cache(t, dedup, TRUE)
    BY <1>3, <2>1 DEF TakeNew, Remember
  <2>3. ~ is_duplicate(t, dedup) /\ ~ is_unchanged_snapshot(t, dedup)
    BY <1>3 DEF TakeNew
  <2> QED
    BY <1>0, <2>2, <2>3, SightedStep
<1>4. CASE RestartListener
  <2>1. dedup' = EmptyDedup /\ judged' = [k \in DOMAIN judged |-> Unjudged]
    BY <1>4 DEF RestartListener
  <2>2. Sound(<<>>)
    <3>1. <<>> \in Seq(CachedPrice) /\ Len(<<>>) = 0 /\ DOMAIN <<>> = {}
      OBVIOUS
    <3> QED
      BY <3>1, DetectionAssumption DEF Sound, Distinct, DetectionAssumption
  <2>3. Unjudged \in Judgement /\ Unjudged.times = 0
    BY DEF Unjudged, Judgement
  <2> QED
    BY <2>1, <2>2, <2>3 DEF ScoredInv, EmptyDedup, Sound, Distinct, Remembers
<1>5. CASE \/ \E rule \in {"price", "stickers"} : Approve(rule)
           \/ Reject \/ Execute \/ EvaluationFails
           \/ \E b \in Baselines : Load(b)
           \/ RestartRedis \/ UNCHANGED vars
  <2>1. UNCHANGED <<dedup, judged>>
    BY <1>5 DEF Approve, Reject, Execute, EvaluationFails, Load, RestartRedis, vars, live, history
  <2> QED BY <2>1 DEF ScoredInv, Sound, Distinct, Remembers, SeenAt
<1> QED BY <1>1, <1>2, <1>3, <1>4, <1>5 DEF Next

-----------------------------------------------------------------------------
(* The readings of a quiet item.                                           *)

Reading == [time : Times, price : Prices, short : BOOLEAN]

\* The last reading of a snapshot, as the memory has it
Remembered(d, last) == d.entry # NoEntry /\ d.entry.windowed = last.time /\ d.entry.ask = last.price

\* What OneAskAnHour says of the readings kept
Hours(a, handled) ==
    /\ a = <<>> => handled = Never
    /\ Len(a) = 2 /\ a[1].price = a[2].price /\ ~a[2].short => a[2].time - a[1].time >= Hourly
    /\ a # <<>> => handled - a[Len(a)].time < Hourly

\* The last readings that entered the window, the newest of them known to the memory
AskInv ==
    /\ asks = [entered |-> asks.entered, handled |-> asks.handled]
    /\ \/ asks.entered = <<>>
       \/ \E last \in Reading : asks.entered = <<last>> /\ Remembered(dedup, last)
       \/ \E first, last \in Reading : asks.entered = <<first, last>> /\ Remembered(dedup, last)
    /\ Hours(asks.entered, asks.handled)
    /\ Remembering(dedup)

EndsWith(a, x) == a = <<x>> \/ \E y \in Reading : a = <<y, x>>

LEMMA LastOf ==
  ASSUME NEW a, NEW x, EndsWith(a, x)
  PROVE  Len(a) # 0 /\ <<a[Len(a)]>> = <<x>>
<1>1. a = <<x>> => Len(a) # 0 /\ <<a[Len(a)]>> = <<x>>
  OBVIOUS
<1>2. ASSUME NEW y, a = <<y, x>> PROVE Len(a) # 0 /\ <<a[Len(a)]>> = <<x>>
  BY <1>2
<1> QED
  BY <1>1, <1>2 DEF EndsWith

LEMMA AppendTwo ==
  ASSUME NEW S, NEW x \in S, NEW y \in S
  PROVE  Append(<<x>>, y) = <<x, y>>
<1>1. <<x>> \in Seq(S) /\ Len(<<x>>) = 1
  OBVIOUS
<1>2. Append(<<x>>, y) = [i \in 1..2 |-> IF i = 2 THEN y ELSE <<x>>[i]]
  BY <1>1
<1>3. \A i \in 1..2 : (IF i = 2 THEN y ELSE <<x>>[i]) = <<x, y>>[i]
  OBVIOUS
<1>4. <<x, y>> = [i \in 1..2 |-> <<x, y>>[i]]
  OBVIOUS
<1> QED
  BY <1>2, <1>3, <1>4

(* What a snapshot makes of the readings.                                   *)
LEMMA AskedHours ==
  ASSUME AskInv, NEW t \in Tick, NEW enters \in BOOLEAN, NEW short \in BOOLEAN, IsSnapshot(t),
         dedup' = update_dedup_cache(t, dedup, enters),
         Asked(t, enters, short),
         \A last \in Reading : Remembered(dedup, last) =>
            /\ ~ enters => t.price = last.price /\ t.time - last.time < Hourly
            /\ enters /\ ~ short /\ t.price = last.price => t.time - last.time >= Hourly
  PROVE  AskInv'
<1> DEFINE a == asks.entered
           new == [time |-> t.time, price |-> t.price, short |-> short]
<1>1. new \in Reading /\ t.time \in Nat /\ Hourly \in Nat /\ Hourly > 0
  BY DetectionAssumption DEF DetectionAssumption, Tick, Reading, Times
<1>2. Remembering(dedup')
  BY UpdateRemembers DEF Remembering, AskInv
<1>3. dedup'.entry # NoEntry /\ dedup'.entry.ask = t.price
  BY UpdateRemembers, NoEntryAssumption DEF AskInv, update_dedup_cache
<1>4. CASE enters
  <2>1. dedup'.entry.windowed = t.time
    BY <1>4 DEF update_dedup_cache
  <2>2. Remembered(dedup', new)
    BY <1>3, <2>1 DEF Remembered
  <2>3. asks' = [entered |-> Append(IF Len(a) = 0 THEN a ELSE <<a[Len(a)]>>, new), handled |-> t.time]
    <3>0. PICK kept : kept = IF Len(a) = 0 THEN a ELSE <<a[Len(a)]>>
      OBVIOUS
    <3>a. kept \in Seq(Reading)
      <4>1. a = <<>> \/ \E x \in Reading : a = <<x>> \/ \E y \in Reading : a = <<y, x>>
        BY DEF AskInv
      <4>2. CASE a = <<>>
        BY <3>0, <4>2
      <4>3. ASSUME NEW x \in Reading, a = <<x>> \/ \E y \in Reading : a = <<y, x>> PROVE kept \in Seq(Reading)
        <5> HIDE DEF a
        <5>0. EndsWith(a, x)
          BY <4>3, Zenon DEF EndsWith
        <5>1. Len(a) # 0 /\ <<a[Len(a)]>> = <<x>>
          BY <5>0, LastOf
        <5>2. kept = <<x>>
          BY <3>0, <5>1
        <5> QED
          BY <5>2
      <4> QED
        BY <4>1, <4>2, <4>3
    <3>1. Append(IF Len(a) = 0 THEN a ELSE <<a[Len(a)]>>, new) # <<>>
      BY <1>1, <3>0, <3>a, AppendProperties
    <3> QED
      BY <1>4, <3>1 DEF Asked
  <2> HIDE DEF new
  <2>4. CASE a = <<>>
    <3>1. asks' = [entered |-> <<new>>, handled |-> t.time]
      BY <2>3, <2>4
    <3>2. Hours(<<new>>, t.time)
      <4>1. <<new>> # <<>> /\ Len(<<new>>) = 1 /\ <<new>>[Len(<<new>>)] = new /\ new.time = t.time
        BY DEF new
      <4>2. t.time - t.time < Hourly
        BY <1>1
      <4> QED
        BY <4>1, <4>2 DEF Hours
    <3> QED
      BY <1>1, <1>2, <2>2, <3>1, <3>2 DEF AskInv, Remembered, Remembering, Hours
  <2>5. ASSUME NEW last \in Reading, Remembered(dedup, last),
               a = <<last>> \/ \E first \in Reading : a = <<first, last>>
        PROVE  AskInv'
    <3>1. asks' = [entered |-> <<last, new>>, handled |-> t.time]
      <4> HIDE DEF a
      <4>0. EndsWith(a, last)
        BY <2>5 DEF EndsWith
      <4>1. Len(a) # 0 /\ <<a[Len(a)]>> = <<last>>
        BY <4>0, LastOf
      <4>2. Append(<<last>>, new) = <<last, new>>
        BY <1>1, AppendTwo
      <4> QED
        BY <2>3, <4>1, <4>2
    <3>2. Hours(<<last, new>>, t.time)
      <4>1. /\ <<last, new>> # <<>> /\ Len(<<last, new>>) = 2 /\ <<last, new>>[1] = last /\ <<last, new>>[2] = new
            /\ new.time = t.time /\ new.price = t.price /\ new.short = short
        BY DEF new
      <4>2. t.time - t.time < Hourly
        BY <1>1
      <4>3. ~ short /\ last.price = t.price => t.time - last.time >= Hourly
        BY <1>4, <2>5
      <4> QED
        BY <4>1, <4>2, <4>3 DEF Hours
    <3> QED
      BY <1>1, <1>2, <2>2, <2>5, <3>1, <3>2 DEF AskInv, Remembered, Remembering, Hours
  <2> QED
    BY <2>4, <2>5 DEF AskInv
<1>5. CASE ~ enters
  <2>1. dedup.entry # NoEntry => dedup'.entry.windowed = dedup.entry.windowed
    BY <1>5 DEF update_dedup_cache
  <2>2. asks' = [entered |-> a, handled |-> IF a = <<>> THEN Never ELSE t.time]
    BY <1>5 DEF Asked
  <2>3. ASSUME NEW last \in Reading, Remembered(dedup, last)
        PROVE  Remembered(dedup', last) /\ t.time - last.time < Hourly
    BY <1>3, <1>5, <2>1, <2>3 DEF Remembered
  <2>4. CASE a = <<>>
    <3>1. Hours(a, Never)
      BY <2>4 DEF Hours
    <3> QED
      BY <1>2, <2>2, <2>4, <3>1 DEF AskInv, Remembering, Hours
  <2>5. ASSUME NEW last \in Reading, Remembered(dedup, last),
               a = <<last>> \/ \E first \in Reading : a = <<first, last>>
        PROVE  AskInv'
    <3>1. Hours(a, t.time)
      BY <2>3, <2>5 DEF AskInv, Hours
    <3> HIDE DEF a
    <3>2. a # <<>>
      BY <2>5
    <3>3. asks' = [entered |-> a, handled |-> t.time]
      BY <2>2, <3>2
    <3> USE DEF a
    <3> QED
      BY <1>2, <2>3, <2>5, <3>1, <3>3 DEF AskInv, Remembering, Remembered, Hours
  <2> QED
    BY <2>4, <2>5 DEF AskInv
<1> QED
  BY <1>4, <1>5

(* Every step keeps the readings an hour apart.                             *)
LEMMA AskStep == AskInv /\ [Next]_vars => AskInv'
<1> SUFFICES ASSUME AskInv, [Next]_vars PROVE AskInv'
  OBVIOUS
<1>0. /\ Remembering(dedup) /\ Hours(asks.entered, asks.handled)
      /\ \A last \in Reading : last.time \in Nat /\ last.price \in Prices /\ last.time # Never
  BY DetectionAssumption, SMTT(30) DEF AskInv, DetectionAssumption, Reading, Times, Never
<1>a. ASSUME NEW t \in Tick, NEW enters, dedup' = update_dedup_cache(t, dedup, enters), asks' = NoAsks PROVE AskInv'
  <2>1. Remembering(dedup')
    BY <1>0, <1>a, UpdateRemembers DEF Remembering
  <2>2. Hours(<<>>, Never)
    BY DEF Hours
  <2> QED
    BY <1>a, <2>1, <2>2 DEF AskInv, Remembering, Hours, NoAsks
<1>b. ASSUME UNCHANGED <<dedup, asks>> PROVE AskInv'
  BY <1>b DEF AskInv, Hours, Remembered, Remembering
<1>1. ASSUME NEW t \in Tick, TakeDuplicate(t) PROVE AskInv'
  BY <1>1, <1>b DEF TakeDuplicate
<1>2. ASSUME NEW t \in Tick, NEW failed, TakeUnchanged(t, failed) PROVE AskInv'
  <2> DEFINE due == hourly_snapshot_due(t, dedup)
             enters == unchanged_snapshot_enters_price_window(t, dedup)
  <2>0. enters \in BOOLEAN /\ Short \in BOOLEAN /\ due \in BOOLEAN /\ (enters <=> due \/ Short)
    BY DEF unchanged_snapshot_enters_price_window, hourly_snapshot_due, Short
  <2>1. CASE failed = "zcard"
    BY <1>2, <2>1, <1>b DEF TakeUnchanged, Remember
  <2>2. CASE failed # "zcard"
    <3>1. dedup' = update_dedup_cache(t, dedup, enters) /\ IF failed = "zadd" THEN asks' = NoAsks ELSE Asked(t, enters, Short)
      BY <1>2, <2>2 DEF TakeUnchanged, Remember
    <3>2. IsSnapshot(t) /\ t.price = dedup.entry.ask /\ t.time \in Nat
      BY <1>2, DetectionAssumption DEF TakeUnchanged, is_unchanged_snapshot, Tick, Times, DetectionAssumption
    <3>3. ASSUME NEW last \in Reading, Remembered(dedup, last)
          PROVE  /\ ~ enters => t.price = last.price /\ t.time - last.time < Hourly
                 /\ enters /\ ~ Short /\ t.price = last.price => t.time - last.time >= Hourly
      <4>1. t.price = last.price /\ dedup.entry.windowed = last.time
        BY <3>2, <3>3 DEF Remembered
      <4>2. due <=> t.time - last.time >= Hourly
        BY <1>0, <4>1 DEF hourly_snapshot_due
      <4>3. last.time \in Nat /\ Hourly \in Nat
        BY <1>0, DetectionAssumption DEF DetectionAssumption
      <4> HIDE DEF due, enters
      <4>4. ~ due => t.time - last.time < Hourly
        BY <3>2, <4>2, <4>3
      <4> QED
        BY <2>0, <4>1, <4>2, <4>4
    <3> HIDE DEF enters
    <3> QED
      BY <1>a, <2>0, <3>1, <3>2, <3>3, AskedHours
  <2> QED
    BY <2>1, <2>2
<1>3. ASSUME NEW t \in Tick, NEW failed, TakeNew(t, failed) PROVE AskInv'
  <2>1. /\ dedup' = update_dedup_cache(t, dedup, TRUE) /\ ~ is_unchanged_snapshot(t, dedup)
        /\ IF ~ IsSnapshot(t) THEN UNCHANGED asks
           ELSE IF failed = "zadd" THEN asks' = NoAsks ELSE Asked(t, TRUE, Short)
    BY <1>3 DEF TakeNew, Remember
  <2>2. CASE ~ IsSnapshot(t)
    <3>1. \A last \in Reading : Remembered(dedup, last) => Remembered(dedup', last)
      <4>1. dedup'.entry # NoEntry
        BY <1>0, <2>1, UpdateRemembers, NoEntryAssumption
      <4>2. dedup.entry # NoEntry => dedup'.entry.windowed = dedup.entry.windowed /\ dedup'.entry.ask = dedup.entry.ask
        BY <2>1, <2>2 DEF update_dedup_cache
      <4> QED
        BY <4>1, <4>2 DEF Remembered
    <3>2. Remembering(dedup')
      BY <1>0, <2>1, UpdateRemembers DEF Remembering
    <3> QED
      BY <2>1, <2>2, <3>1, <3>2 DEF AskInv, Remembered, Remembering, Hours
  <2>3. CASE IsSnapshot(t)
    <3>1. ASSUME NEW last \in Reading, Remembered(dedup, last) PROVE t.price # last.price
      BY <2>1, <2>3, <3>1 DEF Remembered, is_unchanged_snapshot
    <3>2. Short \in BOOLEAN
      BY DEF Short
    <3> QED
      BY <1>a, <2>1, <2>3, <3>1, <3>2, AskedHours
  <2> QED
    BY <2>2, <2>3
<1>4. CASE RestartListener
  <2>1. Hours(<<>>, Never)
    BY DEF Hours
  <2> QED
    BY <1>4, <2>1 DEF RestartListener, AskInv, Remembering, Hours, NoAsks, EmptyDedup
<1>5. CASE RestartRedis
  <2>1. Hours(<<>>, Never)
    BY DEF Hours
  <2> QED
    BY <1>0, <1>5, <2>1 DEF RestartRedis, AskInv, Remembering, Hours, NoAsks
<1>6. CASE \/ \E rule \in {"price", "stickers"} : Approve(rule)
           \/ Reject \/ Execute \/ EvaluationFails
           \/ \E b \in Baselines : Load(b)
           \/ UNCHANGED vars
  <2>1. UNCHANGED <<dedup, asks>>
    BY <1>6 DEF Approve, Reject, Execute, EvaluationFails, Load, vars, live, history
  <2> QED
    BY <1>b, <2>1
<1> QED
  BY <1>1, <1>2, <1>3, <1>4, <1>5, <1>6 DEF Next

-----------------------------------------------------------------------------
(* The window and the memory of a whole run.                               *)

(* The window holds the newest members at every step.                       *)
LEMMA WindowStep == WindowInv /\ [Next]_vars => WindowInv'
<1> SUFFICES ASSUME WindowInv, [Next]_vars PROVE WindowInv'
  OBVIOUS
<1>0. /\ pushed \subseteq Member /\ IsFiniteSet(pushed) /\ window \subseteq pushed /\ troubles \in Nat
      /\ Cardinality(window) \in Nat /\ Cardinality(window) <= WindowSize + troubles
      /\ WindowSize \in Nat
  <2>1. pushed \subseteq Member /\ IsFiniteSet(pushed) /\ window \subseteq pushed
    BY DEF WindowInv, HoldsNewest
  <2>2. IsFiniteSet(window)
    BY <2>1, FS_Subset
  <2>3. Cardinality(window) \in Nat
    BY <2>2, FS_CardinalityType
  <2> QED
    BY <2>1, <2>3, DetectionAssumption DEF WindowInv, DetectionAssumption
<1>a. ASSUME UNCHANGED <<window, pushed>>, troubles' = troubles \/ troubles' = troubles + 1 PROVE WindowInv'
  <2>1. troubles' \in Nat /\ (troubles' = 0 => troubles = 0)
    BY <1>0, <1>a
  <2>2. Cardinality(window) <= WindowSize + troubles'
    BY <1>0, <1>a
  <2> QED
    BY <1>a, <2>1, <2>2 DEF WindowInv, HoldsNewest
<1>1. ASSUME NEW t \in Tick, NEW failed, TakeUnchanged(t, failed) PROVE WindowInv'
  <2>1. /\ Fails(failed)
        /\ push_to_window(t, failed) \/ UNCHANGED <<window, pushed>>
    BY <1>1 DEF TakeUnchanged
  <2>2. troubles' = troubles \/ troubles' = troubles + 1
    BY <2>1 DEF Fails
  <2> QED
    BY <1>a, <2>1, <2>2, PushStep
<1>2. ASSUME NEW t \in Tick, NEW failed, TakeNew(t, failed) PROVE WindowInv'
  BY <1>2, PushStep DEF TakeNew
<1>3. CASE RestartRedis
  <2>1. window' = {} /\ pushed' = {} /\ troubles' = troubles + 1
    BY <1>3 DEF RestartRedis, Fails
  <2>2. Newest({}, WindowSize) = {} /\ IsFiniteSet({}) /\ Cardinality({}) = 0
    BY FS_EmptySet DEF Newest
  <2>3. troubles' \in Nat /\ 0 <= WindowSize + troubles'
    BY <1>0, <2>1
  <2> QED
    BY <2>1, <2>2, <2>3 DEF WindowInv, HoldsNewest
<1>4. CASE \/ \E t \in Tick : TakeDuplicate(t)
           \/ \E rule \in {"price", "stickers"} : Approve(rule)
           \/ Reject \/ Execute \/ EvaluationFails \/ RestartListener
           \/ \E b \in Baselines : Load(b)
           \/ UNCHANGED vars
  <2>1. UNCHANGED <<window, pushed>> /\ (troubles' = troubles \/ troubles' = troubles + 1)
    BY <1>4 DEF TakeDuplicate, Approve, Reject, Execute, EvaluationFails, RestartListener, Fails, Load, vars, live, history
  <2> QED
    BY <1>a, <2>1
<1> QED
  BY <1>1, <1>2, <1>3, <1>4 DEF Next

\* The variables that hold no memory and no window
TypesInv ==
    /\ now \in Times /\ ticks \in 0..MaxTicks /\ troubles \in 0..MaxTroubles
    /\ baseline \in Baselines \cup {NoBaseline}
    /\ job \in Jobs \cup {NoJob} /\ trade \in Jobs \cup {NoJob}

(* An anomaly is scored at the newest price of a window that has one.       *)
LEMMA ScoredType ==
  ASSUME TypesInv, WindowInv', NEW t \in Tick, Cardinality(window') >= MinHistory
  PROVE  score_window(t, window') \in Jobs
<1>1. PICK w : w = window'
  OBVIOUS
<1>2. w \in SUBSET Member
  BY <1>1 DEF WindowInv, HoldsNewest
<1>3. w # {}
  <2>1. Cardinality({}) = 0
    BY FS_EmptySet
  <2>2. MinHistory \in Nat \ {0}
    BY DetectionAssumption DEF DetectionAssumption
  <2> QED
    BY <1>1, <2>1, <2>2
<1>4. ScoredPrice(w) \in Prices
  <2>1. \E m \in w : \A x \in w \ {m} : Before(x, m)
    BY <1>2, <1>3, Latest
  <2> QED
    BY <1>2, <2>1 DEF ScoredPrice, Member
<1>5. t.of \in Sources /\ t.price \in Prices
  BY DEF Tick
<1> QED
  BY <1>1, <1>4, <1>5 DEF score_window, Jobs, TypesInv

LEMMA TypesStep == TypesInv /\ WindowInv' /\ [Next]_vars => TypesInv'
<1> SUFFICES ASSUME TypesInv, WindowInv', [Next]_vars PROVE TypesInv'
  OBVIOUS
<1>0. MaxTicks \in Nat /\ MaxTroubles \in Nat
  BY DetectionAssumption DEF DetectionAssumption
<1>a. ASSUME NEW failed, Fails(failed) PROVE troubles' \in 0..MaxTroubles
  BY <1>0, <1>a DEF Fails, TypesInv
<1>b. ASSUME NEW t \in Tick, Arrives(t) PROVE now' \in Times /\ ticks' \in 0..MaxTicks /\ UNCHANGED <<baseline, trade>>
  <2>1. now' \in Times /\ UNCHANGED <<baseline, trade>>
    BY <1>b DEF Arrives, TypesInv, Tick
  <2>2. ticks' \in 0..MaxTicks
    BY <1>0, <1>b DEF Arrives, TypesInv
  <2> QED
    BY <2>1, <2>2
<1>1. ASSUME NEW t \in Tick, TakeDuplicate(t) PROVE TypesInv'
  BY <1>1, <1>b DEF TakeDuplicate, TypesInv
<1>2. ASSUME NEW t \in Tick, NEW failed, TakeUnchanged(t, failed) PROVE TypesInv'
  BY <1>2, <1>a, <1>b DEF TakeUnchanged, TypesInv
<1>3. ASSUME NEW t \in Tick, NEW failed, TakeNew(t, failed) PROVE TypesInv'
  <2>1. Arrives(t) /\ Fails(failed)
    BY <1>3 DEF TakeNew
  <2>2. job' \in Jobs \cup {NoJob}
    <3>1. UNCHANGED job \/ (Cardinality(window') >= MinHistory /\ job' = score_window(t, window'))
      BY <1>3 DEF TakeNew
    <3> QED
      BY <3>1, ScoredType DEF TypesInv
  <2> QED
    BY <1>a, <1>b, <2>1, <2>2 DEF TypesInv
<1>4. ASSUME NEW rule \in {"price", "stickers"}, Approve(rule) PROVE TypesInv'
  <2>1. job \in Jobs /\ job' = [job EXCEPT !.rule = rule, !.approved = JudgedBy]
        /\ UNCHANGED <<now, baseline, trade, ticks, troubles>>
    BY <1>4 DEF Approve, TypesInv
  <2>2. JudgedBy \in Baselines \cup {NoBaseline}
    BY <2>1 DEF JudgedBy, Jobs, TypesInv
  <2>3. job' = [of |-> job.of, price |-> job.price, scored |-> job.scored, known |-> job.known,
                rule |-> rule, approved |-> JudgedBy]
    BY <2>1 DEF Jobs
  <2>4. job' \in Jobs
    BY <2>1, <2>2, <2>3 DEF Jobs
  <2> QED
    BY <2>1, <2>4 DEF TypesInv
<1>5. CASE Reject
  BY <1>5 DEF Reject, TypesInv
<1>6. CASE Execute
  BY <1>6 DEF Execute, TypesInv
<1>7. CASE EvaluationFails
  BY <1>7, <1>a DEF EvaluationFails, TypesInv
<1>8. ASSUME NEW b \in Baselines, Load(b) PROVE TypesInv'
  BY <1>8 DEF Load, TypesInv
<1>9. CASE RestartListener
  BY <1>9, <1>a DEF RestartListener, TypesInv
<1>10. CASE RestartRedis
  BY <1>10, <1>a DEF RestartRedis, TypesInv
<1>11. CASE UNCHANGED vars
  BY <1>11 DEF vars, live, TypesInv
<1> QED
  BY <1>1, <1>2, <1>3, <1>4, <1>5, <1>6, <1>7, <1>8, <1>9, <1>10, <1>11 DEF Next

\* The inductive invariant of the consumer
DecisionInv == TypesInv /\ MemoryInv /\ WindowInv /\ ScoredInv /\ AskInv

LEMMA DecisionInit == Init => DecisionInv
<1> SUFFICES ASSUME Init PROVE DecisionInv
  OBVIOUS
<1>1. TypesInv
  BY DetectionAssumption DEF Init, TypesInv, Times, DetectionAssumption
<1>2. MemoryInv
  BY DEF Init, EmptyDedup, MemoryInv, Remembering, SameMemory
<1>3. WindowInv
  <2>1. Newest({}, WindowSize) = {} /\ IsFiniteSet({}) /\ Cardinality({}) = 0
    BY FS_EmptySet DEF Newest
  <2> QED
    BY <2>1, DetectionAssumption DEF Init, WindowInv, HoldsNewest, DetectionAssumption
<1>4. ScoredInv
  <2>1. Sound(<<>>)
    <3>1. <<>> \in Seq(CachedPrice) /\ Len(<<>>) = 0 /\ DOMAIN <<>> = {}
      OBVIOUS
    <3> QED
      BY <3>1, DetectionAssumption DEF Sound, Distinct, DetectionAssumption
  <2>2. Unjudged \in Judgement /\ Unjudged.times = 0
    BY DEF Unjudged, Judgement
  <2> QED
    BY <2>1, <2>2 DEF Init, EmptyDedup, ScoredInv, Remembers
<1>5. AskInv
  <2>1. Hours(<<>>, Never)
    BY DEF Hours
  <2> QED
    BY <1>2, <2>1 DEF Init, AskInv, NoAsks, MemoryInv
<1> QED
  BY <1>1, <1>2, <1>3, <1>4, <1>5 DEF DecisionInv

LEMMA DecisionSound == DecisionInv => WindowSound
<1> SUFFICES ASSUME DecisionInv PROVE WindowSound
  OBVIOUS
<1>1. TypeOK
  <2>1. Len(dedup.listings) <= CacheSize /\ dedup.listings = replayed.listings
    BY DEF DecisionInv, ScoredInv, Sound, MemoryInv, SameMemory
  <2>2. Cached(dedup) /\ Cached(replayed)
    BY <2>1 DEF DecisionInv, MemoryInv, Remembering, Cached
  <2> QED
    BY <2>2 DEF DecisionInv, TypesInv, WindowInv, HoldsNewest, TypeOK
<1>2. ScoredOnce
  BY DEF DecisionInv, ScoredInv, ScoredOnce
<1>3. HoldsNewest
  BY DEF DecisionInv, WindowInv
<1>4. OneAskAnHour
  <2>1. CASE asks.entered = <<>>
    <3>1. Len(asks.entered) # 2 /\ asks.handled = Never
      BY <2>1 DEF DecisionInv, AskInv, Hours
    <3> QED
      BY <3>1 DEF OneAskAnHour
  <2>2. CASE asks.entered # <<>>
    BY <2>2 DEF DecisionInv, AskInv, Hours, OneAskAnHour
  <2> QED
    BY <2>1, <2>2
<1> QED
  BY <1>1, <1>2, <1>3, <1>4 DEF WindowSound

(* Whatever ticks come and whatever Redis commands fail: the window holds the newest
   prices and only a failed trim's too many, a quiet item enters it once an hour, and an
   offer at one price is scored once while the memory knows it. *)
THEOREM WindowSoundHolds == Spec => []WindowSound
<1>1. DecisionInv /\ [Next]_vars => DecisionInv'
  BY TypesStep, MemoryStep, WindowStep, ScoredStep, AskStep DEF DecisionInv
<1> QED
  BY <1>1, DecisionInit, DecisionSound, PTL DEF Spec
=============================================================================
