-------------------------- MODULE PaperTrade_proofs --------------------------
(***************************************************************************)
(* Proofs about PaperTrade, for any number of workers, requests, goods,    *)
(* listings and days; and about the prices, fees, baselines and rules that *)
(* a trade rests on (Pricing), whatever the numbers are.                   *)
(*                                                                         *)
(* OncePerPurchase is not inductive: that a snapshot found nothing must    *)
(* still hold when it inserts.  The lock makes it so (OneHolder): between  *)
(* the check and the insert no other transaction adds a row of the good    *)
(* (ClearStays).  MemorySound rests on what an answer says (AnswerTrue).   *)
(***************************************************************************)
EXTENDS PaperTrade, Pricing, SequenceTheorems, FiniteSetTheorems, TLAPS

(* A request that holds the lock of its good. *)
Holds(q) == req[q].phase \in {"locked", "clear"}

(* lock_purchase: two transactions that hold the lock are about different goods. *)
OneHolder ==
    \A p, q \in Requests : Holds(p) /\ Holds(q) /\ p # q => req[p].offer.good # req[q].offer.good

(* A snapshot that was found new is still new. *)
ClearStays ==
    \A q \in Requests :
        req[q].phase = "clear" /\ req[q].offer.listing = NoListing =>
            ~snapshot_already_bought(req[q].offer.good, req[q].at)

(* The rows an offer can be answered with: its listing's, or for a snapshot one of its good. *)
Backed(rows, o) ==
    \E t \in DOMAIN rows :
        IF o.listing = NoListing THEN rows[t].good = o.good ELSE rows[t].listing = o.listing

(* An answer of 200 or 201 is backed by a committed row. *)
AnswerTrue ==
    \A q \in Requests : req[q].phase \in {"recorded", "repeated"} => Backed(trades, req[q].offer)

IInv ==
    /\ TypeOK /\ OncePerPurchase /\ OneHolder /\ ClearStays
    /\ CacheCommitted /\ AnswerTrue /\ MemorySound

-----------------------------------------------------------------------------
(* A remembered key is one of the memory, and the memory keeps its bound. *)
LEMMA RememberType ==
    ASSUME NEW m \in Seq(Keys), Len(m) <= MemorySize, NEW k \in Keys
    PROVE  /\ Remember(m, k) \in Seq(Keys) /\ Len(Remember(m, k)) <= MemorySize
           /\ \A i \in DOMAIN Remember(m, k) :
                Remember(m, k)[i] = k \/ \E j \in DOMAIN m : Remember(m, k)[i] = m[j]
<1>1. CASE \E i \in DOMAIN m : m[i] = k
  BY <1>1 DEF Remember
<1>2. CASE ~(\E i \in DOMAIN m : m[i] = k) /\ Len(m) < MemorySize
  BY <1>2, TradeAssumption DEF Remember
<1>3. CASE ~(\E i \in DOMAIN m : m[i] = k) /\ ~(Len(m) < MemorySize)
  <2> DEFINE n == Append(m, k)
  <2>1. n \in Seq(Keys) /\ Len(n) = Len(m) + 1 /\ Len(m) = MemorySize
    BY <1>3, TradeAssumption
  <2>2. Remember(m, k) = Tail(n)
    BY <1>3 DEF Remember
  <2>3. Tail(n) \in Seq(Keys) /\ Len(Tail(n)) = Len(m)
    BY <2>1, TradeAssumption
  <2>4. ASSUME NEW i \in 1..Len(m) PROVE Tail(n)[i] = n[i + 1] /\ (n[i + 1] = k \/ \E j \in DOMAIN m : n[i + 1] = m[j])
    <3>1. Tail(n)[i] = n[i + 1]
      BY <2>1, <2>3
    <3>2. CASE i = Len(m)
      BY <3>1, <3>2, <2>1
    <3>3. CASE i # Len(m)
      <4>1. i + 1 \in 1..Len(m)
        BY <3>3, <2>1
      <4>2. n[i + 1] = m[i + 1]
        BY <4>1
      <4> QED BY <3>1, <4>1, <4>2
    <3> QED BY <3>2, <3>3
  <2> HIDE DEF n
  <2> QED BY <2>1, <2>2, <2>3, <2>4
<1> QED BY <1>1, <1>2, <1>3

(* The keys of an offer are keys. *)
LEMMA PurchaseKeysType ==
    ASSUME NEW o \in Offers, NEW d \in Days
    PROVE  purchase_keys(o, d)[1] \in Keys /\ purchase_keys(o, d)[2] \in Keys
BY TradeAssumption DEF purchase_keys, SnapshotKey, ListingKey, Keys

LEMMA FreeType ==
    /\ Free \in [phase : {"free"}, offer : Offers, on : Days, at : Days]
    /\ Free.phase = "free"
<1>1. (CHOOSE o \in Offers : TRUE) \in Offers
  BY TradeAssumption
<1> QED BY <1>1, TradeAssumption DEF Free, Days

(* A request's type survives a new phase. *)
Reqs ==
    [Requests -> [phase : {"free", "sent", "recorded", "repeated", "failed"} \cup InTransaction,
                  offer : Offers, on : Days, at : Days]]

LEMMA PhaseType ==
    ASSUME req \in Reqs, NEW q \in Requests,
           NEW x \in {"free", "sent", "recorded", "repeated", "failed"} \cup InTransaction
    PROVE  [req EXCEPT ![q].phase = x] \in Reqs
BY DEF Reqs

-----------------------------------------------------------------------------
(* The initial state. *)
THEOREM InitHolds == Init => IInv
<1> SUFFICES ASSUME Init PROVE IInv
  OBVIOUS
<1>1. 0 \in Days /\ <<>> \in Seq(Keys) /\ <<>> \in Seq(Row)
  BY TradeAssumption DEF Days
<1>2. TypeOK
  BY <1>1, FreeType, TradeAssumption DEF Init, TypeOK
<1>3. OneHolder /\ ClearStays /\ AnswerTrue
  BY FreeType DEF Init, OneHolder, Holds, ClearStays, AnswerTrue
<1> QED BY <1>2, <1>3 DEF Init, IInv, OncePerPurchase, CacheCommitted, MemorySound

(* The types are kept by every step: one step for each action. *)
LEMMA TypeStep == TypeOK /\ [Next]_vars => TypeOK'
<1> SUFFICES ASSUME TypeOK, [Next]_vars PROVE TypeOK'
  OBVIOUS
<1>0. req \in Reqs /\ trades \in Seq(Row)
  BY DEF TypeOK, Reqs
<1> USE TradeAssumption, FreeType DEF TypeOK
<1>1. CASE NextDay
  BY <1>1 DEF NextDay, listenerVars, backendVars, Days
<1>2. CASE RestartListener
  BY <1>2 DEF RestartListener, backendVars
<1>3. CASE RestartBackend
  BY <1>3 DEF RestartBackend, listenerVars, InTransaction
<1>4. ASSUME NEW w \in Workers, OrderTaken(w) PROVE TypeOK'
  <2> DEFINE o == req[order[w]].offer
             keys == purchase_keys(o, req[order[w]].on)
  <2>1. order[w] \in Requests /\ o \in Offers /\ req[order[w]].on \in Days
    BY <1>4 DEF OrderTaken
  <2>2. keys[1] \in Keys /\ keys[2] \in Keys
    BY <2>1, PurchaseKeysType
  <2>3. bought' = Remember(bought, keys[1]) \/ bought' = Remember(Remember(bought, keys[1]), keys[2])
    BY <1>4 DEF OrderTaken
  <2>4. Remember(bought, keys[1]) \in Seq(Keys) /\ Len(Remember(bought, keys[1])) <= MemorySize
    BY <2>2, RememberType
  <2>5. bought' \in Seq(Keys) /\ Len(bought') <= MemorySize
    <3> HIDE DEF keys
    <3> QED BY <2>2, <2>3, <2>4, RememberType
  <2> QED BY <1>4, <2>1, <2>5 DEF OrderTaken, backendVars
<1>5. ASSUME NEW w \in Workers, OrderRefused(w) \/ OrderLost(w) PROVE TypeOK'
  BY <1>5, ZenonT(60) DEF OrderRefused, OrderLost, backendVars
<1>6. ASSUME NEW w \in Workers, NEW o \in Offers, NEW q \in Requests, Execute(w, o, q) PROVE TypeOK'
  <2>1. [phase |-> "sent", offer |-> o, on |-> day, at |-> 0]
          \in [phase : {"sent"}, offer : Offers, on : Days, at : Days]
    BY DEF Days
  <2> QED BY <1>6, <2>1 DEF Execute, backendVars
<1>7. ASSUME NEW q \in Requests, BeginTrade(q) \/ LockPurchase(q) \/ RollBack(q) \/ Forget(q) PROVE TypeOK'
  <2>1. CASE BeginTrade(q)
    BY <2>1 DEF BeginTrade, InTransaction, listenerVars, backendVars
  <2>2. CASE LockPurchase(q)
    BY <1>0, <2>2, PhaseType DEF Reqs, LockPurchase, InTransaction, listenerVars, backendVars
  <2>3. CASE RollBack(q)
    BY <1>0, <2>3, PhaseType DEF Reqs, RollBack, listenerVars, backendVars
  <2>4. CASE Forget(q)
    BY <2>4 DEF Forget, listenerVars, backendVars
  <2> QED BY <1>7, <2>1, <2>2, <2>3, <2>4
<1>8. ASSUME NEW q \in Requests, CheckSnapshot(q) PROVE TypeOK'
  <2>1. req[q].offer.good \in Goods
    OBVIOUS
  <2>2. req' = [req EXCEPT ![q].phase = "repeated"] \/ req' = [req EXCEPT ![q].phase = "clear"]
    BY <1>8 DEF CheckSnapshot, Commit
  <2>3. req' \in Reqs
    <3>1. [req EXCEPT ![q].phase = "repeated"] \in Reqs
      BY ONLY <1>0, PhaseType
    <3>2. [req EXCEPT ![q].phase = "clear"] \in Reqs
      BY ONLY <1>0, PhaseType DEF InTransaction
    <3> QED BY ONLY <2>2, <3>1, <3>2
  <2>4. items' \subseteq Goods /\ item_cache' \subseteq Goods
    BY <1>8, <2>1 DEF CheckSnapshot, Commit
  <2> QED BY <1>8, <2>3, <2>4 DEF CheckSnapshot, listenerVars, Reqs
<1>9. ASSUME NEW q \in Requests, InsertTrade(q) PROVE TypeOK'
  <2> DEFINE row == [good |-> req[q].offer.good, listing |-> req[q].offer.listing, day |-> req[q].at]
  <2>1. req[q].offer.good \in Goods /\ row \in Row
    BY DEF Row
  <2>2. trades' \in Seq(Row)
    <3> HIDE DEF row
    <3>1. trades' = trades \/ trades' = Append(trades, row)
      BY <1>9 DEF InsertTrade, row
    <3>2. Append(trades, row) \in Seq(Row)
      BY <1>0, <2>1, AppendProperties
    <3> QED BY <1>0, <3>1, <3>2
  <2>3. req' = [req EXCEPT ![q].phase = "repeated"] \/ req' = [req EXCEPT ![q].phase = "recorded"]
    BY <1>9 DEF InsertTrade, Commit
  <2>4. items' = items \cup {req[q].offer.good} /\ item_cache' = item_cache \cup {req[q].offer.good}
    BY <1>9 DEF InsertTrade, Commit
  <2>5. req' \in Reqs
    <3>1. [req EXCEPT ![q].phase = "repeated"] \in Reqs /\ [req EXCEPT ![q].phase = "recorded"] \in Reqs
      BY ONLY <1>0, PhaseType
    <3> QED BY ONLY <2>3, <3>1
  <2>6. items' \subseteq Goods /\ item_cache' \subseteq Goods
    BY <2>1, <2>4
  <2> HIDE DEF row
  <2> QED BY <1>9, <2>2, <2>5, <2>6 DEF InsertTrade, listenerVars, Reqs
<1>10. CASE UNCHANGED vars
  BY <1>10 DEF vars
<1> QED BY <1>1, <1>2, <1>3, <1>4, <1>5, <1>6, <1>7, <1>8, <1>9, <1>10 DEF Next, Trade

(* A step that leaves trades and memory alone, and takes no lock, check or answer, keeps the invariant. *)
LEMMA QuietStep ==
    ASSUME IInv, TypeOK', trades' = trades, bought' = bought, item_cache' \subseteq item_cache, items' = items,
           \A q \in Requests : req'[q] = req[q] \/ req'[q].phase \in {"free", "sent", "open", "failed"}
    PROVE  IInv'
<1>1. OneHolder'
  BY DEF IInv, OneHolder, Holds
<1>2. ClearStays'
  BY DEF IInv, ClearStays, snapshot_already_bought
<1>3. AnswerTrue'
  BY DEF IInv, AnswerTrue, Backed
<1> QED BY <1>1, <1>2, <1>3 DEF IInv, OncePerPurchase, Repeats, CacheCommitted, MemorySound

(* The answered purchase's keys are backed by rows, so the memory stays sound. *)
LEMMA TakenSound ==
    ASSUME IInv, TypeOK', NEW w \in Workers, OrderTaken(w)
    PROVE  MemorySound'
<1> DEFINE o == req[order[w]].offer
           keys == purchase_keys(o, req[order[w]].on)
           Sound(k) == \E t \in DOMAIN trades :
                         IF k.kind = "listing" THEN trades[t].listing = k.of
                         ELSE \/ trades[t].good = k.of
                              \/ [good |-> k.of, listing |-> trades[t].listing] \in Offers
<1>1. order[w] \in Requests /\ o \in Offers /\ req[order[w]].on \in Days /\ trades' = trades
  BY DEF OrderTaken, backendVars, IInv, TypeOK
<1>2. Backed(trades, o)
  BY <1>1 DEF OrderTaken, IInv, AnswerTrue
<1>3. PICK t \in DOMAIN trades :
        IF o.listing = NoListing THEN trades[t].good = o.good ELSE trades[t].listing = o.listing
  BY <1>2 DEF Backed
<1>4. o = [good |-> o.good, listing |-> o.listing]
  BY <1>1, TradeAssumption
<1>5. Sound(keys[1]) /\ Sound(keys[2])
  BY <1>1, <1>3, <1>4 DEF purchase_keys, ListingKey, SnapshotKey
<1>6. \A i \in DOMAIN bought : Sound(bought[i])
  BY DEF IInv, MemorySound
<1>7. keys[1] \in Keys /\ keys[2] \in Keys
  BY <1>1, PurchaseKeysType
<1>8. bought' = Remember(bought, keys[1]) \/ bought' = Remember(Remember(bought, keys[1]), keys[2])
  BY DEF OrderTaken
<1>9. bought \in Seq(Keys) /\ Len(bought) <= MemorySize
  BY DEF IInv, TypeOK
<1>10. \A i \in DOMAIN bought' : Sound(bought'[i])
  <2> HIDE DEF Sound, keys
  <2> DEFINE m == Remember(bought, keys[1])
  <2>1. m \in Seq(Keys) /\ Len(m) <= MemorySize /\ \A i \in DOMAIN m : Sound(m[i])
    BY <1>5, <1>6, <1>7, <1>9, RememberType
  <2>2. CASE bought' = m
    BY <2>1, <2>2
  <2>3. CASE bought' = Remember(m, keys[2])
    <3> HIDE DEF m
    <3> QED BY <1>5, <1>7, <2>1, <2>3, RememberType
  <2> QED BY <1>8, <2>2, <2>3
<1> QED BY <1>1, <1>10 DEF MemorySound

(* A transaction's insert: the lock kept the check true, and the unique index keeps listings apart. *)
LEMMA InsertStep ==
    ASSUME IInv, TypeOK', NEW q \in Requests, InsertTrade(q)
    PROVE  IInv'
<1> DEFINE o == req[q].offer
           row == [good |-> o.good, listing |-> o.listing, day |-> req[q].at]
<1>1. o \in Offers /\ o.good \in Goods /\ o.listing \in Listings \cup {NoListing} /\ req[q].at \in Days /\ row \in Row
  BY TradeAssumption DEF IInv, TypeOK, Row
<1>2. /\ trades \in Seq(Row) /\ req[q].phase = "clear"
      /\ items' = items \cup {o.good} /\ item_cache' = item_cache \cup {o.good} /\ bought' = bought
      /\ \A p \in Requests : p # q => req'[p] = req[p]
      /\ req'[q].phase \in {"repeated", "recorded"} /\ req'[q].offer = o
  BY DEF InsertTrade, Commit, IInv, TypeOK, listenerVars
<1>3. OneHolder'
  BY <1>2 DEF IInv, OneHolder, Holds
<1>4. CacheCommitted'
  BY <1>2 DEF IInv, CacheCommitted
<1>5. CASE Conflicts(row) /\ trades' = trades
  <2>1. Backed(trades, o)
    <3>1. PICK i \in DOMAIN trades :
            /\ trades[i].listing = row.listing
            /\ row.listing = NoListing => trades[i].good = row.good /\ trades[i].day = row.day
      BY <1>5 DEF Conflicts
    <3> QED BY <3>1 DEF Backed
  <2>2. AnswerTrue'
    BY <1>2, <1>5, <2>1 DEF IInv, AnswerTrue, Backed
  <2>3. ClearStays'
    BY <1>2, <1>5 DEF IInv, ClearStays, snapshot_already_bought
  <2> QED BY <1>2, <1>3, <1>4, <1>5, <2>2, <2>3 DEF IInv, OncePerPurchase, Repeats, MemorySound
<1>6. CASE ~Conflicts(row) /\ trades' = Append(trades, row)
  <2>1. /\ Len(trades') = Len(trades) + 1 /\ trades'[Len(trades) + 1] = row
        /\ \A i \in DOMAIN trades : i \in DOMAIN trades' /\ trades'[i] = trades[i]
        /\ DOMAIN trades' = 1..Len(trades) + 1 /\ DOMAIN trades = 1..Len(trades) /\ Len(trades) \in Nat
    <3> HIDE DEF row
    <3> QED BY <1>1, <1>2, <1>6
  <2>2. ASSUME NEW i \in DOMAIN trades PROVE ~Repeats(row, trades[i])
    <3>1. CASE o.listing # NoListing
      BY <1>6, <3>1 DEF Conflicts, Repeats
    <3>2. CASE o.listing = NoListing
      <4>1. ~snapshot_already_bought(o.good, req[q].at)
        BY <1>2, <3>2 DEF IInv, ClearStays
      <4> QED BY <3>2, <4>1 DEF snapshot_already_bought, Repeats
    <3> QED BY <3>1, <3>2
  <2>3. OncePerPurchase'
    <3> SUFFICES ASSUME NEW i \in DOMAIN trades', NEW j \in DOMAIN trades', i < j
                 PROVE  ~Repeats(trades'[j], trades'[i])
      BY DEF OncePerPurchase, Repeats
    <3>1. i \in DOMAIN trades
      BY <2>1
    <3>2. CASE j \in DOMAIN trades
      BY <2>1, <3>1, <3>2 DEF IInv, OncePerPurchase
    <3>3. CASE j = Len(trades) + 1
      <4> HIDE DEF row
      <4> QED BY <2>1, <2>2, <3>1, <3>3
    <3> QED BY <2>1, <3>2, <3>3
  <2>4. ClearStays'
    <3> SUFFICES ASSUME NEW p \in Requests, req'[p].phase = "clear", req'[p].offer.listing = NoListing,
                        NEW i \in DOMAIN trades', trades'[i].good = req'[p].offer.good, trades'[i].day = req'[p].at
                 PROVE  FALSE
      BY DEF ClearStays, snapshot_already_bought
    <3>1. p # q /\ req'[p] = req[p]
      BY <1>2
    <3>2. req[p].offer.good # o.good
      BY <1>2, <3>1 DEF IInv, OneHolder, Holds
    <3>3. CASE i \in DOMAIN trades
      BY <2>1, <3>1, <3>3 DEF IInv, ClearStays, snapshot_already_bought
    <3>4. CASE i = Len(trades) + 1
      BY <2>1, <3>1, <3>2, <3>4
    <3> QED BY <2>1, <3>3, <3>4
  <2>5. AnswerTrue'
    <3> SUFFICES ASSUME NEW p \in Requests, req'[p].phase \in {"recorded", "repeated"} PROVE Backed(trades', req'[p].offer)
      BY DEF AnswerTrue
    <3>1. CASE p = q
      <4>1. Len(trades) + 1 \in DOMAIN trades'
        BY <2>1
      <4> QED BY <1>2, <2>1, <3>1, <4>1 DEF Backed
    <3>2. CASE p # q
      BY <1>2, <2>1, <3>2 DEF IInv, AnswerTrue, Backed
    <3> QED BY <3>1, <3>2
  <2>6. MemorySound'
    BY <1>2, <2>1, ZenonT(60) DEF IInv, MemorySound
  <2> QED BY <1>3, <1>4, <2>3, <2>4, <2>5, <2>6 DEF IInv
<1>7. (Conflicts(row) /\ trades' = trades) \/ (~Conflicts(row) /\ trades' = Append(trades, row))
  BY DEF InsertTrade
<1> QED BY <1>5, <1>6, <1>7

(* Every step keeps the inductive invariant. *)
LEMMA InvStep == IInv /\ [Next]_vars => IInv'
<1> SUFFICES ASSUME IInv, [Next]_vars PROVE IInv'
  OBVIOUS
<1>0. TypeOK' /\ TypeOK
  BY TypeStep DEF IInv
<1>1. CASE NextDay
  BY <1>0, <1>1, QuietStep DEF NextDay, listenerVars, backendVars
<1>2. CASE RestartListener
  <2>1. bought' = <<>> /\ UNCHANGED <<req, trades, items, item_cache>>
    BY <1>2 DEF RestartListener, backendVars
  <2>2. MemorySound'
    BY <2>1 DEF MemorySound
  <2>3. OneHolder' /\ ClearStays' /\ AnswerTrue'
    BY <2>1 DEF IInv, OneHolder, Holds, ClearStays, snapshot_already_bought, AnswerTrue, Backed
  <2> QED BY <1>0, <2>1, <2>2, <2>3 DEF IInv, OncePerPurchase, Repeats, CacheCommitted
<1>3. CASE RestartBackend
  <2>1. \A q \in Requests : req'[q] = req[q] \/ req'[q].phase = "failed"
    BY <1>0, <1>3 DEF RestartBackend, TypeOK
  <2> QED BY <1>0, <1>3, <2>1, QuietStep DEF RestartBackend, listenerVars
<1>4. ASSUME NEW w \in Workers, OrderTaken(w) PROVE IInv'
  <2>1. /\ UNCHANGED <<trades, items, item_cache>>
        /\ \A q \in Requests : req'[q] = req[q] \/ req'[q].phase = "free"
    BY <1>0, <1>4, FreeType DEF OrderTaken, backendVars, TypeOK
  <2>2. OneHolder'
    BY <2>1 DEF IInv, OneHolder, Holds
  <2>3. ClearStays' /\ AnswerTrue'
    BY <2>1 DEF IInv, ClearStays, snapshot_already_bought, AnswerTrue, Backed
  <2>4. MemorySound'
    BY <1>0, <1>4, TakenSound
  <2> QED BY <1>0, <2>1, <2>2, <2>3, <2>4 DEF IInv, OncePerPurchase, Repeats, CacheCommitted
<1>5. ASSUME NEW w \in Workers, OrderRefused(w) \/ OrderLost(w) PROVE IInv'
  <2>1. \A q \in Requests : req'[q] = req[q] \/ req'[q].phase = "free"
    BY <1>0, <1>5, FreeType DEF OrderRefused, OrderLost, TypeOK
  <2> QED BY <1>0, <1>5, <2>1, QuietStep DEF OrderRefused, OrderLost, backendVars
<1>6. ASSUME NEW w \in Workers, NEW o \in Offers, NEW q \in Requests, Execute(w, o, q) PROVE IInv'
  <2>1. \A p \in Requests : req'[p] = req[p] \/ req'[p].phase = "sent"
    BY <1>0, <1>6 DEF Execute, TypeOK
  <2> QED BY <1>0, <1>6, <2>1, QuietStep DEF Execute, backendVars
<1>7. ASSUME NEW q \in Requests, BeginTrade(q) \/ RollBack(q) \/ Forget(q) PROVE IInv'
  <2>1. \A p \in Requests : req'[p] = req[p] \/ req'[p].phase \in {"open", "failed", "free"}
    BY <1>0, <1>7, FreeType DEF BeginTrade, RollBack, Forget, TypeOK
  <2> QED BY <1>0, <1>7, <2>1, QuietStep DEF BeginTrade, RollBack, Forget, listenerVars, backendVars
<1>8. ASSUME NEW q \in Requests, LockPurchase(q) PROVE IInv'
  <2>1. /\ UNCHANGED <<bought, trades, items, item_cache>>
        /\ \A p \in Requests : p # q => req'[p] = req[p]
        /\ req'[q].phase = "locked" /\ req'[q].offer = req[q].offer
    BY <1>0, <1>8 DEF LockPurchase, listenerVars, backendVars, TypeOK
  <2>2. OneHolder'
    BY <1>8, <2>1 DEF LockPurchase, IInv, OneHolder, Holds
  <2>3. ClearStays' /\ AnswerTrue'
    BY <2>1 DEF IInv, ClearStays, snapshot_already_bought, AnswerTrue, Backed
  <2> QED BY <1>0, <2>1, <2>2, <2>3 DEF IInv, OncePerPurchase, Repeats, CacheCommitted, MemorySound
<1>9. ASSUME NEW q \in Requests, CheckSnapshot(q) PROVE IInv'
  <2> DEFINE o == req[q].offer
  <2>1. /\ UNCHANGED <<bought, trades>> /\ req[q].phase = "locked"
        /\ \A p \in Requests : p # q => req'[p] = req[p]
        /\ req'[q].offer = o /\ req'[q].at = req[q].at
        /\ \/ /\ req'[q].phase = "repeated" /\ o.listing = NoListing
              /\ snapshot_already_bought(o.good, req[q].at)
              /\ items' = items \cup {o.good} /\ item_cache' = item_cache \cup {o.good}
           \/ /\ req'[q].phase = "clear" /\ UNCHANGED <<items, item_cache>>
              /\ o.listing = NoListing => ~snapshot_already_bought(o.good, req[q].at)
    BY <1>0, <1>9 DEF CheckSnapshot, Commit, listenerVars, TypeOK
  <2>2. OneHolder'
    BY <2>1 DEF IInv, OneHolder, Holds
  <2>3. ClearStays'
    BY <2>1 DEF IInv, ClearStays, snapshot_already_bought
  <2>4. AnswerTrue'
    BY <2>1 DEF IInv, AnswerTrue, Backed, snapshot_already_bought
  <2> QED BY <1>0, <2>1, <2>2, <2>3, <2>4 DEF IInv, OncePerPurchase, Repeats, CacheCommitted, MemorySound
<1>10. ASSUME NEW q \in Requests, InsertTrade(q) PROVE IInv'
  BY <1>0, <1>10, InsertStep
<1>11. CASE UNCHANGED vars
  BY <1>0, <1>11, QuietStep DEF vars
<1> QED BY <1>1, <1>2, <1>3, <1>4, <1>5, <1>6, <1>7, <1>8, <1>9, <1>10, <1>11 DEF Next, Trade

THEOREM Inductive == Spec => []IInv
BY InitHolds, InvStep, PTL DEF Spec

(* The types of the executor's memory, the POSTs and the tables (executor.py, ingest_simulated_trade). *)
THEOREM TypeCorrect == Spec => []TypeOK
BY Inductive, PTL DEF IInv

(* The once-only rule of purchases.py, as lock_purchase and the unique indexes enforce it. *)
THEOREM OncePerPurchaseHolds == Spec => []OncePerPurchase
BY Inductive, PTL DEF IInv

(* The executor's memory holds nothing that the backend did not record (execute, lines 93-98). *)
THEOREM MemorySoundHolds == Spec => []MemorySound
BY Inductive, PTL DEF IInv

(* item_cache holds committed items only (get_or_create_item_id and its callers). *)
THEOREM CacheCommittedHolds == Spec => []CacheCommitted
BY Inductive, PTL DEF IInv

-----------------------------------------------------------------------------
Prices == Nat
Rates == 0..(BasisPoints - 1)

-----------------------------------------------------------------------------
(* Rounding.                                                               *)

\* A quotient rounded up is at least the quotient, by less than one.
LEMMA CeilingBounds ==
    ASSUME NEW n \in Nat
    PROVE  /\ -((-n) \div BasisPoints) \in Int
           /\ BasisPoints * (-((-n) \div BasisPoints)) >= n
           /\ BasisPoints * (-((-n) \div BasisPoints)) < n + BasisPoints
  BY SMT DEF BasisPoints

\* A fee is a whole number of cents, never less than the exact fee and never a cent more (pnl.py:179-180).
THEOREM FeeRoundedUp ==
    ASSUME NEW price \in Prices, NEW bps \in Rates
    PROVE  /\ fee_rounded_up(price, bps) \in Int
           /\ BasisPoints * fee_rounded_up(price, bps) >= price * bps
           /\ BasisPoints * fee_rounded_up(price, bps) < price * bps + BasisPoints
  <1>1. price * bps \in Nat
    BY SMT DEF Prices, Rates, BasisPoints
  <1>2. -price * bps = -(price * bps)
    BY SMT DEF Prices, Rates, BasisPoints
  <1>3. fee_rounded_up(price, bps) = -((-(price * bps)) \div BasisPoints)
    BY <1>2 DEF fee_rounded_up
  <1> QED
    BY <1>1, <1>3, CeilingBounds

\* A fee is at least zero and at most the price it is charged on.
LEMMA FeeWithinPrice ==
    ASSUME NEW price \in Prices, NEW bps \in Rates
    PROVE  fee_rounded_up(price, bps) \in 0..price
  <1> DEFINE fee == fee_rounded_up(price, bps)
  <1>1. /\ fee \in Int /\ BasisPoints * fee >= price * bps /\ BasisPoints * fee < price * bps + BasisPoints
    BY FeeRoundedUp
  <1>2. /\ price \in Nat /\ bps \in Nat /\ bps <= BasisPoints /\ BasisPoints = 10000
    BY SMT DEF Prices, Rates, BasisPoints
  <1>3. /\ price * bps >= 0 /\ price * bps <= price * BasisPoints
    BY <1>2, SMT
  <1> HIDE DEF fee
  <1>4. fee >= 0
    BY <1>1, <1>2, <1>3, SMT
  <1>5. BasisPoints * fee < BasisPoints * price + BasisPoints
    BY <1>1, <1>2, <1>3, SMT
  <1>6. fee <= price
    BY <1>1, <1>2, <1>5, SMT
  <1> QED
    BY <1>1, <1>2, <1>4, <1>6 DEF fee

\* Rounding to the nearest integer is off by half a unit at most, and has the sign of what it rounds.
LEMMA HalfEven ==
    ASSUME NEW n \in Int, NEW d \in Nat \ {0}
    PROVE  /\ half_even(n, d) \in Int
           /\ 2 * d * half_even(n, d) <= 2 * n + d
           /\ 2 * d * half_even(n, d) >= 2 * n - d
           /\ n >= 0 => half_even(n, d) >= 0
  <1> DEFINE q == n \div d
             r == n % d
  <1>1. /\ q \in Int /\ r \in 0..(d - 1) /\ n = d * q + r
    BY SMT
  <1>2. n >= 0 => q >= 0
    BY SMT
  <1>3. half_even(n, d) = q \/ half_even(n, d) = q + 1
    BY DEF half_even
  <1>4. half_even(n, d) = q + 1 => 2 * r >= d
    <2>1. half_even(n, d) = IF 2 * r > d \/ (2 * r = d /\ q % 2 = 1) THEN q + 1 ELSE q
      BY DEF half_even
    <2> HIDE DEF q, r
    <2> QED
      BY <1>1, <2>1, SMT
  <1>5. half_even(n, d) = q => 2 * r <= d
    <2>1. half_even(n, d) = IF 2 * r > d \/ (2 * r = d /\ q % 2 = 1) THEN q + 1 ELSE q
      BY DEF half_even
    <2> HIDE DEF q, r
    <2> QED
      BY <1>1, <2>1, SMT
  <1> HIDE DEF q, r
  <1>6. d * (q + 1) = d * q + d
    BY <1>1, SMT
  <1> QED
    BY <1>1, <1>2, <1>3, <1>4, <1>5, <1>6, SMT

\* The two cases that baselines are rounded with
LEMMA HalfEvenOf ==
    ASSUME NEW n \in Int
    PROVE  /\ half_even(n, 100) \in Int /\ 200 * half_even(n, 100) >= 2 * n - 100
           /\ half_even(n, 10000) \in Int /\ 20000 * half_even(n, 10000) <= 2 * n + 10000
  <1>1. \A d \in Nat \ {0} : /\ half_even(n, d) \in Int
                            /\ 2 * d * half_even(n, d) <= 2 * n + d
                            /\ 2 * d * half_even(n, d) >= 2 * n - d
    BY HalfEven
  <1>2. ASSUME NEW d \in Nat \ {0}, d = 100
        PROVE  half_even(n, d) \in Int /\ 200 * half_even(n, d) >= 2 * n - 100
    BY <1>1, <1>2
  <1>3. ASSUME NEW d \in Nat \ {0}, d = 10000
        PROVE  half_even(n, d) \in Int /\ 20000 * half_even(n, d) <= 2 * n + 10000
    BY <1>1, <1>3
  <1> QED
    BY <1>2, <1>3

-----------------------------------------------------------------------------
(* Margins.                                                                *)

\* Raising a price raises it by at least as much as its fee, when the fee rate does not rise with it.
LEMMA ProceedsRise ==
    ASSUME NEW low \in Prices, NEW high \in Prices, low <= high,
           NEW low_bps \in Rates, NEW high_bps \in Rates, high_bps <= low_bps
    PROVE  low - fee_rounded_up(low, low_bps) <= high - fee_rounded_up(high, high_bps)
  <1> DEFINE fl == fee_rounded_up(low, low_bps)
             fh == fee_rounded_up(high, high_bps)
  <1>1. /\ fl \in Int /\ BasisPoints * fl >= low * low_bps
        /\ fh \in Int /\ BasisPoints * fh < high * high_bps + BasisPoints
    BY FeeRoundedUp
  <1>2. /\ low \in Nat /\ high \in Nat /\ low_bps \in Nat /\ high_bps \in Nat
        /\ high_bps <= BasisPoints /\ BasisPoints = 10000
    BY SMT DEF Prices, Rates, BasisPoints
  <1> HIDE DEF fl, fh
  <1>3. high * high_bps = low * high_bps + (high - low) * high_bps
    BY <1>2, SMT
  <1>4. low * high_bps <= low * low_bps
    BY <1>2, SMT
  <1>5. (high - low) * high_bps <= (high - low) * BasisPoints
    BY <1>2, SMT
  <1>6. BasisPoints * fh < BasisPoints * fl + (high - low) * BasisPoints + BasisPoints
    BY <1>1, <1>2, <1>3, <1>4, <1>5, SMT
  <1>7. fh < fl + (high - low) + 1
    BY <1>1, <1>2, <1>6, SMT
  <1> QED
    BY <1>1, <1>2, <1>7 DEF fl, fh

\* The rate that Skinport charges: 8% below 1000 dollars and 6% from there.
LEMMA SkinportRate ==
    ASSUME NEW price \in Prices
    PROVE  seller_fee_bps(price, SKINPORT_FEES) = IF price >= 100000 THEN 600 ELSE 800
  <1> DEFINE cheap == [min |-> 0, bps |-> 800]
             dear == [min |-> 100000, bps |-> 600]
             Reached(tier) == /\ price >= tier.min
                              /\ \A other \in {cheap, dear} : price >= other.min => other.min <= tier.min
             chosen == CHOOSE tier \in {cheap, dear} : Reached(tier)
  <1>1. SKINPORT_FEES.tiers = {cheap, dear}
    BY DEF SKINPORT_FEES
  <1>2. seller_fee_bps(price, SKINPORT_FEES) = chosen.bps
    BY <1>1 DEF seller_fee_bps
  <1>3. CASE price >= 100000
    <2>1. Reached(dear) /\ ~ Reached(cheap)
      BY <1>3 DEF Prices
    <2>2. chosen = dear
      BY <2>1
    <2> QED
      BY <1>2, <1>3, <2>2
  <1>4. CASE ~ price >= 100000
    <2>1. Reached(cheap) /\ ~ Reached(dear)
      BY <1>4, SMT DEF Prices
    <2>2. chosen = cheap
      BY <2>1
    <2>3. cheap.bps = 800
      OBVIOUS
    <2>4. seller_fee_bps(price, SKINPORT_FEES) = 800
      <3> HIDE DEF chosen, cheap
      <3> QED
        BY <1>2, <2>2, <2>3
    <2> QED
      BY <1>4, <2>4
  <1> QED
    BY <1>3, <1>4

\* On Skinport a higher resale price never brings in less, the step to the lower rate included: the tiers leave
\* no price just under 1000 dollars that is better than one above it (pnl.py:111-121, 171-176).
THEOREM SkinportProceedsRise ==
    ASSUME NEW low \in Prices, NEW high \in Prices, low <= high
    PROVE  low - seller_fee(low, SKINPORT_FEES, Missing) <= high - seller_fee(high, SKINPORT_FEES, Missing)
  <1> DEFINE Rate(price) == IF price >= 100000 THEN 600 ELSE 800
  <1>1. \A price \in Prices : seller_fee(price, SKINPORT_FEES, Missing) = fee_rounded_up(price, Rate(price))
    BY SkinportRate DEF seller_fee
  <1>2. Rate(low) \in Rates /\ Rate(high) \in Rates /\ Rate(high) <= Rate(low)
    BY SMT DEF Rates, BasisPoints, Prices
  <1> HIDE DEF Rate
  <1> QED
    BY <1>1, <1>2, ProceedsRise

\* The margin of a trade is at most what exact fees would leave: with a margin of zero or more, the resale price less
\* its exact fee pays for the purchase with its exact fee (pnl.py:13-14, 183-207).
THEOREM MarginNeverOverstated ==
    ASSUME NEW buy \in Prices, NEW resale \in Prices, NEW buy_fees, NEW sell_fees, NEW item_bps \in Rates,
           buy_fees.buyer_fee_bps \in Rates,
           NEW margin, margin = net_resale_margin(buy, resale, buy_fees, sell_fees, item_bps)
    PROVE  BasisPoints * margin <= resale * (BasisPoints - item_bps) - buy * (BasisPoints + buy_fees.buyer_fee_bps)
  <1> DEFINE sell_fee == fee_rounded_up(resale, item_bps)
             buy_bps == buy_fees.buyer_fee_bps
             cost_fee == fee_rounded_up(buy, buy_bps)
  <1>1. item_bps # Missing
    BY SMT DEF Rates, Missing
  <1>2. margin = (resale - sell_fee) - (buy + cost_fee)
    BY <1>1 DEF net_resale_margin, seller_fee, buyer_fee
  <1>3. sell_fee \in Int /\ BasisPoints * sell_fee >= resale * item_bps
    BY FeeRoundedUp
  <1>4. cost_fee \in Int /\ BasisPoints * cost_fee >= buy * buy_bps
    BY FeeRoundedUp, SMTT(30)
  <1>a. \A bps \in Rates : bps \in Nat
    BY SMTT(30) DEF Rates, BasisPoints
  <1>5. /\ buy \in Nat /\ resale \in Nat /\ item_bps \in Nat /\ buy_bps \in Nat /\ BasisPoints \in Nat
    BY <1>a DEF Prices, BasisPoints
  <1> HIDE DEF sell_fee, buy_bps, cost_fee
  <1>6. BasisPoints * margin = BasisPoints * resale - BasisPoints * sell_fee - BasisPoints * buy - BasisPoints * cost_fee
    BY <1>2, <1>3, <1>4, <1>5, SMT
  <1>7. /\ resale * (BasisPoints - item_bps) = BasisPoints * resale - resale * item_bps
        /\ buy * (BasisPoints + buy_bps) = BasisPoints * buy + buy * buy_bps
    BY <1>5, SMT
  <1>8. /\ BasisPoints * margin \in Int /\ resale * item_bps \in Int /\ buy * buy_bps \in Int
        /\ BasisPoints * sell_fee \in Int /\ BasisPoints * cost_fee \in Int
        /\ BasisPoints * resale \in Int /\ BasisPoints * buy \in Int
    BY <1>2, <1>3, <1>4, <1>5, SMT
  <1>9. BasisPoints * margin <= resale * (BasisPoints - item_bps) - buy * (BasisPoints + buy_bps)
    BY <1>3, <1>4, <1>6, <1>7, <1>8, SMT
  <1> QED
    BY <1>9 DEF buy_bps

-----------------------------------------------------------------------------
(* DMarket's fee schedule.                                                 *)

\* A set of positions that is not empty has a last one.
LEMMA LastIndexIn ==
    ASSUME NEW n \in Nat, NEW S \in SUBSET (1..n), S # {}
    PROVE  LastIndex(S) \in S
  <1> DEFINE from(i) == i..n
             T == {from(i) : i \in S}
  <1>1. \A i \in S : from(i) \in SUBSET (1..n)
    BY SMT
  <1>2. T \subseteq FiniteSubsetsOf(1..n) /\ T # {}
    <2>1. FiniteSubsetsOf(1..n) = SUBSET (1..n)
      <3>1. IsFiniteSet(1..n)
        BY FS_Interval
      <3> HIDE DEF T, from
      <3> QED
        BY <3>1, FS_FiniteSubsetsOfFinite
    <2>2. T \subseteq SUBSET (1..n)
      <3> HIDE DEF from
      <3> QED
        BY <1>1
    <2>3. T # {}
      OBVIOUS
    <2> QED
      BY <2>1, <2>2, <2>3
  <1>3. PICK x \in T : \A y \in T : ~(<<y, x>> \in StrictSubsetOrdering(1..n))
    <2>1. IsWellFoundedOn(StrictSubsetOrdering(1..n), FiniteSubsetsOf(1..n))
      BY FS_StrictSubsetOrderingWellFounded
    <2> HIDE DEF T
    <2> QED
      BY <1>2, <2>1, WFMin
  <1>4. PICK i \in S : x = from(i)
    OBVIOUS
  <1>5. ASSUME NEW j \in S, j > i
        PROVE  FALSE
    <2>1. from(j) \subseteq from(i) /\ i \in from(i) /\ i \notin from(j)
      BY <1>5, SMT
    <2>2. <<from(j), from(i)>> \in StrictSubsetOrdering(1..n)
      BY <2>1, <1>1 DEF StrictSubsetOrdering
    <2> QED
      BY <1>3, <1>4, <2>2
  <1>6. \A j \in S : j <= i
    BY <1>5, SMT
  <1> HIDE DEF T, from
  <1> QED
    BY <1>6 DEF LastIndex

Fractions == [num : Int, den : Int]
Entries == [title : STRING, fraction : Fractions, cap : Int]
FeePage == [default : Fractions, entries : Seq(Entries)]

\* A fraction is no fee, or one of at most 100%: 99.995% and more are rounded up to it.
LEMMA FractionIsAFee ==
    ASSUME NEW f \in Fractions, fraction_to_bps(f) # Missing
    PROVE  fraction_to_bps(f) \in 0..BasisPoints
  <1> DEFINE bps == half_even(BasisPoints * f.num, f.den)
             n == BasisPoints * f.num
             d == f.den
  <1>1. f.num \in Int /\ d \in Int /\ 0 <= f.num /\ f.num < d /\ fraction_to_bps(f) = bps
    BY DEF fraction_to_bps, Fractions
  <1>2. n \in Int /\ n >= 0 /\ d \in Nat \ {0} /\ n <= BasisPoints * d - BasisPoints
    BY <1>1, SMT DEF BasisPoints
  <1>3. bps \in Int /\ 2 * d * bps <= 2 * n + d /\ bps >= 0
    <2> HIDE DEF n, d
    <2> QED
      BY <1>2, HalfEven DEF n, d
  <1> HIDE DEF bps, n, d
  <1>4. 2 * d * bps < 2 * (BasisPoints + 1) * d
    BY <1>2, <1>3, SMT DEF BasisPoints
  <1>5. bps < BasisPoints + 1
    <2>1. SUFFICES ASSUME bps >= BasisPoints + 1 PROVE FALSE
      BY <1>3, SMT DEF BasisPoints
    <2>2. d * bps >= d * (BasisPoints + 1)
      BY <2>1, <1>2, <1>3, SMT DEF BasisPoints
    <2> QED
      BY <2>2, <1>2, <1>3, <1>4, SMT DEF BasisPoints
  <1> QED
    BY <1>1, <1>3, <1>5, SMTT(30) DEF BasisPoints

\* What is read from one page: fees of at most 100%, one for each title that has a usable entry.
LEMMA PageFees ==
    ASSUME NEW page \in FeePage
    PROVE  LET parsed == parse_fee_page(page)
           IN  /\ parsed.default # Missing => parsed.default \in 0..BasisPoints
               /\ \A title \in DOMAIN parsed.reduced : parsed.reduced[title].fee_bps \in 0..BasisPoints
  <1> DEFINE usable == {i \in DOMAIN page.entries : fraction_to_bps(page.entries[i].fraction) # Missing}
             of(title) == {i \in usable : page.entries[i].title = title}
             named == {page.entries[i].title : i \in usable}
  <1>1. parse_fee_page(page) = [default |-> fraction_to_bps(page.default),
                                reduced |-> [title \in named |->
                                    [fee_bps |-> fraction_to_bps(page.entries[LastIndex(of(title))].fraction),
                                     cap |-> page.entries[LastIndex(of(title))].cap]]]
    BY DEF parse_fee_page
  <1>2. ASSUME NEW title \in named
        PROVE  fraction_to_bps(page.entries[LastIndex(of(title))].fraction) \in 0..BasisPoints
    <2>1. Len(page.entries) \in Nat /\ of(title) \in SUBSET (1..Len(page.entries)) /\ of(title) # {}
      <3>1. page.entries \in Seq(Entries)
        BY DEF FeePage
      <3>2. Len(page.entries) \in Nat /\ DOMAIN page.entries = 1..Len(page.entries)
        BY <3>1
      <3> QED
        BY <1>2, <3>2
    <2>2. LastIndex(of(title)) \in of(title)
      <3> HIDE DEF of
      <3> QED
        BY <2>1, LastIndexIn
    <2>3. page.entries[LastIndex(of(title))].fraction \in Fractions
      <3> DEFINE last == LastIndex(of(title))
      <3>1. page.entries \in Seq(Entries)
        BY DEF FeePage
      <3>2. last \in 1..Len(page.entries)
        BY <2>1, <2>2
      <3> HIDE DEF last
      <3>3. page.entries[last] \in Entries
        BY <3>1, <3>2
      <3> QED
        BY <3>3 DEF Entries, last
    <2> QED
      BY <2>2, <2>3, FractionIsAFee
  <1>3. page.default \in Fractions
    BY DEF FeePage
  <1> HIDE DEF usable, of, named
  <1> QED
    BY <1>1, <1>2, <1>3, FractionIsAFee

\* Whatever DMarket answers, a baseline gets a fee of at most 100%, of an entry or a default that it named, or the worst
\* it documents (dmarket.py:394-562, build_baselines.py:223-229).
THEOREM ScheduleFeeIsAFee ==
    ASSUME NEW pages \in Seq(FeePage), NEW b, b.latest_price \in Int, "seller_fee_bps" \in DOMAIN b, NEW title
    PROVE  with_dmarket_fees(b, title, fee_schedule(pages)).seller_fee_bps \in 0..BasisPoints
  <1> DEFINE parsed(i) == parse_fee_page(pages[i])
             naming == {i \in DOMAIN pages : title \in DOMAIN parsed(i).reduced}
             telling == {i \in DOMAIN pages : parsed(i).default # Missing}
             schedule == fee_schedule(pages)
             worst == seller_fee_bps(0, DMARKET_FEES)
  <1>1. /\ Len(pages) \in Nat /\ DOMAIN pages = 1..Len(pages)
        /\ \A i \in DOMAIN pages : pages[i] \in FeePage
    OBVIOUS
  <1>2. \A i \in DOMAIN pages :
            /\ parsed(i).default # Missing => parsed(i).default \in 0..BasisPoints
            /\ \A t \in DOMAIN parsed(i).reduced : parsed(i).reduced[t].fee_bps \in 0..BasisPoints
    BY <1>1, PageFees
  <1>3. schedule.default \in 0..BasisPoints
    <2>1. schedule.default = IF telling = {} THEN worst ELSE parsed(LastIndex(telling)).default
      BY DEF fee_schedule
    <2>2. worst = 1000
      <3> DEFINE tier == [min |-> 0, bps |-> 1000]
      <3>1. worst = (CHOOSE t \in {tier} : 0 >= t.min /\ \A other \in {tier} : 0 >= other.min => other.min <= t.min).bps
        <4>1. DMARKET_FEES.tiers = {tier}
          BY DEF DMARKET_FEES
        <4> HIDE DEF tier
        <4> QED
          BY <4>1, Zenon DEF seller_fee_bps
      <3>2. 0 >= tier.min /\ \A other \in {tier} : 0 >= other.min => other.min <= tier.min
        BY SMT
      <3>3. \A t \in {tier} : t = tier
        OBVIOUS
      <3> HIDE DEF worst
      <3>4. worst = tier.bps
        <4> HIDE DEF tier
        <4> QED
          BY <3>1, <3>2, <3>3
      <3> QED
        BY <3>4
    <2>3. telling # {} => LastIndex(telling) \in telling
      BY <1>1, LastIndexIn
    <2>4. CASE telling = {}
      <3> HIDE DEF schedule, telling, worst
      <3> QED
        BY <2>1, <2>2, <2>4, SMT DEF BasisPoints
    <2>5. CASE telling # {}
      <3>1. LastIndex(telling) \in DOMAIN pages /\ parsed(LastIndex(telling)).default # Missing
        BY <2>3, <2>5
      <3> HIDE DEF schedule, telling, parsed
      <3> QED
        BY <1>2, <2>1, <2>5, <3>1
    <2> QED
      BY <2>4, <2>5
  <1>4. ASSUME title \in DOMAIN schedule.reduced
        PROVE  schedule.reduced[title].fee_bps \in 0..BasisPoints
    <2>1. naming # {}
      BY <1>4 DEF fee_schedule
    <2>2. LastIndex(naming) \in naming
      BY <1>1, <2>1, LastIndexIn
    <2>3. schedule.reduced[title] = parsed(LastIndex(naming)).reduced[title]
      BY <1>4 DEF fee_schedule
    <2> HIDE DEF schedule, parsed
    <2> QED
      BY <1>2, <2>2, <2>3
  <1>5. with_dmarket_fees(b, title, schedule).seller_fee_bps = fee_bps(schedule, title, b.latest_price)
    BY DEF with_dmarket_fees
  <1> HIDE DEF schedule
  <1> QED
    BY <1>3, <1>4, <1>5 DEF fee_bps, schedule

-----------------------------------------------------------------------------
(* Baselines and rules.                                                    *)

\* A window's volume is the number of its sales.
LEMMA VolumeCounts ==
    ASSUME NEW sold, IsFiniteSet(sold)
    PROVE  from_prices(sold).volume = Cardinality(sold)
  <1>1. CASE sold = {}
    BY <1>1, FS_EmptySet DEF from_prices, NoSales
  <1>2. CASE sold # {}
    BY <1>2 DEF from_prices
  <1> QED
    BY <1>1, <1>2

\* A longer window has every sale of a shorter one.
LEMMA LongerWindow ==
    ASSUME NEW sold, IsFiniteSet(sold), \A s \in sold : s.at \in Int, NEW now \in Int,
           NEW short \in Nat, NEW long \in Nat, short <= long
    PROVE  /\ in_window(sold, now, short) \subseteq in_window(sold, now, long)
           /\ from_prices(in_window(sold, now, short)).volume <= from_prices(in_window(sold, now, long)).volume
  <1>1. in_window(sold, now, short) \subseteq in_window(sold, now, long)
    BY SMT DEF in_window
  <1>2. IsFiniteSet(in_window(sold, now, long)) /\ IsFiniteSet(in_window(sold, now, short))
    <2>1. in_window(sold, now, long) \subseteq sold /\ in_window(sold, now, short) \subseteq sold
      BY DEF in_window
    <2> QED
      BY <2>1, FS_Subset
  <1>3. Cardinality(in_window(sold, now, short)) <= Cardinality(in_window(sold, now, long))
    BY <1>1, <1>2, FS_Subset
  <1> QED
    BY <1>1, <1>2, <1>3, VolumeCounts

\* The four windows of an item's own sales hold one another, so an item with enough sales for a baseline has a quarter to
\* compare its month with (baselines.py:150-162, 248-254).
THEOREM WindowsNested ==
    ASSUME NEW sold, IsFiniteSet(sold), \A s \in sold : s.at \in Int, NEW now \in Int, NEW length \in Nat,
           NEW h, h = from_sales(sold, now, length)
    PROVE  h.h24.volume <= h.h7.volume /\ h.h7.volume <= h.h30.volume /\ h.h30.volume <= h.h90.volume
  <1>1. /\ h.h24 = from_prices(in_window(sold, now, length)) /\ h.h7 = from_prices(in_window(sold, now, 7 * length))
        /\ h.h30 = from_prices(in_window(sold, now, 30 * length)) /\ h.h90 = from_prices(in_window(sold, now, 90 * length))
    BY DEF from_sales
  <1>2. /\ length \in Nat /\ 7 * length \in Nat /\ 30 * length \in Nat /\ 90 * length \in Nat
        /\ length <= 7 * length /\ 7 * length <= 30 * length /\ 30 * length <= 90 * length
    BY SMT
  <1>3. from_prices(in_window(sold, now, length)).volume <= from_prices(in_window(sold, now, 7 * length)).volume
    BY <1>2, LongerWindow
  <1>4. from_prices(in_window(sold, now, 7 * length)).volume <= from_prices(in_window(sold, now, 30 * length)).volume
    BY <1>2, LongerWindow
  <1>5. from_prices(in_window(sold, now, 30 * length)).volume <= from_prices(in_window(sold, now, 90 * length)).volume
    BY <1>2, LongerWindow
  <1> QED
    BY <1>1, <1>3, <1>4, <1>5

\* A baseline that is built can be divided by: its average and its volatility are at least one cent, so the Z score
\* and the macro rule have what they need (baselines.py:251, 263-275, zscore.py:44-49).
THEOREM BaselineUsable ==
    ASSUME NEW h, NEW daily, NEW item_bps, has_baseline(h), h.h30.median \in Int,
           Volatility(h, daily) \in Int, SupportFloor(h, daily) \in Int,
           NEW b, b = build_item_baseline(h, daily, item_bps)
    PROVE  /\ b.rolling_30d_avg >= 1 /\ b.volatility >= 1 /\ b.support_floor >= 0
           /\ 100 * b.volatility + 50 >= b.rolling_30d_avg
  <1> DEFINE m == h.h30.median
             one == half_even(m, 100)
  <1>1. m \in Nat /\ m >= 1
    BY SMT DEF has_baseline, has_median
  <1>2. one \in Int /\ 200 * one >= 2 * m - 100
    <2>0. m \in Int
      BY <1>1, SMT
    <2> HIDE DEF m
    <2>1. half_even(m, 100) \in Int
      BY <2>0, HalfEvenOf
    <2>2. 200 * half_even(m, 100) >= 2 * m - 100
      BY <2>0, HalfEvenOf
    <2> QED
      BY <2>0, <2>1, <2>2, SMT
  <1>3. minimum_volatility(h) = MaxOf(one, 1)
    BY DEF minimum_volatility
  <1>4. /\ b.rolling_30d_avg = m
        /\ b.volatility = MaxOf(Volatility(h, daily), MaxOf(one, 1))
        /\ b.support_floor = MaxOf(SupportFloor(h, daily), 0)
    BY <1>3 DEF build_item_baseline
  <1> HIDE DEF m, one
  <1>5. /\ b.volatility \in Int /\ b.volatility >= 1 /\ b.volatility >= one
    BY <1>2, <1>4, SMT DEF MaxOf
  <1>6. b.support_floor >= 0
    BY <1>4, SMT DEF MaxOf
  <1> QED
    BY <1>1, <1>2, <1>4, <1>5, <1>6, SMT

\* Estimated from the spread of the sales, the support floor is under the average that the price is compared with.
THEOREM SpreadFloorBelowAverage ==
    ASSUME NEW h, NEW daily, NEW item_bps, has_baseline(h), h.h30.median \in Int,
           ~ Len(daily) >= MIN_DAILY_POINTS,
           Volatility(h, daily) \in Int,
           NEW b, b = build_item_baseline(h, daily, item_bps)
    PROVE  b.support_floor < b.rolling_30d_avg
  <1> DEFINE m == h.h30.median
             v == MaxOf(Volatility(h, daily), minimum_volatility(h))
             floor == half_even(10000 * m - 12816 * v, 10000)
  <1>1. m \in Nat /\ m >= 1
    BY SMT DEF has_baseline, has_median
  <1>2. half_even(m, 100) \in Int
    <2>1. m \in Int
      BY <1>1, SMT
    <2> HIDE DEF m
    <2> QED
      BY <2>1, HalfEvenOf
  <1>3. v \in Int /\ v >= 1
    BY <1>2, SMT DEF MaxOf, minimum_volatility
  <1>4. b.rolling_30d_avg = m /\ b.support_floor = MaxOf(floor, 0)
    BY DEF build_item_baseline, SupportFloor
  <1> HIDE DEF m, v
  <1>5. 10000 * m - 12816 * v \in Int
    BY <1>1, <1>3, SMT
  <1>6. floor \in Int /\ 20000 * floor <= 2 * (10000 * m - 12816 * v) + 10000
    <2> DEFINE below == 10000 * m - 12816 * v
    <2>1. below \in Int /\ floor = half_even(below, 10000)
      BY <1>5
    <2> HIDE DEF below, floor
    <2>2. half_even(below, 10000) \in Int /\ 20000 * half_even(below, 10000) <= 2 * below + 10000
      BY <2>1, HalfEvenOf
    <2>3. floor \in Int /\ 20000 * floor <= 2 * below + 10000
      BY <2>1, <2>2
    <2> QED
      BY <2>3 DEF below
  <1> HIDE DEF floor
  <1>7. floor < m
    BY <1>1, <1>3, <1>6, SMT
  <1> QED
    BY <1>1, <1>4, <1>6, <1>7, SMT DEF MaxOf

\* "A macro score compares the price with the baseline alone, which is the DRE's own test" (zscore.py:84-85): a price
\* whose macro score is below -2 is always approved by one of the DRE's first two rules, whatever its stickers.
THEOREM MacroScoreIsTheDres ==
    ASSUME NEW price \in Int, NEW stickers, NEW b,
           b.rolling_30d_avg \in Int, b.volatility \in Int, b.volatility > 0, b.support_floor \in Int,
           macro_z_below(price, b, 2)
    PROVE  dre_approval_reason(price, stickers, b) \in {"support_floor", "macro_sigma"}
  <1> DEFINE avg == b.rolling_30d_avg
             vol == b.volatility
  <1>1. 100 * (price - avg) < -2 * MaxOf(100 * vol, avg)
    BY DEF macro_z_below
  <1>2. MaxOf(100 * vol, avg) \in Int /\ MaxOf(100 * vol, avg) >= 100 * vol
    BY SMT DEF MaxOf
  <1>3. avg - price >= 2 * vol
    BY <1>1, <1>2, SMT
  <1> QED
    BY <1>3 DEF dre_approval_reason

-----------------------------------------------------------------------------
(* The backend's price to buy at.                                          *)

LEMMA SignOfProduct ==
    ASSUME NEW d \in Nat \ {0}, NEW x \in Int
    PROVE  /\ d * x <= 0 => x <= 0
           /\ d * x >= 0 => x >= 0
  BY SMT

\* "up to 30% discount / 0.70 factor" (queries.py:246-247): however prices decline, the snipe threshold is between 70%
\* and 85% of the average, up to half a cent of rounding.
THEOREM SnipeCorridor ==
    ASSUME NEW average \in Nat, NEW decline, decline.num \in Nat, decline.den \in Nat \ {0}
    PROVE  /\ compute_snipe_threshold(average, decline) \in Int
           /\ 100 * compute_snipe_threshold(average, decline) <= 85 * average + 50
           /\ 100 * compute_snipe_threshold(average, decline) >= 70 * average - 50
  <1> DEFINE num == decline.num
             den == decline.den
             t == compute_snipe_threshold(average, decline)
  <1>1. CASE 100 * num >= 15 * den
    <2>1. t = half_even(70 * average, 100)
      BY <1>1 DEF compute_snipe_threshold
    <2>2. \A d \in Nat \ {0} : /\ half_even(70 * average, d) \in Int
                               /\ 2 * d * half_even(70 * average, d) <= 2 * (70 * average) + d
                               /\ 2 * d * half_even(70 * average, d) >= 2 * (70 * average) - d
      <3>1. 70 * average \in Int
        OBVIOUS
      <3> QED
        BY <3>1, HalfEven
    <2>3. ASSUME NEW d \in Nat \ {0}, d = 100
          PROVE  t \in Int /\ 200 * t <= 140 * average + 100 /\ 200 * t >= 140 * average - 100
      <3>1. t = half_even(70 * average, d)
        BY <2>1, <2>3
      <3> HIDE DEF t
      <3>2. t \in Int /\ 2 * d * t <= 2 * (70 * average) + d /\ 2 * d * t >= 2 * (70 * average) - d
        BY <2>2, <3>1
      <3> QED
        BY <2>3, <3>2, SMT
    <2> HIDE DEF t
    <2>4. t \in Int /\ 200 * t <= 140 * average + 100 /\ 200 * t >= 140 * average - 100
      BY <2>3
    <2>5. t \in Int /\ 100 * t <= 85 * average + 50 /\ 100 * t >= 70 * average - 50
      BY <2>4, SMT
    <2> QED
      BY <2>5 DEF t
  <1>2. CASE ~(100 * num >= 15 * den)
    <2> DEFINE n == average * (85 * den - 100 * num)
               d == 100 * den
    <2>1. t = half_even(n, d)
      BY <1>2 DEF compute_snipe_threshold
    <2>2. n \in Int /\ d \in Nat \ {0}
      BY SMT
    <2> HIDE DEF n, d, t
    <2>3. t \in Int /\ 2 * d * t <= 2 * n + d /\ 2 * d * t >= 2 * n - d
      BY <2>1, <2>2, HalfEven
    <2> HIDE DEF num, den
    <2>4. num \in Nat /\ den \in Nat \ {0} /\ 100 * num < 15 * den
      BY <1>2, SMT DEF num, den
    <2>5. /\ average * num \in Nat /\ average * den \in Nat
          /\ 100 * (average * num) <= 15 * (average * den)
      BY <2>4, SMT
    <2>6. n = 85 * (average * den) - 100 * (average * num)
      BY <2>4, SMT DEF n
    <2>7. d * t = 100 * (den * t)
      BY <2>3, <2>4, SMT DEF d
    <2>8. /\ den * t \in Int
          /\ 200 * (den * t) <= 170 * (average * den) + 100 * den
          /\ 200 * (den * t) >= 140 * (average * den) - 100 * den
      <3>1. den * t \in Int
        BY <2>3, <2>4, SMT
      <3>2. 2 * d * t = 200 * (den * t)
        BY <2>3, <2>4, SMT DEF d
      <3> QED
        BY <2>3, <2>4, <2>5, <2>6, <3>1, <3>2, SMT DEF d
    <2>9. /\ den * (200 * t - 170 * average - 100) = 200 * (den * t) - 170 * (average * den) - 100 * den
          /\ den * (200 * t - 140 * average + 100) = 200 * (den * t) - 140 * (average * den) + 100 * den
      BY <2>3, <2>4, SMT
    <2>10. 200 * t - 170 * average - 100 \in Int /\ 200 * t - 140 * average + 100 \in Int
      BY <2>3, SMT
    <2>11. 200 * t - 170 * average - 100 <= 0 /\ 200 * t - 140 * average + 100 >= 0
      <3>1. den * (200 * t - 170 * average - 100) <= 0 /\ den * (200 * t - 140 * average + 100) >= 0
        BY <2>4, <2>5, <2>8, <2>9, SMT
      <3> QED
        BY <3>1, <2>4, <2>10, SignOfProduct
    <2>12. t \in Int /\ 100 * t <= 85 * average + 50 /\ 100 * t >= 70 * average - 50
      BY <2>3, <2>11, SMT
    <2> QED
      BY <2>12 DEF t
  <1> QED
    BY <1>1, <1>2
=============================================================================
