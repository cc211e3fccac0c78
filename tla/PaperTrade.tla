----------------------------- MODULE PaperTrade -----------------------------
(***************************************************************************)
(* Paper trades: each approved offer is bought once.                       *)
(*                                                                         *)
(* The listener's anomaly workers share the executor's memory of purchases *)
(* (apps/listener/executor.py); each order is a POST that the backend      *)
(* turns into a transaction (ingest_simulated_trade in apps/backend).  A   *)
(* POST can time out at the client while the backend still commits it, the *)
(* listener can restart with its memory empty, a transaction can fail, the *)
(* backend can restart, and the UTC day can change at any point.           *)
(*                                                                         *)
(* An item at a price on a venue is one "good".  An offer is a good and    *)
(* the listing that offers it; a REST snapshot names no listing.           *)
(***************************************************************************)
EXTENDS Naturals, Sequences

CONSTANTS
    Workers,     \* ANOMALY_WORKERS
    Requests,    \* POSTs that can be under way at once
    Goods,
    Listings,
    NoListing,   \* the listing of a REST snapshot
    Offers,      \* the offers the feed shows
    Idle,        \* a worker without an order
    MaxDay,      \* bound: the last UTC day
    MemorySize   \* BOUGHT_MEMORY_SIZE

ASSUME TradeAssumption ==
    /\ NoListing \notin Listings
    /\ Offers # {} /\ Offers \subseteq [good : Goods, listing : Listings \cup {NoListing}]
    /\ Idle \notin Requests
    /\ MaxDay \in Nat /\ MemorySize \in Nat \ {0}

VARIABLES
    day,
    bought,     \* the executor's memory, oldest key first
    order,      \* each worker's POST, or Idle
    req,        \* each POST: its phase at the backend, offer, the day of its keys, and bought_at
    trades,     \* simulated_trades in commit order
    items,      \* market_items: the goods whose item is committed
    item_cache  \* the backend's cache of item IDs

listenerVars == <<bought, order>>
backendVars == <<trades, items, item_cache>>
vars == <<day, bought, order, req, trades, items, item_cache>>

Days == 0..MaxDay
ListingKey(l) == [kind |-> "listing", of |-> l, on |-> 0]
SnapshotKey(g, d) == [kind |-> "snapshot", of |-> g, on |-> d]
Keys == [kind : {"listing"}, of : Listings, on : {0}] \cup [kind : {"snapshot"}, of : Goods, on : Days]

\* (key, snapshot key)
purchase_keys(o, d) ==
    LET snapshot == SnapshotKey(o.good, d)
    IN  <<IF o.listing = NoListing THEN snapshot ELSE ListingKey(o.listing), snapshot>>

Row == [good : Goods, listing : Listings \cup {NoListing}, day : Days]
InTransaction == {"open", "locked", "clear"}
Free == [phase |-> "free", offer |-> CHOOSE o \in Offers : TRUE, on |-> 0, at |-> 0]

Init ==
    /\ day = 0
    /\ bought = <<>>
    /\ order = [w \in Workers |-> Idle]
    /\ req = [q \in Requests |-> Free]
    /\ trades = <<>> /\ items = {} /\ item_cache = {}

NextDay ==
    /\ day < MaxDay
    /\ day' = day + 1
    /\ UNCHANGED <<listenerVars, backendVars, req>>

-----------------------------------------------------------------------------
(* The executor.                                                           *)

InMemory(k) == \E i \in DOMAIN bought : bought[i] = k

\* A key already there keeps its place; the oldest one is dropped at the limit.
Remember(m, k) ==
    IF \E i \in DOMAIN m : m[i] = k THEN m
    ELSE IF Len(m) < MemorySize THEN Append(m, k) ELSE Tail(Append(m, k))

\* Mutant of Execute: remembered before the order is taken.
ExecuteRemembers(w, o, q) ==
    /\ order[w] = Idle /\ req[q].phase = "free"
    /\ LET keys == purchase_keys(o, day) IN ~InMemory(keys[1]) /\ bought' = Remember(bought, keys[1])
    /\ order' = [order EXCEPT ![w] = q]
    /\ req' = [req EXCEPT ![q] = [phase |-> "sent", offer |-> o, on |-> day, at |-> 0]]
    /\ UNCHANGED <<day, backendVars>>

\* A worker executes an approved offer that the memory does not hold: place_order sends it.
Execute(w, o, q) ==
    /\ order[w] = Idle /\ req[q].phase = "free"
    /\ ~InMemory(purchase_keys(o, day)[1])
    /\ order' = [order EXCEPT ![w] = q]
    /\ req' = [req EXCEPT ![q] = [phase |-> "sent", offer |-> o, on |-> day, at |-> 0]]
    /\ UNCHANGED <<day, bought, backendVars>>

\* 201 or 200: both keys are remembered.
OrderTaken(w) ==
    /\ order[w] # Idle /\ req[order[w]].phase \in {"recorded", "repeated"}
    /\ LET keys == purchase_keys(req[order[w]].offer, req[order[w]].on)
       IN  bought' = IF keys[1] = keys[2] THEN Remember(bought, keys[1])
                     ELSE Remember(Remember(bought, keys[1]), keys[2])
    /\ order' = [order EXCEPT ![w] = Idle]
    /\ req' = [req EXCEPT ![order[w]] = Free]
    /\ UNCHANGED <<day, backendVars>>

\* Any other status: ExecutionError, nothing is remembered.
OrderRefused(w) ==
    /\ order[w] # Idle /\ req[order[w]].phase = "failed"
    /\ order' = [order EXCEPT ![w] = Idle]
    /\ req' = [req EXCEPT ![order[w]] = Free]
    /\ UNCHANGED <<day, bought, backendVars>>

\* The client gives up: the POST never reached the backend, or the backend goes on with it.
OrderLost(w) ==
    /\ order[w] # Idle
    /\ order' = [order EXCEPT ![w] = Idle]
    /\ req' = IF req[order[w]].phase \in {"recorded", "repeated", "failed"}
              THEN [req EXCEPT ![order[w]] = Free] ELSE req
    /\ UNCHANGED <<day, bought, backendVars>>

\* The listener restarts: its memory is empty, its POSTs stay with the backend.
RestartListener ==
    /\ bought' = <<>>
    /\ order' = [w \in Workers |-> Idle]
    /\ UNCHANGED <<day, req, backendVars>>

-----------------------------------------------------------------------------
(* The backend.                                                            *)

Owned(q) == \E w \in Workers : order[w] = q

\* Mutant of BeginTrade: the item ID is cached as soon as it is known.
BeginTradeCached(q) ==
    /\ req[q].phase = "sent"
    /\ req' = [req EXCEPT ![q].phase = "open", ![q].at = day]
    /\ item_cache' = item_cache \cup {req[q].offer.good}
    /\ UNCHANGED <<day, listenerVars, trades, items>>

\* The handler takes its timestamp and resolves the item; an ID the cache lacks stays the transaction's own.
BeginTrade(q) ==
    /\ req[q].phase = "sent"
    /\ req' = [req EXCEPT ![q].phase = "open", ![q].at = day]
    /\ UNCHANGED <<day, listenerVars, backendVars>>

\* Mutant of LockPurchase: no lock.
LockPurchaseFree(q) ==
    /\ req[q].phase = "open"
    /\ req' = [req EXCEPT ![q].phase = "locked"]
    /\ UNCHANGED <<day, listenerVars, backendVars>>

\* lock_purchase: one transaction at a time for a good.
LockPurchase(q) ==
    /\ req[q].phase = "open"
    /\ \A p \in Requests : req[p].phase \in {"locked", "clear"} => req[p].offer.good # req[q].offer.good
    /\ req' = [req EXCEPT ![q].phase = "locked"]
    /\ UNCHANGED <<day, listenerVars, backendVars>>

\* The transaction commits: its item becomes visible, and only then enters the cache.
Commit(q, phase) ==
    /\ req' = [req EXCEPT ![q].phase = phase]
    /\ items' = items \cup {req[q].offer.good}
    /\ item_cache' = item_cache \cup {req[q].offer.good}

snapshot_already_bought(good, at) ==
    \E i \in DOMAIN trades : trades[i].good = good /\ trades[i].day = at

\* A snapshot is checked against every buy of its good that day; a listing is not.
CheckSnapshot(q) ==
    /\ req[q].phase = "locked"
    /\ IF req[q].offer.listing = NoListing /\ snapshot_already_bought(req[q].offer.good, req[q].at)
       THEN Commit(q, "repeated")
       ELSE req' = [req EXCEPT ![q].phase = "clear"] /\ UNCHANGED <<items, item_cache>>
    /\ UNCHANGED <<day, listenerVars, trades>>

\* The unique indexes on (venue, listing_id) and, without a listing, (venue, item, price, day).
Conflicts(row) ==
    \E i \in DOMAIN trades :
        /\ trades[i].listing = row.listing
        /\ row.listing = NoListing => trades[i].good = row.good /\ trades[i].day = row.day

\* INSERT ... ON CONFLICT DO NOTHING, and the commit.
InsertTrade(q) ==
    /\ req[q].phase = "clear"
    /\ LET row == [good |-> req[q].offer.good, listing |-> req[q].offer.listing, day |-> req[q].at]
       IN  IF Conflicts(row) THEN Commit(q, "repeated") /\ UNCHANGED trades
           ELSE Commit(q, "recorded") /\ trades' = Append(trades, row)
    /\ UNCHANGED <<day, listenerVars>>

\* The database fails inside the transaction, or the request is refused before it: an error answer.
RollBack(q) ==
    /\ req[q].phase \in InTransaction \cup {"sent"}
    /\ req' = [req EXCEPT ![q].phase = "failed"]
    /\ UNCHANGED <<day, listenerVars, backendVars>>

\* Nobody reads the answer, or nothing arrived.
Forget(q) ==
    /\ ~Owned(q) /\ req[q].phase \notin InTransaction \cup {"free"}
    /\ req' = [req EXCEPT ![q] = Free]
    /\ UNCHANGED <<day, listenerVars, backendVars>>

\* The backend restarts: open transactions end without a commit, and the cache is empty.
RestartBackend ==
    /\ req' = [q \in Requests |->
                 IF req[q].phase \in InTransaction \cup {"sent"} THEN [req[q] EXCEPT !.phase = "failed"] ELSE req[q]]
    /\ item_cache' = {}
    /\ UNCHANGED <<day, listenerVars, trades, items>>

-----------------------------------------------------------------------------
Trade(q) ==
    BeginTrade(q) \/ LockPurchase(q) \/ CheckSnapshot(q) \/ InsertTrade(q) \/ RollBack(q) \/ Forget(q)

Next ==
    \/ NextDay \/ RestartListener \/ RestartBackend
    \/ \E w \in Workers : OrderTaken(w) \/ OrderRefused(w) \/ OrderLost(w)
    \/ \E w \in Workers, o \in Offers, q \in Requests : Execute(w, o, q)
    \/ \E q \in Requests : Trade(q)

Spec == Init /\ [][Next]_vars

-----------------------------------------------------------------------------
TypeOK ==
    /\ day \in Days
    /\ bought \in Seq(Keys) /\ Len(bought) <= MemorySize
    /\ order \in [Workers -> Requests \cup {Idle}]
    /\ req \in [Requests -> [phase : {"free", "sent", "recorded", "repeated", "failed"} \cup InTransaction,
                             offer : Offers, on : Days, at : Days]]
    /\ trades \in Seq(Row)
    /\ items \subseteq Goods /\ item_cache \subseteq Goods

\* Row b repeats an earlier row a.
Repeats(b, a) ==
    IF b.listing # NoListing THEN b.listing = a.listing ELSE b.good = a.good /\ b.day = a.day

(* The once-only rule of shared_utils/purchases.py, enforced by the lock and the unique indexes:
   a listing is recorded once ever, and a snapshot never after any buy of its good the same day,
   whatever the workers, restarts, lost answers and late commits. *)
OncePerPurchase ==
    \A i, j \in DOMAIN trades : i < j => ~Repeats(trades[j], trades[i])

(* The executor remembers only what was recorded, so a failed buy is not blocked when the tick is
   scored again: a remembered listing is in simulated_trades, and a remembered snapshot key is a
   recorded good, or the key of a recorded listing offered at that good. *)
MemorySound ==
    \A i \in DOMAIN bought : \E t \in DOMAIN trades :
        IF bought[i].kind = "listing" THEN trades[t].listing = bought[i].of
        ELSE \/ trades[t].good = bought[i].of
             \/ [good |-> bought[i].of, listing |-> trades[t].listing] \in Offers

(* The item cache never holds an ID whose transaction rolled back: every later tick and trade of
   that item would fail on the foreign key. *)
CacheCommitted == item_cache \subseteq items
=============================================================================
